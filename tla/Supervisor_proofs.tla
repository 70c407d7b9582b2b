------------------------- MODULE Supervisor_proofs -------------------------
(***************************************************************************)
(* What holds of Supervisor for every number of releases, updates, pids    *)
(* and operators: commands that do not cross keep one daemon, and updates  *)
(* that do not share a release leave links that name whole binaries.       *)
(***************************************************************************)
EXTENDS Supervisor, FiniteSetTheorems, TLAPS

-----------------------------------------------------------------------------
(* One daemon                                                              *)

SupPlaces == {"none", "boot", "loop", "wait", "failed", "sleep", "dead"}
Sup == [at : SupPlaces, failures : Nat, rolled : BOOLEAN, stop : BOOLEAN,
        child : Binaries \cup {None}, out : {"none", "ok", "bad"}]
Alive(r) == r.at \notin {"none", "dead"}
Orders == [at : CommandPlaces, pid : Pids \cup {None}, again : BOOLEAN]

\* Commands that never ran at the same time: there is one at most, a supervisor
\* is named by the pid file or about to be, and a start that will spawn one has
\* seen that there is none.
Orderly ==
  /\ \A o, q \in Operators : ~At(o, "idle") /\ ~At(q, "idle") => o = q
  /\ \A p \in Pids : Living(p) =>
       pidFile = p \/ \E o \in Operators : At(o, "write") /\ command[o].pid = p
  /\ \A o \in Operators :
       /\ At(o, "spawn") => \A p \in Pids : ~Living(p)
       /\ At(o, "write") => pidFile = None
       /\ At(o, "wait") => command[o].pid = pidFile

DaemonInv ==
  /\ sup \in [Pids -> Sup] /\ command \in [Operators -> Orders]
  /\ nextPid \in Nat \ {0} /\ pidFile \in Pids \cup {None}
  /\ \A p \in Pids : sup[p].child # None => Living(p) \/ killed
  /\ \A o \in Operators : At(o, "wait") => command[o].pid \in Pids
  /\ ~crossed => Orderly

\* What a step that touches one supervisor may make of it.
LEMMA SupKept ==
  ASSUME DaemonInv, NEW p \in Pids, NEW r \in Sup, Set(p, r),
         UNCHANGED <<command, pidFile, nextPid, crossed>>,
         Alive(r) => Living(p), r.child # None => Alive(r) \/ killed', killed => killed'
  PROVE  DaemonInv'
<1>1. /\ sup' \in [Pids -> Sup] /\ sup'[p] = r /\ \A q \in Pids \ {p} : sup'[q] = sup[q]
  BY DEF DaemonInv, Set
<1>2. \A q \in Pids : Living(q)' => Living(q)
  BY <1>1 DEF Living, Alive
<1>3. \A q \in Pids : sup'[q].child # None => Living(q)' \/ killed'
  BY <1>1 DEF Living, Alive, DaemonInv
<1>4. ~crossed' => Orderly'
  BY <1>2 DEF DaemonInv, Orderly, At
<1> QED  BY <1>1, <1>3, <1>4 DEF DaemonInv, At

\* What a step leaves to the daemon that touches neither it nor a command.
LEMMA DaemonKept ==
  ASSUME DaemonInv, UNCHANGED <<sup, command, pidFile, nextPid, crossed, killed>>
  PROVE  DaemonInv'
  BY DEF DaemonInv, Orderly, At, Living

\* A release that is complete is a binary.
LEMMA CompleteBinaries == Complete \subseteq Binaries
  BY SupervisorAssumption DEF SupervisorAssumption, Complete, Versions, Binaries

\* The places of the supervisor's loop.
LEMMA LoopStep ==
  ASSUME DaemonInv, NEW p \in Pids,
         Loop(p) \/ BadChildCrashes(p) \/ ChildCrashes(p) \/ SupervisorDies(p)
  PROVE  DaemonInv'
<1> DEFINE s == sup[p]
<1>1. s \in Sup /\ (Living(p) <=> Alive(s)) /\ s.failures \in Nat
  BY DEF DaemonInv, Sup, Living, Alive
<1>2. OneMore(s) \in Sup /\ OneMore(s).at = s.at /\ OneMore(s).child = s.child
  BY <1>1 DEF OneMore, Sup
<1>3. ASSUME NEW c \in Binaries \cup {None}
      PROVE  Dead(c) \in Sup /\ Dead(c).child = c /\ ~Alive(Dead(c))
  BY DEF Dead, NoSup, Fresh, Sup, SupPlaces, Alive
<1>4. s.child # None => Alive(s) \/ killed
  BY <1>1 DEF DaemonInv
<1>5. s.child \in Binaries \cup {None}
  BY <1>1 DEF Sup
<1>6. ASSUME NEW r \in Sup, Set(p, r), r.child = s.child \/ r.child = None \/ Alive(r),
             Alive(s), Alive(r) \/ r.child = None,
             UNCHANGED <<command, pidFile, nextPid, crossed, killed>>
      PROVE  DaemonInv'
  BY <1>1, <1>4, <1>6, SupKept
<1> USE DEF OnlySup, bounds, history
<1>7. CASE Bootstrap(p)
  <2>1. [s EXCEPT !.at = "loop"] \in Sup /\ Alive([s EXCEPT !.at = "loop"])
    BY <1>1 DEF Sup, SupPlaces, Alive
  <2> QED  BY <1>1, <1>6, <1>7, <2>1 DEF Bootstrap, Alive
<1>8. CASE LeaveLoop(p)
  BY <1>1, <1>3, <1>6, <1>8 DEF LeaveLoop, Alive
<1>9. CASE SpawnChild(p)
  <2>1. Target \in Binaries
    BY <1>9, CompleteBinaries DEF SpawnChild, Starts
  <2> DEFINE r == [s EXCEPT !.at = "wait", !.child = Target, !.out = "none"]
  <2>2. r \in Sup /\ Alive(r)
    BY <1>1, <2>1 DEF Sup, SupPlaces, Alive
  <2> QED  BY <1>1, <1>6, <1>9, <2>2 DEF SpawnChild, Alive
<1>10. CASE SpawnFails(p)
  <2> DEFINE r == [OneMore(s) EXCEPT !.at = "sleep"]
  <2>1. r \in Sup /\ Alive(r)
    BY <1>2 DEF Sup, SupPlaces, Alive
  <2> QED  BY <1>1, <1>6, <1>10, <2>1 DEF SpawnFails, Alive
<1>11. CASE SpawnDies(p)
  <2> DEFINE r == [OneMore(s) EXCEPT !.at = "failed"]
  <2>1. r \in Sup /\ Alive(r)
    BY <1>2 DEF Sup, SupPlaces, Alive
  <2> QED  BY <1>1, <1>6, <1>11, <2>1 DEF SpawnDies, Alive
<1>12. CASE Terminate(p)
  BY <1>1, <1>3, <1>6, <1>12 DEF Terminate, Alive
<1>13. CASE ReapRestart(p)
  <2> DEFINE r == [s EXCEPT !.at = "loop", !.failures = 0]
  <2>1. r \in Sup /\ Alive(r)
    BY <1>1 DEF Sup, SupPlaces, Alive
  <2> QED  BY <1>1, <1>6, <1>13, <2>1 DEF ReapRestart, Alive
<1>14. CASE ReapFailure(p)
  <2> DEFINE r == [OneMore(s) EXCEPT !.at = "failed"]
  <2>1. r \in Sup /\ Alive(r)
    BY <1>2 DEF Sup, SupPlaces, Alive
  <2> QED  BY <1>1, <1>6, <1>14, <2>1 DEF ReapFailure, Alive
<1>15. CASE TryRollback(p)
  <2> DEFINE r == [s EXCEPT !.at = "loop", !.failures = 0, !.rolled = TRUE]
  <2>1. r \in Sup /\ Alive(r)
    BY <1>1 DEF Sup, SupPlaces, Alive
  <2> QED  BY <1>1, <1>6, <1>15, <2>1 DEF TryRollback, Alive
<1>16. CASE BackOff(p)
  <2> DEFINE r == [s EXCEPT !.at = "sleep"]
  <2>1. r \in Sup /\ Alive(r)
    BY <1>1 DEF Sup, SupPlaces, Alive
  <2> QED  BY <1>1, <1>6, <1>16, <2>1 DEF BackOff, Alive
<1>17. CASE Wake(p)
  <2> DEFINE r == [s EXCEPT !.at = "loop"]
  <2>1. r \in Sup /\ Alive(r)
    BY <1>1 DEF Sup, SupPlaces, Alive
  <2> QED  BY <1>1, <1>6, <1>17, <2>1 DEF Wake, Alive
<1>18. CASE Crash(p)
  <2> DEFINE r == [s EXCEPT !.child = None, !.out = "bad"]
  <2>1. r \in Sup /\ r.child = None /\ (Alive(r) <=> Alive(s))
    BY <1>1 DEF Sup, Alive
  <2>2. Set(p, r) /\ UNCHANGED <<command, pidFile, nextPid, crossed, killed>>
    BY <1>18 DEF Crash
  <2> HIDE DEF r, s
  <2> QED  BY <1>1, <2>1, <2>2, SupKept
<1>19. CASE SupervisorDies(p)
  <2>1. /\ Set(p, Dead(s.child)) /\ Alive(s) /\ killed' = (killed \/ s.child # None)
        /\ UNCHANGED <<command, pidFile, nextPid, crossed>>
    BY <1>19, <1>1 DEF SupervisorDies
  <2>2. Dead(s.child) \in Sup /\ Dead(s.child).child = s.child /\ ~Alive(Dead(s.child))
    BY <1>3, <1>5
  <2> QED  BY <2>1, <2>2, SupKept
<1> QED  BY <1>7, <1>8, <1>9, <1>10, <1>11, <1>12, <1>13, <1>14, <1>15, <1>16, <1>17, <1>18, <1>19
         DEF Loop, BadChildCrashes, ChildCrashes

\* Commands, one step of one operator.
LEMMA CommandStep ==
  ASSUME DaemonInv, NEW o \in Operators, Commands(o) PROVE DaemonInv'
<1> DEFINE c == command[o]
<1>1. c \in Orders /\ None \notin Pids /\ NoCommand \in Orders /\ NoCommand.at = "idle"
  BY SupervisorAssumption DEF DaemonInv, SupervisorAssumption, Pids, NoCommand, Orders, CommandPlaces
<1>2. ASSUME NEW k \in Orders, Run(o, k)
      PROVE  /\ command' \in [Operators -> Orders] /\ command'[o] = k
             /\ \A q \in Operators \ {o} : command'[q] = command[q]
  BY <1>2 DEF DaemonInv, Run
<1>3. ~crossed /\ ~At(o, "idle") => \A q \in Operators \ {o} : At(q, "idle")
  BY DEF DaemonInv, Orderly
<1>4. /\ Stopped(o) \in Orders /\ Stopped(o).at \in {"idle", "look"}
  BY <1>1 DEF Stopped, Orders, CommandPlaces
<1> USE DEF bounds
<1>5. ASSUME NEW place \in {"look", "stop", "current"}, NEW again \in BOOLEAN, Begin(o, place, again)
      PROVE  DaemonInv'
  <2> DEFINE k == [at |-> place, pid |-> None, again |-> again]
  <2>1. k \in Orders /\ k.at = place
    BY DEF Orders, CommandPlaces
  <2>2. /\ command' \in [Operators -> Orders] /\ command'[o] = k
        /\ \A q \in Operators \ {o} : command'[q] = command[q]
    BY <1>2, <1>5, <2>1 DEF Begin
  <2>3. /\ UNCHANGED <<sup, pidFile, nextPid, killed>>
        /\ ~crossed' => ~crossed /\ \A q \in Operators \ {o} : At(q, "idle")
    BY <1>5 DEF Begin
  <2>4. At(o, "idle")
    BY <1>5 DEF Begin
  <2>5. ASSUME ~crossed' PROVE Orderly'
    <3>1. \A p \in Pids : Living(p)' => pidFile' = p
      BY <2>3, <2>4, <2>5 DEF DaemonInv, Orderly, At, Living
    <3>2. \A q \in Operators : q # o => At(q, "idle")'
      BY <2>2, <2>3, <2>5 DEF At
    <3>3. ~At(o, "spawn")' /\ ~At(o, "write")' /\ ~At(o, "wait")'
      BY <2>1, <2>2 DEF At
    <3> QED  BY <3>1, <3>2, <3>3 DEF Orderly, At
  <2> QED  BY <2>1, <2>2, <2>3, <2>5 DEF DaemonInv, Living, At
<1>6. ASSUME NEW k \in Orders, Run(o, k), ~At(o, "idle"), UNCHANGED <<nextPid, crossed>>,
             \A p \in Pids : Living(p)' => Living(p),
             sup' \in [Pids -> Sup], pidFile' \in Pids \cup {None},
             k.at = "wait" => k.pid \in Pids,
             \A p \in Pids : sup'[p].child # None => Living(p)' \/ killed',
             ~crossed => /\ \A p \in Pids : Living(p)' => pidFile' = p
                         /\ k.at = "spawn" => \A p \in Pids : ~Living(p)
                         /\ k.at # "write" /\ (k.at = "wait" => k.pid = pidFile')
      PROVE  DaemonInv'
  <2>1. /\ command' \in [Operators -> Orders] /\ command'[o] = k
        /\ \A q \in Operators \ {o} : command'[q] = command[q]
    BY <1>2, <1>6
  <2>2. ASSUME ~crossed' PROVE Orderly'
    <3>1. \A q \in Operators : q # o => At(q, "idle")'
      BY <1>3, <1>6, <2>1, <2>2 DEF At
    <3> QED  BY <1>6, <2>1, <2>2, <3>1 DEF Orderly, At
  <2> QED  BY <1>6, <2>1, <2>2 DEF DaemonInv, At
<1>7. ASSUME UNCHANGED sup PROVE \A p \in Pids : Living(p)' = Living(p)
  BY <1>7 DEF Living
<1>8. ~crossed /\ ~At(o, "idle") /\ ~At(o, "write") => \A p \in Pids : Living(p) => pidFile = p
  BY <1>3 DEF DaemonInv, Orderly, At
<1>9. CASE Start(o) \/ Stop(o) \/ Restart(o) \/ Reset(o)
  BY <1>5, <1>9 DEF Start, Stop, Restart, Reset
<1>10. CASE StartLooks(o)
  <2>1. At(o, "look") /\ UNCHANGED <<sup, pidFile, nextPid, crossed, killed>>
    BY <1>10 DEF StartLooks
  <2>2. CASE pidFile # None /\ Living(pidFile)
    BY <1>1, <1>6, <1>7, <1>8, <1>10, <2>1, <2>2 DEF StartLooks, DaemonInv, At
  <2>3. CASE ~(pidFile # None /\ Living(pidFile))
    <3> DEFINE k == [c EXCEPT !.at = "spawn"]
    <3>1. k \in Orders /\ k.at = "spawn" /\ Run(o, k)
      BY <1>1, <1>10, <2>3 DEF Orders, CommandPlaces, StartLooks
    <3>2. ~crossed => \A p \in Pids : ~Living(p)
      BY <1>1, <1>8, <2>1, <2>3 DEF At
    <3> HIDE DEF k
    <3> QED  BY <1>6, <1>7, <1>8, <2>1, <3>1, <3>2 DEF DaemonInv, At
  <2> QED  BY <2>2, <2>3
<1>11. CASE StartSpawns(o)
  <2> DEFINE k == [c EXCEPT !.at = "write", !.pid = nextPid]
  <2>1. /\ At(o, "spawn") /\ nextPid <= MaxPid /\ pidFile' = None /\ nextPid' = nextPid + 1
        /\ Set(nextPid, Fresh) /\ Run(o, k) /\ UNCHANGED <<crossed, killed>>
    BY <1>11 DEF StartSpawns
  <2>2. nextPid \in Pids /\ nextPid' \in Nat \ {0}
    BY <2>1, SupervisorAssumption DEF DaemonInv, Pids, SupervisorAssumption
  <2>3. Fresh \in Sup /\ Fresh.child = None
    BY DEF Fresh, Sup, SupPlaces
  <2>4. /\ sup' \in [Pids -> Sup] /\ sup'[nextPid].child = None
        /\ \A q \in Pids \ {nextPid} : sup'[q] = sup[q]
    BY <2>1, <2>2, <2>3 DEF DaemonInv, Set
  <2>5. k \in Orders /\ k.at = "write" /\ k.pid = nextPid
    BY <1>1, <2>2 DEF Orders, CommandPlaces
  <2> HIDE DEF k
  <2>6. /\ command' \in [Operators -> Orders] /\ command'[o] = k
        /\ \A q \in Operators \ {o} : command'[q] = command[q]
    BY <1>2, <2>1, <2>5
  <2>7. \A p \in Pids : sup'[p].child # None => Living(p)' \/ killed'
    BY <2>1, <2>4 DEF DaemonInv, Living
  <2>8. ASSUME ~crossed' PROVE Orderly'
    <3>1. \A p \in Pids : Living(p)' => p = nextPid
      BY <2>1, <2>4, <2>8 DEF DaemonInv, Orderly, Living
    <3>2. \A q \in Operators : q # o => At(q, "idle")'
      BY <1>3, <2>1, <2>6, <2>8 DEF At
    <3>3. At(o, "write")' /\ command'[o].pid = nextPid /\ pidFile' = None
      BY <2>1, <2>5, <2>6 DEF At
    <3> QED  BY <3>1, <3>2, <3>3 DEF Orderly, At
  <2> QED  BY <2>1, <2>2, <2>4, <2>5, <2>6, <2>7, <2>8 DEF DaemonInv, At
<1>12. CASE StartWrites(o)
  <2>1. /\ At(o, "write") /\ pidFile' = (IF Living(c.pid) THEN c.pid ELSE None) /\ Run(o, NoCommand)
        /\ UNCHANGED <<sup, nextPid, crossed, killed>>
    BY <1>12 DEF StartWrites
  <2>2. pidFile' \in Pids \cup {None}
    BY <1>1, <2>1 DEF Orders
  <2>3. ~crossed => \A p \in Pids : Living(p) => c.pid = p
    BY <1>1, <2>1 DEF DaemonInv, Orderly, At
  <2> QED  BY <1>1, <1>6, <1>7, <2>1, <2>2, <2>3 DEF DaemonInv, At
<1>13. CASE StopLooks(o)
  <2>1. At(o, "stop") /\ UNCHANGED <<nextPid, crossed, killed>>
    BY <1>13 DEF StopLooks
  <2>2. CASE pidFile # None /\ Living(pidFile)
    <3> DEFINE k == [c EXCEPT !.at = "wait", !.pid = pidFile]
               r == Signalled(sup[pidFile])
    <3>1. Set(pidFile, r) /\ Run(o, k) /\ UNCHANGED pidFile /\ pidFile \in Pids
      BY <1>13, <2>2 DEF StopLooks, DaemonInv
    <3>2. k \in Orders /\ k.at = "wait" /\ k.pid = pidFile
      BY <1>1, <3>1 DEF Orders, CommandPlaces
    <3>3. sup[pidFile] \in Sup
      BY <3>1 DEF DaemonInv
    <3>4. r \in Sup /\ (r.child = None \/ (Alive(r) /\ r.child = sup[pidFile].child))
      <4>1. CASE sup[pidFile].at = "boot"
        BY <4>1 DEF Signalled, Dead, NoSup, Fresh, Sup, SupPlaces
      <4>2. CASE sup[pidFile].at # "boot"
        BY <2>2, <3>3, <4>2 DEF Signalled, Sup, Alive, Living
      <4> QED  BY <4>1, <4>2
    <3> HIDE DEF k, r
    <3>5. /\ sup' \in [Pids -> Sup] /\ sup'[pidFile] = r
          /\ \A q \in Pids \ {pidFile} : sup'[q] = sup[q]
      BY <3>1, <3>4 DEF DaemonInv, Set
    <3>6. \A p \in Pids : Living(p)' => Living(p)
      BY <2>2, <3>5 DEF Living
    <3>7. \A p \in Pids : sup'[p].child # None => Living(p)' \/ killed'
      BY <2>1, <3>4, <3>5 DEF DaemonInv, Living, Alive
    <3> QED  BY <1>1, <1>6, <1>8, <2>1, <3>1, <3>2, <3>5, <3>6, <3>7 DEF DaemonInv, At
  <2>3. CASE ~(pidFile # None /\ Living(pidFile))
    <3>1. pidFile' = None /\ Run(o, Stopped(o)) /\ UNCHANGED sup
      BY <1>13, <2>3 DEF StopLooks
    <3>2. ~crossed => \A p \in Pids : ~Living(p)
      BY <1>1, <1>8, <2>1, <2>3 DEF At
    <3> QED  BY <1>4, <1>6, <1>7, <2>1, <3>1, <3>2 DEF DaemonInv, At
  <2> QED  BY <2>2, <2>3
<1>14. CASE StopEnds(o)
  <2>1. /\ At(o, "wait") /\ ~Living(c.pid) /\ pidFile' = None /\ Run(o, Stopped(o))
        /\ UNCHANGED <<sup, nextPid, crossed, killed>>
    BY <1>14 DEF StopEnds
  <2>2. ~crossed => \A p \in Pids : ~Living(p)
    BY <1>8, <2>1 DEF DaemonInv, Orderly, At
  <2> QED  BY <1>4, <1>6, <1>7, <2>1, <2>2 DEF DaemonInv, At
<1>15. CASE StopKills(o)
  <2> DEFINE r == sup[c.pid]
  <2>1. /\ At(o, "wait") /\ Living(c.pid) /\ pidFile' = None /\ Run(o, Stopped(o))
        /\ Set(c.pid, Dead(r.child)) /\ killed' = (killed \/ r.child # None)
        /\ UNCHANGED <<nextPid, crossed>>
    BY <1>15 DEF StopKills
  <2>2. c.pid \in Pids
    BY <2>1 DEF DaemonInv
  <2>3. r \in Sup
    BY <2>2 DEF DaemonInv
  <2>4. Dead(r.child) \in Sup /\ Dead(r.child).child = r.child /\ Dead(r.child).at = "dead"
    BY <2>3 DEF Dead, NoSup, Fresh, Sup, SupPlaces
  <2>5. /\ sup' \in [Pids -> Sup] /\ sup'[c.pid] = Dead(r.child)
        /\ \A q \in Pids \ {c.pid} : sup'[q] = sup[q]
    BY <2>1, <2>2, <2>4 DEF DaemonInv, Set
  <2>6. \A p \in Pids : Living(p)' => Living(p) /\ p # c.pid
    BY <2>4, <2>5 DEF Living
  <2>7. \A p \in Pids : sup'[p].child # None => Living(p)' \/ killed'
    BY <2>1, <2>4, <2>5 DEF DaemonInv, Living
  <2>8. ~crossed => \A p \in Pids : ~Living(p)'
    BY <1>8, <2>1, <2>6 DEF DaemonInv, Orderly, At
  <2> QED  BY <1>4, <1>6, <2>1, <2>5, <2>6, <2>7, <2>8 DEF DaemonInv, At
<1>16. CASE ResetCurrent(o)
  <2> DEFINE k == [c EXCEPT !.at = "previous"]
  <2>1. At(o, "current") /\ Run(o, k) /\ UNCHANGED <<sup, pidFile, nextPid, crossed, killed>>
    BY <1>16 DEF ResetCurrent
  <2>2. k \in Orders /\ k.at = "previous"
    BY <1>1 DEF Orders, CommandPlaces
  <2> HIDE DEF k
  <2> QED  BY <1>6, <1>7, <1>8, <2>1, <2>2 DEF DaemonInv, At
<1>17. CASE ResetPrevious(o)
  BY <1>1, <1>6, <1>7, <1>8, <1>17 DEF ResetPrevious, DaemonInv, At
<1> QED  BY <1>9, <1>10, <1>11, <1>12, <1>13, <1>14, <1>15, <1>16, <1>17 DEF Commands

\* Updates end children, and touch neither supervisors nor commands otherwise.
LEMMA DaemonStep ==
  ASSUME DaemonInv, [Next]_vars PROVE DaemonInv'
<1> USE DEF bounds, history, requests
<1>1. ASSUME NEW u \in Updates, NEW p \in Pids, AgentUpdate(u, p) \/ HubUpdate(u, p)
      PROVE  UNCHANGED <<sup, command, pidFile, nextPid, crossed, killed>>
  BY <1>1 DEF AgentUpdate, HubUpdate, BeginUpdate
<1>2. ASSUME NEW u \in Updates, UpdateTimesOut(u)
      PROVE  UNCHANGED <<sup, command, pidFile, nextPid, crossed, killed>>
  BY <1>2 DEF UpdateTimesOut
<1>3. ASSUME NEW u \in Updates, PerformUpdate(u), ~ExitForUpdate(u)
      PROVE  UNCHANGED <<sup, command, pidFile, nextPid, crossed, killed>>
  BY <1>3 DEF PerformUpdate, Download, DownloadFails, Extract, Verify, Mismatch, CopyBegins,
              CopyEnds, Demote, Relink, Flip, Acknowledge, Steady
<1>4. ASSUME NEW u \in Updates, ExitForUpdate(u) PROVE DaemonInv'
  <2> DEFINE p == update[u].by
             r == [sup[p] EXCEPT !.child = None, !.out = "ok"]
  <2>1. Set(p, r) /\ UNCHANGED <<command, pidFile, nextPid, crossed, killed>>
    BY <1>4 DEF ExitForUpdate
  <2>2. CASE p \in Pids
    <3>1. sup[p] \in Sup
      BY <2>2 DEF DaemonInv
    <3>2. r \in Sup /\ r.child = None /\ r.at = sup[p].at
      BY <3>1 DEF Sup
    <3> HIDE DEF r
    <3> QED  BY <2>1, <2>2, <3>2, SupKept DEF Alive, Living
  <2>3. CASE p \notin Pids
    <3>1. sup' = sup
      BY <2>1, <2>3 DEF Set, DaemonInv
    <3> QED  BY <2>1, <3>1, DaemonKept
  <2> QED  BY <2>2, <2>3
<1>5. CASE UNCHANGED vars
  BY <1>5, DaemonKept DEF vars
<1> QED  BY <1>1, <1>2, <1>3, <1>4, <1>5, DaemonKept, LoopStep, CommandStep DEF Next

\* A set with no two elements.
LEMMA AtMostOne ==
  ASSUME NEW S \in SUBSET Pids, \A p, q \in S : p = q PROVE Cardinality(S) <= 1
<1>1. CASE S = {}
  BY <1>1, FS_EmptySet
<1>2. ASSUME NEW p \in S PROVE S = {p}
  BY <1>2
<1>3. ASSUME NEW p \in S PROVE Cardinality(S) = 1
  BY <1>2, FS_Singleton
<1> QED  BY <1>1, <1>3, FS_EmptySet

\* The commands of the daemon keep one supervisor and one child, named by the
\* pid file between commands, whatever dies and whatever is updated, as long as
\* no two commands run at once.
THEOREM OneDaemonAtATime == Spec => []OneDaemon
<1>1. ASSUME Init PROVE DaemonInv
  <2>1. NoSup \in Sup /\ NoSup.at = "none" /\ NoSup.child = None
    BY DEF NoSup, Fresh, Sup, SupPlaces
  <2>2. NoCommand \in Orders /\ NoCommand.at = "idle"
    BY DEF NoCommand, Orders, CommandPlaces
  <2>3. /\ sup = [p \in Pids |-> NoSup] /\ pidFile = None /\ nextPid = 1
        /\ command = [o \in Operators |-> NoCommand]
    BY <1>1 DEF Init
  <2>4. Orderly
    BY <2>1, <2>2, <2>3 DEF Orderly, At, Living
  <2> QED  BY <2>1, <2>2, <2>3, <2>4 DEF DaemonInv, At
<1>2. DaemonInv /\ [Next]_vars => DaemonInv'
  BY DaemonStep
<1>3. ASSUME DaemonInv PROVE OneDaemon
  <2> SUFFICES ASSUME ~crossed PROVE OneDaemon
    BY DEF OneDaemon
  <2>1. \A p, q \in {z \in Pids : Living(z)} : p = q
    <3>1. Orderly /\ None \notin Pids
      BY <1>3, SupervisorAssumption DEF DaemonInv, SupervisorAssumption, Pids
    <3> QED  BY <3>1 DEF Orderly, At
  <2>2. Cardinality({p \in Pids : Living(p)}) <= 1
    BY <2>1, AtMostOne
  <2>3. (\A o \in Operators : At(o, "idle")) => \A p \in Pids : Living(p) => pidFile = p
    BY <1>3 DEF DaemonInv, Orderly, At
  <2>4. ~killed => Cardinality({p \in Pids : sup[p].child # None}) <= 1
    <3>1. ~killed => \A p, q \in {z \in Pids : sup[z].child # None} : p = q
      BY <1>3, <2>1 DEF DaemonInv
    <3> QED  BY <3>1, AtMostOne
  <2> QED  BY <2>2, <2>3, <2>4 DEF OneDaemon
<1> QED  BY <1>1, <1>2, <1>3, PTL DEF Spec

-----------------------------------------------------------------------------
(* Links to whole binaries                                                 *)

Whole == {"good", "other"}
Job == [at : UpdatePlaces, v : Versions \cup {None}, by : Pids \cup {None},
        bin : Whole \cup {"none"}, sums : Whole \cup {"none"},
        old : Binaries \cup {None}]

\* An update of a release that nobody else updates and that is not linked: it
\* writes the release's files while no link needs them, and comes to the links
\* with a whole binary.
Alone(u) ==
  /\ \A w \in Updates \ {u} : Running(w) => update[w].v # update[u].v
  /\ update[u].v \in Linked => update[u].at = "exit"
  /\ update[u].at \in {"hash", "copy", "copying"} => tree[update[u].v] \in Whole
  /\ update[u].at \in {"demote", "relink", "flip"} => update[u].v \in Complete

LinksInv ==
  /\ current \in Binaries \cup {None} /\ previous \in Binaries \cup {None}
  /\ final \in [Versions -> Contents] /\ tree \in [Versions -> Contents]
  /\ update \in [Updates -> Job]
  /\ \A u \in Updates : Running(u) => update[u].v \in Versions
  /\ \A u \in Updates : update[u].at \in {"unpack", "hash"} =>
       update[u].bin \in Whole /\ update[u].sums \in Whole
  /\ \A b \in Linked \ {None} : b \in Complete \cup reworked
  /\ \A u \in Updates : Running(u) => update[u].v \in reworked \/ Alone(u)

\* Releases are not the binary the daemon was started with, and not None.
LEMMA VersionFacts ==
  /\ 0 \in Complete /\ 0 \notin Versions /\ None \notin Binaries /\ Versions \subseteq Binaries
  /\ \A v \in Versions : v \in Complete <=> final[v] \in Whole
  BY SupervisorAssumption DEF SupervisorAssumption, Complete, Versions, Binaries, Whole

\* A step of one update that changes no file but its release's, and links
\* nothing but its release.
LEMMA JobStep ==
  ASSUME LinksInv, NEW u \in Updates, Running(u), NEW v, v = update[u].v, NEW r \in Job,
         update' = [update EXCEPT ![u] = r], reworked' = reworked,
         r.at # "over" => r.at # "none" /\ r.v = v,
         r.at \in {"unpack", "hash"} => r.bin \in Whole /\ r.sums \in Whole,
         current' \in Binaries \cup {None}, previous' \in Binaries \cup {None},
         final' \in [Versions -> Contents], tree' \in [Versions -> Contents],
         \A z \in Versions \ {v} : final'[z] = final[z] /\ tree'[z] = tree[z],
         Linked' \subseteq Linked \cup {v, None},
         v \notin reworked =>
           /\ v \in Linked' => r.at \in {"exit", "over"} /\ final'[v] \in Whole
           /\ r.at \in {"hash", "copy", "copying"} => tree'[v] \in Whole
           /\ r.at \in {"demote", "relink", "flip"} => final'[v] \in Whole
  PROVE  LinksInv'
<1>1. v \in Versions
  BY DEF LinksInv
<1>2. /\ update' \in [Updates -> Job] /\ update'[u] = r
      /\ \A w \in Updates \ {u} : update'[w] = update[w]
  BY DEF LinksInv
<1>3. \A z \in Versions : (z \in Complete)' <=> final'[z] \in Whole
  BY VersionFacts DEF Complete, Whole, Versions, Binaries
<1>4. \A z \in Complete : z # v => (z \in Complete)'
  BY <1>3 DEF Complete, Whole
<1>5. \A w \in Updates \ {u} : Running(w)' = Running(w)
  BY <1>2 DEF Running
<1>6. ASSUME NEW b \in Linked' \ {None} PROVE b \in Complete' \cup reworked'
  <2>1. CASE b = v
    BY <1>1, <1>3, <2>1
  <2>2. CASE b # v
    BY <1>4, <2>2 DEF LinksInv
  <2> QED  BY <2>1, <2>2
<1>7. ASSUME NEW w \in Updates, w # u, Running(w)', update'[w].v \notin reworked'
      PROVE  Alone(w)'
  <2>1. update'[w] = update[w] /\ Running(w) /\ Alone(w) /\ update[w].v \in Versions
    BY <1>2, <1>5, <1>7 DEF LinksInv
  <2>2. update[w].v # v
    BY <2>1, <1>7 DEF Alone
  <2>3. /\ final'[update[w].v] = final[update[w].v] /\ tree'[update[w].v] = tree[update[w].v]
        /\ update[w].v \in Linked' => update[w].v \in Linked
    BY <2>1, <2>2, VersionFacts
  <2>4. ASSUME NEW z \in Updates \ {w}, Running(z)' PROVE update'[z].v # update'[w].v
    <3>1. CASE z = u
      BY <1>2, <2>1, <2>2, <2>4, <3>1 DEF Running
    <3>2. CASE z # u
      BY <1>2, <1>5, <2>1, <2>4, <3>2 DEF Alone
    <3> QED  BY <3>1, <3>2
  <2>5. update'[w].v \in Linked' => update'[w].at = "exit"
    BY <2>1, <2>3 DEF Alone
  <2>6. update'[w].at \in {"hash", "copy", "copying"} => tree'[update'[w].v] \in Whole
    BY <2>1, <2>3 DEF Alone
  <2>7. update'[w].at \in {"demote", "relink", "flip"} => update'[w].v \in Complete'
    BY <2>1, <2>2, <1>4 DEF Alone
  <2> QED  BY <2>4, <2>5, <2>6, <2>7 DEF Alone
<1>8. ASSUME Running(u)', v \notin reworked' PROVE Alone(u)'
  <2>1. r.at # "over" /\ r.v = v /\ update'[u] = r
    BY <1>2, <1>8 DEF Running
  <2>2. ASSUME NEW z \in Updates \ {u}, Running(z)' PROVE update'[z].v # v
    BY <1>2, <1>5, <1>8, <2>2 DEF LinksInv, Alone
  <2>3. v \in Linked' => r.at = "exit"
    BY <1>8, <2>1
  <2>4. r.at \in {"demote", "relink", "flip"} => v \in Complete'
    BY <1>1, <1>3, <1>8
  <2> QED  BY <1>8, <2>1, <2>2, <2>3, <2>4 DEF Alone
<1>9. \A w \in Updates : Running(w)' => update'[w].v \in reworked' \/ Alone(w)'
  BY <1>2, <1>7, <1>8 DEF Running
<1>10. \A w \in Updates : Running(w)' => update'[w].v \in Versions
  BY <1>1, <1>2, <1>5 DEF LinksInv, Running
<1>11. \A w \in Updates : update'[w].at \in {"unpack", "hash"} =>
         update'[w].bin \in Whole /\ update'[w].sums \in Whole
  BY <1>2 DEF LinksInv
<1> QED  BY <1>2, <1>6, <1>9, <1>10, <1>11 DEF LinksInv

\* A step that changes no file, ends updates, and links nothing but what is
\* linked, the first binary or nothing; and one that leaves all that alone.
LEMMA LinksMoved ==
  ASSUME LinksInv, UNCHANGED <<files, reworked>>, update' \in [Updates -> Job],
         \A u \in Updates : update'[u] = update[u] \/ update'[u].at = "over",
         current' \in Linked \cup {0, None}, previous' \in Linked \cup {0, None}
  PROVE  LinksInv'
<1>1. Linked' \subseteq Linked \cup {0, None}
  <2>1. \A u \in Updates : update'[u].at = "relink" => update'[u].old \in Linked
    BY DEF Linked
  <2> QED  BY <2>1 DEF Linked
<1>2. Linked \cup {0, None} \subseteq Binaries \cup {None}
  <2>1. 0 \in Binaries /\ \A u \in Updates : update[u].old \in Binaries \cup {None}
    BY SupervisorAssumption DEF LinksInv, Job, Binaries, SupervisorAssumption
  <2> QED  BY <2>1 DEF Linked, LinksInv
<1>3. \A u \in Updates : Running(u)' => Running(u) /\ update'[u] = update[u]
  BY DEF Running
<1>4. Complete' = Complete /\ final' = final /\ tree' = tree /\ reworked' = reworked
  BY DEF Complete, files
<1>5. ASSUME NEW u \in Updates, Running(u)' PROVE update'[u].v \in reworked' \/ Alone(u)'
  <2>1. update'[u] = update[u] /\ update[u].v \in Versions /\ (update[u].v \in reworked \/ Alone(u))
    BY <1>3, <1>5 DEF LinksInv
  <2>2. update[u].v \in Linked' => update[u].v \in Linked
    BY <1>1, <2>1, VersionFacts
  <2> QED  BY <1>3, <1>4, <2>1, <2>2 DEF Alone
<1>6. \A b \in Linked' \ {None} : b \in Complete' \cup reworked'
  BY <1>1, <1>4, VersionFacts DEF LinksInv
<1>7. \A u \in Updates : update'[u].at \in {"unpack", "hash"} =>
         update'[u].bin \in Whole /\ update'[u].sums \in Whole
  BY DEF LinksInv
<1>8. \A u \in Updates : Running(u)' => update'[u].v \in Versions
  BY <1>3 DEF LinksInv
<1> QED  BY <1>1, <1>2, <1>4, <1>5, <1>6, <1>7, <1>8 DEF LinksInv

LEMMA LinksKept ==
  ASSUME LinksInv, UNCHANGED <<update, links, files, reworked>> PROVE LinksInv'
<1>1. current' \in Linked /\ previous' \in Linked /\ update' \in [Updates -> Job]
  BY DEF links, Linked, LinksInv
<1> QED  BY <1>1, LinksMoved

\* A new update makes its release reworked unless it is alone.
LEMMA LinksBegun ==
  ASSUME LinksInv, NEW u \in Updates, NEW v \in Versions, NEW p \in Pids, BeginUpdate(u, v, p)
  PROVE  LinksInv'
<1> DEFINE r == [Unasked EXCEPT !.at = "fetch", !.v = v, !.by = p]
<1>1. /\ update[u] = Unasked /\ update' = [update EXCEPT ![u] = r]
      /\ UNCHANGED <<current, previous, final, tree>>
      /\ reworked' = reworked \cup
           IF \/ v \in Linked
              \/ \E w \in Updates \ {u} : Running(w) /\ update[w].v = v
           THEN {v} ELSE {}
  BY DEF BeginUpdate, links, files
<1>2. r \in Job /\ r.at = "fetch" /\ r.v = v
  BY DEF Unasked, Job, UpdatePlaces, Whole
<1> HIDE DEF r
<1>3. /\ update' \in [Updates -> Job] /\ update'[u] = r
      /\ \A w \in Updates \ {u} : update'[w] = update[w] /\ Running(w)' = Running(w)
  BY <1>1, <1>2 DEF LinksInv, Running
<1>4. update[u].at = "none"
  BY <1>1 DEF Unasked
<1>5. Linked' = Linked
  BY <1>1, <1>2, <1>3, <1>4 DEF Linked
<1>6. Complete' = Complete /\ reworked \subseteq reworked'
  BY <1>1 DEF Complete
<1>7. ASSUME NEW w \in Updates, w # u, Running(w)', update'[w].v \notin reworked' PROVE Alone(w)'
  <2>1. update'[w] = update[w] /\ Running(w) /\ Alone(w) /\ update[w].v # v
    BY <1>1, <1>3, <1>6, <1>7 DEF LinksInv
  <2>2. \A z \in Updates \ {w} : Running(z)' => update'[z].v # update'[w].v
    BY <1>2, <1>3, <2>1 DEF Alone
  <2> QED  BY <1>1, <1>5, <1>6, <2>1, <2>2 DEF Alone
<1>8. ASSUME v \notin reworked' PROVE Alone(u)'
  BY <1>1, <1>2, <1>3, <1>5, <1>8 DEF Alone
<1>9. \A w \in Updates : Running(w)' => update'[w].v \in reworked' \/ Alone(w)'
  BY <1>2, <1>3, <1>7, <1>8
<1>10. \A w \in Updates : Running(w)' => update'[w].v \in Versions
  BY <1>2, <1>3 DEF LinksInv
<1>11. \A w \in Updates : update'[w].at \in {"unpack", "hash"} =>
         update'[w].bin \in Whole /\ update'[w].sums \in Whole
  BY <1>2, <1>3 DEF LinksInv
<1>12. \A b \in Linked' \ {None} : b \in Complete' \cup reworked'
  BY <1>5, <1>6 DEF LinksInv
<1> QED  BY <1>1, <1>3, <1>9, <1>10, <1>11, <1>12 DEF LinksInv

\* What is linked, or about to be, after one update has stepped.
LEMMA LinkedAfter ==
  ASSUME LinksInv, NEW u \in Updates, NEW r \in Job, update' = [update EXCEPT ![u] = r],
         NEW S, Linked \subseteq S, current' \in S, previous' \in S, r.at = "relink" => r.old \in S
  PROVE  Linked' \subseteq S
<1>1. /\ update'[u] = r /\ \A w \in Updates \ {u} : update'[w] = update[w]
  BY DEF LinksInv
<1>2. ASSUME NEW w \in Updates, update'[w].at = "relink" PROVE update'[w].old \in S
  BY <1>1, <1>2 DEF Linked
<1> QED  BY <1>2 DEF Linked

\* A step of perform_update that leaves the links alone.
LEMMA FilesStep ==
  ASSUME LinksInv, NEW u \in Updates, Running(u), update[u].at # "exit",
         NEW v, v = update[u].v, NEW r \in Job,
         update' = [update EXCEPT ![u] = r], UNCHANGED <<current, previous, reworked>>,
         r.at \notin {"over", "none", "relink"} => r.v = v, r.at \notin {"none", "relink"},
         r.at \in {"unpack", "hash"} => r.bin \in Whole /\ r.sums \in Whole,
         final' \in [Versions -> Contents], tree' \in [Versions -> Contents],
         \A z \in Versions \ {v} : final'[z] = final[z] /\ tree'[z] = tree[z],
         v \notin reworked =>
           /\ r.at \in {"hash", "copy", "copying"} => tree'[v] \in Whole
           /\ r.at \in {"demote", "flip"} => final'[v] \in Whole
  PROVE  LinksInv'
<1>1. current \in Linked /\ previous \in Linked
  BY DEF Linked
<1>2. Linked' \subseteq Linked
  BY <1>1, LinkedAfter
<1>3. v \notin reworked => v \notin Linked'
  BY <1>2 DEF LinksInv, Alone
<1>4. current' \in Binaries \cup {None} /\ previous' \in Binaries \cup {None}
  BY DEF LinksInv
<1> QED  BY <1>2, <1>3, <1>4, JobStep

\* The process that updates is gone.
LEMMA LinksAbandoned ==
  ASSUME LinksInv, NEW p, Abandon(p), UNCHANGED <<files, reworked>>,
         current' \in Linked \cup {0, None}, previous' \in Linked \cup {0, None}
  PROVE  LinksInv'
<1>1. [Unasked EXCEPT !.at = "over"] \in Job /\ [Unasked EXCEPT !.at = "over"].at = "over"
  BY DEF Unasked, Job, UpdatePlaces
<1>2. /\ update' = [u \in Updates |-> update'[u]]
      /\ \A u \in Updates : update'[u] \in {update[u], [Unasked EXCEPT !.at = "over"]}
  BY DEF Abandon
<1>3. update' \in [Updates -> Job] /\ \A u \in Updates : update'[u] = update[u] \/ update'[u].at = "over"
  BY <1>1, <1>2 DEF LinksInv
<1> QED  BY <1>3, LinksMoved

\* The steps of perform_update.
LEMMA UpdateStep ==
  ASSUME LinksInv, NEW u \in Updates, PerformUpdate(u) PROVE LinksInv'
<1> DEFINE j == update[u]
           v == j.v
<1>1. j \in Job
  BY DEF LinksInv
<1>2. ASSUME Running(u) PROVE v \in Versions /\ (v \notin reworked => Alone(u))
  BY <1>2 DEF LinksInv
<1>3. /\ None \notin Binaries /\ Versions \subseteq Binaries
      /\ \A z \in Versions : z \in Complete <=> final[z] \in Whole
  BY VersionFacts
<1>4. current \in Linked /\ previous \in Linked
  BY DEF Linked
<1>5. Fail(u) => \E r \in Job : r.at = "over" /\ update' = [update EXCEPT ![u] = r]
  <2>1. [Unasked EXCEPT !.at = "over"] \in Job /\ [Unasked EXCEPT !.at = "over"].at = "over"
    BY DEF Unasked, Job, UpdatePlaces
  <2> QED  BY <2>1 DEF Fail
<1>6. ASSUME NEW place \in UpdatePlaces
      PROVE  /\ [j EXCEPT !.at = place] \in Job /\ [j EXCEPT !.at = place].at = place
             /\ [j EXCEPT !.at = place].v = v
             /\ [j EXCEPT !.at = place].bin = j.bin /\ [j EXCEPT !.at = place].sums = j.sums
             /\ Go(u, place) => update' = [update EXCEPT ![u] = [j EXCEPT !.at = place]]
  BY <1>1 DEF Job, Go, LinksInv
<1>7. /\ final \in [Versions -> Contents] /\ tree \in [Versions -> Contents]
      /\ Whole \subseteq Contents /\ "torn" \in Contents /\ "none" \in Contents
      /\ current \in Binaries \cup {None} /\ previous \in Binaries \cup {None}
  BY DEF LinksInv, Whole, Contents
<1>8. ASSUME NEW f \in [Versions -> Contents], NEW c \in Contents, v \in Versions
      PROVE  /\ Put(f, v, c) \in [Versions -> Contents] /\ Put(f, v, c)[v] = c
             /\ \A z \in Versions \ {v} : Put(f, v, c)[z] = f[z]
  BY <1>8 DEF Put
<1>9. Steady => reworked' = reworked
  BY DEF Steady, history
<1>10. CASE Download(u)
  <2>1. PICK bin \in Whole, sums \in Whole :
          update' = [update EXCEPT ![u].at = "unpack", ![u].bin = bin, ![u].sums = sums]
    BY <1>10 DEF Download, Whole
  <2>2. /\ j.at = "fetch" /\ tree' = Put(tree, v, "torn") /\ reworked' = reworked
        /\ UNCHANGED <<current, previous, final>>
    BY <1>9, <1>10 DEF Download, links
  <2>3. PICK r \in Job : /\ update' = [update EXCEPT ![u] = r] /\ r.at = "unpack" /\ r.v = v
                         /\ r.bin = bin /\ r.sums = sums
    <3> DEFINE r == [j EXCEPT !.at = "unpack", !.bin = bin, !.sums = sums]
    <3>1. r \in Job /\ r.at = "unpack" /\ r.v = v /\ r.bin = bin /\ r.sums = sums
      BY <1>1 DEF Job, UpdatePlaces
    <3>2. update' = [update EXCEPT ![u] = r]
      BY <1>1, <2>1 DEF LinksInv, Job
    <3> QED  BY <3>1, <3>2
  <2>4. Running(u) /\ v \in Versions
    BY <1>2, <2>2 DEF Running
  <2>5. tree' \in [Versions -> Contents] /\ \A z \in Versions \ {v} : tree'[z] = tree[z]
    BY <1>7, <2>2, <2>4 DEF Put
  <2> HIDE DEF j, v
  <2> QED  BY <1>7, <2>2, <2>3, <2>4, <2>5, FilesStep DEF j, v
<1>11. CASE DownloadFails(u)
  <2>1. j.at = "fetch" /\ Fail(u) /\ UNCHANGED <<current, previous, final, tree, reworked>>
    BY <1>9, <1>11 DEF DownloadFails, links, files
  <2>2. PICK r \in Job : r.at = "over" /\ update' = [update EXCEPT ![u] = r]
    BY <1>5, <2>1
  <2>3. Running(u)
    BY <2>1 DEF Running
  <2> QED  BY <1>7, <2>1, <2>2, <2>3, FilesStep
<1>12. CASE Extract(u)
  <2>1. /\ j.at = "unpack" /\ tree' = Put(tree, v, j.bin) /\ Go(u, "hash") /\ reworked' = reworked
        /\ UNCHANGED <<current, previous, final>>
    BY <1>9, <1>12 DEF Extract, links
  <2>2. Running(u) /\ v \in Versions /\ j.bin \in Whole /\ j.sums \in Whole
    BY <1>2, <2>1 DEF Running, LinksInv
  <2>3. PICK r \in Job : /\ update' = [update EXCEPT ![u] = r] /\ r.at = "hash" /\ r.v = v
                         /\ r.bin = j.bin /\ r.sums = j.sums
    BY <1>6, <2>1 DEF UpdatePlaces
  <2>4. /\ tree' \in [Versions -> Contents] /\ tree'[v] \in Whole
        /\ \A z \in Versions \ {v} : tree'[z] = tree[z]
    <3>1. v \in Versions /\ j.bin \in Contents
      BY <1>7, <2>2
    <3> QED  BY <1>7, <2>1, <2>2, <3>1 DEF Put
  <2> QED  BY <1>7, <2>1, <2>2, <2>3, <2>4, FilesStep
<1>13. CASE Verify(u)
  <2>1. /\ j.at = "hash" /\ Found(v) = j.sums /\ reworked' = reworked
        /\ Go(u, IF final[v] # "none" THEN "demote" ELSE "copy")
        /\ UNCHANGED <<current, previous, final, tree>>
    BY <1>9, <1>13 DEF Verify, links, files
  <2>2. Running(u) /\ v \in Versions /\ j.sums \in Whole
    BY <1>2, <2>1 DEF Running, LinksInv
  <2>3. CASE final[v] # "none"
    <3>1. final'[v] \in Whole
      BY <2>1, <2>2, <2>3 DEF Found
    <3>2. PICK r \in Job : update' = [update EXCEPT ![u] = r] /\ r.at = "demote" /\ r.v = v
      BY <1>6, <2>1, <2>3 DEF UpdatePlaces
    <3> QED  BY <1>7, <2>1, <2>2, <3>1, <3>2, FilesStep
  <2>4. CASE final[v] = "none"
    <3>1. v \notin reworked => tree'[v] \in Whole
      BY <1>2, <2>1, <2>2 DEF Alone
    <3>2. PICK r \in Job : update' = [update EXCEPT ![u] = r] /\ r.at = "copy" /\ r.v = v
      BY <1>6, <2>1, <2>4 DEF UpdatePlaces
    <3> QED  BY <1>7, <2>1, <2>2, <3>1, <3>2, FilesStep
  <2> QED  BY <2>3, <2>4
<1>14. CASE Mismatch(u)
  <2>1. /\ j.at = "hash" /\ final' = Put(final, v, "none") /\ tree' = Put(tree, v, "none")
        /\ Fail(u) /\ UNCHANGED <<current, previous, reworked>>
    BY <1>9, <1>14 DEF Mismatch, links
  <2>2. PICK r \in Job : r.at = "over" /\ update' = [update EXCEPT ![u] = r]
    BY <1>5, <2>1
  <2>3. Running(u) /\ v \in Versions
    BY <1>2, <2>1 DEF Running
  <2>4. /\ final' \in [Versions -> Contents] /\ tree' \in [Versions -> Contents]
        /\ \A z \in Versions \ {v} : final'[z] = final[z] /\ tree'[z] = tree[z]
    BY <1>7, <2>1, <2>3 DEF Put
  <2> QED  BY <2>1, <2>2, <2>3, <2>4, FilesStep
<1>15. CASE CopyBegins(u)
  <2>1. j.at = "copy" /\ UNCHANGED <<current, previous, tree, reworked>>
    BY <1>9, <1>15 DEF CopyBegins, links
  <2>2. Running(u) /\ v \in Versions
    BY <1>2, <2>1 DEF Running
  <2>3. CASE tree[v] = "none"
    <3>1. Fail(u) /\ UNCHANGED final
      BY <1>15, <2>3 DEF CopyBegins
    <3>2. PICK r \in Job : r.at = "over" /\ update' = [update EXCEPT ![u] = r]
      BY <1>5, <3>1
    <3> QED  BY <1>7, <2>1, <2>2, <3>1, <3>2, FilesStep
  <2>4. CASE tree[v] # "none"
    <3>1. final' = Put(final, v, "torn") /\ Go(u, "copying")
      BY <1>15, <2>4 DEF CopyBegins
    <3>2. PICK r \in Job : update' = [update EXCEPT ![u] = r] /\ r.at = "copying" /\ r.v = v
      BY <1>6, <3>1 DEF UpdatePlaces
    <3>3. final' \in [Versions -> Contents] /\ \A z \in Versions \ {v} : final'[z] = final[z]
      BY <1>7, <1>8, <2>2, <3>1
    <3>4. v \notin reworked => tree'[v] \in Whole
      BY <1>2, <2>1, <2>2 DEF Alone
    <3> QED  BY <1>7, <2>1, <2>2, <3>2, <3>3, <3>4, FilesStep
  <2> QED  BY <2>3, <2>4
<1>16. CASE CopyEnds(u)
  <2>1. j.at = "copying" /\ UNCHANGED <<current, previous, tree, reworked>>
    BY <1>9, <1>16 DEF CopyEnds, links
  <2>2. Running(u) /\ v \in Versions
    BY <1>2, <2>1 DEF Running
  <2>3. CASE final[v] = "none"
    <3>1. Fail(u) /\ UNCHANGED final
      BY <1>16, <2>3 DEF CopyEnds
    <3>2. PICK r \in Job : r.at = "over" /\ update' = [update EXCEPT ![u] = r]
      BY <1>5, <3>1
    <3> QED  BY <1>7, <2>1, <2>2, <3>1, <3>2, FilesStep
  <2>4. CASE final[v] # "none"
    <3>1. final' = Put(final, v, tree[v]) /\ Go(u, "demote")
      BY <1>16, <2>4 DEF CopyEnds
    <3>2. PICK r \in Job : update' = [update EXCEPT ![u] = r] /\ r.at = "demote" /\ r.v = v
      BY <1>6, <3>1 DEF UpdatePlaces
    <3>3. /\ final' \in [Versions -> Contents] /\ final'[v] = tree[v]
          /\ \A z \in Versions \ {v} : final'[z] = final[z]
      BY <1>7, <1>8, <2>2, <3>1
    <3>4. v \notin reworked => final'[v] \in Whole
      BY <1>2, <2>1, <2>2, <3>3 DEF Alone
    <3> QED  BY <1>7, <2>1, <2>2, <3>2, <3>3, <3>4, FilesStep
  <2> QED  BY <2>3, <2>4
<1>17. CASE Demote(u)
  <2>1. j.at = "demote" /\ UNCHANGED <<current, final, tree, reworked>>
    BY <1>9, <1>17 DEF Demote, files
  <2>2. Running(u) /\ v \in Versions
    BY <1>2, <2>1 DEF Running
  <2>3. v \notin reworked => v \notin Linked /\ final'[v] \in Whole
    BY <1>2, <1>3, <2>1, <2>2 DEF Alone
  <2>4. CASE current = None
    <3>1. Go(u, "flip") /\ UNCHANGED previous
      BY <1>17, <2>4 DEF Demote
    <3>2. PICK r \in Job : update' = [update EXCEPT ![u] = r] /\ r.at = "flip" /\ r.v = v
      BY <1>6, <3>1 DEF UpdatePlaces
    <3> QED  BY <1>7, <2>1, <2>2, <2>3, <3>1, <3>2, FilesStep
  <2>5. CASE current # None
    <3>1. update' = [update EXCEPT ![u].at = "relink", ![u].old = current] /\ previous' = None
      BY <1>17, <2>5 DEF Demote
    <3>2. PICK r \in Job : update' = [update EXCEPT ![u] = r] /\ r.at = "relink" /\ r.v = v /\ r.old = current
      <4> DEFINE r == [j EXCEPT !.at = "relink", !.old = current]
      <4>1. r \in Job /\ r.at = "relink" /\ r.v = v /\ r.old = current
        BY <1>1, <1>7 DEF Job, UpdatePlaces
      <4>2. update' = [update EXCEPT ![u] = r]
        BY <1>1, <3>1 DEF LinksInv, Job
      <4> QED  BY <4>1, <4>2
    <3>3. Linked' \subseteq Linked \cup {v, None} /\ (v \notin Linked => v \notin Linked')
      <4>1. PICK S : S = Linked \cup {None}
        OBVIOUS
      <4>2. Linked \subseteq S /\ current' \in S /\ previous' \in S /\ current \in S
        BY <1>4, <2>1, <3>1, <4>1
      <4>3. Linked' \subseteq S
        BY <3>2, <4>2, LinkedAfter
      <4> QED  BY <1>3, <2>2, <4>1, <4>3
    <3>4. v \notin reworked => v \notin Linked'
      BY <2>3, <3>3
    <3> QED  BY <1>7, <2>1, <2>2, <2>3, <3>1, <3>2, <3>3, <3>4, JobStep
  <2> QED  BY <2>4, <2>5
<1>18. CASE Relink(u)
  <2>1. j.at = "relink" /\ UNCHANGED <<current, final, tree, reworked>>
    BY <1>9, <1>18 DEF Relink, files
  <2>2. Running(u) /\ v \in Versions
    BY <1>2, <2>1 DEF Running
  <2>3. v \notin reworked => v \notin Linked /\ final'[v] \in Whole
    BY <1>2, <1>3, <2>1, <2>2 DEF Alone
  <2>4. CASE previous # None
    <3>1. Fail(u) /\ UNCHANGED previous
      BY <1>18, <2>4 DEF Relink
    <3>2. PICK r \in Job : r.at = "over" /\ update' = [update EXCEPT ![u] = r]
      BY <1>5, <3>1
    <3> QED  BY <1>7, <2>1, <2>2, <3>1, <3>2, FilesStep
  <2>5. CASE previous = None
    <3>1. previous' = j.old /\ Go(u, "flip")
      BY <1>18, <2>5 DEF Relink
    <3>2. PICK r \in Job : update' = [update EXCEPT ![u] = r] /\ r.at = "flip" /\ r.v = v
      BY <1>6, <3>1 DEF UpdatePlaces
    <3>3. j.old \in Linked /\ j.old \in Binaries \cup {None}
      BY <1>1, <2>1 DEF Linked, Job
    <3>4. Linked' \subseteq Linked
      BY <1>4, <2>1, <3>1, <3>2, <3>3, LinkedAfter
    <3> QED  BY <1>7, <2>1, <2>2, <2>3, <3>1, <3>2, <3>3, <3>4, JobStep
  <2> QED  BY <2>4, <2>5
<1>19. CASE Flip(u)
  <2>1. /\ j.at = "flip" /\ current' = v /\ Go(u, "exit") /\ UNCHANGED <<previous, final, tree, reworked>>
    BY <1>9, <1>19 DEF Flip, files
  <2>2. Running(u) /\ v \in Versions
    BY <1>2, <2>1 DEF Running
  <2>3. v \notin reworked => final'[v] \in Whole
    BY <1>2, <1>3, <2>1, <2>2 DEF Alone
  <2>4. PICK r \in Job : update' = [update EXCEPT ![u] = r] /\ r.at = "exit" /\ r.v = v
    BY <1>6, <2>1 DEF UpdatePlaces
  <2>5. Linked' \subseteq Linked \cup {v, None}
    <3>1. PICK S : S = Linked \cup {v, None}
      OBVIOUS
    <3>2. Linked \subseteq S /\ current' \in S /\ previous' \in S
      BY <1>4, <2>1, <3>1
    <3> QED  BY <2>4, <3>1, <3>2, LinkedAfter
  <2> QED  BY <1>3, <1>7, <2>1, <2>2, <2>3, <2>4, <2>5, JobStep
<1>20. CASE Acknowledge(u)
  BY <1>9, <1>20, LinksKept DEF Acknowledge
<1>21. CASE ExitForUpdate(u)
  BY <1>4, <1>21, LinksAbandoned DEF ExitForUpdate, history, links
<1> QED  BY <1>10, <1>11, <1>12, <1>13, <1>14, <1>15, <1>16, <1>17, <1>18, <1>19, <1>20, <1>21
         DEF PerformUpdate

\* Every step preserves it.
LEMMA LinksStep ==
  ASSUME LinksInv, [Next]_vars PROVE LinksInv'
<1> USE DEF bounds, history, requests
<1>1. current \in Linked /\ previous \in Linked /\ update \in [Updates -> Job]
  BY DEF Linked, LinksInv
<1>2. ASSUME current' \in {current, previous, 0, None}, previous' \in {previous, None},
             UNCHANGED <<update, files, reworked>>
      PROVE  LinksInv'
  BY <1>1, <1>2, LinksMoved
<1>3. ASSUME NEW p \in Pids,
             \/ LeaveLoop(p) \/ SpawnChild(p) \/ SpawnFails(p) \/ SpawnDies(p)
             \/ ReapRestart(p) \/ ReapFailure(p) \/ BackOff(p) \/ Wake(p) \/ SupervisorDies(p)
      PROVE  LinksInv'
  BY <1>3, LinksKept DEF LeaveLoop, SpawnChild, SpawnFails, SpawnDies, ReapRestart, ReapFailure,
     BackOff, Wake, SupervisorDies, OnlySup
<1>4. ASSUME NEW p \in Pids, Bootstrap(p) \/ TryRollback(p) PROVE LinksInv'
  BY <1>4, <1>2 DEF Bootstrap, TryRollback
<1>5. ASSUME NEW p \in Pids, Terminate(p) \/ Crash(p) PROVE LinksInv'
  <2>1. Abandon(p) /\ UNCHANGED <<current, previous, files, reworked>>
    BY <1>5 DEF Terminate, Crash, links
  <2> QED  BY <1>1, <2>1, LinksAbandoned
<1>6. ASSUME NEW o \in Operators, Commands(o) PROVE LinksInv'
  <2>1. CASE Start(o) \/ Stop(o) \/ Restart(o) \/ Reset(o)
    BY <2>1, LinksKept DEF Start, Stop, Restart, Reset, Begin, Unaffected
  <2>2. CASE StartLooks(o) \/ StartSpawns(o) \/ StartWrites(o)
    BY <2>2, LinksKept DEF StartLooks, StartSpawns, StartWrites, Unaffected
  <2>3. CASE StopLooks(o) \/ StopEnds(o) \/ StopKills(o)
    BY <2>3, LinksKept DEF StopLooks, StopEnds, StopKills, Unaffected
  <2>4. CASE ResetCurrent(o) \/ ResetPrevious(o)
    BY <2>4, <1>2 DEF ResetCurrent, ResetPrevious, Unaffected
  <2> QED  BY <1>6, <2>1, <2>2, <2>3, <2>4 DEF Commands
<1>7. ASSUME NEW u \in Updates, NEW p \in Pids, AgentUpdate(u, p) \/ HubUpdate(u, p) PROVE LinksInv'
  <2>1. ASSUME NEW l \in Listed, NEW v \in 1 .. l PROVE v \in Versions
    BY <2>1, SupervisorAssumption DEF Listed, Versions, SupervisorAssumption
  <2>2. PICK v \in Versions : BeginUpdate(u, v, p)
    BY <1>7, <2>1 DEF AgentUpdate, HubUpdate, Listed
  <2> QED  BY <2>2, LinksBegun
<1>8. ASSUME NEW u \in Updates, UpdateTimesOut(u) PROVE LinksInv'
  BY <1>8, LinksKept DEF UpdateTimesOut
<1>9. CASE UNCHANGED vars
  BY <1>9, LinksKept DEF vars
<1> QED  BY <1>3, <1>4, <1>5, <1>6, <1>7, <1>8, <1>9, UpdateStep
         DEF Next, Loop, BadChildCrashes, ChildCrashes

\* Whatever updates fail, are cut off or run beside one another, and whatever
\* rolls back or resets the links meanwhile, both links name binaries that are
\* whole, but for releases whose directory two updates, or an update and a
\* link, shared.
THEOREM LinksStayIntact == Spec => []LinkedIntact
<1>1. ASSUME Init PROVE LinksInv
  <2>1. Unasked \in Job /\ Unasked.at = "none"
    BY DEF Unasked, Job, UpdatePlaces
  <2>2. Linked = {None}
    BY <1>1, <2>1 DEF Init, Linked
  <2>3. "none" \in Contents
    BY DEF Contents
  <2> QED  BY <1>1, <2>1, <2>2, <2>3 DEF Init, LinksInv, Running
<1>2. LinksInv /\ [Next]_vars => LinksInv'
  BY LinksStep
<1>3. LinksInv => LinkedIntact
  BY DEF LinksInv, LinkedIntact, Linked
<1> QED  BY <1>1, <1>2, <1>3, PTL DEF Spec

=============================================================================
