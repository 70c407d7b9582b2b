---------------------------- MODULE Logs_proofs ----------------------------
(***************************************************************************)
(* What the hub records.  Of SessionLog, for every number of sessions,     *)
(* messages, months and requests, and for every length of a day, a month   *)
(* and the window of the hourly pass: the rows that are listed as live are *)
(* explained, the daily task deletes by settings that were in force, and   *)
(* the chart keeps what the deletion takes.  Of PromptLog, for every       *)
(* number of logs, lines and sessions, and for every length of the link's  *)
(* queue: no tailer skips a line, and every copy of a row has its reason.  *)
(***************************************************************************)
EXTENDS SessionLog, PromptLog, FiniteSetTheorems, SequenceTheorems,
        WellFoundedInduction, TLAPS

-----------------------------------------------------------------------------
(* SessionLog                                                              *)

Row == [started : Nat, ended : BOOLEAN]

-----------------------------------------------------------------------------
(* Rows of sessions                                                        *)

\* Why a row without an end may be there
Explained(s) == s \in live \/ <<"end", s>> \in tasks \/ s \in overtaken

\* No handler and no detached write outlives the hub, and a start that is
\* written after its session ended is explained already.
SessionsInv ==
  /\ now \in Nat /\ rows \in [Sessions -> Row \cup {None}]
  /\ tasks \subseteq {"start", "end"} \X (live \cup gone)
  /\ hub # "up" => live = {} /\ tasks = {}
  /\ \A s \in gone : <<"start", s>> \in tasks => Explained(s)
  /\ LiveRowsExplained

\* The database of an earlier release has no rows of sessions.
LEMMA SessionsInit == ASSUME Init PROVE SessionsInv
  BY DEF Init, SessionsInv, LiveRowsExplained, Active

\* The steps that write no row and touch no handler.
LEMMA SessionsKept ==
  ASSUME SessionsInv, UNCHANGED <<rowVars, overtaken>>, now' \in Nat,
         hub' = "up" => hub = "up", live # {} \/ tasks # {} => hub' = hub
  PROVE  SessionsInv'
<1>1. hub' # "up" => live = {} /\ tasks = {}
  BY DEF SessionsInv
<1> QED  BY <1>1 DEF SessionsInv, LiveRowsExplained, Active, Explained, rowVars

\* Every step preserves it.
LEMMA SessionsStep ==
  ASSUME SessionsInv, [Next]_vars PROVE SessionsInv'
<1> USE DEF rowVars, dataVars, rollVars, cleanVars, ghostVars, Fault
<1>1. CASE Tick
  BY <1>1, SessionsKept DEF Tick, SessionsInv
<1>2. CASE Open
  <2>1. live = {} /\ tasks = {}
    BY <1>2 DEF Open, SessionsInv
  <2> QED  BY <1>2, <2>1, SessionsKept DEF Open, SessionsInv
<1>3. CASE Serve
  <2>1. live' = {} /\ tasks' = {} /\ now' = now
    BY <1>3 DEF Serve, SessionsInv
  <2>2. ASSUME rows' = CloseOrphans
        PROVE  rows' \in [Sessions -> Row \cup {None}] /\ Active' = {}
    <3>1. ASSUME NEW s \in Sessions, rows[s] # None
          PROVE  rows'[s] \in Row /\ rows'[s].ended
      <4>1. rows[s] \in Row
        BY <3>1 DEF SessionsInv
      <4> QED  BY <2>2, <3>1, <4>1 DEF CloseOrphans, Row
    <3>2. \A s \in Sessions : rows[s] = None => rows'[s] = None
      BY <2>2 DEF CloseOrphans
    <3>3. rows' = [s \in Sessions |-> rows'[s]]
      BY <2>2 DEF CloseOrphans
    <3> QED  BY <3>1, <3>2, <3>3 DEF Active
  <2>3. CASE rows' = CloseOrphans
    BY <2>1, <2>2, <2>3 DEF SessionsInv, LiveRowsExplained
  <2>4. CASE rows' = rows /\ overtaken' = overtaken \cup {s \in Sessions : rows[s] # None}
    BY <2>1, <2>4 DEF SessionsInv, LiveRowsExplained, Active
  <2> QED  BY <1>3, <2>3, <2>4 DEF Serve
<1>4. CASE Stop
  BY <1>4 DEF Stop, SessionsInv, LiveRowsExplained
<1>5. ASSUME NEW s \in Sessions, OpenSession(s) PROVE SessionsInv'
  BY <1>5 DEF OpenSession, SessionsInv, LiveRowsExplained, Active, Explained
<1>6. ASSUME NEW s \in Sessions, EndSession(s) PROVE SessionsInv'
  <2>1. hub = "up"
    BY <1>6 DEF EndSession, SessionsInv
  <2> QED  BY <2>1, <1>6 DEF EndSession, SessionsInv, LiveRowsExplained, Active, Explained
<1>7. ASSUME NEW s \in Sessions, WriteStart(s) PROVE SessionsInv'
  <2>1. Explained(s) /\ hub = "up"
    BY <1>7 DEF WriteStart, SessionsInv, Explained
  <2>2. Explained(s)' /\ \A z \in Sessions : Explained(z) => Explained(z)'
    BY <2>1, <1>7 DEF WriteStart, Explained
  <2>3. /\ rows' \in [Sessions -> Row \cup {None}]
        /\ \A z \in Sessions \ {s} : rows'[z] = rows[z]
    BY <1>7 DEF WriteStart, SessionsInv, Row
  <2>4. \A z \in Active' : Explained(z)'
    BY <2>1, <2>2, <2>3 DEF SessionsInv, LiveRowsExplained, Active, Explained
  <2>5. \A z \in gone' : <<"start", z>> \in tasks' => Explained(z)'
    BY <1>7 DEF WriteStart, SessionsInv, Explained
  <2> QED  BY <2>1, <2>3, <2>4, <2>5, <1>7 DEF WriteStart, SessionsInv, LiveRowsExplained, Explained
<1>8. ASSUME NEW s \in Sessions, WriteEnd(s) PROVE SessionsInv'
  <2>1. hub = "up"
    BY <1>8 DEF WriteEnd, SessionsInv
  <2>2. /\ rows' \in [Sessions -> Row \cup {None}] /\ s \notin Active'
        /\ \A z \in Sessions \ {s} : rows'[z] = rows[z]
    <3>1. CASE rows[s] = None
      BY <3>1, <1>8 DEF WriteEnd, SessionsInv, Active
    <3>2. CASE rows[s] # None
      <4>1. rows[s] \in Row
        BY <3>2 DEF SessionsInv
      <4> QED  BY <3>2, <4>1, <1>8 DEF WriteEnd, SessionsInv, Active, Row
    <3> QED  BY <3>1, <3>2
  <2>3. \A z \in Sessions \ {s} : Explained(z) => Explained(z)'
    BY <1>8 DEF WriteEnd, Explained
  <2>4. \A z \in Active' : Explained(z)'
    BY <2>1, <2>2, <2>3 DEF SessionsInv, LiveRowsExplained, Active, Explained
  <2>5. \A z \in gone' : <<"start", z>> \in tasks' => Explained(z)'
    BY <1>8 DEF WriteEnd, SessionsInv, Explained
  <2> QED  BY <2>1, <2>2, <2>4, <2>5, <1>8 DEF WriteEnd, SessionsInv, LiveRowsExplained, Explained
<1>9. ASSUME NEW t \in tasks, WriteFails(t) PROVE SessionsInv'
  <2>1. \A z : Explained(z) => Explained(z)'
    BY <1>9 DEF WriteFails, Explained
  <2>2. /\ tasks' \subseteq tasks /\ hub' = hub /\ live' = live /\ gone' = gone
        /\ rows' = rows /\ now' = now
    BY <1>9 DEF WriteFails
  <2> QED  BY <2>1, <2>2 DEF SessionsInv, LiveRowsExplained, Active, Explained
<1>10. ASSUME NEW c \in Cleaners, Delete(c) PROVE SessionsInv'
  <2>1. /\ rows' \in [Sessions -> Row \cup {None}] /\ Active' \subseteq Active
        /\ UNCHANGED <<now, hub, live, gone, tasks, overtaken>>
    BY <1>10 DEF Delete, SessionsInv, Active
  <2> QED  BY <2>1 DEF SessionsInv, LiveRowsExplained, Explained
<1>11. CASE UNCHANGED <<now, hub, rowVars, overtaken>>
  BY <1>11, SessionsKept DEF SessionsInv
<1>12. ASSUME NEW s \in Sessions, NEW ts, StoreMessage(s, ts)
       PROVE  UNCHANGED <<now, hub, rowVars, overtaken>>
  BY <1>12 DEF StoreMessage
<1>13. CASE DeleteBatch
  <2>1. /\ rows' \in [Sessions -> Row \cup {None}] /\ Active' \subseteq Active
        /\ UNCHANGED <<now, hub, live, gone, tasks, overtaken>>
    BY <1>13 DEF DeleteBatch, SessionsInv, Active
  <2> QED  BY <2>1 DEF SessionsInv, LiveRowsExplained, Explained
<1>14. ASSUME Look \/ Backfill \/ MarkBackfilled \/ RefreshStats \/ HourPasses
       PROVE  UNCHANGED <<now, hub, rowVars, overtaken>>
  BY <1>14 DEF Look, Backfill, MarkBackfilled, RefreshStats, HourPasses
<1>15. ASSUME NEW n, BeginCleanup(n) \/ \E e \in BOOLEAN : BeginPut(e, n)
       PROVE  UNCHANGED <<now, hub, rowVars, overtaken>>
  BY <1>15 DEF BeginCleanup, BeginPut
<1>16. ASSUME PutEnabled \/ PutMonths \/ AutoWakes \/ AutoReads
       PROVE  UNCHANGED <<now, hub, rowVars, overtaken>>
  BY <1>16 DEF PutEnabled, PutMonths, AutoWakes, AutoReads
<1>17. ASSUME NEW c \in Cleaners, DeleteFails(c)
       PROVE  UNCHANGED <<now, hub, rowVars, overtaken>>
  BY <1>17 DEF DeleteFails
<1>18. CASE UNCHANGED vars
  BY <1>18, <1>11 DEF vars
<1> QED  BY <1>1, <1>2, <1>3, <1>4, <1>5, <1>6, <1>7, <1>8, <1>9, <1>10, <1>11, <1>12,
            <1>13, <1>14, <1>15, <1>16, <1>17, <1>18 DEF Next

\* While the hub serves, a row without an end is of a session that is open, or
\* whose end is being written, or whose writes went wrong: the detached writes
\* of db.rs in any order, and stops of the hub at any point, leave no other.
THEOREM LiveRowsAreExplained == Spec => []LiveRowsExplained
<1>1. Init => SessionsInv
  BY SessionsInit
<1>2. SessionsInv /\ [Next]_vars => SessionsInv'
  BY SessionsStep
<1>3. SessionsInv => LiveRowsExplained
  BY DEF SessionsInv
<1> QED  BY <1>1, <1>2, <1>3, PTL DEF Spec

-----------------------------------------------------------------------------
(* The settings of the daily deletion                                      *)

Deletions == [at : Tables, months : Nat \ {0}, before : Nat]

\* What is in the database is in force when no request has written one half of
\* it; a reading that is not torn has found the first setting as it still is.
SettingsInv ==
  /\ now \in Nat /\ half \in BOOLEAN /\ torn \in BOOLEAN
  /\ meta \in [enabled : BOOLEAN \cup {None}, months : (Nat \ {0}) \cup {None}]
  /\ put \in Puts \cup {None}
  /\ clean \in [Cleaners -> {Rest} \cup [at : {"months"}, on : BOOLEAN] \cup Deletions]
  /\ ~half /\ ~Between => <<Enabled(meta), Retention(meta)>> \in chosen
  /\ Between => meta.enabled = put.enabled
  /\ clean["auto"].at = "months" /\ ~torn =>
       ~half /\ ~Between /\ (clean["auto"].on => Enabled(meta))
  /\ AutoCleanupAsSet

\* The settings found at the first start are in force.
LEMMA SettingsInit == ASSUME Init PROVE SettingsInv
<1>1. PICK n \in Earlier : meta = IF n = None THEN Unset ELSE [enabled |-> TRUE, months |-> n]
  BY DEF Init
<1>2. meta \in [enabled : BOOLEAN \cup {None}, months : (Nat \ {0}) \cup {None}]
  BY <1>1, BoundsAssumption DEF BoundsAssumption, Unset
<1>3. clean \in [Cleaners -> {Rest}] /\ clean["auto"].at = "rest"
  BY DEF Init, Cleaners, Rest
<1>4. put = None /\ now = 0 /\ half = FALSE /\ torn = FALSE
      /\ <<Enabled(meta), Retention(meta)>> \in chosen
  BY DEF Init
<1> QED  BY <1>2, <1>3, <1>4 DEF SettingsInv, Between, AutoCleanupAsSet, Tables

\* The steps that read and write no setting.
LEMMA SettingsKept ==
  ASSUME SettingsInv, UNCHANGED <<meta, put, half, torn, chosen>>, now' \in Nat,
         clean' \in [Cleaners -> {Rest} \cup [at : {"months"}, on : BOOLEAN] \cup Deletions],
         \/ clean'["auto"] = clean["auto"]
         \/ clean'["auto"] = Rest
         \/ /\ clean["auto"] \in Deletions /\ clean'["auto"] \in Deletions
            /\ clean'["auto"].months = clean["auto"].months
  PROVE  SettingsInv'
<1>1. Rest.at = "rest" /\ \A x \in Deletions : x.at \in Tables
  BY DEF Rest, Deletions
<1>2. AutoCleanupAsSet'
  BY <1>1 DEF SettingsInv, AutoCleanupAsSet, Tables
<1>3. Between' = Between
  BY DEF Between
<1>4. clean'["auto"].at = "months" /\ ~torn' =>
        ~half' /\ ~Between' /\ (clean'["auto"].on => Enabled(meta'))
  BY <1>1, <1>3 DEF SettingsInv, Tables
<1> QED  BY <1>2, <1>3, <1>4 DEF SettingsInv

\* Every step preserves it.
LEMMA SettingsStep ==
  ASSUME SettingsInv, [Next]_vars PROVE SettingsInv'
<1> USE DEF rowVars, dataVars, rollVars, cleanVars, ghostVars, Fault
<1>1. CASE UNCHANGED <<now, meta, put, clean, half, torn, chosen>>
  BY <1>1, SettingsKept DEF SettingsInv
<1>2. CASE Tick
  BY <1>2, SettingsKept DEF Tick, SettingsInv
<1>3. CASE Stop
  <2>1. /\ put' = None /\ clean' = [c \in Cleaners |-> Rest] /\ meta' = meta /\ now' = now
        /\ chosen' = chosen /\ torn' = torn /\ half' = (half \/ Between)
    BY <1>3 DEF Stop
  <2>2. ~Between'
    BY <2>1 DEF Between
  <2>3. /\ clean' \in [Cleaners -> {Rest} \cup [at : {"months"}, on : BOOLEAN] \cup Deletions]
        /\ clean'["auto"].at = "rest"
    BY <2>1 DEF Cleaners, Rest
  <2>4. half' \in BOOLEAN
    BY <2>1 DEF SettingsInv, Between
  <2> QED  BY <2>1, <2>2, <2>3, <2>4 DEF SettingsInv, AutoCleanupAsSet, Tables
<1>4. ASSUME NEW n \in Months, NEW e \in BOOLEAN, BeginPut(e, n) PROVE SettingsInv'
  <2>1. /\ put = None /\ put' = [at |-> "enabled", enabled |-> e, months |-> n]
        /\ UNCHANGED <<now, meta, clean, half, torn, chosen>>
    BY <1>4 DEF BeginPut
  <2>2. ~Between /\ ~Between' /\ put' \in Puts
    BY <2>1 DEF Between, Puts
  <2> QED  BY <2>1, <2>2 DEF SettingsInv, AutoCleanupAsSet
<1>5. CASE PutEnabled
  <2>1. put \in Puts /\ put.at = "enabled"
    BY <1>5 DEF PutEnabled, SettingsInv
  <2>2. /\ put' = [put EXCEPT !.at = "months"] /\ meta' = [meta EXCEPT !.enabled = put.enabled]
        /\ torn' = (torn \/ clean["auto"].at = "months")
        /\ UNCHANGED <<now, clean, half, chosen>>
    BY <1>5 DEF PutEnabled
  <2>3. put' \in Puts /\ put'.at = "months" /\ put'.enabled = put.enabled
    BY <2>1, <2>2 DEF Puts
  <2>4. /\ meta' \in [enabled : BOOLEAN \cup {None}, months : (Nat \ {0}) \cup {None}]
        /\ meta'.enabled = put.enabled
    BY <2>1, <2>2 DEF SettingsInv, Puts
  <2>5. Between'
    BY <2>3, NoneAssumption DEF Between
  <2> QED  BY <2>2, <2>3, <2>4, <2>5 DEF SettingsInv, AutoCleanupAsSet
<1>6. CASE PutMonths
  <2>1. put \in Puts /\ Between
    BY <1>6 DEF PutMonths, SettingsInv, Between
  <2>2. put' = None /\ ~Between' /\ UNCHANGED <<now, clean, torn>>
    BY <1>6 DEF PutMonths, Between
  <2>3. clean["auto"].at = "months" => torn
    BY <2>1 DEF SettingsInv
  <2>4. CASE /\ meta' = [meta EXCEPT !.months = put.months] /\ half' = FALSE
             /\ chosen' = chosen \cup {<<put.enabled, put.months>>}
    <3>1. put.months \in Nat \ {0} /\ put.enabled \in BOOLEAN
      BY <2>1, BoundsAssumption DEF Puts, BoundsAssumption
    <3>2. meta.enabled = put.enabled
      BY <2>1 DEF SettingsInv
    <3>3. /\ meta' \in [enabled : BOOLEAN \cup {None}, months : (Nat \ {0}) \cup {None}]
          /\ meta'.enabled = put.enabled /\ meta'.months = put.months
      BY <2>4, <3>1, <3>2 DEF SettingsInv
    <3>4. Retention(meta') = put.months
      BY <3>1, <3>3, NoneAssumption DEF Retention
    <3>5. Enabled(meta') = put.enabled
      BY <3>1, <3>3 DEF Enabled
    <3>6. <<Enabled(meta'), Retention(meta')>> \in chosen'
      BY <2>4, <3>4, <3>5
    <3> QED  BY <2>2, <2>3, <2>4, <3>3, <3>6 DEF SettingsInv, AutoCleanupAsSet
  <2>5. CASE half' = TRUE /\ meta' = meta /\ chosen' = chosen
    BY <2>2, <2>3, <2>5 DEF SettingsInv, AutoCleanupAsSet
  <2> QED  BY <1>6, <2>4, <2>5 DEF PutMonths
<1>7. CASE AutoWakes
  <2>1. PICK on \in {Enabled(meta), FALSE} :
             clean' = [clean EXCEPT !["auto"] = [at |-> "months", on |-> on]]
    BY <1>7 DEF AutoWakes
  <2>2. torn' = (half \/ Between) /\ UNCHANGED <<now, meta, put, half, chosen>>
    BY <1>7 DEF AutoWakes
  <2>3. on \in BOOLEAN
    BY <2>1 DEF Enabled
  <2>4. /\ clean' \in [Cleaners -> {Rest} \cup [at : {"months"}, on : BOOLEAN] \cup Deletions]
        /\ clean'["auto"].at = "months" /\ clean'["auto"].on = on
    BY <2>1, <2>3 DEF SettingsInv, Cleaners
  <2>5. torn' \in BOOLEAN /\ Between' = Between /\ ("months" \notin Tables)
    BY <2>2 DEF SettingsInv, Between, Tables
  <2> QED  BY <2>1, <2>2, <2>4, <2>5 DEF SettingsInv, AutoCleanupAsSet
<1>8. CASE AutoReads
  <2>1. PICK n \in {ReadRetention, 1} :
             /\ clean' = [clean EXCEPT !["auto"] = IF clean["auto"].on THEN Deletion(n) ELSE Rest]
             /\ torn' = (torn \/ n # ReadRetention)
    BY <1>8 DEF AutoReads
  <2>2. clean["auto"].at = "months" /\ UNCHANGED <<now, meta, put, half, chosen>>
    BY <1>8 DEF AutoReads
  <2>3. n \in Nat \ {0}
    BY <2>1 DEF ReadRetention, Retention, SettingsInv
  <2>4. Deletion(n) \in Deletions /\ Deletion(n).at = "messages" /\ Deletion(n).months = n
    BY <2>3 DEF Deletion, Deletions, Tables, SettingsInv
  <2>5. Between' = Between /\ torn' \in BOOLEAN
    BY <2>1, <2>2 DEF SettingsInv, Between
  <2>6. clean["auto"].on /\ ~torn' => <<TRUE, n>> \in chosen'
    <3> SUFFICES ASSUME clean["auto"].on, ~torn' PROVE <<TRUE, n>> \in chosen
      BY <2>2
    <3>1. Enabled(meta) /\ n = Retention(meta) /\ <<Enabled(meta), Retention(meta)>> \in chosen
      BY <2>1, <2>2 DEF SettingsInv, ReadRetention
    <3>2. Enabled(meta) = TRUE
      BY <3>1 DEF Enabled
    <3> QED  BY <3>1, <3>2
  <2>7. CASE clean["auto"].on
    <3>1. clean'["auto"] = Deletion(n)
      BY <2>1, <2>7 DEF SettingsInv, Cleaners
    <3>2. clean' \in [Cleaners -> {Rest} \cup [at : {"months"}, on : BOOLEAN] \cup Deletions]
      BY <2>1, <2>4, <2>7 DEF SettingsInv
    <3>3. AutoCleanupAsSet'
      BY <2>4, <2>6, <2>7, <3>1 DEF AutoCleanupAsSet
    <3> QED  BY <2>2, <2>4, <2>5, <3>1, <3>2, <3>3 DEF SettingsInv
  <2>8. CASE ~clean["auto"].on
    <3>1. clean'["auto"] = Rest /\ Rest.at = "rest"
      BY <2>1, <2>8 DEF SettingsInv, Cleaners, Rest
    <3>2. clean' \in [Cleaners -> {Rest} \cup [at : {"months"}, on : BOOLEAN] \cup Deletions]
      BY <2>1, <2>8 DEF SettingsInv
    <3> QED  BY <2>2, <2>5, <3>1, <3>2 DEF SettingsInv, AutoCleanupAsSet, Tables
  <2> QED  BY <2>7, <2>8
<1>9. ASSUME NEW n \in Months, BeginCleanup(n) PROVE SettingsInv'
  <2>1. /\ clean' = [clean EXCEPT !["admin"] = Deletion(n)]
        /\ UNCHANGED <<now, meta, put, half, torn, chosen>>
    BY <1>9 DEF BeginCleanup
  <2>2. Deletion(n) \in Deletions
    BY BoundsAssumption DEF BoundsAssumption, Deletion, Deletions, Tables, SettingsInv
  <2>3. /\ clean' \in [Cleaners -> {Rest} \cup [at : {"months"}, on : BOOLEAN] \cup Deletions]
        /\ clean'["auto"] = clean["auto"]
    BY <2>1, <2>2 DEF SettingsInv, Cleaners
  <2> QED  BY <2>1, <2>3, SettingsKept DEF SettingsInv
<1>10. ASSUME NEW c \in Cleaners, Delete(c) PROVE SettingsInv'
  <2>1. /\ clean[c].at \in Tables
        /\ clean' = [clean EXCEPT ![c] =
             IF @.at = "user_interactions" THEN Rest ELSE [@ EXCEPT !.at = After(clean[c].at)]]
        /\ UNCHANGED <<now, meta, put, half, torn, chosen>>
    BY <1>10 DEF Delete
  <2>2. clean[c] \in Deletions
    BY <2>1 DEF SettingsInv, Tables, Rest
  <2>3. CASE clean[c].at = "user_interactions"
    <3>1. /\ clean' \in [Cleaners -> {Rest} \cup [at : {"months"}, on : BOOLEAN] \cup Deletions]
          /\ clean'["auto"] \in {clean["auto"], Rest}
      BY <2>1, <2>3 DEF SettingsInv, Cleaners
    <3> QED  BY <2>1, <3>1, SettingsKept DEF SettingsInv
  <2>4. CASE clean[c].at # "user_interactions"
    <3> DEFINE next == [clean[c] EXCEPT !.at = After(clean[c].at)]
    <3>1. next \in Deletions /\ next.months = clean[c].months
      BY <2>2, <2>4 DEF Deletions, After, Tables
    <3>2. clean' = [clean EXCEPT ![c] = next]
      BY <2>1, <2>4
    <3> HIDE DEF next
    <3>3. /\ clean' \in [Cleaners -> {Rest} \cup [at : {"months"}, on : BOOLEAN] \cup Deletions]
          /\ c = "auto" => clean'["auto"] = next
          /\ c # "auto" => clean'["auto"] = clean["auto"]
      BY <3>1, <3>2 DEF SettingsInv, Cleaners
    <3> QED  BY <2>1, <2>2, <3>1, <3>3, SettingsKept DEF SettingsInv
  <2> QED  BY <2>3, <2>4
<1>11. ASSUME NEW c \in Cleaners, DeleteFails(c) PROVE SettingsInv'
  <2>1. clean' = [clean EXCEPT ![c] = Rest] /\ UNCHANGED <<now, meta, put, half, torn, chosen>>
    BY <1>11 DEF DeleteFails
  <2>2. /\ clean' \in [Cleaners -> {Rest} \cup [at : {"months"}, on : BOOLEAN] \cup Deletions]
        /\ clean'["auto"] \in {clean["auto"], Rest}
    BY <2>1 DEF SettingsInv, Cleaners
  <2> QED  BY <2>1, <2>2, SettingsKept DEF SettingsInv
<1>12. ASSUME NEW s \in Sessions, \/ OpenSession(s) \/ EndSession(s) \/ WriteStart(s) \/ WriteEnd(s)
                                  \/ \E ts : StoreMessage(s, ts)
       PROVE  UNCHANGED <<now, meta, put, clean, half, torn, chosen>>
  BY <1>12 DEF OpenSession, EndSession, WriteStart, WriteEnd, StoreMessage
<1>13. ASSUME \/ Open \/ Serve \/ \E t \in tasks : WriteFails(t)
              \/ DeleteBatch
       PROVE  UNCHANGED <<now, meta, put, clean, half, torn, chosen>>
  BY <1>13 DEF Open, Serve, WriteFails, DeleteBatch
<1>14. ASSUME Look \/ Backfill \/ MarkBackfilled \/ RefreshStats \/ HourPasses
       PROVE  UNCHANGED <<now, meta, put, clean, half, torn, chosen>>
  BY <1>14 DEF Look, Backfill, MarkBackfilled, RefreshStats, HourPasses
<1>15. CASE UNCHANGED vars
  BY <1>15, <1>1 DEF vars
<1> QED  BY <1>1, <1>2, <1>3, <1>4, <1>5, <1>6, <1>7, <1>8, <1>9, <1>10, <1>11, <1>12,
            <1>13, <1>14, <1>15 DEF Next

\* The retention the daily task deletes by, and that it deletes at all, are two
\* settings that were in force together, whatever requests do meanwhile, unless
\* its reading was torn.
THEOREM CleanupIsAsSet == Spec => []AutoCleanupAsSet
<1>1. Init => SettingsInv
  BY SettingsInit
<1>2. SettingsInv /\ [Next]_vars => SettingsInv'
  BY SettingsStep
<1>3. SettingsInv => AutoCleanupAsSet
  BY DEF SettingsInv
<1> QED  BY <1>1, <1>2, <1>3, PTL DEF Spec

-----------------------------------------------------------------------------
(* The chart of messages                                                   *)

Message == [id : Nat, of : Sessions, ts : Nat]

\* The hourly pass still sees the whole of the day
Whole(d) == now <= d * DAY + STATS_WINDOW

\* While the hourly pass sees the whole of a day, none of its messages has been
\* deleted: the table holds all that the bar of the day has counted.
ChartInv ==
  /\ now \in 0 .. MaxNow /\ nextRow \in Nat
  /\ IsFiniteSet(messages) /\ messages \subseteq Message
  /\ \A m \in messages : m.id < nextRow /\ m.ts <= now
  /\ \A m, n \in messages : m.id = n.id => m = n
  /\ stats \in [Days -> Nat \cup {None}]
  /\ \A c \in Cleaners : clean[c].at \in Tables => clean[c].before <= now
  /\ \A d \in Days : stats[d] # None /\ Whole(d) =>
       stats[d] <= Cardinality(Of(messages, d))

\* A message is not of a time before its day, and a retention is no shorter
\* than the window of the hourly pass.
LEMMA DayStarts == ASSUME NEW ts \in Nat PROVE DayOf(ts) \in Nat /\ DayOf(ts) * DAY <= ts
  BY BoundsAssumption DEF BoundsAssumption, DayOf
LEMMA RetentionCovers ==
  ASSUME NEW n \in Nat \ {0} PROVE n * MONTH \in Nat /\ STATS_WINDOW <= n * MONTH
<1>1. PICK k \in Nat : n = k + 1
  <2>1. n - 1 \in Nat /\ n = (n - 1) + 1
    OBVIOUS
  <2> QED  BY <2>1
<1>2. k * MONTH \in Nat /\ n * MONTH = k * MONTH + MONTH
  BY <1>1, BoundsAssumption DEF BoundsAssumption
<1> QED  BY <1>2, BoundsAssumption DEF BoundsAssumption

\* Days are counted: a set of messages, or a part of one, is finite.
LEMMA OfFinite ==
  ASSUME NEW ms, IsFiniteSet(ms), NEW d
  PROVE  IsFiniteSet(Of(ms, d)) /\ Cardinality(Of(ms, d)) \in Nat
<1>1. Of(ms, d) \subseteq ms
  BY DEF Of
<1> QED  BY <1>1, FS_Subset, FS_CardinalityType

LEMMA OfMore ==
  ASSUME NEW ms, IsFiniteSet(ms), NEW ns \in SUBSET ms, NEW d
  PROVE  Cardinality(Of(ns, d)) <= Cardinality(Of(ms, d))
<1>1. Of(ns, d) \subseteq Of(ms, d)
  BY DEF Of
<1> QED  BY <1>1, OfFinite, FS_Subset

\* The database of an earlier release has no row of the chart.
LEMMA ChartInit == ASSUME Init PROVE ChartInv
<1>1. PICK s \in Sessions : messages \in {{}, {[id |-> 1, of |-> s, ts |-> 0]}}
  BY DEF Init
<1>2. PICK first : first = [id |-> 1, of |-> s, ts |-> 0]
  OBVIOUS
<1>3. first \in Message /\ first.id = 1 /\ first.ts = 0
  BY <1>2 DEF Message
<1>4. messages = {} \/ messages = {first}
  BY <1>1, <1>2
<1>5. IsFiniteSet(messages)
  BY <1>4, FS_EmptySet, FS_Singleton
<1>6. now = 0 /\ nextRow = 2 /\ MaxNow \in Nat
  BY BoundsAssumption DEF Init, BoundsAssumption
<1>7. messages \subseteq Message /\ \A m \in messages : m.id = 1 /\ m.ts = 0
  BY <1>3, <1>4
<1>8. \A m, n \in messages : m = n
  BY <1>4
<1>9. \A c \in Cleaners : clean[c].at = "rest"
  BY DEF Init, Rest
<1>10. stats = [d \in Days |-> None]
  BY DEF Init
<1> QED  BY <1>5, <1>6, <1>7, <1>8, <1>9, <1>10 DEF ChartInv, Tables

\* The steps that touch neither the messages nor the chart.
LEMMA ChartKeeps ==
  ASSUME ChartInv, UNCHANGED <<messages, stats>>, nextRow' \in Nat, nextRow <= nextRow',
         now' \in 0 .. MaxNow, now <= now',
         \A c \in Cleaners : clean'[c].at \in Tables => clean'[c].before <= now'
  PROVE  ChartInv'
<1>1. \A d \in Days : Whole(d)' => Whole(d)
  <2>1. \A d \in Days : d * DAY + STATS_WINDOW \in Nat
    BY BoundsAssumption DEF BoundsAssumption, Days
  <2> QED  BY <2>1 DEF Whole, ChartInv
<1>2. \A m \in messages : m.id \in Nat /\ m.ts \in Nat
  BY DEF ChartInv, Message
<1>3. \A m \in messages : m.id < nextRow' /\ m.ts <= now'
  BY <1>2 DEF ChartInv
<1> QED  BY <1>1, <1>3 DEF ChartInv

\* Messages are stored as new rows.
LEMMA ChartStores ==
  ASSUME ChartInv, NEW s \in Sessions, NEW ts \in Nat, StoreMessage(s, ts) PROVE ChartInv'
<1> DEFINE m == [id |-> nextRow, of |-> s, ts |-> ts]
<1>1. /\ messages' = messages \cup {m} /\ nextRow' = nextRow + 1 /\ ts <= now
      /\ UNCHANGED <<now, stats, clean>>
  BY DEF StoreMessage, rollVars, cleanVars
<1>2. m \in Message /\ m.id = nextRow /\ m.ts = ts
  BY DEF ChartInv, Message
<1> HIDE DEF m
<1>3. IsFiniteSet(messages')
  BY <1>1, FS_AddElement DEF ChartInv
<1>4. messages' \subseteq Message
  BY <1>1, <1>2 DEF ChartInv
<1>5. \A n \in messages' : n.id < nextRow' /\ n.ts <= now'
  BY <1>1, <1>2 DEF ChartInv, Message
<1>6. \A n, o \in messages' : n.id = o.id => n = o
  BY <1>1, <1>2 DEF ChartInv, Message
<1>7. \A d \in Days : Whole(d)' = Whole(d) /\ Cardinality(Of(messages, d)) <= Cardinality(Of(messages', d))
  BY <1>1, <1>3, OfMore DEF Whole
<1>8. \A d \in Days : stats[d] # None => stats[d] \in Nat
  BY DEF ChartInv
<1>9. \A d \in Days : Cardinality(Of(messages, d)) \in Nat /\ Cardinality(Of(messages', d)) \in Nat
  BY <1>3, OfFinite DEF ChartInv
<1>10. ASSUME NEW d \in Days, stats'[d] # None, Whole(d)'
       PROVE  stats'[d] <= Cardinality(Of(messages', d))
  <2>1. stats'[d] = stats[d] /\ Whole(d)
    BY <1>1, <1>7, <1>10
  <2>2. stats[d] \in Nat /\ stats[d] <= Cardinality(Of(messages, d))
    BY <1>8, <1>10, <2>1 DEF ChartInv
  <2> QED  BY <1>7, <1>9, <2>1, <2>2
<1>11. /\ now' \in 0 .. MaxNow /\ nextRow' \in Nat /\ stats' \in [Days -> Nat \cup {None}]
       /\ \A c \in Cleaners : clean'[c].at \in Tables => clean'[c].before <= now'
  BY <1>1 DEF ChartInv
<1> QED  BY <1>3, <1>4, <1>5, <1>6, <1>10, <1>11, Zenon DEF ChartInv

\* A refresh writes what the table holds of a day, or of the end of it.
LEMMA Refreshes ==
  ASSUME ChartInv, NEW ms \in SUBSET messages, stats' = Refreshed(ms)
  PROVE  /\ stats' \in [Days -> Nat \cup {None}]
         /\ \A d \in Days :
              IF Of(ms, d) = {} THEN stats'[d] = stats[d]
              ELSE stats'[d] # None /\ stats'[d] = Cardinality(Of(ms, d))
<1>1. IsFiniteSet(ms)
  BY FS_Subset DEF ChartInv
<1>2. \A d \in Days : stats'[d] = IF Of(ms, d) = {} THEN stats[d] ELSE Cardinality(Of(ms, d))
  BY DEF Refreshed
<1>3. \A d \in Days : Cardinality(Of(ms, d)) \in Nat
  BY <1>1, OfFinite
<1>4. stats' = [d \in Days |-> stats'[d]]
  BY DEF Refreshed
<1> QED  BY <1>2, <1>3, <1>4, NoneAssumption DEF ChartInv

LEMMA ChartRefreshes ==
  ASSUME ChartInv, NEW ms \in SUBSET messages, stats' = Refreshed(ms),
         UNCHANGED <<now, nextRow, messages, clean>>
  PROVE  ChartInv'
<1>1. /\ stats' \in [Days -> Nat \cup {None}]
      /\ \A d \in Days :
           IF Of(ms, d) = {} THEN stats'[d] = stats[d]
           ELSE stats'[d] # None /\ stats'[d] = Cardinality(Of(ms, d))
  BY Refreshes
<1>2. \A d \in Days : Cardinality(Of(ms, d)) <= Cardinality(Of(messages, d))
  BY OfMore DEF ChartInv
<1>3. \A d \in Days : stats'[d] # None /\ Whole(d)' => stats'[d] <= Cardinality(Of(messages', d))
  BY <1>1, <1>2 DEF ChartInv, Whole
<1> QED  BY <1>1, <1>3 DEF ChartInv

\* A deletion takes no message of a day the hourly pass sees the whole of,
\* whether it takes all that is old or a part of it.
LEMMA ChartShrinks ==
  ASSUME ChartInv, SettingsInv, NEW c \in Cleaners, clean[c].at \in Tables,
         NEW kept \in SUBSET messages, messages' = kept,
         \A m \in messages \ kept : Old(c, m.ts),
         UNCHANGED <<now, nextRow, stats>>,
         \A z \in Cleaners : clean'[z].at \in Tables => clean'[z].before <= now'
  PROVE  ChartInv'
<1>2. clean[c] \in Deletions /\ clean[c].before <= now /\ clean[c].before \in Nat
  BY DEF SettingsInv, ChartInv, Deletions, Tables, Rest
<1>5. IsFiniteSet(messages')
  BY FS_Subset DEF ChartInv
<1>6. ASSUME NEW d \in Days, Whole(d) PROVE Of(messages', d) = Of(messages, d)
  <2> SUFFICES ASSUME NEW m \in messages, DayOf(m.ts) = d, Old(c, m.ts) PROVE FALSE
    BY DEF Of
  <2>1. m.ts \in Nat
    BY DEF ChartInv, Message
  <2>2. d \in Nat /\ d * DAY <= m.ts /\ d * DAY \in Nat
    BY <2>1, DayStarts, BoundsAssumption DEF BoundsAssumption
  <2>3. /\ clean[c].months * MONTH \in Nat /\ STATS_WINDOW <= clean[c].months * MONTH
    BY <1>2, RetentionCovers DEF Deletions
  <2>4. m.ts + clean[c].months * MONTH < clean[c].before
    BY DEF Old
  <2>5. now <= d * DAY + STATS_WINDOW /\ now \in Nat /\ STATS_WINDOW \in Nat
    BY <1>6, BoundsAssumption DEF Whole, ChartInv, BoundsAssumption
  <2> QED  BY <1>2, <2>1, <2>2, <2>3, <2>4, <2>5
<1>7. \A d \in Days : stats'[d] # None /\ Whole(d)' => stats'[d] <= Cardinality(Of(messages', d))
  BY <1>6 DEF ChartInv, Whole
<1> QED  BY <1>5, <1>7 DEF ChartInv

LEMMA ChartDeletes ==
  ASSUME ChartInv, SettingsInv, NEW c \in Cleaners, Delete(c) PROVE ChartInv'
<1>1. clean[c].at \in Tables /\ UNCHANGED <<now, nextRow, stats>>
  BY DEF Delete, rollVars
<1>2. clean[c] \in Deletions /\ clean[c].before <= now /\ clean[c].before \in Nat
  BY <1>1 DEF SettingsInv, ChartInv, Deletions, Tables, Rest
<1>3. PICK kept \in SUBSET messages :
             messages' = kept /\ \A m \in messages \ kept : Old(c, m.ts)
  <2>1. messages' \in SUBSET messages /\ \A m \in messages \ messages' : Old(c, m.ts)
    BY DEF Delete
  <2> QED  BY <2>1
<1>4. \A z \in Cleaners : clean'[z].at \in Tables => clean'[z].before <= now'
  <2>1. clean' = [clean EXCEPT ![c] =
          IF @.at = "user_interactions" THEN Rest ELSE [@ EXCEPT !.at = After(clean[c].at)]]
    BY DEF Delete
  <2>2. \A z \in Cleaners \ {c} : clean'[z] = clean[z]
    BY <2>1 DEF SettingsInv
  <2>3. CASE clean[c].at = "user_interactions"
    <3>1. clean'[c] = Rest
      BY <2>1, <2>3 DEF SettingsInv
    <3> QED  BY <1>1, <2>2, <3>1 DEF ChartInv, Rest, Tables
  <2>4. CASE clean[c].at # "user_interactions"
    <3>1. clean'[c] = [clean[c] EXCEPT !.at = After(clean[c].at)]
      BY <2>1, <2>4 DEF SettingsInv
    <3>2. clean'[c].before = clean[c].before
      BY <1>2, <3>1 DEF Deletions
    <3> QED  BY <1>1, <1>2, <2>2, <3>2 DEF ChartInv
  <2> QED  BY <2>3, <2>4
<1> QED  BY <1>1, <1>3, <1>4, ChartShrinks

LEMMA ChartThins ==
  ASSUME ChartInv, SettingsInv, DeleteBatch PROVE ChartInv'
<1>1. clean["auto"].at \in Tables /\ UNCHANGED <<now, nextRow, stats, clean>> /\ "auto" \in Cleaners
  BY DEF DeleteBatch, rollVars, cleanVars, Tables, Cleaners
<1>2. PICK kept \in SUBSET messages :
             messages' = kept /\ \A m \in messages \ kept : Old("auto", m.ts)
  <2>1. messages' \in SUBSET messages /\ \A m \in messages \ messages' : Old("auto", m.ts)
    BY DEF DeleteBatch
  <2> QED  BY <2>1
<1>3. \A z \in Cleaners : clean'[z].at \in Tables => clean'[z].before <= now'
  BY <1>1 DEF ChartInv
<1> QED  BY <1>1, <1>2, <1>3, ChartShrinks

\* Every step preserves it.
LEMMA ChartStep ==
  ASSUME ChartInv, SettingsInv, [Next]_vars PROVE ChartInv'
<1> USE DEF rowVars, dataVars, rollVars, cleanVars, ghostVars, Fault
<1>1. ASSUME UNCHANGED <<now, nextRow, messages, stats>>,
             \A c \in Cleaners : clean'[c].at \in Tables => clean'[c].before <= now
      PROVE  ChartInv'
  BY <1>1, ChartKeeps DEF ChartInv
<1>2. ASSUME UNCHANGED <<now, nextRow, messages, stats, clean>> PROVE ChartInv'
  BY <1>2, <1>1 DEF ChartInv
<1>3. CASE Tick
  <2>1. now' = now + 1 /\ now' \in 0 .. MaxNow /\ UNCHANGED <<nextRow, messages, stats, clean>>
    BY <1>3, BoundsAssumption DEF Tick, ChartInv, BoundsAssumption
  <2>2. \A c \in Cleaners : clean'[c].at \in Tables => clean'[c].before <= now'
    <3>1. \A c \in Cleaners : clean[c].at \in Tables => clean[c].before \in Nat
      BY DEF SettingsInv, Deletions, Tables, Rest
    <3> QED  BY <2>1, <3>1 DEF ChartInv
  <2> QED  BY <2>1, <2>2, ChartKeeps DEF ChartInv
<1>4. CASE Stop
  BY <1>4, <1>1 DEF Stop, Rest, Tables
<1>5. ASSUME NEW s \in Sessions, OpenSession(s) \/ EndSession(s) \/ WriteStart(s) \/ WriteEnd(s)
      PROVE  ChartInv'
  BY <1>5, <1>2 DEF OpenSession, EndSession, WriteStart, WriteEnd
<1>6. CASE Open \/ Serve \/ \E t \in tasks : WriteFails(t)
  BY <1>6, <1>2 DEF Open, Serve, WriteFails
<1>7. CASE DeleteBatch
  BY <1>7, ChartThins
<1>8. ASSUME NEW ts \in 0 .. MaxNow, NEW s \in Sessions, StoreMessage(s, ts) PROVE ChartInv'
  BY <1>8, ChartStores
<1>9. CASE Look \/ MarkBackfilled \/ HourPasses
  BY <1>9, <1>2 DEF Look, MarkBackfilled, HourPasses
<1>10. CASE Backfill
  <2>1. stats' = Refreshed(messages) \/ stats' = stats
    BY <1>10 DEF Backfill
  <2>2. UNCHANGED <<now, nextRow, messages, clean>>
    BY <1>10 DEF Backfill
  <2> QED  BY <2>1, <2>2, <1>2, ChartRefreshes
<1>11. CASE RefreshStats
  <2>1. stats' = Refreshed(Since(STATS_WINDOW)) \/ stats' = stats
    BY <1>11 DEF RefreshStats
  <2>2. UNCHANGED <<now, nextRow, messages, clean>> /\ Since(STATS_WINDOW) \in SUBSET messages
    BY <1>11 DEF RefreshStats, Since
  <2> QED  BY <2>1, <2>2, <1>2, ChartRefreshes
<1>12. ASSUME NEW n \in Months, BeginCleanup(n) PROVE ChartInv'
  <2>1. clean' = [clean EXCEPT !["admin"] = Deletion(n)] /\ UNCHANGED <<now, nextRow, messages, stats>>
    BY <1>12 DEF BeginCleanup
  <2>2. \A c \in Cleaners : clean'[c].at \in Tables => clean'[c].before <= now
    BY <2>1 DEF ChartInv, SettingsInv, Deletion
  <2> QED  BY <2>1, <2>2, <1>1
<1>13. ASSUME NEW n \in Months, NEW e \in BOOLEAN, BeginPut(e, n) PROVE ChartInv'
  BY <1>13, <1>2 DEF BeginPut
<1>14. CASE PutEnabled \/ PutMonths
  BY <1>14, <1>2 DEF PutEnabled, PutMonths
<1>15. CASE AutoWakes
  <2>1. PICK on : clean' = [clean EXCEPT !["auto"] = [at |-> "months", on |-> on]]
    BY <1>15 DEF AutoWakes
  <2>2. \A c \in Cleaners : clean'[c].at \in Tables => clean'[c].before <= now
    BY <2>1 DEF ChartInv, SettingsInv, Tables
  <2> QED  BY <2>2, <1>1, <1>15 DEF AutoWakes
<1>16. CASE AutoReads
  <2>1. PICK n : clean' = [clean EXCEPT !["auto"] = IF clean["auto"].on THEN Deletion(n) ELSE Rest]
    BY <1>16 DEF AutoReads
  <2>2. \A c \in Cleaners : clean'[c].at \in Tables => clean'[c].before <= now
    BY <2>1 DEF ChartInv, SettingsInv, Deletion, Rest, Tables
  <2> QED  BY <2>2, <1>1, <1>16 DEF AutoReads
<1>17. ASSUME NEW c \in Cleaners, DeleteFails(c) PROVE ChartInv'
  <2>1. clean' = [clean EXCEPT ![c] = Rest] /\ UNCHANGED <<now, nextRow, messages, stats>>
    BY <1>17 DEF DeleteFails
  <2>2. \A z \in Cleaners : clean'[z].at \in Tables => clean'[z].before <= now
    BY <2>1 DEF ChartInv, SettingsInv, Rest, Tables
  <2> QED  BY <2>1, <2>2, <1>1
<1>18. CASE UNCHANGED vars
  BY <1>18, <1>2 DEF vars
<1> QED  BY <1>3, <1>4, <1>5, <1>6, <1>7, <1>8, <1>9, <1>10, <1>11, <1>12, <1>13, <1>14,
            <1>15, <1>16, <1>17, <1>18, ChartDeletes DEF Next

\* A step that shrinks a bar is of a day the hourly pass sees the end of and not
\* the beginning, or of the first backfill.
LEMMA BarsGrow ==
  ASSUME ChartInv, [Next]_vars, NEW d \in Days, ~PartlySeen(d), roll # "fill"
  PROVE  ChartMessages(stats', d) >= ChartMessages(stats, d)
<1>1. stats[d] # None => stats[d] \in Nat
  BY DEF ChartInv
<1>2. CASE stats' = stats
  BY <1>1, <1>2 DEF ChartMessages
<1>3. CASE stats' = Refreshed(Since(STATS_WINDOW))
  <2>1. Since(STATS_WINDOW) \in SUBSET messages
    BY DEF Since
  <2>2. PICK ms \in SUBSET messages : ms = Since(STATS_WINDOW)
    BY <2>1
  <2>3. IF Of(ms, d) = {} THEN stats'[d] = stats[d]
        ELSE stats'[d] # None /\ stats'[d] = Cardinality(Of(ms, d))
    BY <1>3, <2>2, Refreshes
  <2>4. CASE Of(ms, d) = {}
    BY <1>1, <2>3, <2>4 DEF ChartMessages
  <2>5. CASE Of(ms, d) # {}
    <3>1. PICK m \in messages : DayOf(m.ts) = d /\ m.ts + STATS_WINDOW >= now
      BY <2>2, <2>5 DEF Of, Since
    <3>2. m.ts \in 0 .. MaxNow /\ now \in 0 .. MaxNow
      <4>1. m.ts \in Nat /\ m.ts <= now /\ now \in 0 .. MaxNow /\ MaxNow \in Nat
        BY BoundsAssumption DEF ChartInv, Message, BoundsAssumption
      <4> QED  BY <4>1
    <3>3. d * DAY + STATS_WINDOW \in Nat
      BY BoundsAssumption DEF BoundsAssumption, Days
    <3>4. now <= d * DAY + STATS_WINDOW
      BY <3>1, <3>2, <3>3 DEF PartlySeen
    <3>5. ASSUME NEW n \in messages, DayOf(n.ts) = d PROVE n \in ms
      <4>1. n.ts \in Nat
        BY DEF ChartInv, Message
      <4>2. d * DAY <= n.ts /\ d * DAY \in Nat /\ STATS_WINDOW \in Nat
        BY <3>5, <4>1, DayStarts, BoundsAssumption DEF BoundsAssumption
      <4>3. n.ts + STATS_WINDOW >= now
        BY <3>2, <3>4, <4>1, <4>2
      <4> QED  BY <2>2, <4>3 DEF Since
    <3>6. Of(ms, d) = Of(messages, d)
      BY <3>5 DEF Of
    <3>7. stats[d] # None => stats[d] <= Cardinality(Of(messages, d))
      BY <3>4 DEF ChartInv, Whole
    <3>8. Cardinality(Of(messages, d)) \in Nat
      BY OfFinite DEF ChartInv
    <3> QED  BY <1>1, <2>3, <2>5, <3>6, <3>7, <3>8 DEF ChartMessages
  <2> QED  BY <2>4, <2>5
<1>4. stats' = stats \/ stats' = Refreshed(Since(STATS_WINDOW))
  <2> USE DEF rollVars
  <2>1. ASSUME NEW s \in Sessions, NEW ts \in 0 .. MaxNow,
               \/ OpenSession(s) \/ EndSession(s) \/ WriteStart(s) \/ WriteEnd(s)
               \/ StoreMessage(s, ts)
        PROVE  stats' = stats
    BY <2>1 DEF OpenSession, EndSession, WriteStart, WriteEnd, StoreMessage
  <2>2. ASSUME NEW s \in Sessions, OpenSession(s) \/ EndSession(s) \/ WriteStart(s) \/ WriteEnd(s)
        PROVE  stats' = stats
    BY <2>2 DEF OpenSession, EndSession, WriteStart, WriteEnd
  <2>3. CASE \/ Tick \/ Open \/ Serve \/ Stop \/ (\E t \in tasks : WriteFails(t))
             \/ DeleteBatch
    BY <2>3 DEF Tick, Open, Serve, Stop, WriteFails, DeleteBatch
  <2>4. CASE \/ Look \/ Backfill \/ MarkBackfilled \/ RefreshStats \/ HourPasses
    BY <2>4 DEF Look, Backfill, MarkBackfilled, RefreshStats, HourPasses, RollStep
  <2>5. CASE \E n \in Months : BeginCleanup(n) \/ \E e \in BOOLEAN : BeginPut(e, n)
    BY <2>5 DEF BeginCleanup, BeginPut
  <2>6. CASE PutEnabled \/ PutMonths \/ AutoWakes \/ AutoReads
    BY <2>6 DEF PutEnabled, PutMonths, AutoWakes, AutoReads
  <2>7. CASE \E c \in Cleaners : Delete(c) \/ DeleteFails(c)
    BY <2>7 DEF Delete, DeleteFails
  <2>8. CASE UNCHANGED vars
    BY <2>8 DEF vars
  <2> QED  BY <2>1, <2>2, <2>3, <2>4, <2>5, <2>6, <2>7, <2>8 DEF Next
<1> QED  BY <1>2, <1>3, <1>4

\* The chart keeps the messages that the daily task and the administrator have
\* deleted: no pass of the rollup counts a day again after a part of it is gone,
\* but for the days ChartKept names.
THEOREM ChartIsKept == Spec => ChartKept
<1>1. Init => ChartInv /\ SettingsInv
  BY ChartInit, SettingsInit
<1>2. ChartInv /\ SettingsInv /\ [Next]_vars => ChartInv' /\ SettingsInv'
  BY ChartStep, SettingsStep
<1>3. ChartInv /\ [Next]_vars =>
        [\A d \in Days : \/ ChartMessages(stats', d) >= ChartMessages(stats, d)
                         \/ PartlySeen(d) \/ roll = "fill"]_vars
  BY BarsGrow
<1> QED  BY <1>1, <1>2, <1>3, PTL DEF Spec, ChartKept

-----------------------------------------------------------------------------
(* PromptLog                                                               *)

\* The tailer o is past the line n of the file f, or in a sweep past it.
Passed(o, f, n) ==
  \/ n <= offsets[o][f]
  \/ /\ sweep[o].at = "file" /\ sweep[o].file = f
     /\ n <= sweep[o].last /\ n \notin sweep[o].batch

\* What a sweep has still to ship are lines after the offset that are complete
\* and wanted; all of them, as long as it has shipped none.
SweepOk(o) ==
  sweep[o].at = "file" =>
    LET f == sweep[o].file
        left == {n \in offsets[o][f] + 1 .. sweep[o].last : Wanted(o, f, n)}
    IN  /\ offsets[o][f] <= sweep[o].last /\ sweep[o].last <= disk[f]
        /\ sweep[o].batch \subseteq left
        /\ ~ sweep[o].sent => sweep[o].batch = left
SweepInv == \A o \in Tailers : SweepOk(o)

\* The audit task and the watchers live in the agent.
MemoryInv ==
  ~ agentUp => \A o \in Tailers : offsets[o] = Unread /\ sweep[o] = Resting

AccountInv ==
  \A o \in Tailers, f \in Files : \A n \in 1 .. Len(Log[f]) :
    Wanted(o, f, n) /\ Passed(o, f, n) => OnItsWay(<<o, f, n>>)

\* A watcher keeps the sender it was given.  Once that one's link is gone, or
\* the watcher with it, the session ships no more.
Over(s) ==
  IF watch[s] = 0 THEN s \in told ELSE ~ Receiving(watch[s])

WatchInv ==
  \A s \in Ptys :
    /\ sweep[s].at = "file" => watch[s] # 0 /\ sweep[s].tx = watch[s]
    /\ watch[s] = 0 /\ s \notin told =>
         offsets[s] = Unread /\ sweep[s] = Resting

\* Lines that a tailer has not passed were not shipped by it, or as often as
\* the audit task went back; no line is shipped twice in between.
CopyOk(o, f, n) ==
  LET x == <<o, f, n>> IN
    /\ Unique(x) => stored[x] <= 1
    /\ ~ Wanted(o, f, n) => Copies(x) = 0
    /\ o # "audit" =>
         /\ Copies(x) <= 1
         /\ ~ Passed(o, f, n) /\ ~ Over(o) => Copies(x) = 0
    /\ o = "audit" =>
         /\ Copies(x) <= 1 + again[f]
         /\ ~ Passed(o, f, n) => Copies(x) <= again[f]
CopyInv ==
  \A o \in Tailers, f \in Files : \A n \in 1 .. Len(Log[f]) : CopyOk(o, f, n)
-----------------------------------------------------------------------------
(* Frames and how often they are in a queue                                *)

LEMMA FrameOf ==
  /\ \A o \in Tailers, f \in Files : \A n \in 1 .. Len(Log[f]) :
       <<o, f, n>> \in Frames
  /\ \A x \in Frames : \E o \in Tailers, f \in Files :
       \E n \in 1 .. Len(Log[f]) : x = <<o, f, n>>
<1> DEFINE Sent(o, f) == {<<o, f, n>> : n \in 1 .. Len(Log[f])}
<1>1. Frames = UNION {Sent(o, f) : o \in Tailers, f \in Files}
  BY DEF Frames
<1>2. ASSUME NEW o \in Tailers, NEW f \in Files, NEW n \in 1 .. Len(Log[f])
      PROVE  <<o, f, n>> \in Frames
  <2>1. <<o, f, n>> \in Sent(o, f)
    OBVIOUS
  <2> HIDE DEF Sent
  <2> QED BY <1>1, <2>1
<1>3. ASSUME NEW x \in Frames
      PROVE  \E o \in Tailers, f \in Files :
               \E n \in 1 .. Len(Log[f]) : x = <<o, f, n>>
  <2>1. PICK o \in Tailers, f \in Files : x \in Sent(o, f)
    <3> HIDE DEF Sent
    <3> QED BY <1>1
  <2> QED BY <2>1
<1> QED BY <1>2, <1>3

LEMMA LogLengths == \A f \in Files : Len(Log[f]) \in Nat
BY LogAssumption

\* The next line is one of those to ship.
LEMMA NextIsLeft ==
  ASSUME NEW o \in Tailers, sweep[o].batch \in SUBSET Nat, sweep[o].batch # {}
  PROVE  NextLine(o) \in sweep[o].batch
<1> DEFINE b == sweep[o].batch
<1>1. \E x \in b : \A y \in b : ~ (<<y, x>> \in OpToRel(<, Nat))
  <2> HIDE DEF b
  <2>1. b \subseteq Nat /\ b # {}
    BY DEF b
  <2> QED BY <2>1, NatLessThanWellFounded, WFMin
<1>2. \E x \in b : \A y \in b : ~ (y < x)
  <2> HIDE DEF b
  <2>1. b \subseteq Nat
    BY DEF b
  <2> QED BY <1>1, <2>1 DEF OpToRel
<1>3. PICK x \in b : \A y \in b : x <= y
  <2> HIDE DEF b
  <2>1. b \subseteq Nat
    BY DEF b
  <2> QED BY <1>2, <2>1
<1> QED BY <1>3 DEF NextLine

Among(x, q) == {i \in DOMAIN q : q[i] = x}

LEMMA CountType ==
  ASSUME NEW S, NEW q \in Seq(S), NEW x
  PROVE  IsFiniteSet(Among(x, q)) /\ Cardinality(Among(x, q)) \in Nat
<1>1. IsFiniteSet(1 .. Len(q)) /\ Among(x, q) \in SUBSET (1 .. Len(q))
  BY FS_Interval DEF Among
<1> QED BY <1>1, FS_Subset, FS_CardinalityType

LEMMA CountEmpty == \A x : Cardinality(Among(x, <<>>)) = 0
<1>1. \A x : Among(x, <<>>) = {}
  BY DEF Among
<1> QED BY <1>1, FS_EmptySet

LEMMA CountAppended ==
  ASSUME NEW S, NEW q \in Seq(S), NEW y \in S, NEW x
  PROVE  Cardinality(Among(x, Append(q, y))) =
           Cardinality(Among(x, q)) + IF x = y THEN 1 ELSE 0
<1>1. /\ DOMAIN Append(q, y) = 1 .. Len(q) + 1 /\ DOMAIN q = 1 .. Len(q)
      /\ Len(q) \in Nat
      /\ \A i \in 1 .. Len(q) : Append(q, y)[i] = q[i]
      /\ Append(q, y)[Len(q) + 1] = y
  OBVIOUS
<1>2. IsFiniteSet(Among(x, q)) /\ Cardinality(Among(x, q)) \in Nat
  BY CountType
<1>5. Len(q) + 1 \notin Among(x, q)
  BY <1>1 DEF Among
<1>3. CASE x = y
  <2>1. Among(x, Append(q, y)) = Among(x, q) \cup {Len(q) + 1}
    BY <1>1, <1>3 DEF Among
  <2>2. Cardinality(Among(x, q) \cup {Len(q) + 1}) = Cardinality(Among(x, q)) + 1
    BY <1>2, <1>5, FS_AddElement
  <2> QED BY <1>3, <2>1, <2>2
<1>4. CASE x # y
  <2>1. Among(x, Append(q, y)) = Among(x, q)
    BY <1>1, <1>4 DEF Among
  <2> QED BY <1>2, <1>4, <2>1
<1> QED BY <1>3, <1>4

\* Taking the first frame takes one copy of it.
LEMMA CountTaken ==
  ASSUME NEW S, NEW q \in Seq(S), q # <<>>, NEW x
  PROVE  Cardinality(Among(x, q)) =
           Cardinality(Among(x, Tail(q))) + IF x = Head(q) THEN 1 ELSE 0
<1>1. /\ Len(q) \in Nat \ {0} /\ DOMAIN q = 1 .. Len(q) /\ Head(q) = q[1]
      /\ Tail(q) \in Seq(S) /\ DOMAIN Tail(q) = 1 .. Len(q) - 1
      /\ \A i \in 1 .. Len(q) - 1 : Tail(q)[i] = q[i + 1]
  OBVIOUS
<1> DEFINE T == Among(x, Tail(q))
           U == Among(x, q) \ {1}
           shift == [i \in T |-> i + 1]
<1>2. shift \in [T -> U]
  BY <1>1 DEF Among
<1>3. \A i, j \in T : shift[i] = shift[j] => i = j
  BY <1>1 DEF Among
<1>4. \A j \in U : \E i \in T : shift[i] = j
  <2>1. SUFFICES ASSUME NEW j \in U PROVE \E i \in T : shift[i] = j
    OBVIOUS
  <2>2. j \in 2 .. Len(q) /\ q[j] = x
    BY <1>1 DEF Among
  <2>3. j - 1 \in 1 .. Len(q) - 1 /\ Tail(q)[j - 1] = q[j - 1 + 1] /\ j - 1 + 1 = j
    BY <1>1, <2>2
  <2>4. j - 1 \in T
    BY <1>1, <2>2, <2>3 DEF Among
  <2> QED BY <2>3, <2>4
<1>5. ExistsBijection(T, U)
  BY <1>2, <1>3, <1>4 DEF ExistsBijection, Bijection, Injection, Surjection,
     IsInjective
<1>6. IsFiniteSet(T) /\ Cardinality(T) \in Nat
  BY <1>1, CountType
<1>7. IsFiniteSet(U) /\ Cardinality(U) = Cardinality(T)
  BY <1>5, <1>6, FS_Bijection
<1>8. CASE x = Head(q)
  <2>1. Among(x, q) = U \cup {1} /\ 1 \notin U
    BY <1>1, <1>8 DEF Among
  <2>2. Cardinality(U \cup {1}) = Cardinality(U) + 1
    <3> HIDE DEF U
    <3> QED BY <1>7, <2>1, FS_AddElement
  <2>3. Cardinality(Among(x, q)) = Cardinality(T) + 1
    BY <1>7, <2>1, <2>2
  <2> QED BY <1>8, <2>3
<1>9. CASE x # Head(q)
  <2>1. Among(x, q) = U
    BY <1>1, <1>9 DEF Among
  <2>2. Cardinality(Among(x, q)) = Cardinality(T)
    BY <1>7, <2>1
  <2>3. Cardinality(T) + 0 = Cardinality(T)
    <3> HIDE DEF T
    <3> QED BY <1>6
  <2> QED BY <1>9, <2>2, <2>3
<1> QED BY <1>8, <1>9

LEMMA CountCut ==
  ASSUME NEW S, NEW q \in Seq(S), NEW n \in 0 .. Len(q), NEW x
  PROVE  /\ SubSeq(q, 1, n) \in Seq(S)
         /\ Cardinality(Among(x, SubSeq(q, 1, n))) <= Cardinality(Among(x, q))
         /\ ToSet(q) = ToSet(SubSeq(q, 1, n)) \cup ToSet(SubSeq(q, n + 1, Len(q)))
<1>1. /\ Len(q) \in Nat /\ DOMAIN q = 1 .. Len(q) /\ n \in Nat /\ n <= Len(q)
      /\ SubSeq(q, 1, n) \in Seq(S) /\ DOMAIN SubSeq(q, 1, n) = 1 .. n
      /\ \A i \in 1 .. n : SubSeq(q, 1, n)[i] = q[i]
  OBVIOUS
<1>2. Among(x, SubSeq(q, 1, n)) \in SUBSET Among(x, q)
  BY <1>1 DEF Among
<1>3. Cardinality(Among(x, SubSeq(q, 1, n))) <= Cardinality(Among(x, q))
  BY <1>2, CountType, FS_Subset
<1> DEFINE r == SubSeq(q, n + 1, Len(q))
<1>4. /\ DOMAIN r = 1 .. Len(q) - n
      /\ \A i \in 1 .. Len(q) - n : r[i] = q[n + i]
  BY <1>1
<1>5. ToSet(q) = ToSet(SubSeq(q, 1, n)) \cup ToSet(r)
  <2>1. ASSUME NEW y \in ToSet(q)
        PROVE  y \in ToSet(SubSeq(q, 1, n)) \cup ToSet(r)
    <3>1. PICK i \in 1 .. Len(q) : q[i] = y
      BY <1>1 DEF ToSet
    <3>2. CASE i <= n
      <4>1. i \in DOMAIN SubSeq(q, 1, n) /\ SubSeq(q, 1, n)[i] = y
        BY <1>1, <3>1, <3>2
      <4> QED BY <4>1 DEF ToSet
    <3>3. CASE i > n
      <4>1. i - n \in 1 .. Len(q) - n /\ n + (i - n) = i
        BY <1>1, <3>1, <3>3
      <4>2. i - n \in DOMAIN r /\ r[i - n] = y
        BY <1>4, <3>1, <4>1
      <4> QED BY <4>2 DEF ToSet
    <3> QED BY <1>1, <3>2, <3>3
  <2>2. ToSet(SubSeq(q, 1, n)) \subseteq ToSet(q)
    BY <1>1 DEF ToSet
  <2>3. ToSet(r) \subseteq ToSet(q)
    BY <1>1, <1>4 DEF ToSet
  <2> QED BY <2>1, <2>2, <2>3
<1> QED BY <1>1, <1>3, <1>5

LEMMA MembersOf ==
  ASSUME NEW S, NEW q \in Seq(S)
  PROVE  /\ ToSet(q) \subseteq S
         /\ \A y \in S : ToSet(Append(q, y)) = ToSet(q) \cup {y}
         /\ q # <<>> => Head(q) \in S /\ Tail(q) \in Seq(S)
                        /\ ToSet(q) = ToSet(Tail(q)) \cup {Head(q)}
<1>1. ToSet(q) \subseteq S
  BY DEF ToSet
<1>2. ASSUME NEW y \in S PROVE ToSet(Append(q, y)) = ToSet(q) \cup {y}
  <2>1. /\ DOMAIN Append(q, y) = 1 .. Len(q) + 1 /\ DOMAIN q = 1 .. Len(q)
        /\ Len(q) \in Nat
        /\ \A i \in 1 .. Len(q) : Append(q, y)[i] = q[i]
        /\ Append(q, y)[Len(q) + 1] = y
    OBVIOUS
  <2> QED BY <2>1 DEF ToSet
<1>3. ASSUME q # <<>>
      PROVE  Head(q) \in S /\ Tail(q) \in Seq(S)
             /\ ToSet(q) = ToSet(Tail(q)) \cup {Head(q)}
  <2>1. /\ Len(q) \in Nat \ {0} /\ DOMAIN q = 1 .. Len(q) /\ Head(q) = q[1]
        /\ Tail(q) \in Seq(S) /\ DOMAIN Tail(q) = 1 .. Len(q) - 1
        /\ \A i \in 1 .. Len(q) - 1 : Tail(q)[i] = q[i + 1]
    BY <1>3
  <2>2. ASSUME NEW y \in ToSet(q) PROVE y \in ToSet(Tail(q)) \cup {Head(q)}
    <3>1. PICK i \in 1 .. Len(q) : q[i] = y
      BY <2>1 DEF ToSet
    <3>2. CASE i = 1
      BY <2>1, <3>1, <3>2
    <3>3. CASE i # 1
      <4>1. i - 1 \in 1 .. Len(q) - 1 /\ Tail(q)[i - 1] = q[i - 1 + 1] /\ i - 1 + 1 = i
        BY <2>1, <3>1, <3>3
      <4> QED BY <2>1, <3>1, <4>1 DEF ToSet
    <3> QED BY <3>2, <3>3
  <2>3. ToSet(Tail(q)) \cup {Head(q)} \subseteq ToSet(q)
    BY <2>1 DEF ToSet
  <2>4. Head(q) \in S
    BY <2>1
  <2> QED BY <2>1, <2>2, <2>3, <2>4
<1> QED BY <1>1, <1>2, <1>3

-----------------------------------------------------------------------------
(* Types                                                                   *)

LEMMA ReadingFile ==
  ASSUME LogTypeOK, NEW o \in Tailers, sweep[o].at = "file"
  PROVE  sweep[o] \in Reading /\ sweep[o].file \in Files
<1>1. sweep[o] \in {Resting} \cup Reading
  BY DEF LogTypeOK
<1>2. sweep[o] # Resting
  BY DEF Resting
<1> QED BY <1>1, <1>2 DEF Reading

LEMMA RestOrRead ==
  ASSUME LogTypeOK, NEW o \in Tailers, sweep[o].at # "file"
  PROVE  sweep[o] = Resting
BY DEF LogTypeOK, Reading

\* The line a sweep ships next is a complete line that it has yet to ship.
LEMMA NextFrame ==
  ASSUME LogTypeOK, SweepInv, NEW o \in Tailers, AtLine(o)
  PROVE  /\ sweep[o] \in Reading /\ sweep[o].file \in Files
         /\ NextLine(o) \in sweep[o].batch
         /\ NextLine(o) > offsets[o][sweep[o].file]
         /\ NextLine(o) <= sweep[o].last
         /\ Wanted(o, sweep[o].file, NextLine(o))
         /\ NextLine(o) \in 1 .. Len(Log[sweep[o].file])
         /\ <<o, sweep[o].file, NextLine(o)>> \in Frames
<1>1. sweep[o] \in Reading /\ sweep[o].file \in Files
  BY ReadingFile DEF AtLine
<1>2. NextLine(o) \in sweep[o].batch
  BY <1>1, NextIsLeft DEF AtLine, Reading
<1> DEFINE f == sweep[o].file
<1>3. /\ sweep[o].last <= disk[f]
      /\ NextLine(o) \in {n \in offsets[o][f] + 1 .. sweep[o].last : Wanted(o, f, n)}
  BY <1>2 DEF SweepInv, SweepOk, AtLine
<1>4. /\ offsets[o][f] \in Nat /\ disk[f] \in Nat /\ disk[f] <= Len(Log[f])
      /\ sweep[o].last \in Nat /\ Len(Log[f]) \in Nat
  BY <1>1, LogLengths DEF LogTypeOK, Reading
<1>5. NextLine(o) \in 1 .. Len(Log[f])
  BY <1>3, <1>4
<1>6. <<o, f, NextLine(o)>> \in Frames
  BY <1>1, <1>5, FrameOf
<1> QED BY <1>1, <1>2, <1>3, <1>4, <1>5, <1>6

LEMMA LogTypeInit == ASSUME LogInit PROVE LogTypeOK
<1>1. Unread \in [Files -> Nat] /\ \A f \in Files : Unread[f] = 0
  BY DEF Unread
<1>2. <<>> \in Seq(Frames) /\ Len(<<>>) = 0
  OBVIOUS
<1>3. /\ disk \in [Files -> Nat] /\ again \in [Files -> Nat]
      /\ \A f \in Files : disk[f] <= Len(Log[f])
      /\ partial = {} /\ clipped = {} /\ agentUp = TRUE /\ hubUp = TRUE /\ open = FALSE
  BY <1>1, LogLengths DEF LogInit
<1>4. /\ links \in 0 .. MaxLinks /\ slot \in {0, links}
      /\ losses \in 0 .. MaxLosses
  BY LogAssumption DEF LogInit
<1>5. transit \in Seq(Frames) /\ Len(transit) <= SEND_QUEUE
  BY <1>2, LogAssumption DEF LogInit
<1>6. /\ watch \in [Ptys -> 0 .. links] /\ told \subseteq Ptys
      /\ inserts \in [Frames -> Nat] /\ stored \in [Frames -> Nat]
      /\ dropped \subseteq Frames
  BY DEF LogInit
<1>7. /\ offsets \in [Tailers -> [Files -> Nat]]
      /\ sweep \in [Tailers -> {Resting} \cup Reading]
      /\ \A o \in Tailers, f \in Files : offsets[o][f] <= disk[f]
  BY <1>1 DEF LogInit
<1> QED BY <1>3, <1>4, <1>5, <1>6, <1>7 DEF LogTypeOK

LEMMA LogTypeStep ==
  ASSUME LogTypeOK, SweepInv, LogNext
  PROVE  LogTypeOK'
<1>0. "audit" \in Tailers /\ Ptys \subseteq Tailers /\ links \in Nat
  BY LogAssumption DEF Tailers, LogTypeOK
<1> DEFINE Bounds == SEND_QUEUE \in Nat /\ MaxLinks \in Nat /\ MaxLosses \in Nat
<1>b. Bounds
  BY LogAssumption
<1>1. CASE \E f \in Files : WriteHalf(f) \/ WriteMore(f) \/ WriteRest(f)
  <2>1. PICK f \in Files : WriteHalf(f) \/ WriteMore(f) \/ WriteRest(f)
    BY <1>1
  <2>2. CASE WriteHalf(f) \/ WriteMore(f)
    BY <2>2 DEF WriteHalf, WriteMore, LogTypeOK, agentVars, linkVars, hubVars, pastVars
  <2>3. CASE WriteRest(f)
    <3>1. /\ f \in partial /\ partial' = partial \ {f} /\ clipped' = clipped \ {f}
          /\ disk' = [disk EXCEPT ![f] = @ + 1]
          /\ UNCHANGED <<agentVars, linkVars, hubVars, losses, pastVars>>
      BY <2>3 DEF WriteRest
    <3>2. /\ disk[f] < Len(Log[f]) /\ disk[f] \in Nat /\ Len(Log[f]) \in Nat
      BY <3>1, LogLengths DEF LogTypeOK
    <3>3. /\ disk' \in [Files -> Nat]
          /\ \A g \in Files : disk'[g] <= Len(Log[g]) /\ disk'[g] >= disk[g]
      BY <3>1, <3>2 DEF LogTypeOK
    <3>4. partial' \subseteq {g \in Files : disk'[g] < Len(Log[g])}
      BY <3>1 DEF LogTypeOK
    <3>5. \A o \in Tailers, g \in Files : offsets[o][g] <= disk'[g]
      BY <3>3 DEF LogTypeOK
    <3> QED BY <3>1, <3>3, <3>4, <3>5
            DEF LogTypeOK, agentVars, linkVars, hubVars, pastVars
  <2> QED BY <2>1, <2>2, <2>3
<1>2. CASE Connect
  <2>1. watch \in [Ptys -> 0 .. links + 1]
    BY <1>0 DEF LogTypeOK
  <2> QED BY <1>0, <1>b, <1>2, <2>1
          DEF Connect, LogTypeOK, agentVars, fileVars, hubVars, pastVars
<1>3. CASE WriterStops
  <2>1. PICK n \in 0 .. Len(transit) :
          /\ transit' = SubSeq(transit, 1, n)
          /\ dropped' = dropped \cup ToSet(SubSeq(transit, n + 1, Len(transit)))
    BY <1>3 DEF WriterStops
  <2>2. transit \in Seq(Frames)
    BY DEF LogTypeOK
  <2>3. /\ transit' \in Seq(Frames)
        /\ ToSet(SubSeq(transit, n + 1, Len(transit))) \subseteq ToSet(transit)
    BY <2>1, <2>2, CountCut
  <2>4. Len(transit') <= Len(transit) /\ Len(transit) \in Nat
    BY <2>1, <2>2
  <2>5. dropped' \subseteq Frames /\ Len(transit') <= SEND_QUEUE
    <3>1. ToSet(transit) \subseteq Frames
      BY <2>2, MembersOf
    <3>2. Len(transit') \in Nat
      BY <2>3
    <3> QED BY <1>b, <2>1, <2>3, <2>4, <3>1, <3>2 DEF LogTypeOK
  <2> QED BY <1>3, <2>3, <2>5
          DEF WriterStops, LogTypeOK, agentVars, fileVars, hubVars
<1>4. CASE LinkEnds
  <2>1. ToSet(transit) \subseteq Frames
    BY MembersOf DEF LogTypeOK
  <2>2. <<>> \in Seq(Frames) /\ Len(<<>>) = 0
    OBVIOUS
  <2>3. /\ transit' \in Seq(Frames) /\ Len(transit') <= SEND_QUEUE
        /\ dropped' \subseteq Frames
    BY <1>b, <1>4, <2>1, <2>2 DEF LinkEnds, CutLink, LogTypeOK
  <2> QED BY <1>4, <2>3
          DEF LinkEnds, CutLink, LogTypeOK, agentVars, fileVars, hubVars
<1>5. CASE Receive
  <2>1. /\ transit # <<>> /\ transit' = Tail(transit)
        /\ inserts' = [inserts EXCEPT ![Head(transit)] = @ + 1]
    BY <1>5 DEF Receive
  <2>2. Head(transit) \in Frames /\ transit' \in Seq(Frames)
    BY <2>1, MembersOf DEF LogTypeOK
  <2>3. inserts' \in [Frames -> Nat]
    BY <2>1, <2>2 DEF LogTypeOK
  <2>4. Len(transit') <= SEND_QUEUE
    <3>1. transit \in Seq(Frames) /\ Len(transit) <= SEND_QUEUE
      BY DEF LogTypeOK
    <3>2. Len(transit') = Len(transit) - 1 /\ Len(transit) \in Nat
      BY <2>1, <3>1
    <3> QED BY <1>b, <3>1, <3>2
  <2> QED BY <1>5, <2>2, <2>3, <2>4
          DEF Receive, LogTypeOK, agentVars, fileVars, pastVars
<1>6. CASE \E s \in Ptys : StartWatch(s) \/ DropHandle(s) \/ StopWatch(s)
  <2>1. PICK s \in Ptys : StartWatch(s) \/ DropHandle(s) \/ StopWatch(s)
    BY <1>6
  <2>2. CASE StartWatch(s)
    BY <1>0, <2>2 DEF StartWatch, LogTypeOK, fileVars, linkVars, hubVars, pastVars
  <2>3. CASE DropHandle(s)
    BY <2>3 DEF DropHandle, LogTypeOK, fileVars, linkVars, hubVars, pastVars
  <2>4. CASE StopWatch(s)
    BY <1>0, <2>4 DEF StopWatch, LogTypeOK, fileVars, linkVars, hubVars, pastVars
  <2> QED BY <2>1, <2>2, <2>3, <2>4
<1>7. CASE \E o \in Tailers : Tailing(o)
  <2>1. PICK o \in Tailers : Tailing(o)
    BY <1>7
  <2>2. CASE ReadFile(o)
    <3>1. PICK f \in Grown(o) : sweep' = [sweep EXCEPT ![o] =
            [at |-> "file", tx |-> Sender(o), file |-> f, batch |-> Batch(o, f),
             last |-> CompleteLines(f), sent |-> FALSE]]
      BY <2>2 DEF ReadFile
    <3>2. f \in Files /\ disk[f] \in Nat /\ offsets[o][f] \in Nat
      BY DEF Grown, LogTypeOK
    <3>3. Sender(o) \in Nat
      BY <1>0 DEF Sender, LogTypeOK, Tailers
    <3>4. Batch(o, f) \in SUBSET Nat
      BY <3>2 DEF Batch, CompleteLines
    <3>5. sweep' \in [Tailers -> {Resting} \cup Reading]
      BY <3>1, <3>2, <3>3, <3>4 DEF LogTypeOK, Reading, CompleteLines
    <3> QED BY <2>2, <3>5
            DEF ReadFile, LogTypeOK, fileVars, linkVars, hubVars, pastVars
  <2>3. CASE SendLine(o)
    <3>1. /\ AtLine(o) /\ Len(transit) < SEND_QUEUE
          /\ transit' = Append(transit, <<o, sweep[o].file, NextLine(o)>>)
          /\ sweep' = [sweep EXCEPT ![o].batch = @ \ {NextLine(o)}, ![o].sent = TRUE]
      BY <2>3 DEF SendLine
    <3>2. transit \in Seq(Frames) /\ <<o, sweep[o].file, NextLine(o)>> \in Frames
          /\ sweep[o] \in Reading
      BY <3>1, NextFrame DEF LogTypeOK
    <3>3. transit' \in Seq(Frames) /\ Len(transit') <= SEND_QUEUE
      BY <1>b, <3>1, <3>2
    <3>4. sweep' \in [Tailers -> {Resting} \cup Reading]
      BY <3>1, <3>2 DEF LogTypeOK, Reading
    <3> QED BY <2>3, <3>3, <3>4
            DEF SendLine, LogTypeOK, fileVars, hubVars, pastVars
  <2>4. CASE SendFails(o)
    <3>1. sweep[o].file \in Files
      BY <2>4, ReadingFile DEF SendFails, AtLine
    <3>2. /\ sweep' = [sweep EXCEPT ![o] = Resting]
          /\ again' = again \/ again' = [again EXCEPT ![sweep[o].file] = @ + 1]
          /\ UNCHANGED <<fileVars, agentUp, offsets, watch, told, linkVars,
                         hubVars, losses, dropped>>
      BY <2>4 DEF SendFails
    <3>3. sweep' \in [Tailers -> {Resting} \cup Reading]
      BY <3>2 DEF LogTypeOK
    <3>4. again' \in [Files -> Nat]
      <4>1. again \in [Files -> Nat]
        BY DEF LogTypeOK
      <4>2. [again EXCEPT ![sweep[o].file] = @ + 1] \in [Files -> Nat]
        BY <3>1, <4>1
      <4> QED BY <3>2, <4>1, <4>2
    <3> QED BY <3>2, <3>3, <3>4
            DEF LogTypeOK, fileVars, linkVars, hubVars
  <2>5. CASE FileDone(o)
    <3>1. /\ sweep[o].file \in Files /\ sweep[o].last \in Nat
          /\ sweep[o].last <= disk[sweep[o].file]
      BY <2>5, ReadingFile DEF FileDone, SweepInv, SweepOk, Reading
    <3>2. /\ offsets' = [offsets EXCEPT ![o][sweep[o].file] = sweep[o].last]
          /\ sweep' = [sweep EXCEPT ![o] = Resting] /\ disk' = disk
      BY <2>5 DEF FileDone, fileVars
    <3>3. /\ offsets' \in [Tailers -> [Files -> Nat]]
          /\ \A p \in Tailers, f \in Files : offsets'[p][f] <= disk[f]
      BY <3>1, <3>2 DEF LogTypeOK
    <3> QED BY <2>5, <3>2, <3>3
            DEF FileDone, LogTypeOK, fileVars, linkVars, hubVars, pastVars
  <2> QED BY <2>1, <2>2, <2>3, <2>4, <2>5 DEF Tailing
<1>8. CASE \E x \in Frames : Insert(x) \/ InsertFails(x)
  <2>1. PICK x \in Frames : Insert(x) \/ InsertFails(x)
    BY <1>8
  <2>2. inserts[x] \in Nat /\ stored[x] \in Nat
    BY DEF LogTypeOK
  <2>3. CASE Insert(x)
    <3>1. /\ Inserted(x)
          /\ stored' = stored \/ stored' = [stored EXCEPT ![x] = @ + 1]
      BY <2>3 DEF Insert, InsertInteraction, InsertMessage
    <3>2. inserts' \in [Frames -> Nat]
      <4>1. inserts' = [inserts EXCEPT ![x] = @ - 1] /\ inserts[x] > 0
        BY <3>1 DEF Inserted
      <4> QED BY <2>2, <4>1 DEF LogTypeOK
    <3>3. stored' \in [Frames -> Nat]
      <4>1. stored \in [Frames -> Nat]
        BY DEF LogTypeOK
      <4>2. [stored EXCEPT ![x] = @ + 1] \in [Frames -> Nat]
        BY <2>2, <4>1
      <4> QED BY <3>1, <4>1, <4>2
    <3> QED BY <3>1, <3>2, <3>3
            DEF Inserted, LogTypeOK, agentVars, fileVars, linkVars, pastVars
  <2>4. CASE InsertFails(x)
    <3>1. inserts' \in [Frames -> Nat] /\ losses' \in 0 .. MaxLosses
      BY <1>b, <2>2, <2>4 DEF InsertFails, LogTypeOK
    <3> QED BY <2>1, <2>4, <3>1
            DEF InsertFails, LogTypeOK, agentVars, fileVars, linkVars
  <2> QED BY <2>1, <2>3, <2>4
<1>9. CASE HubStops \/ AgentStops
  <2>1. ToSet(transit) \subseteq Frames
    BY MembersOf DEF LogTypeOK
  <2>2. <<>> \in Seq(Frames) /\ Len(<<>>) = 0
    OBVIOUS
  <2>3. losses' \in 0 .. MaxLosses
    BY <1>b, <1>9 DEF HubStops, AgentStops, LogTypeOK
  <2>6. transit' \in Seq(Frames) /\ Len(transit') <= SEND_QUEUE
    <3>1. transit' = <<>>
      BY <1>9 DEF HubStops, AgentStops, CutLink
    <3> QED BY <1>b, <2>2, <3>1
  <2>7. dropped' \subseteq Frames
    BY <1>9, <2>1 DEF HubStops, AgentStops, CutLink, LogTypeOK
  <2>4. CASE HubStops
    BY <2>3, <2>4, <2>6, <2>7
    DEF HubStops, CutLink, LogTypeOK, agentVars, fileVars
  <2>5. CASE AgentStops
    <3>1. /\ offsets' \in [Tailers -> [Files -> Nat]]
          /\ \A p \in Tailers, f \in Files : offsets'[p][f] = 0
      BY <2>5 DEF AgentStops, Unread
    <3>2. again' \in [Files -> Nat]
      BY <2>5 DEF AgentStops, LogTypeOK
    <3>3. watch' \in [Ptys -> 0 .. links'] /\ told' \subseteq Ptys
      BY <1>0, <2>5 DEF AgentStops, LogTypeOK
    <3>4. \A p \in Tailers, f \in Files : offsets'[p][f] <= disk[f]
      BY <3>1 DEF LogTypeOK
    <3>5. sweep' \in [Tailers -> {Resting} \cup Reading]
      BY <2>5 DEF AgentStops
    <3>6. /\ disk' = disk /\ partial' = partial /\ clipped' = clipped /\ links' = links
          /\ hubUp' = hubUp /\ inserts' = inserts /\ stored' = stored
          /\ agentUp' = FALSE /\ slot' = 0 /\ open' = FALSE
      BY <2>5 DEF AgentStops, fileVars, hubVars
    <3> QED BY <2>3, <2>6, <2>7, <3>1, <3>2, <3>3, <3>4, <3>5, <3>6
            DEF LogTypeOK
  <2> QED BY <1>9, <2>4, <2>5
<1>10. CASE HubStarts
  BY <1>10 DEF HubStarts, LogTypeOK, agentVars, fileVars, linkVars, pastVars
<1>11. CASE AgentStarts
  BY <1>11 DEF AgentStarts, LogTypeOK, hubVars, fileVars, linkVars
<1> QED BY <1>1, <1>2, <1>3, <1>4, <1>5, <1>6, <1>7, <1>8, <1>9, <1>10, <1>11
        DEF LogNext

-----------------------------------------------------------------------------
(* What a step does to the frames that are on their way                    *)

LEMMA CopiesOf ==
  ASSUME LogTypeOK, NEW x \in Frames
  PROVE  /\ stored[x] \in Nat /\ inserts[x] \in Nat
         /\ Cardinality(Among(x, transit)) \in Nat
         /\ Copies(x) = stored[x] + inserts[x] + Cardinality(Among(x, transit))
<1>1. stored[x] \in Nat /\ inserts[x] \in Nat /\ transit \in Seq(Frames)
  BY DEF LogTypeOK
<1>2. Cardinality(Among(x, transit)) \in Nat
  BY <1>1, CountType
<1> QED BY <1>1, <1>2 DEF Copies, Among

LEMMA CopiesNext ==
  ASSUME LogTypeOK', NEW x \in Frames
  PROVE  /\ stored'[x] \in Nat /\ inserts'[x] \in Nat
         /\ Cardinality(Among(x, transit')) \in Nat
         /\ Copies(x)' = stored'[x] + inserts'[x] + Cardinality(Among(x, transit'))
<1>1. stored'[x] \in Nat /\ inserts'[x] \in Nat /\ transit' \in Seq(Frames)
  BY DEF LogTypeOK
<1>2. Cardinality(Among(x, transit')) \in Nat
  BY <1>1, CountType
<1> QED BY <1>1, <1>2 DEF Copies, Among

\* Links and processes that end lose frames; they copy none.
LEMMA CutLoses ==
  ASSUME LogTypeOK, LogTypeOK', NEW lost, CutLink(lost), NEW x \in Frames,
         stored' = stored,
         inserts' = inserts \/ (inserts' = [y \in Frames |-> 0]
                                /\ lost = {y \in Frames : inserts[y] > 0})
  PROVE  Copies(x)' <= Copies(x) /\ (OnItsWay(x) => OnItsWay(x)')
<1>1. transit' = <<>> /\ dropped' = dropped \cup ToSet(transit) \cup lost
  BY DEF CutLink
<1>2. Cardinality(Among(x, transit')) = 0
  BY <1>1, CountEmpty
<1>3. inserts'[x] = inserts[x] \/ (inserts'[x] = 0 /\ (inserts[x] > 0 => x \in lost))
  OBVIOUS
<1>4. Copies(x)' <= Copies(x)
  BY <1>2, <1>3, CopiesOf, CopiesNext
<1>5. OnItsWay(x) => OnItsWay(x)'
  BY <1>1, <1>3, CopiesOf DEF OnItsWay
<1> QED BY <1>4, <1>5

\* Nothing but a send makes a copy; nothing but a start of the agent forgets
\* what was lost; and the index keeps a prompt with a parent to one row.
LEMMA Moves ==
  ASSUME LogTypeOK, LogTypeOK', LogNext, \A o \in Tailers : ~ SendLine(o),
         NEW x \in Frames
  PROVE  /\ Copies(x)' <= Copies(x)
         /\ AgentStarts \/ (OnItsWay(x) => OnItsWay(x)')
         /\ Unique(x) /\ stored[x] <= 1 => stored'[x] <= 1
<1>t. transit \in Seq(Frames)
  BY DEF LogTypeOK
<1>0. CASE UNCHANGED <<transit, inserts, stored, dropped>>
  <2>1. Copies(x)' = Copies(x) /\ OnItsWay(x)' = OnItsWay(x)
    BY <1>0, CopiesOf, CopiesNext DEF OnItsWay
  <2> QED BY <1>0, <2>1, CopiesOf
<1>1. CASE WriterStops
  <2>1. PICK n \in 0 .. Len(transit) :
          /\ transit' = SubSeq(transit, 1, n)
          /\ dropped' = dropped \cup ToSet(SubSeq(transit, n + 1, Len(transit)))
    BY <1>1 DEF WriterStops
  <2>2. stored' = stored /\ inserts' = inserts
    BY <1>1 DEF WriterStops, hubVars
  <2>3. /\ Cardinality(Among(x, transit')) <= Cardinality(Among(x, transit))
        /\ ToSet(transit) = ToSet(transit') \cup ToSet(SubSeq(transit, n + 1, Len(transit)))
    BY <1>t, <2>1, CountCut
  <2>4. Copies(x)' <= Copies(x)
    BY <2>2, <2>3, CopiesOf, CopiesNext
  <2>5. OnItsWay(x) => OnItsWay(x)'
    BY <2>1, <2>2, <2>3 DEF OnItsWay
  <2> QED BY <2>2, <2>4, <2>5
<1>2. CASE LinkEnds
  <2>1. CutLink({}) /\ stored' = stored /\ inserts' = inserts
    BY <1>2 DEF LinkEnds, hubVars
  <2> QED BY <2>1, CutLoses
<1>3. CASE HubStops
  <2>1. /\ CutLink({y \in Frames : inserts[y] > 0})
        /\ stored' = stored /\ inserts' = [y \in Frames |-> 0]
    BY <1>3 DEF HubStops
  <2> QED BY <2>1, CutLoses
<1>4. CASE AgentStops
  <2>1. CutLink({}) /\ stored' = stored /\ inserts' = inserts
    BY <1>4 DEF AgentStops, CutLink, hubVars
  <2> QED BY <2>1, CutLoses
<1>5. CASE Receive
  <2>1. /\ transit # <<>> /\ transit' = Tail(transit)
        /\ inserts' = [inserts EXCEPT ![Head(transit)] = @ + 1]
        /\ stored' = stored /\ dropped' = dropped
    BY <1>5 DEF Receive, pastVars
  <2>2. /\ Head(transit) \in Frames
        /\ ToSet(transit) = ToSet(transit') \cup {Head(transit)}
    BY <1>t, <2>1, MembersOf
  <2>3. Cardinality(Among(x, transit)) =
          Cardinality(Among(x, transit')) + IF x = Head(transit) THEN 1 ELSE 0
    BY <1>t, <2>1, CountTaken
  <2>4. inserts'[x] = inserts[x] + IF x = Head(transit) THEN 1 ELSE 0
    <3>1. inserts \in [Frames -> Nat]
      BY DEF LogTypeOK
    <3> QED BY <2>1, <2>2, <3>1
  <2>c. /\ stored[x] \in Nat /\ inserts[x] \in Nat
        /\ Cardinality(Among(x, transit')) \in Nat
        /\ Copies(x) = stored[x] + inserts[x] + Cardinality(Among(x, transit))
        /\ Copies(x)' = stored'[x] + inserts'[x] + Cardinality(Among(x, transit'))
    BY CopiesOf, CopiesNext
  <2>5. Copies(x)' = Copies(x)
    <3>1. CASE x = Head(transit)
      <4>1. /\ Cardinality(Among(x, transit)) = Cardinality(Among(x, transit')) + 1
            /\ inserts'[x] = inserts[x] + 1 /\ stored'[x] = stored[x]
        BY <2>1, <2>3, <2>4, <3>1
      <4> QED BY <4>1, <2>c
    <3>2. CASE x # Head(transit)
      <4>1. /\ Cardinality(Among(x, transit)) = Cardinality(Among(x, transit')) + 0
            /\ inserts'[x] = inserts[x] + 0 /\ stored'[x] = stored[x]
        BY <2>1, <2>3, <2>4, <3>2
      <4> QED BY <4>1, <2>c
    <3> QED BY <3>1, <3>2
  <2>6. OnItsWay(x) => OnItsWay(x)'
    BY <2>1, <2>2, <2>4, CopiesOf DEF OnItsWay
  <2> QED BY <2>1, <2>5, <2>6, CopiesOf
<1>6. CASE \E y \in Frames : Insert(y) \/ InsertFails(y)
  <2>1. PICK y \in Frames : Insert(y) \/ InsertFails(y)
    BY <1>6
  <2>t. /\ inserts \in [Frames -> Nat] /\ stored \in [Frames -> Nat]
        /\ inserts[y] \in Nat /\ stored[y] \in Nat
    BY DEF LogTypeOK
  <2>2. /\ inserts[y] > 0 /\ inserts' = [inserts EXCEPT ![y] = @ - 1]
        /\ transit' = transit
    BY <2>1 DEF Insert, InsertInteraction, InsertMessage, Inserted, InsertFails,
       linkVars
  <2>3. inserts'[x] = inserts[x] - IF x = y THEN 1 ELSE 0
    BY <2>t, <2>2
  <2>4. CASE InsertFails(y)
    <3>1. stored' = stored /\ dropped' = dropped \cup {y}
      BY <2>4 DEF InsertFails
    <3>2. Copies(x)' <= Copies(x)
      BY <2>2, <2>3, <3>1, CopiesOf, CopiesNext
    <3>3. OnItsWay(x) => OnItsWay(x)'
      BY <2>2, <2>3, <3>1, CopiesOf DEF OnItsWay
    <3> QED BY <3>1, <3>2, <3>3
  <2>5. CASE Insert(y)
    <3>1. /\ dropped' = dropped
          /\ \/ stored' = stored /\ stored[y] > 0
             \/ /\ stored' = [stored EXCEPT ![y] = @ + 1]
                /\ ~ (Unique(y) /\ stored[y] > 0)
      BY <2>5, <2>t DEF Insert, InsertInteraction, InsertMessage, Inserted, pastVars,
         Unique
    <3>2. /\ stored'[x] >= stored[x]
          /\ stored'[x] <= stored[x] + IF x = y THEN 1 ELSE 0
          /\ stored'[y] > 0
      BY <2>t, <3>1
    <3>3. Copies(x)' <= Copies(x)
      BY <2>2, <2>3, <3>2, CopiesOf, CopiesNext
    <3>4. OnItsWay(x) => OnItsWay(x)'
      BY <2>2, <2>3, <3>1, <3>2, CopiesOf, CopiesNext DEF OnItsWay
    <3>5. Unique(x) /\ stored[x] <= 1 => stored'[x] <= 1
      BY <2>t, <3>1, <3>2, CopiesOf
    <3> QED BY <3>3, <3>4, <3>5
  <2> QED BY <2>1, <2>4, <2>5
<1>7. CASE AgentStarts
  <2>1. UNCHANGED <<transit, inserts, stored>>
    BY <1>7 DEF AgentStarts, linkVars, hubVars
  <2>2. Copies(x)' = Copies(x)
    BY <2>1, CopiesOf, CopiesNext
  <2> QED BY <1>7, <2>1, <2>2, CopiesOf
<1>8. CASE \/ \E f \in Files : WriteHalf(f) \/ WriteMore(f) \/ WriteRest(f)
           \/ Connect \/ HubStarts
           \/ \E s \in Ptys : StartWatch(s) \/ DropHandle(s) \/ StopWatch(s)
  <2>1. UNCHANGED <<transit, inserts, stored, dropped>>
    BY <1>8 DEF WriteHalf, WriteMore, WriteRest, Connect, HubStarts, StartWatch, DropHandle,
       StopWatch, linkVars, hubVars, pastVars
  <2> QED BY <1>0, <2>1
<1>9. CASE \E o \in Tailers : ReadFile(o) \/ SendFails(o) \/ FileDone(o)
  <2>1. UNCHANGED <<transit, inserts, stored, dropped>>
    BY <1>9 DEF ReadFile, SendFails, FileDone, linkVars, hubVars, pastVars
  <2> QED BY <1>0, <2>1
<1>10. CASE \E o \in Tailers : Tailing(o)
  BY <1>9, <1>10 DEF Tailing
<1> QED BY <1>1, <1>2, <1>3, <1>4, <1>5, <1>6, <1>7, <1>8, <1>10 DEF LogNext

\* A send makes one copy of its frame.
LEMMA SendCopies ==
  ASSUME LogTypeOK, LogTypeOK', SweepInv, NEW o \in Tailers, SendLine(o),
         NEW x \in Frames
  PROVE  /\ stored' = stored
         /\ OnItsWay(x) => OnItsWay(x)'
         /\ x = <<o, sweep[o].file, NextLine(o)>> => OnItsWay(x)'
         /\ Copies(x) \in Nat
         /\ Copies(x)' = Copies(x)
              + IF x = <<o, sweep[o].file, NextLine(o)>> THEN 1 ELSE 0
<1> DEFINE y == <<o, sweep[o].file, NextLine(o)>>
<1>1. /\ AtLine(o) /\ transit' = Append(transit, y)
      /\ UNCHANGED <<inserts, stored, dropped>>
  BY DEF SendLine, hubVars, pastVars
<1>2. transit \in Seq(Frames) /\ y \in Frames
  BY <1>1, NextFrame DEF LogTypeOK
<1> HIDE DEF y
<1>3. Cardinality(Among(x, transit')) =
        Cardinality(Among(x, transit)) + IF x = y THEN 1 ELSE 0
  BY <1>1, <1>2, CountAppended
<1>4. ToSet(transit') = ToSet(transit) \cup {y}
  BY <1>1, <1>2, MembersOf
<1>5. Copies(x) \in Nat /\ Copies(x)' = Copies(x) + IF x = y THEN 1 ELSE 0
  BY <1>1, <1>3, CopiesOf, CopiesNext
<1>6. (OnItsWay(x) => OnItsWay(x)') /\ (x = y => OnItsWay(x)')
  BY <1>1, <1>4 DEF OnItsWay
<1> QED BY <1>1, <1>5, <1>6 DEF y
-----------------------------------------------------------------------------
(* Sweeps, watchers and what is passed                                     *)

\* Only a tailer, or the end of the agent, moves an offset or a sweep.
LEMMA OtherSteps ==
  ASSUME LogTypeOK, LogNext, \A o \in Tailers : ~ Tailing(o), ~ AgentStops
  PROVE  /\ UNCHANGED <<offsets, sweep>> /\ again' = again
         /\ AgentStarts \/ agentUp' = agentUp
         /\ \A f \in Files : disk'[f] >= disk[f]
<1>1. \A f \in Files : disk[f] \in Nat
  BY DEF LogTypeOK
<1>2. CASE \E f \in Files : WriteHalf(f) \/ WriteMore(f) \/ WriteRest(f)
  <2>1. PICK f \in Files : WriteHalf(f) \/ WriteMore(f) \/ WriteRest(f)
    BY <1>2
  <2>2. disk' = disk \/ disk' = [disk EXCEPT ![f] = @ + 1]
    BY <2>1 DEF WriteHalf, WriteMore, WriteRest
  <2>3. \A g \in Files : disk'[g] >= disk[g]
    <3>1. CASE disk' = disk
      BY <1>1, <3>1
    <3>2. CASE disk' = [disk EXCEPT ![f] = @ + 1]
      BY <1>1, <3>2 DEF LogTypeOK
    <3> QED BY <2>2, <3>1, <3>2
  <2> QED BY <2>1, <2>3 DEF WriteHalf, WriteMore, WriteRest, agentVars, pastVars
<1>3. CASE Connect \/ WriterStops \/ LinkEnds \/ Receive
  BY <1>1, <1>3 DEF Connect, WriterStops, LinkEnds, Receive, fileVars, agentVars,
     pastVars
<1>4. CASE \E s \in Ptys : StartWatch(s) \/ DropHandle(s) \/ StopWatch(s)
  BY <1>1, <1>4 DEF StartWatch, DropHandle, StopWatch, fileVars, pastVars
<1>5. CASE \E x \in Frames : Insert(x) \/ InsertFails(x)
  BY <1>1, <1>5 DEF Insert, InsertInteraction, InsertMessage, Inserted, InsertFails,
     fileVars, agentVars, pastVars
<1>6. CASE HubStops \/ HubStarts \/ AgentStarts
  BY <1>1, <1>6 DEF HubStops, HubStarts, AgentStarts, fileVars, agentVars, pastVars
<1> QED BY <1>2, <1>3, <1>4, <1>5, <1>6 DEF LogNext

\* A step of a tailer is its own, with the agent up.
LEMMA TailingSteps ==
  ASSUME LogTypeOK, MemoryInv, NEW o \in Tailers, Tailing(o)
  PROVE  /\ agentUp /\ agentUp' /\ disk' = disk /\ watch' = watch /\ told' = told
         /\ slot' = slot /\ open' = open /\ ~ AgentStarts
         /\ \A p \in Tailers \ {o} :
              sweep'[p] = sweep[p] /\ offsets'[p] = offsets[p]
<1>1. agentUp
  <2>1. sweep[o].at = "file" => sweep[o] # Resting
    BY DEF Resting
  <2> QED BY <2>1 DEF Tailing, ReadFile, SendLine, SendFails, FileDone, AtLine,
             MemoryInv
<1>2. /\ agentUp' = agentUp /\ disk' = disk /\ watch' = watch /\ told' = told
      /\ slot' = slot /\ open' = open
  BY DEF Tailing, ReadFile, SendLine, SendFails, FileDone, fileVars, linkVars
<1>3. \A p \in Tailers \ {o} :
        sweep'[p] = sweep[p] /\ offsets'[p] = offsets[p]
  BY DEF Tailing, ReadFile, SendLine, SendFails, FileDone, LogTypeOK
<1> QED BY <1>1, <1>2, <1>3 DEF AgentStarts

LEMMA SweepStep ==
  ASSUME LogTypeOK, LogTypeOK', SweepInv, MemoryInv, LogNext
  PROVE  SweepInv' /\ MemoryInv'
<1>1. CASE \E o \in Tailers : Tailing(o)
  <2>1. PICK o \in Tailers : Tailing(o)
    BY <1>1
  <2>2. MemoryInv'
    BY <2>1, TailingSteps DEF MemoryInv
  <2>3. ASSUME NEW p \in Tailers \ {o} PROVE SweepOk(p)'
    <3>1. /\ sweep'[p] = sweep[p] /\ offsets'[p] = offsets[p] /\ disk' = disk
          /\ SweepOk(p)
      BY <2>1, TailingSteps DEF SweepInv
    <3> QED BY <3>1 DEF SweepOk, Wanted
  <2>4. SweepOk(o)'
    <3>1. CASE ReadFile(o)
      <4>1. PICK f \in Grown(o) : sweep' = [sweep EXCEPT ![o] =
              [at |-> "file", tx |-> Sender(o), file |-> f, batch |-> Batch(o, f),
               last |-> CompleteLines(f), sent |-> FALSE]]
        BY <3>1 DEF ReadFile
      <4>2. /\ sweep'[o].file = f /\ sweep'[o].last = disk[f]
            /\ sweep'[o].batch = {n \in offsets[o][f] + 1 .. disk[f] : Wanted(o, f, n)}
        BY <4>1 DEF LogTypeOK, Batch, CompleteLines
      <4>3. /\ disk' = disk /\ offsets' = offsets /\ f \in Files
            /\ disk[f] \in Nat /\ offsets[o][f] <= disk[f]
        BY <3>1 DEF ReadFile, fileVars, LogTypeOK, Grown
      <4> QED BY <4>2, <4>3 DEF SweepOk, Wanted
    <3>2. CASE SendLine(o)
      <4>1. /\ AtLine(o) /\ disk' = disk /\ offsets' = offsets
            /\ sweep' = [sweep EXCEPT ![o].batch = @ \ {NextLine(o)}, ![o].sent = TRUE]
        BY <3>2 DEF SendLine, fileVars
      <4>2. sweep[o] \in Reading
        BY <4>1, ReadingFile DEF AtLine
      <4>3. /\ sweep'[o].file = sweep[o].file /\ sweep'[o].last = sweep[o].last
            /\ sweep'[o].batch \subseteq sweep[o].batch /\ sweep'[o].sent
        BY <4>1, <4>2 DEF LogTypeOK, Reading
      <4>4. sweep[o].at = "file"
        BY <4>1 DEF AtLine
      <4> QED BY <4>1, <4>3, <4>4 DEF SweepInv, SweepOk, Wanted
    <3>3. CASE SendFails(o) \/ FileDone(o)
      <4>1. sweep'[o] = Resting
        BY <3>3 DEF SendFails, FileDone, LogTypeOK
      <4> QED BY <4>1 DEF SweepOk, Resting
    <3> QED BY <2>1, <3>1, <3>2, <3>3 DEF Tailing
  <2> QED BY <2>2, <2>3, <2>4 DEF SweepInv
<1>2. CASE AgentStops
  <2>1. \A p \in Tailers : offsets'[p] = Unread /\ sweep'[p] = Resting
    BY <1>2 DEF AgentStops
  <2>2. SweepInv'
    BY <2>1 DEF SweepInv, SweepOk, Resting
  <2> QED BY <2>1, <2>2 DEF MemoryInv, Resting, Unread
<1>3. CASE ~ AgentStops /\ \A o \in Tailers : ~ Tailing(o)
  <2>1. /\ offsets' = offsets /\ sweep' = sweep
        /\ AgentStarts \/ agentUp' = agentUp
        /\ \A f \in Files : disk'[f] >= disk[f]
    BY <1>3, OtherSteps
  <2>2. MemoryInv'
    <3>1. CASE AgentStarts
      BY <3>1 DEF MemoryInv, AgentStarts
    <3>2. CASE agentUp' = agentUp
      BY <2>1, <3>2 DEF MemoryInv, Unread, Resting
    <3> QED BY <2>1, <3>1, <3>2
  <2>3. ASSUME NEW o \in Tailers PROVE SweepOk(o)'
    <3>1. CASE sweep[o].at = "file"
      <4>1. sweep[o] \in Reading /\ sweep[o].file \in Files
        BY <3>1, ReadingFile
      <4>2. /\ disk[sweep[o].file] \in Nat /\ disk'[sweep[o].file] \in Nat
            /\ sweep[o].last \in Nat
        BY <4>1 DEF LogTypeOK, Reading
      <4>3. sweep[o].last <= disk[sweep[o].file]
        BY <3>1 DEF SweepInv, SweepOk
      <4>4. sweep[o].last <= disk'[sweep[o].file]
        BY <2>1, <4>1, <4>2, <4>3
      <4> QED BY <2>1, <4>4 DEF SweepInv, SweepOk, Wanted
    <3>2. CASE sweep[o].at # "file"
      BY <2>1, <3>2 DEF SweepOk
    <3> QED BY <3>1, <3>2
  <2> QED BY <2>2, <2>3 DEF SweepInv
<1> QED BY <1>1, <1>2, <1>3

\* A session whose watcher's link is gone, or that has no watcher any more,
\* ships nothing ever again: a connection has a sender of its own.
LEMMA OverStays ==
  ASSUME LogTypeOK, LogNext, NEW s \in Ptys, Over(s)
  PROVE  Over(s)'
<1>t. /\ watch[s] \in 0 .. links /\ links \in Nat /\ slot \in {0, links}
      /\ watch \in [Ptys -> 0 .. links]
  BY DEF LogTypeOK
<1>1. CASE UNCHANGED <<watch, told, slot, open>>
  BY <1>1 DEF Over, Receiving
<1>2. CASE Connect
  BY <1>t, <1>2 DEF Connect, Over, Receiving, agentVars
<1>3. CASE WriterStops \/ LinkEnds \/ HubStops
  BY <1>t, <1>3 DEF WriterStops, LinkEnds, HubStops, CutLink, Over, Receiving,
     agentVars
<1>4. CASE \E q \in Ptys : StartWatch(q) \/ DropHandle(q) \/ StopWatch(q)
  <2>1. PICK q \in Ptys : StartWatch(q) \/ DropHandle(q) \/ StopWatch(q)
    BY <1>4
  <2>2. slot' = slot /\ open' = open
    BY <2>1 DEF StartWatch, DropHandle, StopWatch, linkVars
  <2>3. CASE StartWatch(q)
    BY <1>t, <2>2, <2>3 DEF StartWatch, Over, Receiving
  <2>4. CASE DropHandle(q)
    BY <1>t, <2>2, <2>4 DEF DropHandle, Over, Receiving
  <2>5. CASE StopWatch(q)
    BY <1>t, <2>2, <2>5 DEF StopWatch, Over, Receiving
  <2> QED BY <2>1, <2>3, <2>4, <2>5
<1>5. CASE AgentStops
  BY <1>t, <1>5 DEF AgentStops, Over
<1>6. CASE \/ \E f \in Files : WriteHalf(f) \/ WriteMore(f) \/ WriteRest(f)
           \/ \E x \in Frames : Insert(x) \/ InsertFails(x)
           \/ HubStarts \/ AgentStarts \/ Receive
  <2>1. UNCHANGED <<watch, told, slot, open>>
    BY <1>6 DEF WriteHalf, WriteMore, WriteRest, Insert, InsertInteraction, InsertMessage,
       Inserted, InsertFails, HubStarts, AgentStarts, Receive, agentVars, linkVars
  <2> QED BY <1>1, <2>1
<1>7. CASE \E o \in Tailers : Tailing(o)
  <2>1. UNCHANGED <<watch, told, slot, open>>
    BY <1>7 DEF Tailing, ReadFile, SendLine, SendFails, FileDone, linkVars
  <2> QED BY <1>1, <2>1
<1> QED BY <1>2, <1>3, <1>4, <1>5, <1>6, <1>7 DEF LogNext

LEMMA WatchStep ==
  ASSUME LogTypeOK, MemoryInv, WatchInv, LogNext
  PROVE  WatchInv'
<1> DEFINE Good(s) ==
      /\ sweep[s].at = "file" => watch[s] # 0 /\ sweep[s].tx = watch[s]
      /\ watch[s] = 0 /\ s \notin told =>
           offsets[s] = Unread /\ sweep[s] = Resting
<1>0. Ptys \subseteq Tailers /\ \A s \in Ptys : s # "audit"
  BY LogAssumption DEF Tailers
<1>t. Resting.at # "file"
  BY DEF Resting
<1>1. CASE \E o \in Tailers : Tailing(o)
  <2>1. PICK o \in Tailers : Tailing(o)
    BY <1>1
  <2>2. \A s \in Ptys \ {o} : Good(s)'
    BY <1>0, <2>1, TailingSteps DEF WatchInv, Unread
  <2>3. ASSUME o \in Ptys PROVE Good(o)'
    <3>1. watch' = watch /\ told' = told
      BY <2>1, TailingSteps
    <3>2. CASE ReadFile(o)
      <4>1. sweep'[o].tx = watch[o] /\ watch[o] # 0
        BY <1>0, <2>3, <3>2 DEF ReadFile, Sender, LogTypeOK
      <4> QED BY <3>1, <4>1
    <3>3. CASE SendLine(o)
      <4>1. sweep[o].at = "file" /\ sweep[o] \in Reading
        BY <3>3, ReadingFile DEF SendLine, AtLine
      <4>2. sweep'[o].tx = sweep[o].tx
        BY <3>3, <4>1 DEF SendLine, LogTypeOK, Reading
      <4> QED BY <2>3, <3>1, <4>1, <4>2 DEF WatchInv
    <3>4. CASE SendFails(o) \/ FileDone(o)
      <4>1. sweep[o].at = "file" /\ sweep'[o] = Resting
        BY <3>4 DEF SendFails, FileDone, AtLine, LogTypeOK
      <4> QED BY <1>t, <2>3, <3>1, <4>1 DEF WatchInv
    <3> QED BY <2>1, <3>2, <3>3, <3>4 DEF Tailing
  <2>4. \A s \in Ptys : Good(s)'
    <3> HIDE DEF Good
    <3> QED BY <2>2, <2>3
  <2> QED BY <2>4 DEF WatchInv
<1>2. CASE AgentStops
  BY <1>0, <1>t, <1>2 DEF AgentStops, WatchInv, Unread
<1>3. CASE ~ AgentStops /\ \A o \in Tailers : ~ Tailing(o)
  <2>1. UNCHANGED <<offsets, sweep>>
    BY <1>3, OtherSteps
  <2>2. CASE \E q \in Ptys : StartWatch(q) \/ DropHandle(q) \/ StopWatch(q)
    <3>1. PICK q \in Ptys : StartWatch(q) \/ DropHandle(q) \/ StopWatch(q)
      BY <2>2
    <3>2. CASE StartWatch(q)
      BY <1>t, <2>1, <3>2 DEF StartWatch, WatchInv, LogTypeOK, Unread
    <3>3. CASE DropHandle(q)
      BY <2>1, <3>3 DEF DropHandle, WatchInv, Unread
    <3>4. CASE StopWatch(q)
      BY <1>t, <2>1, <3>4 DEF StopWatch, WatchInv, LogTypeOK, Unread
    <3> QED BY <3>1, <3>2, <3>3, <3>4
  <2>3. CASE ~ \E q \in Ptys : StartWatch(q) \/ DropHandle(q) \/ StopWatch(q)
    <3>1. watch' = watch /\ told' = told
      BY <1>3, <2>3 DEF LogNext, WriteHalf, WriteMore, WriteRest, Connect, WriterStops, LinkEnds,
         Receive, Insert, InsertInteraction, InsertMessage, Inserted, InsertFails,
         HubStops, HubStarts, AgentStarts, agentVars
    <3> QED BY <2>1, <3>1 DEF WatchInv, Unread
  <2> QED BY <2>2, <2>3
<1> QED BY <1>1, <1>2, <1>3
-----------------------------------------------------------------------------
(* No line is passed unless it is on its way, nor shipped twice            *)

\* What a tailer's step makes of the lines it has passed.
LEMMA PassedSteps ==
  ASSUME LogTypeOK, SweepInv, NEW o \in Tailers, NEW f \in Files,
         NEW n \in 1 .. Len(Log[f])
  PROVE  /\ ReadFile(o) => /\ Passed(o, f, n) => Passed(o, f, n)'
                           /\ Passed(o, f, n)' /\ Wanted(o, f, n) => Passed(o, f, n)
         /\ FileDone(o) => (Passed(o, f, n)' <=> Passed(o, f, n))
         /\ SendFails(o) =>
              /\ Passed(o, f, n)' => Passed(o, f, n)
              /\ Passed(o, f, n) /\ ~ Passed(o, f, n)' /\ ~ sweep[o].sent =>
                   ~ Wanted(o, f, n)
              /\ Passed(o, f, n) /\ ~ Passed(o, f, n)' => f = sweep[o].file
         /\ SendLine(o) =>
              IF f = sweep[o].file /\ n = NextLine(o)
              THEN ~ Passed(o, f, n) /\ Passed(o, f, n)'
              ELSE Passed(o, f, n)' <=> Passed(o, f, n)
<1>t. /\ offsets[o] \in [Files -> Nat] /\ offsets[o][f] \in Nat /\ n \in Nat
      /\ sweep \in [Tailers -> {Resting} \cup Reading]
  BY LogLengths DEF LogTypeOK
<1>r. Resting.at # "file"
  BY DEF Resting
<1>1. ASSUME ReadFile(o)
      PROVE  /\ Passed(o, f, n) => Passed(o, f, n)'
             /\ Passed(o, f, n)' /\ Wanted(o, f, n) => Passed(o, f, n)
  <2>1. PICK g \in Grown(o) : sweep' = [sweep EXCEPT ![o] =
          [at |-> "file", tx |-> Sender(o), file |-> g, batch |-> Batch(o, g),
           last |-> CompleteLines(g), sent |-> FALSE]]
    BY <1>1 DEF ReadFile
  <2>2. sweep[o] = Resting /\ offsets' = offsets
    BY <1>1 DEF ReadFile
  <2>3. /\ sweep'[o].file = g /\ sweep'[o].last = disk[g] /\ sweep'[o].at = "file"
        /\ sweep'[o].batch = {k \in offsets[o][g] + 1 .. disk[g] : Wanted(o, g, k)}
    BY <1>t, <2>1 DEF Batch, CompleteLines
  <2>4. Passed(o, f, n) <=> n <= offsets[o][f]
    BY <1>r, <2>2 DEF Passed
  <2>5. disk[g] \in Nat
    BY DEF LogTypeOK, Grown
  <2>6. ASSUME f = g, n <= disk[f], n \notin sweep'[o].batch, Wanted(o, f, n)
        PROVE  n <= offsets[o][f]
    BY <1>t, <2>3, <2>5, <2>6
  <2> QED BY <2>2, <2>3, <2>4, <2>6 DEF Passed
<1>2. ASSUME FileDone(o) PROVE Passed(o, f, n)' <=> Passed(o, f, n)
  <2>1. /\ sweep[o].at = "file" /\ sweep[o].batch = {}
        /\ offsets' = [offsets EXCEPT ![o][sweep[o].file] = sweep[o].last]
        /\ sweep' = [sweep EXCEPT ![o] = Resting]
    BY <1>2 DEF FileDone, AtLine
  <2>2. sweep[o] \in Reading /\ sweep[o].file \in Files /\ sweep[o].last \in Nat
    BY <2>1, ReadingFile DEF Reading
  <2>3. offsets[o][sweep[o].file] <= sweep[o].last
    BY <2>1 DEF SweepInv, SweepOk
  <2>4. sweep'[o] = Resting /\ offsets'[o] = [offsets[o] EXCEPT ![sweep[o].file] = sweep[o].last]
    BY <1>t, <2>1 DEF LogTypeOK
  <2>5. Passed(o, f, n)' <=> n <= offsets'[o][f]
    BY <1>r, <2>4 DEF Passed
  <2>6. CASE f = sweep[o].file
    <3>1. offsets'[o][f] = sweep[o].last
      BY <1>t, <2>4, <2>6
    <3>2. Passed(o, f, n) <=> n <= sweep[o].last
      BY <1>t, <2>1, <2>2, <2>3, <2>6 DEF Passed
    <3> QED BY <2>5, <3>1, <3>2
  <2>7. CASE f # sweep[o].file
    <3>1. offsets'[o][f] = offsets[o][f]
      BY <1>t, <2>4, <2>7
    <3> QED BY <2>5, <2>7, <3>1 DEF Passed
  <2> QED BY <2>6, <2>7
<1>3. ASSUME SendFails(o)
      PROVE  /\ Passed(o, f, n)' => Passed(o, f, n)
             /\ Passed(o, f, n) /\ ~ Passed(o, f, n)' /\ ~ sweep[o].sent =>
                  ~ Wanted(o, f, n)
             /\ Passed(o, f, n) /\ ~ Passed(o, f, n)' => f = sweep[o].file
  <2>1. /\ sweep[o].at = "file" /\ sweep'[o] = Resting /\ offsets' = offsets
    BY <1>3, <1>t DEF SendFails, AtLine
  <2>2. Passed(o, f, n)' <=> n <= offsets[o][f]
    BY <1>r, <2>1 DEF Passed
  <2>3. ASSUME Passed(o, f, n), ~ (n <= offsets[o][f])
        PROVE  f = sweep[o].file /\ n <= sweep[o].last /\ n \notin sweep[o].batch
    BY <2>3 DEF Passed
  <2>4. ASSUME Passed(o, f, n), ~ (n <= offsets[o][f]), ~ sweep[o].sent,
               Wanted(o, f, n)
        PROVE  FALSE
    <3>1. sweep[o].batch = {k \in offsets[o][f] + 1 .. sweep[o].last : Wanted(o, f, k)}
      BY <2>1, <2>3, <2>4 DEF SweepInv, SweepOk
    <3>2. sweep[o].last \in Nat
      BY <2>1, ReadingFile DEF Reading
    <3> QED BY <1>t, <2>3, <2>4, <3>1, <3>2
  <2> QED BY <2>2, <2>3, <2>4 DEF Passed
<1>4. ASSUME SendLine(o)
      PROVE  IF f = sweep[o].file /\ n = NextLine(o)
             THEN ~ Passed(o, f, n) /\ Passed(o, f, n)'
             ELSE Passed(o, f, n)' <=> Passed(o, f, n)
  <2>1. /\ AtLine(o) /\ sweep[o].at = "file" /\ offsets' = offsets
        /\ sweep' = [sweep EXCEPT ![o].batch = @ \ {NextLine(o)}, ![o].sent = TRUE]
    BY <1>4 DEF SendLine, AtLine
  <2>2. /\ sweep[o] \in Reading /\ NextLine(o) \in sweep[o].batch
        /\ NextLine(o) > offsets[o][sweep[o].file] /\ NextLine(o) <= sweep[o].last
    BY <2>1, NextFrame
  <2>3. /\ sweep'[o].file = sweep[o].file /\ sweep'[o].last = sweep[o].last
        /\ sweep'[o].batch = sweep[o].batch \ {NextLine(o)} /\ sweep'[o].at = "file"
    BY <1>t, <2>1, <2>2 DEF Reading
  <2> HIDE DEF NextLine
  <2> QED BY <1>t, <2>1, <2>2, <2>3 DEF Passed
<1> QED BY <1>1, <1>2, <1>3, <1>4

\* A step in which a tailer does something else sends nothing.
LEMMA OneSends ==
  ASSUME LogTypeOK, SweepInv, MemoryInv, NEW p \in Tailers, Tailing(p), ~ SendLine(p)
  PROVE  \A q \in Tailers : ~ SendLine(q)
<1>1. ASSUME NEW q \in Tailers, SendLine(q) PROVE FALSE
  <2>1. q # p
    BY <1>1
  <2>2. sweep'[q] = sweep[q]
    BY <2>1, TailingSteps
  <2>3. NextLine(q) \in sweep[q].batch /\ sweep[q] \in Reading
    BY <1>1, NextFrame DEF SendLine
  <2>4. sweep'[q].batch = sweep[q].batch \ {NextLine(q)}
    BY <1>1, <2>3 DEF SendLine, LogTypeOK, Reading
  <2> QED BY <2>2, <2>3, <2>4
<1> QED BY <1>1

LEMMA AccountStep ==
  ASSUME LogTypeOK, LogTypeOK', SweepInv, MemoryInv, AccountInv, LogNext
  PROVE  AccountInv'
<1>1. SUFFICES ASSUME NEW o \in Tailers, NEW f \in Files, NEW n \in 1 .. Len(Log[f]),
                      Wanted(o, f, n), Passed(o, f, n)'
               PROVE  OnItsWay(<<o, f, n>>)'
  BY DEF AccountInv, Wanted
<1> DEFINE x == <<o, f, n>>
<1>x. x \in Frames
  BY FrameOf
<1>o. Passed(o, f, n) => OnItsWay(x)
  BY <1>1 DEF AccountInv
<1>n. n \in Nat \ {0}
  BY LogLengths
<1>2. CASE \E p \in Tailers : Tailing(p)
  <2>1. PICK p \in Tailers : Tailing(p)
    BY <1>2
  <2>2. CASE SendLine(p)
    <3>1. CASE x = <<p, sweep[p].file, NextLine(p)>>
      BY <1>x, <2>2, <3>1, SendCopies
    <3>2. CASE p # o
      <4>1. Passed(o, f, n)
        BY <1>1, <2>1, <3>2, TailingSteps DEF Passed
      <4> QED BY <1>o, <1>x, <2>2, <4>1, SendCopies
    <3>3. CASE p = o /\ x # <<p, sweep[p].file, NextLine(p)>>
      <4>1. ~ (f = sweep[o].file /\ n = NextLine(o))
        BY <3>3
      <4>2. Passed(o, f, n)
        BY <1>1, <2>2, <3>3, <4>1, PassedSteps
      <4> QED BY <1>o, <1>x, <2>2, <4>2, SendCopies
    <3> QED BY <3>1, <3>2, <3>3
  <2>3. CASE ~ SendLine(p)
    <3>1. \A q \in Tailers : ~ SendLine(q)
      BY <2>1, <2>3, OneSends
    <3>2. Passed(o, f, n)
      <4>1. CASE p # o
        BY <1>1, <2>1, <4>1, TailingSteps DEF Passed
      <4>2. CASE p = o
        BY <1>1, <2>1, <2>3, <4>2, PassedSteps DEF Tailing
      <4> QED BY <4>1, <4>2
    <3>3. ~ AgentStarts
      BY <2>1, TailingSteps
    <3> QED BY <1>o, <1>x, <3>1, <3>2, <3>3, Moves
  <2> QED BY <2>2, <2>3
<1>3. CASE AgentStops
  <2>1. offsets'[o] = Unread /\ sweep'[o] = Resting
    BY <1>3 DEF AgentStops
  <2> QED BY <1>1, <1>n, <2>1 DEF Passed, Unread, Resting
<1>4. CASE ~ AgentStops /\ \A p \in Tailers : ~ Tailing(p)
  <2>1. offsets' = offsets /\ sweep' = sweep
    BY <1>4, OtherSteps
  <2>2. Passed(o, f, n)
    BY <1>1, <2>1 DEF Passed
  <2>3. CASE AgentStarts
    <3>1. offsets[o] = Unread /\ sweep[o] = Resting
      BY <2>3 DEF AgentStarts, MemoryInv
    <3> QED BY <1>n, <2>2, <3>1 DEF Passed, Unread, Resting
  <2>4. CASE ~ AgentStarts
    <3>1. \A p \in Tailers : ~ SendLine(p)
      BY <1>4 DEF Tailing
    <3> QED BY <1>o, <1>x, <2>2, <2>4, <3>1, Moves
  <2> QED BY <2>3, <2>4
<1> QED BY <1>2, <1>3, <1>4
LEMMA CopyStep ==
  ASSUME LogTypeOK, LogTypeOK', SweepInv, MemoryInv, WatchInv, CopyInv, LogNext
  PROVE  CopyInv'
<1> SUFFICES ASSUME NEW o \in Tailers, NEW f \in Files, NEW n \in 1 .. Len(Log[f])
             PROVE  LET x == <<o, f, n>> IN
                    /\ Unique(x) => stored'[x] <= 1
                    /\ ~ Wanted(o, f, n) => Copies(x)' = 0
                    /\ o # "audit" =>
                         /\ Copies(x)' <= 1
                         /\ ~ Passed(o, f, n)' /\ ~ Over(o)' => Copies(x)' = 0
                    /\ o = "audit" =>
                         /\ Copies(x)' <= 1 + again'[f]
                         /\ ~ Passed(o, f, n)' => Copies(x)' <= again'[f]
  BY DEF CopyInv, CopyOk, Wanted, Unique
<1> DEFINE x == <<o, f, n>>
<1>x. x \in Frames
  BY FrameOf
<1>t. Copies(x) \in Nat /\ Copies(x)' \in Nat /\ again[f] \in Nat
  <2>1. again[f] \in Nat
    BY DEF LogTypeOK
  <2> HIDE DEF x
  <2>2. Copies(x) \in Nat
    BY <1>x, CopiesOf
  <2>3. Copies(x)' \in Nat
    BY <1>x, CopiesNext
  <2> QED BY <2>1, <2>2, <2>3
<1>s. o # "audit" => o \in Ptys
  BY DEF Tailers
<1>n. n \in Nat \ {0}
  BY LogLengths
<1>c. /\ Unique(x) => stored[x] <= 1
      /\ ~ Wanted(o, f, n) => Copies(x) = 0
      /\ o # "audit" =>
           /\ Copies(x) <= 1
           /\ ~ Passed(o, f, n) /\ ~ Over(o) => Copies(x) = 0
      /\ o = "audit" =>
           /\ Copies(x) <= 1 + again[f]
           /\ ~ Passed(o, f, n) => Copies(x) <= again[f]
  BY DEF CopyInv, CopyOk
<1>v. o # "audit" /\ ~ Over(o)' => ~ Over(o)
  BY <1>s, OverStays
<1> HIDE DEF x
<1>1. CASE \E p \in Tailers : SendLine(p)
  <2>1. PICK p \in Tailers : SendLine(p)
    BY <1>1
  <2>2. Tailing(p) /\ again' = again
    BY <2>1 DEF Tailing, SendLine, pastVars
  <2>3. stored' = stored /\ (x = <<p, sweep[p].file, NextLine(p)>> \/ Copies(x)' = Copies(x))
    BY <1>x, <1>t, <2>1, SendCopies
  <2>4. CASE x = <<p, sweep[p].file, NextLine(p)>>
    <3>1. p = o /\ f = sweep[o].file /\ n = NextLine(o)
      BY <2>4 DEF x
    <3>2. ~ Passed(o, f, n) /\ Passed(o, f, n)'
      BY <2>1, <3>1, PassedSteps
    <3>3. Copies(x)' = Copies(x) + 1
      BY <1>x, <2>1, <2>4, SendCopies
    <3>4. Wanted(o, f, n) /\ Receiving(sweep[o].tx) /\ sweep[o].at = "file"
      BY <2>1, <3>1, NextFrame DEF SendLine, AtLine
    <3>5. o # "audit" => ~ Over(o)
      BY <1>s, <3>4 DEF WatchInv, Over
    <3> QED BY <1>c, <1>t, <2>2, <2>3, <3>2, <3>3, <3>4, <3>5 DEF x
  <2>5. CASE x # <<p, sweep[p].file, NextLine(p)>>
    <3>1. Passed(o, f, n) => Passed(o, f, n)'
      <4>1. CASE p # o
        BY <2>2, <4>1, TailingSteps DEF Passed
      <4>2. CASE p = o
        <5>1. ~ (f = sweep[o].file /\ n = NextLine(o))
          BY <2>5, <4>2 DEF x
        <5> QED BY <2>1, <4>2, <5>1, PassedSteps
      <4> QED BY <4>1, <4>2
    <3> QED BY <1>c, <1>v, <2>2, <2>3, <2>5, <3>1 DEF x
  <2> QED BY <2>4, <2>5
<1>2. CASE \A p \in Tailers : ~ SendLine(p)
  <2>m. Copies(x)' <= Copies(x) /\ (Unique(x) /\ stored[x] <= 1 => stored'[x] <= 1)
    BY <1>x, <1>2, Moves
  <2>w. /\ Unique(x) => stored'[x] <= 1
        /\ ~ Wanted(o, f, n) => Copies(x)' = 0
        /\ o # "audit" => Copies(x)' <= 1
    BY <1>c, <1>t, <2>m
  <2>1. CASE \E p \in Tailers : Tailing(p)
    <3>1. PICK p \in Tailers : Tailing(p)
      BY <2>1
    <3>2. ~ SendLine(p)
      BY <1>2
    <3>3. again'[f] >= again[f]
      <4>1. again' = again \/ again' = [again EXCEPT ![sweep[p].file] = @ + 1]
        BY <3>1, <3>2 DEF Tailing, ReadFile, SendFails, FileDone, pastVars
      <4>2. CASE again' = again
        BY <1>t, <4>2
      <4>3. CASE again' = [again EXCEPT ![sweep[p].file] = @ + 1]
        <5>1. again'[f] = again[f] \/ again'[f] = again[f] + 1
          BY <4>3 DEF LogTypeOK
        <5> QED BY <1>t, <5>1
      <4> QED BY <4>1, <4>2, <4>3
    <3>t. again'[f] \in Nat
      BY DEF LogTypeOK
    <3>4. CASE Passed(o, f, n) => Passed(o, f, n)'
      BY <1>c, <1>t, <1>v, <2>m, <2>w, <3>3, <3>t, <3>4 DEF x
    <3>5. CASE Passed(o, f, n) /\ ~ Passed(o, f, n)'
      <4>1. p = o
        BY <3>1, <3>5, TailingSteps DEF Passed
      <4>2. SendFails(o)
        BY <3>1, <3>2, <3>5, <4>1, PassedSteps DEF Tailing
      <4>3. CASE o # "audit"
        <5>1. Over(o)
          <6>1. /\ sweep[o].at = "file" /\ ~ Receiving(sweep[o].tx)
            BY <4>2 DEF SendFails, AtLine
          <6> QED BY <1>s, <4>3, <6>1 DEF WatchInv, Over
        <5> QED BY <1>v, <2>w, <4>3, <5>1 DEF x
      <4>4. CASE o = "audit" /\ sweep[o].sent
        <5>1. f = sweep[o].file
          BY <3>5, <4>2, PassedSteps
        <5>2. again' = [again EXCEPT ![f] = @ + 1]
          BY <4>2, <4>4, <5>1 DEF SendFails
        <5>3. again'[f] = again[f] + 1
          BY <5>2 DEF LogTypeOK
        <5> QED BY <1>c, <1>t, <2>m, <2>w, <4>4, <5>3 DEF x
      <4>5. CASE o = "audit" /\ ~ sweep[o].sent
        <5>1. ~ Wanted(o, f, n)
          BY <3>5, <4>2, <4>5, PassedSteps
        <5> QED BY <1>t, <2>w, <3>t, <4>5, <5>1 DEF x
      <4> QED BY <4>3, <4>4, <4>5
    <3> QED BY <3>4, <3>5
  <2>2. CASE AgentStops
    <3>1. again'[f] = again[f] + 1
      BY <2>2 DEF AgentStops
    <3>2. ASSUME o # "audit", ~ Over(o)' PROVE ~ Passed(o, f, n)
      <4>1. watch'[o] = 0 /\ o \notin told'
        BY <1>s, <2>2, <3>2 DEF AgentStops, Over
      <4>2. watch[o] = 0 /\ o \notin told
        BY <1>s, <2>2, <3>2, <4>1 DEF AgentStops
      <4>3. offsets[o] = Unread /\ sweep[o] = Resting
        BY <1>s, <3>2, <4>2 DEF WatchInv
      <4> QED BY <1>n, <4>3 DEF Passed, Unread, Resting
    <3> QED BY <1>c, <1>t, <1>v, <2>m, <2>w, <3>1, <3>2 DEF x
  <2>3. CASE ~ AgentStops /\ \A p \in Tailers : ~ Tailing(p)
    <3>1. offsets' = offsets /\ sweep' = sweep /\ again' = again
      BY <2>3, OtherSteps
    <3>2. Passed(o, f, n)' <=> Passed(o, f, n)
      BY <3>1 DEF Passed
    <3> QED BY <1>c, <1>t, <1>v, <2>m, <2>w, <3>1, <3>2 DEF x
  <2> QED BY <2>1, <2>2, <2>3
<1> QED BY <1>1, <1>2

-----------------------------------------------------------------------------
LogInv ==
  LogTypeOK /\ SweepInv /\ MemoryInv /\ AccountInv /\ WatchInv /\ CopyInv

LEMMA LogInvInit == ASSUME LogInit PROVE LogInv
<1>1. LogTypeOK
  BY LogTypeInit
<1>2. SweepInv /\ MemoryInv /\ WatchInv
  <2>1. /\ \A o \in Tailers : sweep[o] = Resting /\ offsets[o] = Unread
        /\ Ptys \subseteq Tailers
    BY DEF LogInit, Tailers
  <2> QED BY <2>1 DEF SweepInv, SweepOk, MemoryInv, WatchInv, Resting
<1>3. ASSUME NEW o \in Tailers, NEW f \in Files, NEW n \in 1 .. Len(Log[f])
      PROVE  ~ Passed(o, f, n)
  <2>1. offsets[o] = Unread /\ sweep[o] = Resting /\ n \in Nat \ {0}
    BY LogLengths DEF LogInit
  <2> QED BY <2>1 DEF Passed, Unread, Resting
<1>4. ASSUME NEW x \in Frames PROVE stored[x] = 0 /\ Copies(x) = 0
  <2>1. stored[x] = 0 /\ inserts[x] = 0 /\ Cardinality(Among(x, transit)) = 0
    BY CountEmpty DEF LogInit
  <2> QED BY <1>1, <2>1, CopiesOf
<1>5. AccountInv
  BY <1>3 DEF AccountInv
<1>6. CopyInv
  <2>1. \A f \in Files : again[f] = 0
    BY DEF LogInit
  <2>2. ASSUME NEW o \in Tailers, NEW f \in Files, NEW n \in 1 .. Len(Log[f])
        PROVE  stored[<<o, f, n>>] = 0 /\ Copies(<<o, f, n>>) = 0 /\ again[f] = 0
    BY <1>4, <2>1, FrameOf
  <2>3. ASSUME NEW o \in Tailers, NEW f \in Files, NEW n \in 1 .. Len(Log[f])
        PROVE  CopyOk(o, f, n)
    BY <2>2 DEF CopyOk
  <2> QED BY <2>3 DEF CopyInv
<1> QED BY <1>1, <1>2, <1>5, <1>6 DEF LogInv

LEMMA LogInvStep == LogInv /\ [LogNext]_logVars => LogInv'
<1> SUFFICES ASSUME LogInv, [LogNext]_logVars PROVE LogInv'
  OBVIOUS
<1>1. CASE LogNext
  <2>1. LogTypeOK /\ SweepInv /\ MemoryInv /\ AccountInv /\ WatchInv /\ CopyInv
    BY DEF LogInv
  <2>2. LogTypeOK'
    BY <1>1, <2>1, LogTypeStep
  <2>3. SweepInv' /\ MemoryInv'
    BY <1>1, <2>1, <2>2, SweepStep
  <2>4. AccountInv'
    BY <1>1, <2>1, <2>2, AccountStep
  <2>5. WatchInv'
    BY <1>1, <2>1, WatchStep
  <2>6. CopyInv'
    BY <1>1, <2>1, <2>2, CopyStep
  <2> QED BY <2>2, <2>3, <2>4, <2>5, <2>6 DEF LogInv
<1>2. CASE UNCHANGED logVars
  <2>1. LogTypeOK'
    BY <1>2 DEF LogInv, LogTypeOK, logVars, fileVars, agentVars, linkVars, hubVars,
       pastVars
  <2>2. SweepInv' /\ MemoryInv' /\ WatchInv'
    BY <1>2 DEF LogInv, SweepInv, SweepOk, MemoryInv, WatchInv, Wanted, Unread,
       Resting, logVars, fileVars, agentVars
  <2>3. ASSUME NEW o, NEW f, NEW n
        PROVE  /\ Passed(o, f, n)' = Passed(o, f, n) /\ Over(o)' = Over(o)
               /\ Copies(<<o, f, n>>)' = Copies(<<o, f, n>>)
               /\ OnItsWay(<<o, f, n>>)' = OnItsWay(<<o, f, n>>)
    BY <1>2 DEF logVars, agentVars, linkVars, hubVars, pastVars, Passed, Over,
       Receiving, Copies, OnItsWay
  <2>4. stored' = stored /\ again' = again
    BY <1>2 DEF logVars, hubVars, pastVars
  <2>5. AccountInv'
    BY <2>3 DEF LogInv, AccountInv, Wanted
  <2>6. CopyInv'
    <3> SUFFICES ASSUME NEW o \in Tailers, NEW f \in Files,
                        NEW n \in 1 .. Len(Log[f])
                 PROVE  LET x == <<o, f, n>> IN
                        /\ Unique(x) => stored'[x] <= 1
                        /\ ~ Wanted(o, f, n) => Copies(x)' = 0
                        /\ o # "audit" =>
                             /\ Copies(x)' <= 1
                             /\ ~ Passed(o, f, n)' /\ ~ Over(o)' => Copies(x)' = 0
                        /\ o = "audit" =>
                             /\ Copies(x)' <= 1 + again'[f]
                             /\ ~ Passed(o, f, n)' => Copies(x)' <= again'[f]
      BY DEF CopyInv, CopyOk, Wanted, Unique
    <3>1. /\ Passed(o, f, n)' = Passed(o, f, n) /\ Over(o)' = Over(o)
          /\ Copies(<<o, f, n>>)' = Copies(<<o, f, n>>)
      BY <2>3
    <3> QED BY <2>4, <3>1 DEF LogInv, CopyInv, CopyOk
  <2> QED BY <2>1, <2>2, <2>5, <2>6 DEF LogInv
<1> QED BY <1>1, <1>2

LEMMA LogSafety == LogSpec => []LogInv
BY LogInvInit, LogInvStep, PTL DEF LogSpec

\* Of any number of logs and sessions, through losses of the link, of the agent
\* and of the hub, no tailer is past a line it should have shipped that is
\* neither in the database, nor on its way there, nor lost with what failed.
THEOREM LinesAreAccounted == LogSpec => []OffsetsAccounted
<1>1. LogInv => OffsetsAccounted
  <2> SUFFICES ASSUME LogInv, NEW o \in Tailers, NEW f \in Files,
                      NEW n \in 1 .. offsets[o][f], Wanted(o, f, n)
               PROVE  OnItsWay(<<o, f, n>>)
    BY DEF OffsetsAccounted
  <2>1. /\ offsets[o][f] \in Nat /\ offsets[o][f] <= disk[f] /\ disk[f] \in Nat
        /\ disk[f] <= Len(Log[f]) /\ Len(Log[f]) \in Nat
    BY LogLengths DEF LogInv, LogTypeOK
  <2>2. n \in 1 .. Len(Log[f]) /\ Passed(o, f, n)
    BY <2>1 DEF Passed
  <2> QED BY <2>2 DEF LogInv, AccountInv
<1> QED BY <1>1, LogSafety, PTL

\* A prompt with a parent never has two rows and a line never two per session;
\* only going back in a file can repeat the first prompt of a conversation.
THEOREM CopiesAreExplained == LogSpec => []CopiesExplained
<1>1. LogInv => CopiesExplained
  <2> SUFFICES ASSUME LogInv, NEW x \in Frames
               PROVE  /\ Unique(x) => stored[x] <= 1
                      /\ x[1] # "audit" => Copies(x) <= 1
                      /\ x[1] = "audit" => Copies(x) <= 1 + again[x[2]]
    BY DEF CopiesExplained
  <2>1. PICK o \in Tailers, f \in Files : \E n \in 1 .. Len(Log[f]) : x = <<o, f, n>>
    BY FrameOf
  <2>2. PICK n \in 1 .. Len(Log[f]) : x = <<o, f, n>>
    BY <2>1
  <2> QED BY <2>2 DEF LogInv, CopyInv, CopyOk
<1> QED BY <1>1, LogSafety, PTL

=============================================================================
