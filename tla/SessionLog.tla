----------------------------- MODULE SessionLog -----------------------------
(***************************************************************************)
(* What the hub keeps of its PTY sessions (hub/db.rs): the rows that say   *)
(* which are live, written by detached tasks (hub/pty_session.rs) and      *)
(* corrected by a start of the hub (hub/main.rs), the messages stored for  *)
(* them, the rollups the charts read, and the deletion of old rows, by the *)
(* daily task and by the administrator (hub/admin/api.rs).                 *)
(*                                                                         *)
(* Time is in ticks, DAY to a day.                                         *)
(***************************************************************************)
EXTENDS Naturals, FiniteSets

CONSTANTS
  Sessions,     \* PTY sessions
  DAY,          \* ticks in a day
  STATS_WINDOW, \* ticks the hourly pass recomputes, two days
  MONTH,        \* ticks in a month of retention
  Months,       \* retentions an administrator may choose
  Earlier,      \* bound: retentions chosen before, None for no settings
  None,
  MaxNow,       \* bound: the clock
  MaxRows,      \* bound: messages
  MaxRequests,  \* bound: requests of the administrator
  MaxFaults     \* bound: statements that fail, stops of the hub

ASSUME BoundsAssumption ==
  /\ DAY \in Nat \ {0} /\ STATS_WINDOW \in Nat
  /\ MONTH \in Nat /\ STATS_WINDOW <= MONTH /\ Months \subseteq Nat \ {0}
  /\ Earlier \subseteq (Nat \ {0}) \cup {None} /\ MaxNow \in Nat
  /\ MaxRows \in Nat /\ MaxRequests \in Nat /\ MaxFaults \in Nat

\* A request of the administrator, between its two statements or before
Puts == [at : {"enabled", "months"}, enabled : BOOLEAN, months : Months]

ASSUME NoneAssumption == None \notin BOOLEAN \cup Nat \cup Puts

VARIABLES
  now,
  hub,        \* "down", "opening" (loops run, orphans not closed), "up"
  rows,       \* table sessions: session -> row, or None
  live,       \* sessions that handlers of the hub have open
  gone,       \* sessions that ended
  tasks,      \* detached writes of session rows: <<"start" or "end", session>>
  messages,   \* table messages
  stats,      \* table stats_daily: day -> its messages, None without a row
  backfilled, \* db_meta has stats_daily_backfilled
  roll,       \* where the rollup loop stands
  meta,       \* db_meta cleanup_enabled, cleanup_retention_months, or None
  put,        \* the request that sets them, or None
  clean,      \* "auto" and "admin" -> where the deletion stands
  nextRow, asked, faults,
  \* history
  overtaken,  \* sessions whose end was written before their start, or not at all
  chosen,     \* <<enabled, months>> in force at some time between requests
  half,       \* the settings in the database are those of half a request
  torn        \* the daily task has read such settings, or an error

rowVars   == <<rows, live, gone, tasks>>
dataVars  == <<messages, nextRow>>
rollVars  == <<stats, backfilled, roll>>
cleanVars == <<meta, put, clean, asked>>
ghostVars == <<overtaken, chosen, half, torn>>
vars == <<now, hub, rowVars, dataVars, rollVars, cleanVars, faults, ghostVars>>

Cleaners == {"auto", "admin"}
Tables == {"messages", "sessions", "user_interactions"}
DayOf(ts) == ts \div DAY
Days == 0 .. DayOf(MaxNow)
Rest == [at |-> "rest"]
\* Off unless it was turned on; an unset retention is a month
Enabled(v) == v.enabled = TRUE
Retention(v) == IF v.months = None THEN 1 ELSE v.months

TypeOK ==
  /\ now \in 0 .. MaxNow /\ hub \in {"down", "opening", "up"}
  /\ \A s \in Sessions : rows[s] # None =>
       rows[s].started \in 0 .. now /\ rows[s].ended \in BOOLEAN
  /\ live \cap gone = {} /\ tasks \subseteq {"start", "end"} \X (live \cup gone)
  /\ \A m \in messages :
       m.id < nextRow /\ m.of \in Sessions /\ m.ts <= now
  /\ \A d \in Days : stats[d] # None => stats[d] < nextRow
  /\ backfilled \in BOOLEAN
  /\ roll \in {"off", "look", "fill", "mark", "daily", "sleep"}
  /\ (hub = "down") = (roll = "off")
  /\ meta.enabled \in {None, TRUE, FALSE} /\ meta.months \in Months \cup Earlier \cup {None}
  /\ \A c \in Cleaners : clean[c].at \in {"rest", "months"} \cup Tables

\* A request has written one of its two settings
Between == put # None /\ put.at = "months"

Unset == [enabled |-> None, months |-> None]

\* The database of an earlier release: messages, no rollup, and the settings of
\* the daily deletion, if it was turned on
Init ==
  /\ now = 0 /\ hub = "down"
  /\ rows = [s \in Sessions |-> None] /\ live = {} /\ gone = {} /\ tasks = {}
  /\ \E s \in Sessions : messages \in {{}, {[id |-> 1, of |-> s, ts |-> 0]}}
  /\ nextRow = 2
  /\ stats = [d \in Days |-> None]
  /\ backfilled = FALSE /\ roll = "off"
  /\ \E n \in Earlier :
       meta = IF n = None THEN Unset ELSE [enabled |-> TRUE, months |-> n]
  /\ put = None
  /\ clean = [c \in Cleaners |-> Rest] /\ asked = 0 /\ faults = 0
  /\ overtaken = {} /\ chosen = {<<Enabled(meta), Retention(meta)>>}
  /\ half = FALSE /\ torn = FALSE

Tick ==
  /\ now < MaxNow /\ now' = now + 1
  /\ UNCHANGED <<hub, rowVars, dataVars, rollVars, cleanVars, faults, ghostVars>>

\* A statement the database refuses
Fault == faults < MaxFaults /\ faults' = faults + 1

-----------------------------------------------------------------------------
(* The hub starts and stops                                                *)

\* Db::open: the migrations, then the background tasks
Open ==
  /\ hub = "down" /\ hub' = "opening"
  /\ roll' = "look"
  /\ UNCHANGED <<now, rowVars, dataVars, stats, backfilled, cleanVars,
                 faults, ghostVars>>

\* A bug the properties must catch: the rows are left as they are
LeaveOrphans == rows
\* close_orphan_sessions
CloseOrphans == [s \in Sessions |->
  IF rows[s] = None THEN None ELSE [rows[s] EXCEPT !.ended = TRUE]]

\* serve goes on when the statement fails
Serve ==
  /\ hub = "opening" /\ hub' = "up"
  /\ \/ rows' = CloseOrphans /\ UNCHANGED <<faults, overtaken>>
     \/ Fault /\ rows' = rows
        /\ overtaken' = overtaken \cup {s \in Sessions : rows[s] # None}
  /\ UNCHANGED <<now, live, gone, tasks, dataVars, rollVars, cleanVars, chosen,
                 half, torn>>

\* The process ends between any two steps
Stop ==
  /\ hub # "down" /\ Fault /\ hub' = "down"
  /\ live' = {} /\ gone' = gone \cup live /\ tasks' = {}
  /\ roll' = "off"
  /\ put' = None /\ clean' = [c \in Cleaners |-> Rest]
  /\ half' = (half \/ Between)
  /\ UNCHANGED <<now, rows, dataVars, stats, backfilled, meta, asked,
                 overtaken, chosen, torn>>

-----------------------------------------------------------------------------
(* Rows of sessions                                                        *)

\* handle_open_session spawns start_session
OpenSession(s) ==
  /\ hub = "up" /\ s \notin live \cup gone
  /\ live' = live \cup {s} /\ tasks' = tasks \cup {<<"start", s>>}
  /\ UNCHANGED <<now, hub, rows, gone, dataVars, rollVars, cleanVars, faults,
                 ghostVars>>

\* teardown, or PtyClosed from the agent: spawns end_session
EndSession(s) ==
  /\ s \in live
  /\ live' = live \ {s} /\ gone' = gone \cup {s}
  /\ tasks' = tasks \cup {<<"end", s>>}
  /\ UNCHANGED <<now, hub, rows, dataVars, rollVars, cleanVars, faults,
                 ghostVars>>

\* INSERT OR REPLACE with ended_at NULL
WriteStart(s) ==
  /\ <<"start", s>> \in tasks /\ tasks' = tasks \ {<<"start", s>>}
  /\ rows' = [rows EXCEPT ![s] = [started |-> now, ended |-> FALSE]]
  /\ UNCHANGED <<now, hub, live, gone, dataVars, rollVars, cleanVars, faults,
                 ghostVars>>

\* UPDATE of a row that has not ended
WriteEnd(s) ==
  /\ <<"end", s>> \in tasks /\ tasks' = tasks \ {<<"end", s>>}
  /\ rows' = [rows EXCEPT ![s] =
       IF @ # None THEN [@ EXCEPT !.ended = TRUE] ELSE None]
  /\ overtaken' = IF <<"start", s>> \in tasks THEN overtaken \cup {s}
                  ELSE overtaken
  /\ UNCHANGED <<now, hub, live, gone, dataVars, rollVars, cleanVars, faults,
                 chosen, half, torn>>

\* The error is logged
WriteFails(t) ==
  /\ t \in tasks /\ Fault /\ tasks' = tasks \ {t}
  /\ overtaken' = overtaken \cup {t[2]}
  /\ UNCHANGED <<now, hub, rows, live, gone, dataVars, rollVars, cleanVars,
                 chosen, half, torn>>

-----------------------------------------------------------------------------
(* Messages and their rollup                                               *)

\* Logs are shipped with the time of their lines, as old as they may be
StoreMessage(s, ts) ==
  /\ hub = "up" /\ nextRow <= MaxRows /\ ts <= now /\ s \in live
  /\ messages' = messages \cup
       {[id |-> nextRow, of |-> s, ts |-> ts]}
  /\ nextRow' = nextRow + 1
  /\ UNCHANGED <<now, hub, rowVars, rollVars, cleanVars, faults, ghostVars>>

Since(window) == {m \in messages : m.ts + window >= now}
Of(ms, d) == {m \in ms : DayOf(m.ts) = d}

\* A bug the properties must catch: days without a message get a row of zeros
RefreshedAll(ms) == [d \in Days |-> Cardinality(Of(ms, d))]

\* refresh_stats_daily: days with a message in ms get a new row
Refreshed(ms) == [d \in Days |->
  IF Of(ms, d) = {} THEN stats[d] ELSE Cardinality(Of(ms, d))]

RollStep(from, to) == roll = from /\ roll' = to

\* A mark that cannot be read is taken for one that is not there
Look ==
  /\ \/ RollStep("look", IF backfilled THEN "daily" ELSE "fill") /\ UNCHANGED faults
     \/ RollStep("look", "fill") /\ Fault
  /\ UNCHANGED <<now, hub, rowVars, dataVars, stats, backfilled, cleanVars,
                 ghostVars>>

\* A failed backfill is tried again at the next start
Backfill ==
  /\ \/ RollStep("fill", "mark") /\ stats' = Refreshed(messages)
        /\ UNCHANGED faults
     \/ RollStep("fill", "daily") /\ Fault /\ UNCHANGED stats
  /\ UNCHANGED <<now, hub, rowVars, dataVars, backfilled, cleanVars,
                 ghostVars>>

\* set_meta, whose error is ignored
MarkBackfilled ==
  /\ RollStep("mark", "daily")
  /\ \/ backfilled' = TRUE /\ UNCHANGED faults
     \/ Fault /\ UNCHANGED backfilled
  /\ UNCHANGED <<now, hub, rowVars, dataVars, stats, cleanVars, ghostVars>>

RefreshStats ==
  /\ RollStep("daily", "sleep")
  /\ \/ stats' = Refreshed(Since(STATS_WINDOW)) /\ UNCHANGED faults
     \/ Fault /\ UNCHANGED stats
  /\ UNCHANGED <<now, hub, rowVars, dataVars, backfilled, cleanVars,
                 ghostVars>>

HourPasses ==
  /\ RollStep("sleep", "daily")
  /\ UNCHANGED <<now, hub, rowVars, dataVars, stats, backfilled, cleanVars,
                 faults, ghostVars>>

-----------------------------------------------------------------------------
(* Deletion of old rows                                                    *)

\* maintenance_auto_cleanup_set
BeginPut(e, n) ==
  /\ hub = "up" /\ put = None /\ asked < MaxRequests /\ asked' = asked + 1
  /\ put' = [at |-> "enabled", enabled |-> e, months |-> n]
  /\ UNCHANGED <<now, hub, rowVars, dataVars, rollVars, meta, clean, faults,
                 ghostVars>>

\* set_auto_cleanup_settings, first and second statement
PutEnabled ==
  /\ put # None /\ put.at = "enabled"
  /\ meta' = [meta EXCEPT !.enabled = put.enabled]
  /\ put' = [put EXCEPT !.at = "months"]
  /\ torn' = (torn \/ clean["auto"].at = "months")
  /\ UNCHANGED <<now, hub, rowVars, dataVars, rollVars, clean, asked, faults,
                 overtaken, chosen, half>>

PutMonths ==
  /\ put # None /\ put.at = "months" /\ put' = None
  /\ \/ meta' = [meta EXCEPT !.months = put.months]
        /\ chosen' = chosen \cup {<<put.enabled, put.months>>}
        /\ half' = FALSE /\ UNCHANGED faults
     \/ Fault /\ half' = TRUE /\ UNCHANGED <<meta, chosen>>
  /\ UNCHANGED <<now, hub, rowVars, dataVars, rollVars, clean, asked, overtaken,
                 torn>>

Deletion(n) == [at |-> "messages", months |-> n, before |-> now]

\* The daily task reads the two settings one after the other; the first is off
\* when it cannot be read ...
AutoWakes ==
  /\ hub # "down" /\ clean["auto"] = Rest
  /\ \E on \in {Enabled(meta), FALSE} :
       /\ on # Enabled(meta) => Fault
       /\ on = Enabled(meta) => UNCHANGED faults
       /\ clean' = [clean EXCEPT !["auto"] = [at |-> "months", on |-> on]]
  /\ torn' = (half \/ Between)
  /\ UNCHANGED <<now, hub, rowVars, dataVars, rollVars, meta, put, asked,
                 overtaken, chosen, half>>

\* A bug the properties must catch: the retention that was set is not found
DefaultRetention == 1
ReadRetention == Retention(meta)

\* ... and takes a month for a retention it cannot read
AutoReads ==
  /\ clean["auto"].at = "months"
  /\ \E n \in {ReadRetention, 1} :
       /\ n # ReadRetention => Fault
       /\ n = ReadRetention => UNCHANGED faults
       /\ clean' = [clean EXCEPT !["auto"] =
            IF clean["auto"].on
            THEN Deletion(n) ELSE Rest]
       /\ torn' = (torn \/ n # ReadRetention)
  /\ UNCHANGED <<now, hub, rowVars, dataVars, rollVars, meta, put, asked,
                 overtaken, chosen, half>>

\* maintenance_cleanup
BeginCleanup(n) ==
  /\ hub = "up" /\ clean["admin"] = Rest /\ asked < MaxRequests
  /\ asked' = asked + 1
  /\ clean' = [clean EXCEPT !["admin"] = Deletion(n)]
  /\ UNCHANGED <<now, hub, rowVars, dataVars, rollVars, meta, put, faults,
                 ghostVars>>

After(table) == IF table = "messages" THEN "sessions" ELSE "user_interactions"
Old(c, ts) == ts + clean[c].months * MONTH < clean[c].before

\* cleanup_delete, a statement, or the last batch of a table: the next table.
\* No chart and no list reads the third one.
Delete(c) ==
  /\ clean[c].at \in Tables
  /\ messages' = IF clean[c].at = "messages" THEN {m \in messages : ~Old(c, m.ts)}
                 ELSE messages
  /\ rows' = IF clean[c].at = "sessions"
             THEN [s \in Sessions |-> IF rows[s] # None /\ Old(c, rows[s].started)
                                      THEN None ELSE rows[s]]
             ELSE rows
  /\ clean' = [clean EXCEPT ![c] =
       IF @.at = "user_interactions" THEN Rest ELSE [@ EXCEPT !.at = After(clean[c].at)]]
  /\ UNCHANGED <<now, hub, live, gone, tasks, nextRow, rollVars, meta, put,
                 asked, faults, ghostVars>>

\* cleanup_delete_batched, a batch of some old rows: the daily task comes back
DeleteBatch ==
  /\ \/ /\ clean["auto"].at = "messages" /\ UNCHANGED rows
        /\ \E part \in SUBSET {m \in messages : Old("auto", m.ts)} :
             messages' = messages \ part
     \/ /\ clean["auto"].at = "sessions" /\ UNCHANGED messages
        /\ \E part \in SUBSET {s \in Sessions : rows[s] # None /\ Old("auto", rows[s].started)} :
             rows' = [s \in Sessions |-> IF s \in part THEN None ELSE rows[s]]
  /\ UNCHANGED <<now, hub, live, gone, tasks, nextRow, rollVars, cleanVars,
                 faults, ghostVars>>

\* A table that cannot be deleted from ends the deletion
DeleteFails(c) ==
  /\ clean[c].at \in Tables /\ Fault
  /\ clean' = [clean EXCEPT ![c] = Rest]
  /\ UNCHANGED <<now, hub, rowVars, dataVars, rollVars, meta, put, asked,
                 ghostVars>>

-----------------------------------------------------------------------------
Next ==
  \/ Tick \/ Open \/ Serve \/ Stop
  \/ \E s \in Sessions : OpenSession(s) \/ EndSession(s)
                         \/ WriteStart(s) \/ WriteEnd(s)
  \/ \E t \in tasks : WriteFails(t)
  \/ \E ts \in 0 .. MaxNow, s \in Sessions : StoreMessage(s, ts)
  \/ Look \/ Backfill \/ MarkBackfilled
  \/ RefreshStats \/ HourPasses
  \/ \E n \in Months : BeginCleanup(n) \/ \E e \in BOOLEAN : BeginPut(e, n)
  \/ PutEnabled \/ PutMonths \/ AutoWakes \/ AutoReads
  \/ DeleteBatch \/ \E c \in Cleaners : Delete(c) \/ DeleteFails(c)

Spec == Init /\ [][Next]_vars

-----------------------------------------------------------------------------
(* Properties                                                              *)

\* What the admin interface lists as live, and draws for a day
Active == {s \in Sessions : rows[s] # None /\ ~rows[s].ended}
ChartMessages(table, d) == IF table[d] = None THEN 0 ELSE table[d]

\* The dashboard tells the truth about live sessions: while the hub serves, a
\* row without an end belongs to an open session or to one whose end is being
\* written, unless the end overtook the start or a write failed. The hub that
\* died with sessions open makes no exception.
LiveRowsExplained ==
  hub = "up" =>
    \A s \in Active : s \in live \/ <<"end", s>> \in tasks \/ s \in overtaken

\* The daily task deletes by settings an administrator had in force as they
\* are, both together, unless a request wrote one of them while it read, or
\* was cut off between its two statements, or the retention could not be read.
AutoCleanupAsSet ==
  clean["auto"].at \in Tables =>
    <<TRUE, clean["auto"].months>> \in chosen \/ torn

\* The chart keeps the history that the deletion of old messages takes from
\* the table: the bar of a day never shrinks, but for the one day the hourly
\* pass sees the end of and no longer the beginning, and for a backfill that
\* runs again because an earlier one was not marked as done, or the mark could
\* not be read.
PartlySeen(d) ==
  /\ d * DAY + STATS_WINDOW < now
  /\ \E ts \in 0 .. MaxNow : DayOf(ts) = d /\ ts + STATS_WINDOW >= now
ChartKept ==
  [][\A d \in Days : \/ ChartMessages(stats', d) >= ChartMessages(stats, d)
                     \/ PartlySeen(d) \/ roll = "fill"]_vars
=============================================================================
