---------------------------- MODULE ScheduleStore ----------------------------
(***************************************************************************)
(* The rows of db/schedules.sqlite and what each ScheduleStore method does *)
(* to them (src/engine/schedules/schedule-store.ts).  node:sqlite is       *)
(* synchronous, so a method is one indivisible function of the tables; the *)
(* manager's handlers (module ScheduleManager) compose them.               *)
(*                                                                         *)
(* Kept of a schedule row: what decides whether it fires and what happens  *)
(* to its runs.  The prompt, payload, timezone, owner and the two          *)
(* timestamps the UI shows (last_fired_at, next_fire_at) are left out.     *)
(***************************************************************************)
EXTENDS Naturals, Sequences, FiniteSets

CONSTANTS
  MaxSchedules,   \* bound: how many schedule ids ulid() hands out
  MaxRuns,        \* bound: how many run ids ulid() hands out
  Slugs,          \* the slugs callers use, ordered as SQL orders them
  MaxOverride,    \* largest per-schedule max_attempts a caller sets
  NoRow,          \* the schedules table has no row with this id
  NoRun           \* the schedule_runs table has no row with this id

ScheduleIds == 1..MaxSchedules
RunIds      == 1..MaxRuns

Kinds == {"cron", "every", "at"}

\* The schedule column: an expression its kind accepts, one it rejects, or the
\* timestamp of a one-shot that has already gone by.
Exprs == {"good", "bad", "past"}

\* max_attempts = 0 stands for the NULL column; the callers only admit >= 1.
ScheduleRow == [id: ScheduleIds, slug: Slugs, kind: Kinds, expr: Exprs,
                enabled: BOOLEAN, maxAttempts: 0..MaxOverride,
                deleteAfterRun: BOOLEAN]

Definition == [slug: Slugs, kind: Kinds, expr: Exprs, enabled: BOOLEAN,
               maxAttempts: 0..MaxOverride, deleteAfterRun: BOOLEAN]

TerminalStatuses == {"ok", "error", "skipped", "timeout", "lost"}
RunStatuses      == TerminalStatuses \cup {"queued", "admitted"}

RunRow == [schedule: ScheduleIds, status: RunStatuses, attempt: Nat]

ASSUME ScheduleStoreAssumption ==
  /\ MaxSchedules \in Nat
  /\ MaxRuns \in Nat
  /\ MaxOverride \in Nat
  /\ Slugs \subseteq Nat
  /\ NoRow \notin ScheduleRow
  /\ NoRun \notin RunRow

-----------------------------------------------------------------------------
\* Reading the schedules table.

Stored(rows) == {id \in ScheduleIds : rows[id] # NoRow}

\* getBySlug: slug is UNIQUE, so this set has at most one member.
BySlug(rows, slug) == {id \in Stored(rows) : rows[id].slug = slug}

ListEnabled(rows) == {id \in Stored(rows) : rows[id].enabled}

-----------------------------------------------------------------------------
\* Writing the schedules table.

\* The row an insert or a merge leaves: a merge overwrites every column of the
\* definition and keeps only the id (and the columns this model leaves out).
RowOf(def, id) ==
  [id |-> id, slug |-> def.slug, kind |-> def.kind, expr |-> def.expr,
   enabled |-> def.enabled, maxAttempts |-> def.maxAttempts,
   deleteAfterRun |-> def.deleteAfterRun]

\* updateFields: only the fields the caller sent are written.
UpdatedRow(row, edit) ==
  [row EXCEPT !.expr    = IF edit.expr = "keep" THEN @ ELSE edit.expr,
              !.enabled = IF edit.enabled = "keep" THEN @ ELSE edit.enabled = "on"]

\* delete(slug) removes the row that has the slug now, whichever id it has.
DeleteSlug(rows, slug) ==
  [id \in ScheduleIds |-> IF id \in BySlug(rows, slug) THEN NoRow ELSE rows[id]]

\* ON DELETE CASCADE: the run rows of the schedules that went with it.
CascadeRuns(rows, rs, slug) ==
  [r \in RunIds |-> IF rs[r] # NoRun /\ rs[r].schedule \in BySlug(rows, slug)
                    THEN NoRun ELSE rs[r]]

-----------------------------------------------------------------------------
\* Writing the schedule_runs table.  Every UPDATE is keyed by run_id, so it
\* does nothing when the row has been deleted.

RecordRunStart(rs, r, id) ==
  [rs EXCEPT ![r] = [schedule |-> id, status |-> "queued", attempt |-> 0]]

\* Mutant: INSERT OR REPLACE where the code has UPDATE ... WHERE run_id.
RecordRunAdmittedInserts(rs, r) ==
  [rs EXCEPT ![r] = IF @ = NoRun
                    THEN [schedule |-> 1, status |-> "admitted", attempt |-> 0]
                    ELSE [@ EXCEPT !.status = "admitted"]]

RecordRunAdmitted(rs, r) ==
  [rs EXCEPT ![r] = IF @ = NoRun THEN @ ELSE [@ EXCEPT !.status = "admitted"]]

RecordRunTerminal(rs, r, status) ==
  [rs EXCEPT ![r] = IF @ = NoRun THEN @ ELSE [@ EXCEPT !.status = status]]

\* Mutant: the attempt column is not advanced.
RecordRunRetrySameAttempt(rs, r) ==
  [rs EXCEPT ![r] = IF @ = NoRun THEN @ ELSE [@ EXCEPT !.status = "queued"]]

RecordRunRetry(rs, r) ==
  [rs EXCEPT ![r] = IF @ = NoRun THEN @
                    ELSE [@ EXCEPT !.status = "queued", !.attempt = rs[r].attempt + 1]]

\* cleanup(keepRuns, retentionMs): started is the order in which run rows were
\* inserted (ORDER BY started_at); the runs up to position cutoff are older
\* than the retention period.
Position(started, r) == CHOOSE n \in 1..Len(started) : started[n] = r

Newer(rs, started, r) ==
  {s \in RunIds : /\ rs[s] # NoRun
                  /\ rs[s].schedule = rs[r].schedule
                  /\ Position(started, s) > Position(started, r)}

Cleanup(rs, started, keepRuns, cutoff) ==
  [r \in RunIds |->
     IF rs[r] # NoRun /\ (\/ Cardinality(Newer(rs, started, r)) >= keepRuns
                          \/ Position(started, r) <= cutoff)
     THEN NoRun ELSE rs[r]]

=============================================================================
