--------------------------- MODULE ScheduleManager ---------------------------
(***************************************************************************)
(* The in-process cron runtime (src/engine/schedules/schedule-manager.ts), *)
(* its boot and shutdown (boot.ts, schedule-shutdown.ts) and the handlers  *)
(* that call it (api/routes/schedules.ts, tools/schedule-tools.ts).        *)
(*                                                                         *)
(* fire() and retryFire() are async functions.  Each run id is one such    *)
(* thread of control: pc[r] is the await it is suspended at, rec[r] the    *)
(* ScheduleRecord its closure captured when it was fired, which no later   *)
(* edit reaches.  A step is the code between two awaits.                   *)
(*                                                                         *)
(* Node runs promise continuations (microtasks) before it returns to       *)
(* timers and signals (macrotasks).  Cron fires, timers and the signal     *)
(* handler are therefore guarded by Quiet; API handlers, agent events and  *)
(* dispatch results arrive through promise chains of their own and may run *)
(* between two continuations of a fire.                                    *)
(***************************************************************************)
EXTENDS ScheduleStore

CONSTANTS
  Definitions,        \* the definitions callers create (bound)
  Edits,              \* the PATCH bodies callers send (bound)
  ManualSlugs,        \* the slugs callers run by hand (bound)
  MaxConcurrentRuns,  \* config.maxConcurrentRuns
  RetryMaxAttempts,   \* config.retry.maxAttempts
  KeepRuns,           \* config.runLog.keepRuns
  Categories,         \* what classifyError can answer
  Transient,          \* those isTransientScheduleError accepts
  RetryOn,            \* config.retry.retryOn
  NoJob               \* cronJobs has no entry for this id

ASSUME ScheduleManagerAssumption ==
  /\ Definitions \subseteq Definition
  /\ Edits \subseteq [expr: Exprs \cup {"keep"}, enabled: {"keep", "on", "off"}]
  /\ ManualSlugs \subseteq Slugs
  /\ MaxConcurrentRuns \in Nat \ {0}
  /\ RetryMaxAttempts \in Nat \ {0}
  /\ KeepRuns \in Nat
  /\ Transient \subseteq Categories
  /\ RetryOn \subseteq Transient
  /\ "clean" \notin Categories
  /\ NoJob \notin [armed: BOOLEAN, row: ScheduleRow]

VARIABLES
  schedules,     \* table schedules: id -> row
  runs,          \* table schedule_runs: run id -> row
  started,       \* run ids in the order their rows were inserted (started_at)
  jobs,          \* cronJobs: schedule id -> Cron job
  pc,            \* where each fire is suspended
  rec,           \* the record its closure captured
  att,           \* its attempt parameter
  error,         \* hadError and errorMessage of its pending observation
  outcome,       \* what outcomePromise resolved to
  pending,       \* instance ids with a registered observation
  fireQueue,     \* waiters of the concurrency gate
  inFlight,      \* counter of the concurrency gate
  phase,         \* down | up | failed (start threw) | draining (stop called)
  nextSchedule,  \* next schedule id of ulid()
  nextRun        \* next run id of ulid()

storeVars == <<schedules, runs, started>>
taskVars  == <<pc, rec, att, error, outcome>>
gateVars  == <<fireQueue, inFlight>>
idVars    == <<nextSchedule, nextRun>>
vars      == <<storeVars, jobs, taskVars, pending, gateVars, phase, idVars>>

-----------------------------------------------------------------------------
\* Shapes of the state.

Job == [armed: BOOLEAN, row: ScheduleRow]

PCs == {"unborn",       \* no such run yet
        "waiting",      \* on the promise acquireConcurrency pushed to fireQueue
        "woken",        \* that promise is resolved, its continuation has not run
        "acquired",     \* acquireConcurrency returned true, caller not resumed
        "entered",      \* the same, called from a timer: nothing else is due
        "dispatching",  \* await dispatchImpl(...)
        "observing",    \* await outcomePromise
        "backoff",      \* a retry timer is set
        "done"}

\* Fires between a successful acquireConcurrency and releaseConcurrency.
HoldsSlot == {"acquired", "entered", "dispatching", "observing"}

\* Events can reach handleEvent: the observe() subscription is made by start()
\* and dropped by stop().
Subscribed == phase \in {"up", "failed"}

\* No promise continuation is due, so the event loop may take a macrotask.
Quiet == \A r \in RunIds : /\ pc[r] \notin {"woken", "acquired", "entered"}
                           /\ ~(pc[r] = "observing" /\ outcome[r] # "none")

\* A macrotask starts with an empty microtask queue, so the continuation it
\* queues runs before anything else can.
NoneEntered == \A r \in RunIds : pc[r] # "entered"

Init ==
  /\ schedules = [id \in ScheduleIds |-> NoRow]
  /\ runs = [r \in RunIds |-> NoRun]
  /\ started = <<>>
  /\ jobs = [id \in ScheduleIds |-> NoJob]
  /\ pc = [r \in RunIds |-> "unborn"]
  /\ rec = [r \in RunIds |-> NoRow]
  /\ att = [r \in RunIds |-> 0]
  /\ error = [r \in RunIds |-> "clean"]
  /\ outcome = [r \in RunIds |-> "none"]
  /\ pending = {}
  /\ fireQueue = <<>>
  /\ inFlight = 0
  /\ phase = "down"
  /\ nextSchedule = 1
  /\ nextRun = 1

-----------------------------------------------------------------------------
\* The Croner mirror.

\* What new Cron(toCronerPattern(row)) does: an interval that does not parse
\* becomes null, any other bad expression makes the constructor throw.
CronerPattern(row) == IF row.expr # "bad" THEN "pattern"
                      ELSE IF row.kind = "every" THEN "null" ELSE "throws"

\* A one-shot whose instant has passed has no next run.
HasNextRun(row) == CronerPattern(row) = "pattern" /\ ~(row.kind = "at" /\ row.expr = "past")

\* The job is not stopped and will call back.
Armed(id) == jobs[id] # NoJob /\ jobs[id].armed

Disabled(row) == ~row.enabled \/ phase = "draining"

\* Mutant: pausing keeps the job of a row that had one.
SyncedJobKeepsPaused(row) ==
  IF Disabled(row) THEN jobs[row.id]
  ELSE IF CronerPattern(row) # "pattern" THEN NoJob
  ELSE [armed |-> HasNextRun(row), row |-> row]

\* The cronJobs entry syncCron(row) leaves.  When the constructor throws, the
\* old job is stopped but stays in the map.
SyncedJob(row) ==
  IF Disabled(row) \/ CronerPattern(row) = "null" THEN NoJob
  ELSE IF CronerPattern(row) = "throws"
       THEN IF jobs[row.id] = NoJob THEN NoJob ELSE [jobs[row.id] EXCEPT !.armed = FALSE]
       ELSE [armed |-> HasNextRun(row), row |-> row]

\* cancelRetriesFor(id): retryTimers is keyed by the id of the captured record.
RetryTimersOf(id) == {r \in RunIds : pc[r] = "backoff" /\ rec[r].id = id}

CancelRetries(id) == [r \in RunIds |-> IF r \in RetryTimersOf(id) THEN "done" ELSE pc[r]]

SyncCron(row) ==
  /\ jobs' = [jobs EXCEPT ![row.id] = SyncedJob(row)]
  /\ pc' = IF Disabled(row) THEN CancelRetries(row.id) ELSE pc

-----------------------------------------------------------------------------
\* Handlers: the admin routes and the schedule tools.  Both answer only while
\* getScheduleManager() is set, which it still is after stop().

ManagerSet == NoneEntered /\ phase \in {"up", "draining"}

\* POST /api/schedules, schedule_create: upsert then syncCron.
Upsert(def) ==
  /\ ManagerSet
  /\ \/ \E id \in BySlug(schedules, def.slug) :
          /\ schedules' = [schedules EXCEPT ![id] = RowOf(def, id)]
          /\ SyncCron(RowOf(def, id))
          /\ UNCHANGED nextSchedule
     \/ /\ BySlug(schedules, def.slug) = {}
        /\ nextSchedule \in ScheduleIds
        /\ schedules' = [schedules EXCEPT ![nextSchedule] = RowOf(def, nextSchedule)]
        /\ SyncCron(RowOf(def, nextSchedule))
        /\ nextSchedule' = nextSchedule + 1
  /\ UNCHANGED <<runs, started, rec, att, error, outcome, pending,
                 gateVars, phase, nextRun>>

\* PATCH /api/schedules/:slug, schedule_update; with an edit of enabled alone
\* also pause and resume (setEnabled then syncCron).
Update(slug, edit) ==
  /\ ManagerSet
  /\ \E id \in BySlug(schedules, slug) :
       /\ schedules' = [schedules EXCEPT ![id] = UpdatedRow(schedules[id], edit)]
       /\ SyncCron(UpdatedRow(schedules[id], edit))
  /\ UNCHANGED <<runs, started, rec, att, error, outcome, pending,
                 gateVars, phase, idVars>>

\* DELETE /api/schedules/:slug, schedule_delete: deleteSchedule.
Delete(slug) ==
  /\ ManagerSet
  /\ \E id \in BySlug(schedules, slug) :
       /\ pc' = CancelRetries(id)
       /\ jobs' = [jobs EXCEPT ![id] = NoJob]
  /\ schedules' = DeleteSlug(schedules, slug)
  /\ runs' = CascadeRuns(schedules, runs, slug)
  /\ UNCHANGED <<started, rec, att, error, outcome, pending,
                 gateVars, phase, idVars>>

-----------------------------------------------------------------------------
\* The concurrency gate.

\* acquireConcurrency up to its await; next is where a caller goes that need
\* not wait.
EnterGate(r, next) ==
  IF inFlight >= MaxConcurrentRuns
  THEN /\ pc' = [pc EXCEPT ![r] = "waiting"]
       /\ fireQueue' = Append(fireQueue, r)
       /\ UNCHANGED inFlight
  ELSE /\ pc' = [pc EXCEPT ![r] = next]
       /\ inFlight' = inFlight + 1
       /\ UNCHANGED fireQueue

\* Mutant: the waiter takes the slot without counting itself.
ResumeWaiterUncounted(r) ==
  /\ NoneEntered
  /\ pc[r] = "woken"
  /\ pc' = [pc EXCEPT ![r] = IF phase = "draining" THEN "done" ELSE "acquired"]
  /\ UNCHANGED <<storeVars, jobs, rec, att, error, outcome, pending,
                 gateVars, phase, idVars>>

\* The waiter's continuation.  After stop() it gives up, and does not pass the
\* wake-up on.
ResumeWaiter(r) ==
  /\ NoneEntered
  /\ pc[r] = "woken"
  /\ IF phase = "draining"
     THEN /\ pc' = [pc EXCEPT ![r] = "done"]
          /\ UNCHANGED inFlight
     ELSE /\ pc' = [pc EXCEPT ![r] = "acquired"]
          /\ inFlight' = inFlight + 1
  /\ UNCHANGED <<storeVars, jobs, rec, att, error, outcome, pending,
                 fireQueue, phase, idVars>>

\* Mutant: the slot is given back but the next waiter is not woken.
ReleaseWithoutWake(r, next) ==
  /\ inFlight' = inFlight - 1
  /\ pc' = [pc EXCEPT ![r] = next]
  /\ UNCHANGED fireQueue

\* releaseConcurrency as the last thing thread r does, which then ends or, with
\* next = "backoff", leaves a retry timer behind.
Release(r, next) ==
  /\ inFlight' = inFlight - 1
  /\ IF fireQueue = <<>>
     THEN /\ pc' = [pc EXCEPT ![r] = next]
          /\ UNCHANGED fireQueue
     ELSE /\ pc' = [pc EXCEPT ![r] = next, ![Head(fireQueue)] = "woken"]
          /\ fireQueue' = Tail(fireQueue)

-----------------------------------------------------------------------------
\* Firing.  When stop() has been called fire() returns at once.

Fire(r, row, next) ==
  /\ rec' = [rec EXCEPT ![r] = row]
  /\ nextRun' = nextRun + 1
  /\ EnterGate(r, next)

\* POST /api/schedules/:slug/run, schedule_run_now: fireNow.
FireNow(slug) ==
  /\ NoneEntered
  /\ phase = "up"
  /\ nextRun \in RunIds
  /\ \E id \in BySlug(schedules, slug) : Fire(nextRun, schedules[id], "acquired")
  /\ UNCHANGED <<storeVars, jobs, att, error, outcome, pending, phase, nextSchedule>>

\* Croner calls back a job.  The callback returns undefined, not the promise of
\* fire(), so the protect option sees it end at once.  A one-shot job has no
\* next run afterwards, and its instant is in the past for every later reader.
CronFire(id) ==
  /\ Quiet
  /\ Subscribed
  /\ nextRun \in RunIds
  /\ Armed(id)
  /\ Fire(nextRun, jobs[id].row, "entered")
  /\ IF jobs[id].row.kind = "at"
     THEN /\ jobs' = [jobs EXCEPT ![id].armed = FALSE]
          /\ schedules' = [schedules EXCEPT ![id] = IF @ = NoRow THEN @
                                                    ELSE [@ EXCEPT !.expr = "past"]]
     ELSE UNCHANGED <<jobs, schedules>>
  /\ UNCHANGED <<runs, started, att, error, outcome, pending, phase, nextSchedule>>

\* The instant of a one-shot goes by while no job is armed for it.
TimePasses(id) ==
  /\ schedules[id] # NoRow
  /\ schedules[id].kind = "at"
  /\ schedules[id].expr = "good"
  /\ ~Armed(id)
  /\ schedules' = [schedules EXCEPT ![id].expr = "past"]
  /\ UNCHANGED <<runs, started, jobs, taskVars, pending, gateVars, phase, idVars>>

\* observeUntilTerminal registers the observation, then dispatchImpl is called.
Dispatch(r) ==
  /\ pending' = pending \cup {<<r, att[r]>>}
  /\ pc' = [pc EXCEPT ![r] = "dispatching"]

\* fire() after the gate.  recordRunStart throws when the schedule is gone, and
\* the finally block gives the slot back.
StartRun(r) ==
  /\ pc[r] \in {"acquired", "entered"}
  /\ att[r] = 0
  /\ \/ /\ schedules[rec[r].id] = NoRow
        /\ Release(r, "done")
        /\ UNCHANGED <<runs, started, pending>>
     \/ /\ schedules[rec[r].id] # NoRow
        /\ runs' = RecordRunStart(runs, r, rec[r].id)
        /\ started' = Append(started, r)
        /\ Dispatch(r)
        /\ UNCHANGED gateVars
  /\ UNCHANGED <<schedules, jobs, rec, att, error, outcome, phase, idVars>>

\* retryFire() after the gate: nothing is checked again.
StartRetry(r) ==
  /\ pc[r] \in {"acquired", "entered"}
  /\ att[r] > 0
  /\ Dispatch(r)
  /\ UNCHANGED <<storeVars, jobs, rec, att, error, outcome, gateVars,
                 phase, idVars>>

-----------------------------------------------------------------------------
\* One attempt, from dispatch to its end (runAttempt).

\* The outcome of an attempt is read once; the next attempt has an observation
\* of its own.
Consume(r) == /\ error' = [error EXCEPT ![r] = "clean"]
              /\ outcome' = [outcome EXCEPT ![r] = "none"]

\* maybeAutoDelete(record): the captured record decides, its id names the job
\* that stops, and its slug names the row that goes.
AutoDeletes(r) == rec[r].deleteAfterRun /\ rec[r].kind = "at"

\* A terminal status is written, then maybeAutoDelete, then the slot goes back.
Settle(r, status) ==
  LET closed == RecordRunTerminal(runs, r, status) IN
  /\ IF AutoDeletes(r)
     THEN /\ schedules' = DeleteSlug(schedules, rec[r].slug)
          /\ runs' = CascadeRuns(schedules, closed, rec[r].slug)
          /\ jobs' = [jobs EXCEPT ![rec[r].id] = NoJob]
     ELSE /\ runs' = closed
          /\ UNCHANGED <<schedules, jobs>>
  /\ Release(r, "done")

DispatchOk(r) ==
  /\ NoneEntered
  /\ pc[r] = "dispatching"
  /\ runs' = RecordRunAdmitted(runs, r)
  /\ pc' = [pc EXCEPT ![r] = "observing"]
  /\ UNCHANGED <<schedules, started, jobs, rec, att, error, outcome,
                 pending, gateVars, phase, idVars>>

\* Mutant: the observation of a refused dispatch is left to time out.
DispatchFailLeaks(r) ==
  /\ NoneEntered
  /\ pc[r] = "dispatching"
  /\ Consume(r)
  /\ Settle(r, "error")
  /\ UNCHANGED <<started, rec, att, pending, phase, idVars>>

\* Admission failed: cancelObservation, terminal error, no retry.
DispatchFail(r) ==
  /\ NoneEntered
  /\ pc[r] = "dispatching"
  /\ pending' = pending \ {<<r, att[r]>>}
  /\ Consume(r)
  /\ Settle(r, "error")
  /\ UNCHANGED <<started, rec, att, phase, idVars>>

\* handleEvent: a turn event with isError; the last message wins.
TurnError(r, category) ==
  /\ NoneEntered
  /\ Subscribed
  /\ <<r, att[r]>> \in pending
  /\ error' = [error EXCEPT ![r] = category]
  /\ UNCHANGED <<storeVars, jobs, pc, rec, att, outcome, pending,
                 gateVars, phase, idVars>>

\* handleEvent: agent_end.  It may come before dispatch has resolved.
AgentEnd(r) ==
  /\ NoneEntered
  /\ Subscribed
  /\ <<r, att[r]>> \in pending
  /\ pending' = pending \ {<<r, att[r]>>}
  /\ outcome' = [outcome EXCEPT ![r] = IF error[r] = "clean" THEN "ok" ELSE "error"]
  /\ UNCHANGED <<storeVars, jobs, pc, rec, att, error, gateVars, phase, idVars>>

\* The timer of observeUntilTerminal.
ObserveTimeout(r) ==
  /\ Quiet
  /\ <<r, att[r]>> \in pending
  /\ pending' = pending \ {<<r, att[r]>>}
  /\ outcome' = [outcome EXCEPT ![r] = "timeout"]
  /\ UNCHANGED <<storeVars, jobs, pc, rec, att, error, gateVars, phase, idVars>>

\* record.maxAttempts ?? config.retry.maxAttempts
AttemptLimit(row) == IF row.maxAttempts = 0 THEN RetryMaxAttempts ELSE row.maxAttempts

Retries(r) == /\ outcome[r] = "error"
              /\ error[r] \in Transient \cap RetryOn
              /\ att[r] < AttemptLimit(rec[r])

FinalStatus(r) == IF outcome[r] # "error" THEN outcome[r]
                  ELSE IF error[r] \in Transient THEN "error" ELSE "skipped"

Finish(r) ==
  /\ NoneEntered
  /\ pc[r] = "observing"
  /\ outcome[r] # "none"
  /\ ~Retries(r)
  /\ Settle(r, FinalStatus(r))
  /\ Consume(r)
  /\ UNCHANGED <<started, rec, att, pending, phase, idVars>>

\* recordRunRetry, setTimeout, addRetryTimer; the finally block releases.  No
\* test of the schedule or of shuttingDown.
ScheduleRetry(r) ==
  /\ NoneEntered
  /\ pc[r] = "observing"
  /\ Retries(r)
  /\ runs' = RecordRunRetry(runs, r)
  /\ att' = [att EXCEPT ![r] = @ + 1]
  /\ Release(r, "backoff")
  /\ Consume(r)
  /\ UNCHANGED <<schedules, started, jobs, rec, pending, phase, idVars>>

\* The backoff timer: retryFire up to the gate.
RetryTimer(r) ==
  /\ Quiet
  /\ pc[r] = "backoff"
  /\ IF phase = "draining"
     THEN pc' = [pc EXCEPT ![r] = "done"] /\ UNCHANGED gateVars
     ELSE IF schedules[rec[r].id] = NoRow
          THEN pc' = CancelRetries(rec[r].id) /\ UNCHANGED gateVars
          ELSE EnterGate(r, "entered")
  /\ UNCHANGED <<storeVars, jobs, rec, att, error, outcome, pending, phase, idVars>>

-----------------------------------------------------------------------------
\* The life of the process.

\* start(): cleanup, subscribe, then syncCron every enabled row in slug order.
\* A row whose constructor throws ends the loop, and boot.ts unsets the manager.
Poison(id) == CronerPattern(schedules[id]) = "throws"

Rehydrates(id) == \A other \in ListEnabled(schedules) :
                    Poison(other) => schedules[id].slug < schedules[other].slug

Start(cutoff) ==
  /\ phase = "down"
  /\ cutoff \in 0..Len(started)
  /\ runs' = Cleanup(runs, started, KeepRuns, cutoff)
  /\ phase' = IF \E id \in ListEnabled(schedules) : Poison(id) THEN "failed" ELSE "up"
  /\ jobs' = [id \in ScheduleIds |->
                IF id \in ListEnabled(schedules) /\ Rehydrates(id)
                THEN SyncedJob(schedules[id]) ELSE NoJob]
  /\ UNCHANGED <<schedules, started, taskVars, pending, gateVars, idVars>>

\* SIGTERM or SIGINT: stop().  Waiters of the gate are left as they are.
Stop ==
  /\ Quiet
  /\ phase = "up"
  /\ phase' = "draining"
  /\ jobs' = [id \in ScheduleIds |-> NoJob]
  /\ pc' = [r \in RunIds |-> IF pc[r] = "backoff" THEN "done" ELSE pc[r]]
  /\ outcome' = [r \in RunIds |-> IF <<r, att[r]>> \in pending THEN "timeout" ELSE outcome[r]]
  /\ pending' = {}
  /\ UNCHANGED <<storeVars, rec, att, error, gateVars, idVars>>

\* The process exits or is killed: only the database is left.
Crash ==
  /\ phase # "down"
  /\ phase' = "down"
  /\ jobs' = [id \in ScheduleIds |-> NoJob]
  /\ pc' = [r \in RunIds |-> IF pc[r] = "unborn" THEN "unborn" ELSE "done"]
  /\ pending' = {}
  /\ fireQueue' = <<>>
  /\ inFlight' = 0
  /\ error' = [r \in RunIds |-> "clean"]
  /\ outcome' = [r \in RunIds |-> "none"]
  /\ UNCHANGED <<storeVars, rec, att, idVars>>

-----------------------------------------------------------------------------
Next ==
  \/ \E def \in Definitions : Upsert(def)
  \/ \E slug \in Slugs, edit \in Edits : Update(slug, edit)
  \/ \E slug \in Slugs : Delete(slug)
  \/ \E slug \in ManualSlugs : FireNow(slug)
  \/ \E id \in ScheduleIds : CronFire(id) \/ TimePasses(id)
  \/ \E r \in RunIds :
       \/ ResumeWaiter(r) \/ StartRun(r) \/ StartRetry(r)
       \/ DispatchOk(r) \/ DispatchFail(r)
       \/ AgentEnd(r) \/ ObserveTimeout(r)
       \/ Finish(r) \/ ScheduleRetry(r) \/ RetryTimer(r)
  \/ \E r \in RunIds, category \in Categories : TurnError(r, category)
  \/ \E cutoff \in 0..Len(started) : Start(cutoff)
  \/ Stop
  \/ Crash

Spec == Init /\ [][Next]_vars

\* Continuations run, admitted or refused dispatches come back, timers fire.
Fairness ==
  \A r \in RunIds : /\ WF_vars(ResumeWaiter(r)) /\ WF_vars(StartRun(r))
                    /\ WF_vars(StartRetry(r))
                    /\ WF_vars(DispatchOk(r) \/ DispatchFail(r))
                    /\ WF_vars(ObserveTimeout(r))
                    /\ WF_vars(Finish(r)) /\ WF_vars(ScheduleRetry(r))
                    /\ WF_vars(RetryTimer(r))

FairSpec == Spec /\ Fairness

-----------------------------------------------------------------------------
\* Properties.

\* Every variable has its type; a pending observation belongs to an attempt.
TypeOK ==
  /\ schedules \in [ScheduleIds -> ScheduleRow \cup {NoRow}]
  /\ runs \in [RunIds -> RunRow \cup {NoRun}]
  /\ started \in Seq(RunIds)
  /\ jobs \in [ScheduleIds -> Job \cup {NoJob}]
  /\ pc \in [RunIds -> PCs]
  /\ rec \in [RunIds -> ScheduleRow \cup {NoRow}]
  /\ att \in [RunIds -> Nat]
  /\ error \in [RunIds -> Categories \cup {"clean"}]
  /\ outcome \in [RunIds -> {"none", "ok", "error", "timeout"}]
  /\ pending \subseteq RunIds \X Nat
  /\ fireQueue \in Seq(RunIds)
  /\ inFlight \in Nat
  /\ phase \in {"down", "up", "failed", "draining"}
  /\ nextSchedule \in Nat \ {0}
  /\ nextRun \in Nat \ {0}

Holders == {r \in RunIds : pc[r] \in HoldsSlot}
Woken   == {r \in RunIds : pc[r] = "woken"}

\* The counter of the gate is the number of fires that hold a slot: no path
\* through fire(), retryFire() and runAttempt(), failing ones included, forgets
\* its release or releases twice.
SlotAccounting == inFlight = Cardinality(Holders)

\* The gate never idles while a fire waits for it: the slots that are held and
\* those already promised to a woken waiter are at least maxConcurrentRuns.
\* A wake-up lost between releaseConcurrency and the waiter would break it.
WorkConserving ==
  fireQueue # <<>> /\ phase # "draining" =>
    inFlight + Cardinality(Woken) >= MaxConcurrentRuns

\* The gate counts right and lets no slot idle while a fire waits.
GateIsSound == SlotAccounting /\ WorkConserving

\* An observation is registered exactly while the attempt that awaits it is
\* running and has no outcome yet: none lingers after its attempt to resolve a
\* later one, none is dropped while somebody awaits it.
ObservationMatchesAttempt ==
  pending = {<<r, att[r]>> : r \in {s \in RunIds : /\ pc[s] \in {"dispatching", "observing"}
                                                   /\ outcome[s] = "none"}}

\* While a fire is alive, its run row says what the fire is doing: queued until
\* dispatch admits it and again while a retry is due, admitted while its turn
\* is observed, with the number of the attempt being made.
LedgerMatchesFire ==
  \A r \in RunIds :
    runs[r] # NoRun /\ pc[r] # "done" =>
      /\ runs[r].schedule = rec[r].id
      /\ runs[r].attempt = att[r]
      /\ runs[r].status = IF pc[r] = "observing" THEN "admitted" ELSE "queued"
      /\ pc[r] \in {"waiting", "woken", "acquired", "entered"} => att[r] > 0

\* No fire makes more attempts than the record it captured allows.
AttemptBound ==
  \A r \in RunIds : pc[r] # "unborn" => att[r] <= AttemptLimit(rec[r])

\* Croner mirrors the table: while the manager is up, the rows that fire are
\* exactly the enabled ones that still have a next run, and they fire with the
\* definition the row has now.  Retries, edits that fail half way, one-shots
\* that have fired and restarts must all leave it so.
CronMirror ==
  phase = "up" =>
    \A id \in Stored(schedules) :
      /\ Armed(id) <=> (schedules[id].enabled /\ HasNextRun(schedules[id]))
      /\ Armed(id) => jobs[id].row = schedules[id]

\* The run history implements RunLifecycle.
Ledger ==
  [r \in RunIds |->
     IF runs[r] # NoRun THEN [status |-> runs[r].status, attempt |-> runs[r].attempt]
     ELSE [status |-> IF \E n \in 1..Len(started) : started[n] = r THEN "gone" ELSE "none",
           attempt |-> 0]]

MaxAttempt == IF MaxOverride > RetryMaxAttempts THEN MaxOverride ELSE RetryMaxAttempts

History == INSTANCE RunLifecycle WITH RunId <- RunIds, ledger <- Ledger

\* Every step of the manager and of the process, crashes included, is a step of
\* the abstract run history or leaves it as it is.
HistorySpec == History!Spec

\* A fire that has started ends, one waiting for the gate or for its backoff
\* too, unless the process stops first: no slot is lost, no waiter forgotten.
FiresSettle ==
  \A r \in RunIds :
    pc[r] \notin {"unborn", "done"} ~> pc[r] = "done" \/ ~Subscribed

\* What a comment, a doc or a test says and the code does not do; one run each.

\* GateBound: schedule-manager.ts calls it the concurrency gate, and the config
\* names its bound maxConcurrentRuns.
GateBound == inFlight <= MaxConcurrentRuns

=============================================================================
