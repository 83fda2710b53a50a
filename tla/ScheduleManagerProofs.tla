------------------------ MODULE ScheduleManagerProofs ------------------------
(***************************************************************************)
(* Proofs about ScheduleManager for every value of its constants: the      *)
(* types, the safety of the concurrency gate, that observations match      *)
(* attempts, and in a second part that the manager implements the abstract *)
(* run history RunLifecycle.                                               *)
(*                                                                         *)
(* SlotAccounting and WorkConserving are not inductive: that a release     *)
(* wakes somebody needs the queue to hold waiting fires, each once, and    *)
(* that a new fire takes a slot needs its id to be fresh.  QueueOK and     *)
(* ThreadsOK add this.  ObservationMatchesAttempt needs that a fire which  *)
(* makes no attempt has no outcome left to read.                           *)
(***************************************************************************)
EXTENDS ScheduleManager, FiniteSetTheorems, SequenceTheorems, TLAPS

\* The queue of the gate holds fires that wait, each once.
QueueOK ==
  /\ \A i \in 1..Len(fireQueue) : pc[fireQueue[i]] = "waiting"
  /\ \A i, j \in 1..Len(fireQueue) : fireQueue[i] = fireQueue[j] => i = j

Gate == QueueOK /\ SlotAccounting /\ WorkConserving

\* Run ids not handed out yet have no thread; the others captured a record.
ThreadsOK ==
  \A r \in RunIds : /\ r >= nextRun => pc[r] = "unborn"
                    /\ pc[r] # "unborn" => rec[r] \in ScheduleRow

\* The inductive invariant of the gate.
GateInv == TypeOK /\ ThreadsOK /\ Gate

-----------------------------------------------------------------------------
\* The gate, seen as a set of holders, a set of woken waiters and a queue.

LEMMA RunSetsFinite ==
  /\ IsFiniteSet(Holders) /\ Cardinality(Holders) \in Nat
  /\ IsFiniteSet(Woken) /\ Cardinality(Woken) \in Nat
<1>1. IsFiniteSet(RunIds)
  BY ScheduleStoreAssumption, FS_Interval DEF RunIds
<1>2. Holders \subseteq RunIds /\ Woken \subseteq RunIds
  BY DEF Holders, Woken
<1> QED
  BY <1>1, <1>2, FS_Subset, FS_CardinalityType

\* A step that moves no fire into or out of the gate keeps it in order.
LEMMA GateKept ==
  ASSUME Gate, UNCHANGED gateVars,
         phase' = "draining" \/ phase # "draining",
         \A r \in RunIds : /\ pc'[r] \in HoldsSlot <=> pc[r] \in HoldsSlot
                           /\ pc'[r] = "woken" <=> pc[r] = "woken"
                           /\ pc[r] = "waiting" => pc'[r] = "waiting",
         fireQueue \in Seq(RunIds)
  PROVE  Gate'
<1>1. Holders' = Holders /\ Woken' = Woken
  BY DEF Holders, Woken
<1>2. QueueOK'
  BY DEF Gate, QueueOK, gateVars
<1>3. SlotAccounting'
  BY <1>1 DEF Gate, SlotAccounting, gateVars
<1>4. WorkConserving'
  BY <1>1 DEF Gate, WorkConserving, gateVars
<1> QED
  BY <1>2, <1>3, <1>4 DEF Gate

\* acquireConcurrency up to its await.
LEMMA EnterGateOK ==
  ASSUME TypeOK, Gate, phase' = phase,
         NEW r \in RunIds, pc[r] \in {"unborn", "backoff"},
         NEW next \in {"acquired", "entered"},
         EnterGate(r, next)
  PROVE  /\ Gate'
         /\ pc' \in [RunIds -> PCs]
         /\ fireQueue' \in Seq(RunIds)
         /\ inFlight' \in Nat
         /\ pc'[r] \in {"waiting", next}
         /\ \A s \in RunIds \ {r} : pc'[s] = pc[s]
<1> USE DEF TypeOK
<1>m. MaxConcurrentRuns \in Nat
  BY ScheduleManagerAssumption
<1>1. CASE inFlight >= MaxConcurrentRuns
  <2>1. pc' = [pc EXCEPT ![r] = "waiting"] /\ fireQueue' = Append(fireQueue, r)
        /\ inFlight' = inFlight
    BY <1>1 DEF EnterGate
  <2>2. Holders' = Holders /\ Woken' = Woken
    BY <2>1 DEF Holders, Woken, HoldsSlot
  <2>3. /\ fireQueue' \in Seq(RunIds)
        /\ Len(fireQueue') = Len(fireQueue) + 1
        /\ \A i \in 1..Len(fireQueue) : fireQueue'[i] = fireQueue[i]
        /\ fireQueue'[Len(fireQueue) + 1] = r
    BY <2>1, AppendProperties
  <2>4. \A i \in 1..Len(fireQueue) : fireQueue[i] \in RunIds /\ fireQueue[i] # r
    BY DEF Gate, QueueOK
  <2>5. QueueOK'
    BY <2>1, <2>3, <2>4 DEF Gate, QueueOK
  <2>6. SlotAccounting'
    BY <2>1, <2>2 DEF Gate, SlotAccounting
  <2>7. WorkConserving'
    BY <1>1, <1>m, <2>1, <2>2, RunSetsFinite DEF WorkConserving
  <2> QED
    BY <2>1, <2>3, <2>5, <2>6, <2>7 DEF Gate, PCs
<1>2. CASE ~(inFlight >= MaxConcurrentRuns)
  <2>1. pc' = [pc EXCEPT ![r] = next] /\ fireQueue' = fireQueue
        /\ inFlight' = inFlight + 1
    BY <1>2 DEF EnterGate
  <2>2. Holders' = Holders \cup {r} /\ r \notin Holders /\ Woken' = Woken
    BY <2>1 DEF Holders, Woken, HoldsSlot
  <2>3. QueueOK'
    BY <2>1 DEF Gate, QueueOK
  <2>4. SlotAccounting'
    BY <2>1, <2>2, RunSetsFinite, FS_AddElement DEF Gate, SlotAccounting
  <2>5. WorkConserving'
    BY <1>m, <2>1, <2>2, RunSetsFinite DEF Gate, WorkConserving
  <2> QED
    BY <2>1, <2>3, <2>4, <2>5 DEF Gate, PCs
<1> QED
  BY <1>1, <1>2

\* releaseConcurrency by a fire that holds a slot.
LEMMA ReleaseOK ==
  ASSUME TypeOK, Gate, phase' = phase,
         NEW r \in RunIds, pc[r] \in HoldsSlot,
         NEW next \in {"done", "backoff"},
         Release(r, next)
  PROVE  /\ Gate'
         /\ pc' \in [RunIds -> PCs]
         /\ fireQueue' \in Seq(RunIds)
         /\ inFlight' \in Nat
         /\ pc'[r] = next
         /\ \A s \in RunIds \ {r} :
              pc'[s] = pc[s] \/ (pc[s] = "waiting" /\ pc'[s] = "woken")
<1> USE DEF TypeOK
<1>m. MaxConcurrentRuns \in Nat
  BY ScheduleManagerAssumption
<1>h. r \in Holders
  BY DEF Holders
<1>i. inFlight' = inFlight - 1 /\ inFlight' \in Nat
      /\ Cardinality(Holders \ {r}) = inFlight'
  <2>1. inFlight' = inFlight - 1
    BY DEF Release
  <2>2. Cardinality(Holders \ {r}) = inFlight - 1
    BY <1>h, RunSetsFinite, FS_RemoveElement DEF Gate, SlotAccounting
  <2>3. IsFiniteSet(Holders \ {r})
    BY RunSetsFinite, FS_RemoveElement
  <2> QED
    BY <2>1, <2>2, <2>3, FS_CardinalityType
<1>1. CASE fireQueue = <<>>
  <2>1. pc' = [pc EXCEPT ![r] = next] /\ fireQueue' = fireQueue
    BY <1>1 DEF Release
  <2>2. Holders' = Holders \ {r}
    BY <2>1 DEF Holders, HoldsSlot
  <2>3. Gate'
    BY <1>1, <1>i, <2>1, <2>2 DEF Gate, QueueOK, SlotAccounting, WorkConserving
  <2> QED
    BY <1>i, <2>1, <2>3 DEF PCs
<1>2. CASE fireQueue # <<>>
  <2> DEFINE h == Head(fireQueue)
  <2>1. pc' = [pc EXCEPT ![r] = next, ![h] = "woken"] /\ fireQueue' = Tail(fireQueue)
    BY <1>2 DEF Release
  <2>2. /\ fireQueue' \in Seq(RunIds)
        /\ Len(fireQueue') = Len(fireQueue) - 1
        /\ \A i \in 1..Len(fireQueue') : fireQueue'[i] = fireQueue[i + 1]
        /\ h \in RunIds /\ h = fireQueue[1] /\ 1 \in 1..Len(fireQueue)
    BY <1>2, <2>1, HeadTailProperties
  <2>3. pc[h] = "waiting" /\ h # r
    BY <2>2 DEF Gate, QueueOK, HoldsSlot
  <2>4. /\ pc' \in [RunIds -> PCs]
        /\ pc'[r] = next /\ pc'[h] = "woken"
        /\ \A s \in RunIds \ {r, h} : pc'[s] = pc[s]
    BY <2>1, <2>2, <2>3 DEF PCs
  <2> HIDE DEF h
  <2>5. Holders' = Holders \ {r}
    BY <2>2, <2>3, <2>4 DEF Holders, HoldsSlot
  <2>6. Woken' = Woken \cup {h} /\ h \notin Woken
    BY <2>2, <2>3, <2>4 DEF Woken, HoldsSlot
  <2>7. Cardinality(Woken') = Cardinality(Woken) + 1
    BY <2>6, RunSetsFinite, FS_AddElement
  <2>8. QueueOK'
    <3>1. ASSUME NEW i \in 1..Len(fireQueue')
          PROVE  /\ i + 1 \in 1..Len(fireQueue) /\ i + 1 # 1
                 /\ fireQueue'[i] = fireQueue[i + 1]
      BY <2>2
    <3>2. ASSUME NEW i \in 1..Len(fireQueue')
          PROVE  fireQueue'[i] # h
      BY <2>2, <3>1 DEF Gate, QueueOK
    <3>3. ASSUME NEW i \in 1..Len(fireQueue')
          PROVE  /\ pc[fireQueue'[i]] = "waiting"
                 /\ fireQueue'[i] # r /\ fireQueue'[i] \in RunIds
      <4>1. fireQueue[i + 1] \in RunIds /\ pc[fireQueue[i + 1]] = "waiting"
        BY <3>1 DEF Gate, QueueOK
      <4> QED
        BY <3>1, <4>1 DEF HoldsSlot
    <3>4. ASSUME NEW i \in 1..Len(fireQueue'), NEW j \in 1..Len(fireQueue'),
                 fireQueue'[i] = fireQueue'[j]
          PROVE  i = j
      <4>1. i + 1 = j + 1
        BY <3>1, <3>4 DEF Gate, QueueOK
      <4> QED
        BY <2>2, <4>1
    <3> QED
      BY <2>2, <2>4, <3>2, <3>3, <3>4 DEF QueueOK
  <2>9. SlotAccounting'
    BY <1>i, <2>5 DEF SlotAccounting
  <2>10. WorkConserving'
    BY <1>2, <1>i, <1>m, <2>7, RunSetsFinite DEF Gate, WorkConserving
  <2> QED
    BY <1>i, <2>2, <2>3, <2>4, <2>8, <2>9, <2>10 DEF Gate
<1> QED
  BY <1>1, <1>2

\* A waiter takes the slot it was promised, or gives up.
LEMMA ResumeWaiterOK ==
  ASSUME TypeOK, Gate, NEW r \in RunIds, ResumeWaiter(r)
  PROVE  Gate' /\ inFlight' \in Nat
<1> USE DEF TypeOK
<1>m. MaxConcurrentRuns \in Nat
  BY ScheduleManagerAssumption
<1>0. pc[r] = "woken" /\ fireQueue' = fireQueue /\ phase' = phase
  BY DEF ResumeWaiter
<1>w. r \in Woken
  BY <1>0 DEF Woken
<1>1. CASE phase = "draining"
  <2>1. pc' = [pc EXCEPT ![r] = "done"] /\ inFlight' = inFlight
    BY <1>1 DEF ResumeWaiter
  <2>2. Holders' = Holders
    BY <1>0, <2>1 DEF Holders, HoldsSlot
  <2> QED
    BY <1>0, <1>1, <2>1, <2>2 DEF Gate, QueueOK, SlotAccounting, WorkConserving
<1>2. CASE phase # "draining"
  <2>1. pc' = [pc EXCEPT ![r] = "acquired"] /\ inFlight' = inFlight + 1
    BY <1>2 DEF ResumeWaiter
  <2>2. Holders' = Holders \cup {r} /\ r \notin Holders /\ Woken' = Woken \ {r}
    BY <1>0, <2>1 DEF Holders, Woken, HoldsSlot
  <2>3. Cardinality(Holders') = Cardinality(Holders) + 1
    BY <2>2, RunSetsFinite, FS_AddElement
  <2>4. Cardinality(Woken') = Cardinality(Woken) - 1
    BY <1>w, <2>2, RunSetsFinite, FS_RemoveElement
  <2>5. QueueOK'
    BY <1>0, <2>1 DEF Gate, QueueOK
  <2>6. SlotAccounting'
    BY <2>1, <2>3 DEF Gate, SlotAccounting
  <2>7. WorkConserving'
    BY <1>0, <1>m, <2>1, <2>4, RunSetsFinite DEF Gate, WorkConserving
  <2> QED
    BY <2>1, <2>5, <2>6, <2>7 DEF Gate
<1> QED
  BY <1>1, <1>2

-----------------------------------------------------------------------------
\* What the store's methods return.

LEMMA RowOfType ==
  ASSUME NEW def \in Definitions, NEW id \in ScheduleIds
  PROVE  RowOf(def, id) \in ScheduleRow
BY ScheduleManagerAssumption DEF RowOf, ScheduleRow, Definition

LEMMA UpdatedRowType ==
  ASSUME NEW row \in ScheduleRow, NEW edit \in Edits
  PROVE  UpdatedRow(row, edit) \in ScheduleRow /\ UpdatedRow(row, edit).id = row.id
<1>1. edit \in [expr: Exprs \cup {"keep"}, enabled: {"keep", "on", "off"}]
  BY ScheduleManagerAssumption
<1> QED
  BY <1>1 DEF UpdatedRow, ScheduleRow

LEMMA BySlugRow ==
  ASSUME TypeOK, NEW slug, NEW id \in BySlug(schedules, slug)
  PROVE  id \in ScheduleIds /\ schedules[id] \in ScheduleRow
BY DEF TypeOK, BySlug, Stored

LEMMA DeleteSlugType ==
  ASSUME TypeOK, NEW slug
  PROVE  DeleteSlug(schedules, slug) \in [ScheduleIds -> ScheduleRow \cup {NoRow}]
BY DEF TypeOK, DeleteSlug

LEMMA CascadeRunsType ==
  ASSUME NEW rs \in [RunIds -> RunRow \cup {NoRun}], NEW slug
  PROVE  CascadeRuns(schedules, rs, slug) \in [RunIds -> RunRow \cup {NoRun}]
BY DEF CascadeRuns

LEMMA RecordRunTypes ==
  ASSUME TypeOK, NEW r \in RunIds
  PROVE  /\ \A id \in ScheduleIds : RecordRunStart(runs, r, id) \in [RunIds -> RunRow \cup {NoRun}]
         /\ RecordRunAdmitted(runs, r) \in [RunIds -> RunRow \cup {NoRun}]
         /\ \A status \in TerminalStatuses :
              RecordRunTerminal(runs, r, status) \in [RunIds -> RunRow \cup {NoRun}]
         /\ RecordRunRetry(runs, r) \in [RunIds -> RunRow \cup {NoRun}]
<1>0. runs \in [RunIds -> RunRow \cup {NoRun}]
  BY DEF TypeOK
<1>1. ASSUME NEW id \in ScheduleIds
      PROVE  RecordRunStart(runs, r, id) \in [RunIds -> RunRow \cup {NoRun}]
  <2>1. [schedule |-> id, status |-> "queued", attempt |-> 0] \in RunRow
    BY DEF RunRow, RunStatuses
  <2> QED
    BY <1>0, <2>1 DEF RecordRunStart
<1>2. RecordRunAdmitted(runs, r) \in [RunIds -> RunRow \cup {NoRun}]
  <2>1. runs[r] # NoRun => [runs[r] EXCEPT !.status = "admitted"] \in RunRow
    BY <1>0 DEF RunRow, RunStatuses
  <2> QED
    BY <1>0, <2>1 DEF RecordRunAdmitted
<1>3. ASSUME NEW status \in TerminalStatuses
      PROVE  RecordRunTerminal(runs, r, status) \in [RunIds -> RunRow \cup {NoRun}]
  <2>1. runs[r] # NoRun => [runs[r] EXCEPT !.status = status] \in RunRow
    BY <1>0 DEF RunRow, RunStatuses
  <2> QED
    BY <1>0, <2>1 DEF RecordRunTerminal
<1>4. RecordRunRetry(runs, r) \in [RunIds -> RunRow \cup {NoRun}]
  <2> DEFINE next == [runs[r] EXCEPT !.status = "queued", !.attempt = runs[r].attempt + 1]
  <2>1. ASSUME runs[r] # NoRun PROVE next \in RunRow
    <3>1. runs[r] \in RunRow
      BY <1>0, <2>1
    <3>2. runs[r].attempt + 1 \in Nat
      BY <3>1 DEF RunRow
    <3> QED
      BY <3>1, <3>2 DEF RunRow, RunStatuses
  <2> QED
    BY <1>0, <2>1 DEF RecordRunRetry
<1> QED
  BY <1>1, <1>2, <1>3, <1>4

LEMMA SyncedJobType ==
  ASSUME TypeOK, NEW row \in ScheduleRow
  PROVE  SyncedJob(row) \in Job \cup {NoJob}
<1>1. row.id \in ScheduleIds
  BY DEF ScheduleRow
<1> QED
  BY <1>1 DEF TypeOK, SyncedJob, Job, HasNextRun

\* syncCron cancels retry timers and replaces one cronJobs entry.
LEMMA SyncCronOK ==
  ASSUME GateInv, NEW row \in ScheduleRow, SyncCron(row), UNCHANGED <<gateVars, phase>>
  PROVE  /\ Gate'
         /\ pc' \in [RunIds -> PCs]
         /\ jobs' \in [ScheduleIds -> Job \cup {NoJob}]
         /\ \A r \in RunIds : pc'[r] = pc[r] \/ (pc[r] = "backoff" /\ pc'[r] = "done")
<1>1. /\ pc' \in [RunIds -> PCs]
      /\ \A r \in RunIds : pc'[r] = pc[r] \/ (pc[r] = "backoff" /\ pc'[r] = "done")
  BY DEF GateInv, TypeOK, SyncCron, CancelRetries, RetryTimersOf, PCs
<1>2. jobs' \in [ScheduleIds -> Job \cup {NoJob}]
  BY SyncedJobType DEF GateInv, TypeOK, SyncCron
<1>3. Gate'
  BY <1>1, GateKept DEF GateInv, TypeOK, HoldsSlot
<1> QED
  BY <1>1, <1>2, <1>3

-----------------------------------------------------------------------------
\* One lemma per action.

LEMMA UpsertOK ==
  ASSUME GateInv, NEW def \in Definitions, Upsert(def)
  PROVE  GateInv'
<1>0. UNCHANGED <<runs, started, rec, att, error, outcome, pending,
                  gateVars, phase, nextRun>>
  BY DEF Upsert
<1>1. PICK id \in ScheduleIds :
        /\ schedules' = [schedules EXCEPT ![id] = RowOf(def, id)]
        /\ SyncCron(RowOf(def, id))
        /\ nextSchedule' \in {nextSchedule, nextSchedule + 1}
  BY BySlugRow DEF Upsert, GateInv
<1>2. RowOf(def, id) \in ScheduleRow
  BY RowOfType
<1>3. /\ Gate'
      /\ pc' \in [RunIds -> PCs]
      /\ jobs' \in [ScheduleIds -> Job \cup {NoJob}]
      /\ \A r \in RunIds : pc'[r] = pc[r] \/ (pc[r] = "backoff" /\ pc'[r] = "done")
  BY <1>0, <1>1, <1>2, SyncCronOK
<1>4. TypeOK'
  <2>1. schedules' \in [ScheduleIds -> ScheduleRow \cup {NoRow}]
    BY <1>1, <1>2 DEF GateInv, TypeOK
  <2>2. nextSchedule' \in Nat \ {0}
    BY <1>1 DEF GateInv, TypeOK
  <2> QED
    BY <1>0, <1>3, <2>1, <2>2 DEF GateInv, TypeOK, gateVars
<1>5. ThreadsOK'
  BY <1>0, <1>3 DEF GateInv, ThreadsOK
<1> QED
  BY <1>3, <1>4, <1>5 DEF GateInv

LEMMA UpdateOK ==
  ASSUME GateInv, NEW slug \in Slugs, NEW edit \in Edits, Update(slug, edit)
  PROVE  GateInv'
<1>0. UNCHANGED <<runs, started, rec, att, error, outcome, pending,
                  gateVars, phase, idVars>>
  BY DEF Update
<1>1. PICK id \in BySlug(schedules, slug) :
        /\ schedules' = [schedules EXCEPT ![id] = UpdatedRow(schedules[id], edit)]
        /\ SyncCron(UpdatedRow(schedules[id], edit))
  BY DEF Update
<1>2. UpdatedRow(schedules[id], edit) \in ScheduleRow
  BY BySlugRow, UpdatedRowType DEF GateInv
<1>3. /\ Gate'
      /\ pc' \in [RunIds -> PCs]
      /\ jobs' \in [ScheduleIds -> Job \cup {NoJob}]
      /\ \A r \in RunIds : pc'[r] = pc[r] \/ (pc[r] = "backoff" /\ pc'[r] = "done")
  BY <1>0, <1>1, <1>2, SyncCronOK
<1>4. TypeOK'
  BY <1>0, <1>1, <1>2, <1>3 DEF GateInv, TypeOK, gateVars, idVars
<1>5. ThreadsOK'
  BY <1>0, <1>3 DEF GateInv, ThreadsOK, idVars
<1> QED
  BY <1>3, <1>4, <1>5 DEF GateInv

LEMMA DeleteOK ==
  ASSUME GateInv, NEW slug \in Slugs, Delete(slug)
  PROVE  GateInv'
<1>0. /\ UNCHANGED <<started, rec, att, error, outcome, pending, gateVars, phase, idVars>>
      /\ schedules' = DeleteSlug(schedules, slug)
      /\ runs' = CascadeRuns(schedules, runs, slug)
  BY DEF Delete
<1>1. PICK id \in BySlug(schedules, slug) :
        pc' = CancelRetries(id) /\ jobs' = [jobs EXCEPT ![id] = NoJob]
  BY DEF Delete
<1>2. /\ pc' \in [RunIds -> PCs]
      /\ \A r \in RunIds : pc'[r] = pc[r] \/ (pc[r] = "backoff" /\ pc'[r] = "done")
  BY <1>1 DEF GateInv, TypeOK, CancelRetries, RetryTimersOf, PCs
<1>3. Gate'
  BY <1>0, <1>2, GateKept DEF GateInv, TypeOK, HoldsSlot
<1>4. schedules' \in [ScheduleIds -> ScheduleRow \cup {NoRow}]
      /\ runs' \in [RunIds -> RunRow \cup {NoRun}]
      /\ jobs' \in [ScheduleIds -> Job \cup {NoJob}]
  BY <1>0, <1>1, DeleteSlugType, CascadeRunsType DEF GateInv, TypeOK
<1>5. TypeOK'
  BY <1>0, <1>2, <1>4 DEF GateInv, TypeOK, gateVars, idVars
<1>6. ThreadsOK'
  BY <1>0, <1>2 DEF GateInv, ThreadsOK, idVars
<1> QED
  BY <1>3, <1>5, <1>6 DEF GateInv

\* fire() up to the gate, for a run id not used before.
LEMMA FireOK ==
  ASSUME GateInv, nextRun \in RunIds, NEW row \in ScheduleRow,
         NEW next \in {"acquired", "entered"}, Fire(nextRun, row, next),
         phase' = phase
  PROVE  /\ Gate' /\ ThreadsOK'
         /\ pc' \in [RunIds -> PCs]
         /\ rec' \in [RunIds -> ScheduleRow \cup {NoRow}]
         /\ fireQueue' \in Seq(RunIds)
         /\ inFlight' \in Nat
         /\ nextRun' \in Nat \ {0}
<1>1. /\ rec' = [rec EXCEPT ![nextRun] = row]
      /\ nextRun' = nextRun + 1
      /\ EnterGate(nextRun, next)
  BY DEF Fire
<1>2. pc[nextRun] = "unborn" /\ nextRun \in Nat
  BY DEF GateInv, ThreadsOK, TypeOK
<1>3. /\ Gate'
      /\ pc' \in [RunIds -> PCs]
      /\ fireQueue' \in Seq(RunIds)
      /\ inFlight' \in Nat
      /\ \A s \in RunIds \ {nextRun} : pc'[s] = pc[s]
  BY <1>1, <1>2, EnterGateOK DEF GateInv
<1>4. ThreadsOK'
  BY <1>1, <1>2, <1>3 DEF GateInv, ThreadsOK, TypeOK, RunIds
<1>5. rec' \in [RunIds -> ScheduleRow \cup {NoRow}]
  BY <1>1 DEF GateInv, TypeOK
<1>6. nextRun' \in Nat \ {0}
  BY <1>1, <1>2
<1> QED
  BY <1>3, <1>4, <1>5, <1>6

LEMMA FireNowOK ==
  ASSUME GateInv, NEW slug, FireNow(slug)
  PROVE  GateInv'
<1>0. UNCHANGED <<storeVars, jobs, att, error, outcome, pending, phase, nextSchedule>>
      /\ nextRun \in RunIds
  BY DEF FireNow
<1>1. PICK id \in BySlug(schedules, slug) : Fire(nextRun, schedules[id], "acquired")
  BY DEF FireNow
<1>2. schedules[id] \in ScheduleRow
  BY BySlugRow DEF GateInv
<1>3. /\ Gate' /\ ThreadsOK'
      /\ pc' \in [RunIds -> PCs]
      /\ rec' \in [RunIds -> ScheduleRow \cup {NoRow}]
      /\ fireQueue' \in Seq(RunIds)
      /\ inFlight' \in Nat
      /\ nextRun' \in Nat \ {0}
  BY <1>0, <1>1, <1>2, FireOK
<1>4. TypeOK'
  BY <1>0, <1>3 DEF GateInv, TypeOK, storeVars
<1> QED
  BY <1>3, <1>4 DEF GateInv

LEMMA CronFireOK ==
  ASSUME GateInv, NEW id \in ScheduleIds, CronFire(id)
  PROVE  GateInv'
<1>0. /\ UNCHANGED <<runs, started, att, error, outcome, pending, phase, nextSchedule>>
      /\ nextRun \in RunIds
      /\ Armed(id)
      /\ Fire(nextRun, jobs[id].row, "entered")
  BY DEF CronFire
<1>1. jobs[id] \in Job /\ jobs[id].row \in ScheduleRow
  BY <1>0 DEF GateInv, TypeOK, Armed, Job
<1>2. /\ Gate' /\ ThreadsOK'
      /\ pc' \in [RunIds -> PCs]
      /\ rec' \in [RunIds -> ScheduleRow \cup {NoRow}]
      /\ fireQueue' \in Seq(RunIds)
      /\ inFlight' \in Nat
      /\ nextRun' \in Nat \ {0}
  BY <1>0, <1>1, FireOK
<1>3. jobs' \in [ScheduleIds -> Job \cup {NoJob}]
  <2>1. [jobs[id] EXCEPT !.armed = FALSE] \in Job
    BY <1>1 DEF Job
  <2> QED
    BY <2>1 DEF CronFire, GateInv, TypeOK
<1>4. schedules' \in [ScheduleIds -> ScheduleRow \cup {NoRow}]
  <2>1. schedules[id] # NoRow => [schedules[id] EXCEPT !.expr = "past"] \in ScheduleRow
    BY DEF GateInv, TypeOK, ScheduleRow, Exprs
  <2> QED
    BY <2>1 DEF CronFire, GateInv, TypeOK
<1>5. TypeOK'
  BY <1>0, <1>2, <1>3, <1>4 DEF GateInv, TypeOK
<1> QED
  BY <1>2, <1>5 DEF GateInv

LEMMA TimePassesOK ==
  ASSUME GateInv, NEW id \in ScheduleIds, TimePasses(id)
  PROVE  GateInv'
<1>0. /\ UNCHANGED <<runs, started, jobs, taskVars, pending, gateVars, phase, idVars>>
      /\ schedules[id] # NoRow
      /\ schedules' = [schedules EXCEPT ![id].expr = "past"]
  BY DEF TimePasses
<1>1. schedules' \in [ScheduleIds -> ScheduleRow \cup {NoRow}]
  <2>1. [schedules[id] EXCEPT !.expr = "past"] \in ScheduleRow
    BY <1>0 DEF GateInv, TypeOK, ScheduleRow, Exprs
  <2> QED
    BY <1>0, <2>1 DEF GateInv, TypeOK
<1>2. TypeOK'
  BY <1>0, <1>1 DEF GateInv, TypeOK, taskVars, gateVars, idVars
<1>3. ThreadsOK'
  BY <1>0 DEF GateInv, ThreadsOK, taskVars, idVars
<1>4. Gate'
  BY <1>0, GateKept DEF GateInv, TypeOK, taskVars
<1> QED
  BY <1>2, <1>3, <1>4 DEF GateInv

\* What every step that ends with a release leaves of the gate and the threads.
LEMMA ReleaseStep ==
  ASSUME GateInv, NEW r \in RunIds, pc[r] \in HoldsSlot,
         NEW next \in {"done", "backoff"}, Release(r, next),
         UNCHANGED <<rec, phase, nextRun>>
  PROVE  /\ Gate' /\ ThreadsOK'
         /\ pc' \in [RunIds -> PCs]
         /\ fireQueue' \in Seq(RunIds)
         /\ inFlight' \in Nat
<1>1. /\ Gate'
      /\ pc' \in [RunIds -> PCs]
      /\ fireQueue' \in Seq(RunIds)
      /\ inFlight' \in Nat
      /\ \A s \in RunIds \ {r} :
           pc'[s] = pc[s] \/ (pc[s] = "waiting" /\ pc'[s] = "woken")
  BY ReleaseOK DEF GateInv
<1>2. ThreadsOK'
  BY <1>1 DEF GateInv, ThreadsOK, HoldsSlot
<1> QED
  BY <1>1, <1>2

\* What a step does that moves one fire between two places that hold a slot.
LEMMA HoldingStep ==
  ASSUME GateInv, NEW r \in RunIds, pc[r] \in HoldsSlot,
         NEW next \in HoldsSlot, pc' = [pc EXCEPT ![r] = next],
         UNCHANGED <<rec, gateVars, phase, nextRun>>
  PROVE  Gate' /\ ThreadsOK' /\ pc' \in [RunIds -> PCs]
<1>1. pc' \in [RunIds -> PCs]
  BY DEF GateInv, TypeOK, PCs, HoldsSlot
<1>2. Gate'
  BY GateKept DEF GateInv, TypeOK, HoldsSlot
<1>3. ThreadsOK'
  BY DEF GateInv, TypeOK, ThreadsOK, HoldsSlot
<1> QED
  BY <1>1, <1>2, <1>3

LEMMA ResumeWaiterInv ==
  ASSUME GateInv, NEW r \in RunIds, ResumeWaiter(r)
  PROVE  GateInv'
<1>0. /\ UNCHANGED <<storeVars, jobs, rec, att, error, outcome, pending,
                     fireQueue, phase, idVars>>
      /\ pc[r] = "woken"
      /\ \/ pc' = [pc EXCEPT ![r] = "done"]
         \/ pc' = [pc EXCEPT ![r] = "acquired"]
  BY DEF ResumeWaiter
<1>1. Gate' /\ inFlight' \in Nat
  BY ResumeWaiterOK DEF GateInv
<1>2. pc' \in [RunIds -> PCs]
  BY <1>0 DEF GateInv, TypeOK, PCs
<1>3. TypeOK'
  BY <1>0, <1>1, <1>2 DEF GateInv, TypeOK, storeVars, idVars
<1>4. ThreadsOK'
  BY <1>0 DEF GateInv, TypeOK, ThreadsOK, idVars
<1> QED
  BY <1>1, <1>3, <1>4 DEF GateInv

LEMMA PendingType ==
  ASSUME TypeOK, NEW r \in RunIds
  PROVE  /\ pending \cup {<<r, att[r]>>} \subseteq RunIds \X Nat
         /\ pending \ {<<r, att[r]>>} \subseteq RunIds \X Nat
BY DEF TypeOK

LEMMA StartRunOK ==
  ASSUME GateInv, NEW r \in RunIds, StartRun(r)
  PROVE  GateInv'
<1>0. /\ UNCHANGED <<schedules, jobs, rec, att, error, outcome, phase, idVars>>
      /\ pc[r] \in {"acquired", "entered"}
  BY DEF StartRun
<1>1. rec[r] \in ScheduleRow /\ pc[r] \in HoldsSlot /\ rec[r].id \in ScheduleIds
  BY <1>0 DEF GateInv, ThreadsOK, HoldsSlot, ScheduleRow
<1>2. CASE Release(r, "done") /\ UNCHANGED <<runs, started, pending>>
  <2>1. /\ Gate' /\ ThreadsOK'
        /\ pc' \in [RunIds -> PCs]
        /\ fireQueue' \in Seq(RunIds)
        /\ inFlight' \in Nat
    BY <1>0, <1>1, <1>2, ReleaseStep DEF idVars
  <2>2. TypeOK'
    BY <1>0, <1>2, <2>1 DEF GateInv, TypeOK, idVars
  <2> QED
    BY <2>1, <2>2 DEF GateInv
<1>3. CASE /\ runs' = RecordRunStart(runs, r, rec[r].id)
           /\ started' = Append(started, r)
           /\ Dispatch(r)
           /\ UNCHANGED gateVars
  <2>1. Gate' /\ ThreadsOK' /\ pc' \in [RunIds -> PCs]
    BY <1>0, <1>1, <1>3, HoldingStep DEF Dispatch, HoldsSlot, idVars
  <2>2. runs' \in [RunIds -> RunRow \cup {NoRun}]
    BY <1>1, <1>3, RecordRunTypes DEF GateInv
  <2>3. started' \in Seq(RunIds)
    BY <1>3, AppendProperties DEF GateInv, TypeOK
  <2>4. pending' \subseteq RunIds \X Nat
    BY <1>3, PendingType DEF GateInv, Dispatch
  <2>5. TypeOK'
    BY <1>0, <1>3, <2>1, <2>2, <2>3, <2>4 DEF GateInv, TypeOK, gateVars, idVars
  <2> QED
    BY <2>1, <2>5 DEF GateInv
<1> QED
  BY <1>2, <1>3 DEF StartRun

LEMMA StartRetryOK ==
  ASSUME GateInv, NEW r \in RunIds, StartRetry(r)
  PROVE  GateInv'
<1>0. /\ UNCHANGED <<storeVars, jobs, rec, att, error, outcome, gateVars, phase, idVars>>
      /\ pc[r] \in HoldsSlot
      /\ Dispatch(r)
  BY DEF StartRetry, HoldsSlot
<1>1. Gate' /\ ThreadsOK' /\ pc' \in [RunIds -> PCs]
  BY <1>0, HoldingStep DEF Dispatch, HoldsSlot, idVars
<1>2. pending' \subseteq RunIds \X Nat
  BY <1>0, PendingType DEF GateInv, Dispatch
<1>3. TypeOK'
  BY <1>0, <1>1, <1>2 DEF GateInv, TypeOK, storeVars, gateVars, idVars
<1> QED
  BY <1>1, <1>3 DEF GateInv

LEMMA DispatchOkOK ==
  ASSUME GateInv, NEW r \in RunIds, DispatchOk(r)
  PROVE  GateInv'
<1>0. /\ UNCHANGED <<schedules, started, jobs, rec, att, error, outcome,
                     pending, gateVars, phase, idVars>>
      /\ pc[r] \in HoldsSlot
      /\ pc' = [pc EXCEPT ![r] = "observing"]
      /\ runs' = RecordRunAdmitted(runs, r)
  BY DEF DispatchOk, HoldsSlot
<1>1. Gate' /\ ThreadsOK' /\ pc' \in [RunIds -> PCs]
  BY <1>0, HoldingStep DEF HoldsSlot, idVars
<1>2. runs' \in [RunIds -> RunRow \cup {NoRun}]
  BY <1>0, RecordRunTypes DEF GateInv
<1>3. TypeOK'
  BY <1>0, <1>1, <1>2 DEF GateInv, TypeOK, gateVars, idVars
<1> QED
  BY <1>1, <1>3 DEF GateInv

\* The ends of an attempt.
LEMMA ConsumeType ==
  ASSUME TypeOK, NEW r \in RunIds, Consume(r)
  PROVE  /\ error' \in [RunIds -> Categories \cup {"clean"}]
         /\ outcome' \in [RunIds -> {"none", "ok", "error", "timeout"}]
BY DEF TypeOK, Consume

LEMMA SettleOK ==
  ASSUME GateInv, NEW r \in RunIds, pc[r] \in HoldsSlot,
         NEW status \in TerminalStatuses, Settle(r, status),
         UNCHANGED <<rec, phase, nextRun>>
  PROVE  /\ Gate' /\ ThreadsOK'
         /\ pc' \in [RunIds -> PCs]
         /\ fireQueue' \in Seq(RunIds)
         /\ inFlight' \in Nat
         /\ schedules' \in [ScheduleIds -> ScheduleRow \cup {NoRow}]
         /\ runs' \in [RunIds -> RunRow \cup {NoRun}]
         /\ jobs' \in [ScheduleIds -> Job \cup {NoJob}]
<1>0. Release(r, "done")
  BY DEF Settle
<1>1. /\ Gate' /\ ThreadsOK'
      /\ pc' \in [RunIds -> PCs]
      /\ fireQueue' \in Seq(RunIds)
      /\ inFlight' \in Nat
  BY <1>0, ReleaseStep
<1>2. RecordRunTerminal(runs, r, status) \in [RunIds -> RunRow \cup {NoRun}]
  BY RecordRunTypes DEF GateInv
<1>3. schedules' \in [ScheduleIds -> ScheduleRow \cup {NoRow}]
  BY DeleteSlugType DEF GateInv, TypeOK, Settle
<1>4. runs' \in [RunIds -> RunRow \cup {NoRun}]
  BY <1>2, CascadeRunsType DEF Settle
<1>5. jobs' \in [ScheduleIds -> Job \cup {NoJob}]
  BY DEF GateInv, TypeOK, Settle
<1> QED
  BY <1>1, <1>3, <1>4, <1>5

LEMMA DispatchFailOK ==
  ASSUME GateInv, NEW r \in RunIds, DispatchFail(r)
  PROVE  GateInv'
<1>0. /\ UNCHANGED <<started, rec, att, phase, idVars>>
      /\ pc[r] \in HoldsSlot
      /\ pending' = pending \ {<<r, att[r]>>}
      /\ Consume(r)
      /\ Settle(r, "error")
  BY DEF DispatchFail, HoldsSlot
<1>1. /\ Gate' /\ ThreadsOK'
      /\ pc' \in [RunIds -> PCs]
      /\ fireQueue' \in Seq(RunIds)
      /\ inFlight' \in Nat
      /\ schedules' \in [ScheduleIds -> ScheduleRow \cup {NoRow}]
      /\ runs' \in [RunIds -> RunRow \cup {NoRun}]
      /\ jobs' \in [ScheduleIds -> Job \cup {NoJob}]
  BY <1>0, SettleOK DEF TerminalStatuses, idVars
<1>2. pending' \subseteq RunIds \X Nat
  BY <1>0, PendingType DEF GateInv
<1>3. TypeOK'
  BY <1>0, <1>1, <1>2, ConsumeType DEF GateInv, TypeOK, idVars
<1> QED
  BY <1>1, <1>3 DEF GateInv

LEMMA FinishOK ==
  ASSUME GateInv, NEW r \in RunIds, Finish(r)
  PROVE  GateInv'
<1>0. /\ UNCHANGED <<started, rec, att, pending, phase, idVars>>
      /\ pc[r] \in HoldsSlot
      /\ outcome[r] # "none"
      /\ Consume(r)
      /\ Settle(r, FinalStatus(r))
  BY DEF Finish, HoldsSlot
<1>1. FinalStatus(r) \in TerminalStatuses
  BY <1>0 DEF GateInv, TypeOK, FinalStatus, TerminalStatuses
<1>2. /\ Gate' /\ ThreadsOK'
      /\ pc' \in [RunIds -> PCs]
      /\ fireQueue' \in Seq(RunIds)
      /\ inFlight' \in Nat
      /\ schedules' \in [ScheduleIds -> ScheduleRow \cup {NoRow}]
      /\ runs' \in [RunIds -> RunRow \cup {NoRun}]
      /\ jobs' \in [ScheduleIds -> Job \cup {NoJob}]
  BY <1>0, <1>1, SettleOK DEF idVars
<1>3. TypeOK'
  BY <1>0, <1>2, ConsumeType DEF GateInv, TypeOK, idVars
<1> QED
  BY <1>2, <1>3 DEF GateInv

LEMMA ScheduleRetryOK ==
  ASSUME GateInv, NEW r \in RunIds, ScheduleRetry(r)
  PROVE  GateInv'
<1>0. /\ UNCHANGED <<schedules, started, jobs, rec, pending, phase, idVars>>
      /\ pc[r] \in HoldsSlot
      /\ runs' = RecordRunRetry(runs, r)
      /\ att' = [att EXCEPT ![r] = @ + 1]
      /\ Release(r, "backoff")
      /\ Consume(r)
  BY DEF ScheduleRetry, HoldsSlot
<1>1. /\ Gate' /\ ThreadsOK'
      /\ pc' \in [RunIds -> PCs]
      /\ fireQueue' \in Seq(RunIds)
      /\ inFlight' \in Nat
  BY <1>0, ReleaseStep DEF idVars
<1>2. runs' \in [RunIds -> RunRow \cup {NoRun}]
  BY <1>0, RecordRunTypes DEF GateInv
<1>3. att' \in [RunIds -> Nat]
  BY <1>0 DEF GateInv, TypeOK
<1>4. TypeOK'
  BY <1>0, <1>1, <1>2, <1>3, ConsumeType DEF GateInv, TypeOK, idVars
<1> QED
  BY <1>1, <1>4 DEF GateInv

LEMMA ObservationOK ==
  ASSUME GateInv, NEW r \in RunIds,
         (\E category \in Categories : TurnError(r, category)) \/ AgentEnd(r) \/ ObserveTimeout(r)
  PROVE  GateInv'
<1>1. UNCHANGED <<storeVars, jobs, pc, rec, att, gateVars, phase, idVars>>
  BY DEF TurnError, AgentEnd, ObserveTimeout
<1>2. error' \in [RunIds -> Categories \cup {"clean"}]
  BY DEF GateInv, TypeOK, TurnError, AgentEnd, ObserveTimeout
<1>3. outcome' \in [RunIds -> {"none", "ok", "error", "timeout"}]
  BY DEF GateInv, TypeOK, TurnError, AgentEnd, ObserveTimeout
<1>4. pending' \subseteq RunIds \X Nat
  BY PendingType DEF GateInv, TypeOK, TurnError, AgentEnd, ObserveTimeout
<1>5. TypeOK'
  BY <1>1, <1>2, <1>3, <1>4 DEF GateInv, TypeOK, storeVars, gateVars, idVars
<1>6. ThreadsOK'
  BY <1>1 DEF GateInv, ThreadsOK, idVars
<1>7. Gate'
  BY <1>1, GateKept DEF GateInv, TypeOK
<1> QED
  BY <1>5, <1>6, <1>7 DEF GateInv

LEMMA RetryTimerOK ==
  ASSUME GateInv, NEW r \in RunIds, RetryTimer(r)
  PROVE  GateInv'
<1>0. /\ UNCHANGED <<storeVars, jobs, rec, att, error, outcome, pending, phase, idVars>>
      /\ pc[r] = "backoff"
  BY DEF RetryTimer
<1>1. CASE EnterGate(r, "entered")
  <2>1. /\ Gate'
        /\ pc' \in [RunIds -> PCs]
        /\ fireQueue' \in Seq(RunIds)
        /\ inFlight' \in Nat
        /\ \A s \in RunIds \ {r} : pc'[s] = pc[s]
    BY <1>0, <1>1, EnterGateOK DEF GateInv
  <2>2. TypeOK'
    BY <1>0, <2>1 DEF GateInv, TypeOK, storeVars, idVars
  <2>3. ThreadsOK'
    BY <1>0, <2>1 DEF GateInv, ThreadsOK, idVars
  <2> QED
    BY <2>1, <2>2, <2>3 DEF GateInv
<1>2. CASE /\ pc' = [pc EXCEPT ![r] = "done"] \/ pc' = CancelRetries(rec[r].id)
           /\ UNCHANGED gateVars
  <2>1. /\ pc' \in [RunIds -> PCs]
        /\ \A s \in RunIds : pc'[s] = pc[s] \/ (pc[s] = "backoff" /\ pc'[s] = "done")
    BY <1>0, <1>2 DEF GateInv, TypeOK, CancelRetries, RetryTimersOf, PCs
  <2>2. Gate'
    BY <1>0, <1>2, <2>1, GateKept DEF GateInv, TypeOK, HoldsSlot
  <2>3. TypeOK'
    BY <1>0, <1>2, <2>1 DEF GateInv, TypeOK, storeVars, gateVars, idVars
  <2>4. ThreadsOK'
    BY <1>0, <2>1 DEF GateInv, ThreadsOK, idVars
  <2> QED
    BY <2>2, <2>3, <2>4 DEF GateInv
<1> QED
  BY <1>1, <1>2 DEF RetryTimer

LEMMA StartOK ==
  ASSUME GateInv, NEW cutoff \in 0..Len(started), Start(cutoff)
  PROVE  GateInv'
<1>0. /\ UNCHANGED <<schedules, started, taskVars, pending, gateVars, idVars>>
      /\ phase = "down"
      /\ runs' = Cleanup(runs, started, KeepRuns, cutoff)
      /\ phase' \in {"up", "failed"}
  BY DEF Start
<1>1. runs' \in [RunIds -> RunRow \cup {NoRun}]
  BY <1>0 DEF GateInv, TypeOK, Cleanup
<1>2. jobs' \in [ScheduleIds -> Job \cup {NoJob}]
  <2>1. \A id \in ListEnabled(schedules) : schedules[id] \in ScheduleRow
    BY DEF GateInv, TypeOK, ListEnabled, Stored
  <2>2. \A id \in ListEnabled(schedules) : SyncedJob(schedules[id]) \in Job \cup {NoJob}
    BY <2>1, SyncedJobType DEF GateInv
  <2> QED
    BY <2>2 DEF Start
<1>3. TypeOK'
  BY <1>0, <1>1, <1>2 DEF GateInv, TypeOK, taskVars, gateVars, idVars
<1>4. ThreadsOK'
  BY <1>0 DEF GateInv, ThreadsOK, taskVars, idVars
<1>5. Gate'
  BY <1>0, GateKept DEF GateInv, TypeOK, taskVars
<1> QED
  BY <1>3, <1>4, <1>5 DEF GateInv

LEMMA StopOK ==
  ASSUME GateInv, Stop
  PROVE  GateInv'
<1>0. /\ UNCHANGED <<storeVars, rec, att, error, gateVars, idVars>>
      /\ phase' = "draining"
      /\ pending' = {}
  BY DEF Stop
<1>1. /\ pc' \in [RunIds -> PCs]
      /\ \A r \in RunIds : pc'[r] = pc[r] \/ (pc[r] = "backoff" /\ pc'[r] = "done")
  BY DEF GateInv, TypeOK, Stop, PCs
<1>2. outcome' \in [RunIds -> {"none", "ok", "error", "timeout"}]
  BY DEF GateInv, TypeOK, Stop
<1>3. jobs' \in [ScheduleIds -> Job \cup {NoJob}]
  BY DEF Stop
<1>4. TypeOK'
  BY <1>0, <1>1, <1>2, <1>3 DEF GateInv, TypeOK, storeVars, gateVars, idVars
<1>5. ThreadsOK'
  BY <1>0, <1>1 DEF GateInv, ThreadsOK, idVars
<1>6. Gate'
  BY <1>0, <1>1, GateKept DEF GateInv, TypeOK, HoldsSlot
<1> QED
  BY <1>4, <1>5, <1>6 DEF GateInv

LEMMA CrashOK ==
  ASSUME GateInv, Crash
  PROVE  GateInv'
<1>0. /\ UNCHANGED <<storeVars, rec, att, idVars>>
      /\ phase' = "down"
      /\ pending' = {}
      /\ fireQueue' = <<>>
      /\ inFlight' = 0
      /\ jobs' = [id \in ScheduleIds |-> NoJob]
      /\ error' = [r \in RunIds |-> "clean"]
      /\ outcome' = [r \in RunIds |-> "none"]
      /\ pc' = [r \in RunIds |-> IF pc[r] = "unborn" THEN "unborn" ELSE "done"]
  BY DEF Crash
<1>1. TypeOK'
  BY <1>0 DEF GateInv, TypeOK, PCs, storeVars, idVars
<1>2. ThreadsOK'
  BY <1>0 DEF GateInv, ThreadsOK, idVars
<1>3. Holders' = {}
  BY <1>0 DEF Holders, HoldsSlot
<1>4. Gate'
  BY <1>0, <1>3, FS_EmptySet DEF Gate, QueueOK, SlotAccounting, WorkConserving
<1> QED
  BY <1>1, <1>2, <1>4 DEF GateInv

-----------------------------------------------------------------------------
\* Observations.  A fire between its dispatch and its end has one while it has no
\* outcome, and a fire elsewhere has no outcome: those who leave consume it.

Attempting == {"dispatching", "observing"}

Observed(r) ==
  /\ \A n \in Nat :
       <<r, n>> \in pending <=> n = att[r] /\ pc[r] \in Attempting /\ outcome[r] = "none"
  /\ pc[r] \notin Attempting => outcome[r] = "none"

ObservationInv == GateInv /\ \A r \in RunIds : Observed(r)

\* A step that touches neither the attempt of a fire nor its observation.
LEMMA ObservedKept ==
  ASSUME NEW r \in RunIds, Observed(r), att'[r] = att[r], outcome'[r] = outcome[r],
         pc'[r] \in Attempting <=> pc[r] \in Attempting,
         \A n \in Nat : <<r, n>> \in pending' <=> <<r, n>> \in pending
  PROVE  Observed(r)'
BY DEF Observed

\* A step in which no fire begins or ends an attempt.
LEMMA AllObservedKept ==
  ASSUME \A r \in RunIds : Observed(r), UNCHANGED <<att, outcome, pending>>,
         \A r \in RunIds : pc'[r] \in Attempting <=> pc[r] \in Attempting
  PROVE  \A r \in RunIds : Observed(r)'
BY ObservedKept

\* A fire that ends an attempt gives its slot back; it has no observation any more.
LEMMA ReleaseObserved ==
  ASSUME ObservationInv, NEW r \in RunIds, pc[r] \in Attempting,
         NEW next \in {"done", "backoff"}, Release(r, next), Consume(r), phase' = phase,
         \A s \in RunIds \ {r} : att'[s] = att[s],
         \A n \in Nat : <<r, n>> \notin pending',
         \A s \in RunIds \ {r}, n \in Nat : <<s, n>> \in pending' <=> <<s, n>> \in pending
  PROVE  \A s \in RunIds : Observed(s)'
<1>1. /\ pc'[r] = next
      /\ \A s \in RunIds \ {r} : pc'[s] = pc[s] \/ (pc[s] = "waiting" /\ pc'[s] = "woken")
  BY ReleaseOK DEF ObservationInv, GateInv, Attempting, HoldsSlot
<1>2. /\ outcome'[r] = "none"
      /\ \A s \in RunIds \ {r} : outcome'[s] = outcome[s]
  BY DEF Consume, ObservationInv, GateInv, TypeOK
<1>3. Observed(r)'
  BY <1>1, <1>2 DEF Observed, Attempting
<1>4. ASSUME NEW s \in RunIds \ {r} PROVE Observed(s)'
  BY <1>1, <1>2, ObservedKept DEF ObservationInv, Attempting
<1> QED
  BY <1>3, <1>4

\* A fire that begins an attempt registers an observation.
LEMMA DispatchObserved ==
  ASSUME ObservationInv, NEW r \in RunIds, pc[r] \notin Attempting, Dispatch(r),
         UNCHANGED <<att, outcome>>
  PROVE  \A s \in RunIds : Observed(s)'
<1>1. /\ pc'[r] = "dispatching"
      /\ \A s \in RunIds \ {r} : pc'[s] = pc[s]
  BY DEF Dispatch, ObservationInv, GateInv, TypeOK
<1>2. pending' = pending \cup {<<r, att[r]>>}
  BY DEF Dispatch
<1>3. Observed(r)'
  BY <1>1, <1>2 DEF Observed, Attempting, ObservationInv
<1>4. ASSUME NEW s \in RunIds \ {r} PROVE Observed(s)'
  BY <1>1, <1>2, ObservedKept DEF ObservationInv, Attempting
<1> QED
  BY <1>3, <1>4

LEMMA HandlersObserved ==
  ASSUME ObservationInv,
         \/ \E def \in Definitions : Upsert(def)
         \/ \E slug \in Slugs, edit \in Edits : Update(slug, edit)
         \/ \E slug \in Slugs : Delete(slug)
  PROVE  \A r \in RunIds : Observed(r)'
<1>1. UNCHANGED <<att, outcome, pending>>
  BY DEF Upsert, Update, Delete
<1>2. \/ \E row : SyncCron(row)
      \/ \E id : pc' = CancelRetries(id)
  BY DEF Upsert, Update, Delete
<1>3. \A r \in RunIds : pc'[r] = pc[r] \/ (pc[r] = "backoff" /\ pc'[r] = "done")
  BY <1>2 DEF SyncCron, CancelRetries, RetryTimersOf, ObservationInv, GateInv, TypeOK
<1> QED
  BY <1>1, <1>3, AllObservedKept DEF ObservationInv, Attempting

LEMMA FiresObserved ==
  ASSUME ObservationInv,
         \/ \E slug \in ManualSlugs : FireNow(slug)
         \/ \E id \in ScheduleIds : CronFire(id)
  PROVE  \A r \in RunIds : Observed(r)'
<1>1. UNCHANGED <<att, outcome, pending, phase>> /\ nextRun \in RunIds
  BY DEF FireNow, CronFire
<1>2. PICK next \in {"acquired", "entered"} : EnterGate(nextRun, next)
  BY DEF FireNow, CronFire, Fire
<1>3. pc[nextRun] = "unborn"
  BY <1>1 DEF ObservationInv, GateInv, ThreadsOK, TypeOK
<1>4. /\ pc'[nextRun] \in {"waiting", next}
      /\ \A s \in RunIds \ {nextRun} : pc'[s] = pc[s]
  BY <1>1, <1>2, <1>3, EnterGateOK DEF ObservationInv, GateInv
<1> QED
  BY <1>1, <1>3, <1>4, AllObservedKept DEF ObservationInv, Attempting

LEMMA GateObserved ==
  ASSUME ObservationInv, NEW r \in RunIds, ResumeWaiter(r) \/ RetryTimer(r)
  PROVE  \A s \in RunIds : Observed(s)'
<1>1. UNCHANGED <<att, outcome, pending, phase>>
  BY DEF ResumeWaiter, RetryTimer
<1>2. ASSUME ResumeWaiter(r)
      PROVE  \A s \in RunIds : pc'[s] \in Attempting <=> pc[s] \in Attempting
  BY <1>2 DEF ResumeWaiter, Attempting, ObservationInv, GateInv, TypeOK
<1>3. ASSUME RetryTimer(r)
      PROVE  \A s \in RunIds : pc'[s] \in Attempting <=> pc[s] \in Attempting
  <2>1. pc[r] = "backoff"
    BY <1>3 DEF RetryTimer
  <2>2. CASE EnterGate(r, "entered")
    BY <1>1, <2>1, <2>2, EnterGateOK DEF Attempting, ObservationInv, GateInv
  <2>3. CASE pc' = [pc EXCEPT ![r] = "done"] \/ pc' = CancelRetries(rec[r].id)
    BY <2>1, <2>3 DEF CancelRetries, RetryTimersOf, Attempting, ObservationInv, GateInv, TypeOK
  <2> QED
    BY <1>3, <2>2, <2>3 DEF RetryTimer
<1> QED
  BY <1>1, <1>2, <1>3, AllObservedKept DEF ObservationInv

LEMMA StartRunObserved ==
  ASSUME ObservationInv, NEW r \in RunIds, StartRun(r) \/ StartRetry(r)
  PROVE  \A s \in RunIds : Observed(s)'
<1>1. pc[r] \in {"acquired", "entered"} /\ UNCHANGED <<att, outcome, phase>>
  BY DEF StartRun, StartRetry
<1>2. CASE Dispatch(r)
  BY <1>1, <1>2, DispatchObserved DEF Attempting
<1>3. CASE Release(r, "done") /\ pending' = pending
  <2>1. /\ pc'[r] = "done"
        /\ \A s \in RunIds \ {r} : pc'[s] = pc[s] \/ (pc[s] = "waiting" /\ pc'[s] = "woken")
    BY <1>1, <1>3, ReleaseOK DEF ObservationInv, GateInv, HoldsSlot
  <2> QED
    BY <1>1, <1>3, <2>1, AllObservedKept DEF ObservationInv, Attempting
<1> QED
  BY <1>2, <1>3 DEF StartRun, StartRetry

LEMMA EndsObserved ==
  ASSUME ObservationInv, NEW r \in RunIds, DispatchFail(r) \/ Finish(r) \/ ScheduleRetry(r)
  PROVE  \A s \in RunIds : Observed(s)'
<1>1. pc[r] \in Attempting /\ Consume(r) /\ phase' = phase
  BY DEF DispatchFail, Finish, ScheduleRetry, Attempting
<1>2. PICK next \in {"done", "backoff"} : Release(r, next)
  BY DEF DispatchFail, Finish, ScheduleRetry, Settle
<1>3. \A s \in RunIds \ {r} : att'[s] = att[s]
  BY DEF DispatchFail, Finish, ScheduleRetry, ObservationInv, GateInv, TypeOK
<1>4. \/ pending' = pending \ {<<r, att[r]>>}
      \/ pending' = pending /\ outcome[r] # "none"
  BY DEF DispatchFail, Finish, ScheduleRetry, Retries
<1>5. \A n \in Nat : <<r, n>> \notin pending'
  BY <1>4 DEF ObservationInv, Observed
<1>6. \A s \in RunIds \ {r}, n \in Nat : <<s, n>> \in pending' <=> <<s, n>> \in pending
  BY <1>4
<1> QED
  BY <1>1, <1>2, <1>3, <1>5, <1>6, ReleaseObserved

LEMMA OutcomeObserved ==
  ASSUME ObservationInv, NEW r \in RunIds, AgentEnd(r) \/ ObserveTimeout(r)
  PROVE  \A s \in RunIds : Observed(s)'
<1>1. /\ <<r, att[r]>> \in pending
      /\ pending' = pending \ {<<r, att[r]>>}
      /\ UNCHANGED <<pc, att>>
      /\ outcome' = [outcome EXCEPT ![r] = outcome'[r]] /\ outcome'[r] # "none"
  BY DEF AgentEnd, ObserveTimeout, ObservationInv, GateInv, TypeOK
<1>2. pc[r] \in Attempting /\ att[r] \in Nat
  BY <1>1 DEF ObservationInv, Observed, GateInv, TypeOK
<1>3. Observed(r)'
  BY <1>1, <1>2 DEF ObservationInv, Observed
<1>4. ASSUME NEW s \in RunIds \ {r} PROVE Observed(s)'
  BY <1>1, ObservedKept DEF ObservationInv, GateInv, TypeOK
<1> QED
  BY <1>3, <1>4

LEMMA ProcessObserved ==
  ASSUME ObservationInv, Stop \/ Crash \/ \E cutoff \in 0..Len(started) : Start(cutoff)
  PROVE  \A r \in RunIds : Observed(r)'
<1>1. CASE Stop
  <2>1. ASSUME NEW r \in RunIds
        PROVE  /\ att'[r] = att[r] /\ pending' = {}
               /\ pc'[r] \in Attempting <=> pc[r] \in Attempting
               /\ outcome'[r] = IF <<r, att[r]>> \in pending THEN "timeout" ELSE outcome[r]
    BY <1>1 DEF Stop, Attempting, ObservationInv, GateInv, TypeOK
  <2>2. ASSUME NEW r \in RunIds PROVE Observed(r) /\ att[r] \in Nat
    BY DEF ObservationInv, GateInv, TypeOK
  <2> QED
    BY <2>1, <2>2 DEF Observed
<1>2. CASE Crash
  BY <1>2 DEF Crash, Observed, Attempting
<1>3. CASE \E cutoff \in 0..Len(started) : Start(cutoff)
  <2>1. UNCHANGED <<att, outcome, pending, pc>>
    BY <1>3 DEF Start, taskVars
  <2> QED
    BY <2>1, AllObservedKept DEF ObservationInv
<1> QED
  BY <1>1, <1>2, <1>3

-----------------------------------------------------------------------------
\* The invariant, and what follows from it.

LEMMA InitOK == Init => GateInv
<1> SUFFICES ASSUME Init PROVE GateInv
  OBVIOUS
<1>1. TypeOK
  BY DEF Init, TypeOK, PCs
<1>2. ThreadsOK
  BY DEF Init, ThreadsOK
<1>3. Holders = {}
  BY DEF Init, Holders, HoldsSlot
<1>4. Gate
  BY <1>3, FS_EmptySet DEF Init, Gate, QueueOK, SlotAccounting, WorkConserving
<1> QED
  BY <1>1, <1>2, <1>4 DEF GateInv

LEMMA NextOK == GateInv /\ [Next]_vars => GateInv'
<1> SUFFICES ASSUME GateInv, [Next]_vars PROVE GateInv'
  OBVIOUS
<1>1. ASSUME NEW def \in Definitions, Upsert(def) PROVE GateInv'
  BY <1>1, UpsertOK
<1>2. ASSUME NEW slug \in Slugs, NEW edit \in Edits, Update(slug, edit) PROVE GateInv'
  BY <1>2, UpdateOK
<1>3. ASSUME NEW slug \in Slugs, Delete(slug) PROVE GateInv'
  BY <1>3, DeleteOK
<1>4. ASSUME NEW slug \in ManualSlugs, FireNow(slug) PROVE GateInv'
  BY <1>4, FireNowOK
<1>5. ASSUME NEW id \in ScheduleIds, CronFire(id) \/ TimePasses(id) PROVE GateInv'
  BY <1>5, CronFireOK, TimePassesOK
<1>6. ASSUME NEW r \in RunIds,
             \/ ResumeWaiter(r) \/ StartRun(r) \/ StartRetry(r)
             \/ DispatchOk(r) \/ DispatchFail(r)
             \/ Finish(r) \/ ScheduleRetry(r) \/ RetryTimer(r)
      PROVE  GateInv'
  BY <1>6, ResumeWaiterInv, StartRunOK, StartRetryOK, DispatchOkOK, DispatchFailOK,
     FinishOK, ScheduleRetryOK, RetryTimerOK
<1>7. ASSUME NEW r \in RunIds, AgentEnd(r) \/ ObserveTimeout(r) PROVE GateInv'
  BY <1>7, ObservationOK
<1>8. ASSUME NEW r \in RunIds, NEW category \in Categories, TurnError(r, category)
      PROVE  GateInv'
  BY <1>8, ObservationOK
<1>9. ASSUME NEW cutoff \in 0..Len(started), Start(cutoff) PROVE GateInv'
  BY <1>9, StartOK
<1>10. ASSUME Stop \/ Crash PROVE GateInv'
  BY <1>10, StopOK, CrashOK
<1>11. ASSUME UNCHANGED vars PROVE GateInv'
  <2>1. UNCHANGED <<schedules, runs, started, jobs, pc, rec, att, error, outcome, pending,
                    fireQueue, inFlight, phase, nextSchedule, nextRun>>
    BY <1>11 DEF vars, storeVars, taskVars, gateVars, idVars
  <2>2. TypeOK' /\ ThreadsOK'
    BY <2>1 DEF GateInv, TypeOK, ThreadsOK
  <2>3. Gate'
    BY <2>1, GateKept DEF GateInv, TypeOK, gateVars
  <2> QED
    BY <2>2, <2>3 DEF GateInv
<1> QED
  BY <1>1, <1>2, <1>3, <1>4, <1>5, <1>6, <1>7, <1>8, <1>9, <1>10, <1>11 DEF Next

LEMMA GateInvariant == Spec => []GateInv
BY InitOK, NextOK, PTL DEF Spec

\* Every reachable state of the manager is well typed: inFlight never goes
\* negative and the queue of the gate only holds run ids.
THEOREM TypeCorrect == Spec => []TypeOK
<1>1. GateInv => TypeOK
  BY DEF GateInv
<1> QED
  BY <1>1, GateInvariant, PTL

\* The counter of the gate is the number of fires that hold a slot, whatever
\* fails, is deleted, retried or stopped meanwhile.
THEOREM SlotsAreCounted == Spec => []SlotAccounting
<1>1. GateInv => SlotAccounting
  BY DEF GateInv, Gate
<1> QED
  BY <1>1, GateInvariant, PTL

\* While fires wait, held and promised slots are at least maxConcurrentRuns: no
\* wake-up is lost.
THEOREM GateWorkConserving == Spec => []WorkConserving
<1>1. GateInv => WorkConserving
  BY DEF GateInv, Gate
<1> QED
  BY <1>1, GateInvariant, PTL

\* Neither a slot nor a wake-up is ever lost, or given twice.
THEOREM GateSound == Spec => []GateIsSound
  BY SlotsAreCounted, GateWorkConserving, PTL DEF GateIsSound

LEMMA ObservationInvariant == Spec => []ObservationInv
<1>1. Init => ObservationInv
  <2> SUFFICES ASSUME Init PROVE \A r \in RunIds : Observed(r)
    BY InitOK DEF ObservationInv
  <2> QED
    BY DEF Init, Observed, Attempting
<1>2. ObservationInv /\ [Next]_vars => ObservationInv'
  <2> SUFFICES ASSUME ObservationInv, [Next]_vars PROVE \A r \in RunIds : Observed(r)'
    BY NextOK DEF ObservationInv
  <2>1. ASSUME NEW r \in RunIds, DispatchOk(r) PROVE \A s \in RunIds : Observed(s)'
    <3>1. /\ UNCHANGED <<att, outcome, pending>>
          /\ \A s \in RunIds : pc'[s] \in Attempting <=> pc[s] \in Attempting
      BY <2>1 DEF DispatchOk, Attempting, ObservationInv, GateInv, TypeOK
    <3> QED
      BY <3>1, AllObservedKept DEF ObservationInv
  <2>2. ASSUME \/ \E id \in ScheduleIds : TimePasses(id)
               \/ \E r \in RunIds, category \in Categories : TurnError(r, category)
               \/ UNCHANGED vars
        PROVE  \A s \in RunIds : Observed(s)'
    <3>1. UNCHANGED <<att, outcome, pending, pc>>
      BY <2>2 DEF TimePasses, TurnError, vars, taskVars
    <3> QED
      BY <3>1, AllObservedKept DEF ObservationInv
  <2> QED
    BY <2>1, <2>2, HandlersObserved, FiresObserved, GateObserved, StartRunObserved,
       EndsObserved, OutcomeObserved, ProcessObserved DEF Next
<1> QED
  BY <1>1, <1>2, PTL DEF Spec

\* An observation is registered exactly while the attempt that awaits it runs without
\* an outcome, whatever is refused, times out, retries, stops or crashes.
THEOREM ObservationsMatch == Spec => []ObservationMatchesAttempt
<1>1. ObservationInv => ObservationMatchesAttempt
  <2> SUFFICES ASSUME ObservationInv PROVE ObservationMatchesAttempt
    OBVIOUS
  <2>1. pending \subseteq RunIds \X Nat /\ \A r \in RunIds : att[r] \in Nat
    BY DEF ObservationInv, GateInv, TypeOK
  <2> DEFINE watched == {r \in RunIds : pc[r] \in Attempting /\ outcome[r] = "none"}
  <2>2. \A r \in RunIds, n \in Nat : <<r, n>> \in pending <=> n = att[r] /\ r \in watched
    BY DEF ObservationInv, Observed
  <2>3. pending = {<<r, att[r]>> : r \in watched}
    BY <2>1, <2>2
  <2> QED
    BY <2>3 DEF ObservationMatchesAttempt, Attempting
<1> QED
  BY <1>1, ObservationInvariant, PTL

-----------------------------------------------------------------------------
(* ScheduleManager implements RunLifecycle, and with it LedgerMatchesFire  *)
(* and AttemptBound.  The argument needs to know why no row is written by a *)
(* fire that does not own it (RunOK), and why an automatic delete, which   *)
(* removes a row by slug and stops a job by id, means one schedule: an id  *)
(* keeps its slug (RowsOK, RecsOK) and a run row its schedule (ForeignKey). *)
(* The same facts make CronMirror inductive.                               *)

\* The runs whose row has been inserted, whether it is still there or not.
Opened == {r \in RunIds : \E n \in 1..Len(started) : started[n] = r}

AtGate == {"waiting", "woken", "acquired", "entered"}

\* What a fire knows of its row and of its attempts.
RunOK(r) ==
  /\ runs[r] # NoRun => r \in Opened /\ runs[r].status # "lost"
  /\ pc[r] = "unborn" \/ (pc[r] \in AtGate /\ att[r] = 0) => r \notin Opened
  /\ pc[r] = "unborn" => att[r] = 0
  /\ pc[r] = "backoff" => att[r] > 0
  /\ runs[r] # NoRun /\ pc[r] # "done" =>
       /\ runs[r].schedule = rec[r].id
       /\ runs[r].attempt = att[r]
       /\ runs[r].status = IF pc[r] = "observing" THEN "admitted" ELSE "queued"
  /\ pc[r] # "unborn" => att[r] <= AttemptLimit(rec[r])

RunsOK == \A r \in RunIds : RunOK(r)

\* An id keeps its slug: in the table, in its job ...
RowsOK ==
  \A id \in ScheduleIds :
    /\ schedules[id] # NoRow => schedules[id].id = id /\ id < nextSchedule
    /\ jobs[id] # NoJob =>
         /\ jobs[id].row.id = id
         /\ id < nextSchedule
         /\ schedules[id] # NoRow => jobs[id].row.slug = schedules[id].slug

\* ... and in the records fires have captured.
RecsOK ==
  \A r \in RunIds : pc[r] # "unborn" =>
    /\ rec[r].id < nextSchedule
    /\ schedules[rec[r].id] # NoRow => schedules[rec[r].id].slug = rec[r].slug

ForeignKey ==
  \A r \in RunIds : runs[r] # NoRun => schedules[runs[r].schedule] # NoRow

\* The inductive invariant of the run history.
HistoryInv == GateInv /\ RunsOK /\ RowsOK /\ RecsOK /\ ForeignKey

-----------------------------------------------------------------------------
\* Steps seen from one run.

\* The moves of a fire that leave its row alone.
GateMove(r) == \/ pc'[r] = pc[r]
               \/ pc[r] \in AtGate \cup {"backoff"} /\ pc'[r] \in AtGate
               \/ pc[r] \in AtGate /\ att[r] > 0 /\ pc'[r] = "dispatching"
               \/ pc[r] # "unborn" /\ pc'[r] = "done"

LEMMA RunFrame ==
  ASSUME TypeOK, NEW r \in RunIds, RunOK(r),
         rec'[r] = rec[r], att'[r] = att[r], GateMove(r),
         runs'[r] = runs[r] \/ runs'[r] = NoRun,
         r \in Opened' <=> r \in Opened
  PROVE  RunOK(r)'
BY DEF TypeOK, RunOK, GateMove, AtGate, PCs, AttemptLimit

\* The ledger follows the two tables.
LEMMA LedgerOf ==
  ASSUME NEW r \in RunIds
  PROVE  Ledger[r] = IF runs[r] # NoRun
                     THEN [status |-> runs[r].status, attempt |-> runs[r].attempt]
                     ELSE [status |-> IF r \in Opened THEN "gone" ELSE "none", attempt |-> 0]
BY DEF Ledger, Opened

LEMMA LedgerOfNext ==
  ASSUME NEW r \in RunIds
  PROVE  Ledger'[r] = IF runs'[r] # NoRun
                      THEN [status |-> runs'[r].status, attempt |-> runs'[r].attempt]
                      ELSE [status |-> IF r \in Opened' THEN "gone" ELSE "none", attempt |-> 0]
BY DEF Ledger, Opened

LEMMA LedgerKept ==
  ASSUME UNCHANGED <<runs, started>>
  PROVE  Ledger' = Ledger /\ Opened' = Opened
BY DEF Ledger, Opened

\* A step that only takes run rows away is a Remove of the abstract history.
LEMMA RemoveStep ==
  ASSUME TypeOK, RunsOK, started' = started,
         \A r \in RunIds : runs'[r] = runs[r] \/ runs'[r] = NoRun
  PROVE  History!Next
<1> DEFINE rs == {r \in RunIds : runs[r] # NoRun /\ runs'[r] = NoRun}
<1>1. Opened' = Opened
  BY DEF Opened
<1>2. ASSUME NEW r \in RunIds
      PROVE  Ledger'[r] = IF r \in rs THEN History!Entry("gone", 0) ELSE Ledger[r]
  <2>1. CASE r \in rs
    <3>1. r \in Opened'
      BY <1>1, <2>1 DEF RunsOK, RunOK
    <3> QED
      BY <2>1, <3>1, LedgerOfNext DEF History!Entry
  <2>2. CASE r \notin rs
    <3>1. runs'[r] = runs[r]
      BY <2>2
    <3> QED
      BY <1>1, <2>2, <3>1, LedgerOf, LedgerOfNext
  <2> QED
    BY <2>1, <2>2
<1> HIDE DEF rs
<1>3. Ledger' = [r \in RunIds |-> IF r \in rs THEN History!Entry("gone", 0) ELSE Ledger[r]]
  <2>1. Ledger' = [r \in RunIds |-> Ledger'[r]]
    BY DEF Ledger
  <2> QED
    BY <1>2, <2>1
<1> USE DEF rs
<1>4. ASSUME NEW r \in rs PROVE Ledger[r].status \in History!Open \cup History!Closed
  <2>1. r \in RunIds /\ runs[r] # NoRun /\ runs[r] \in RunRow /\ runs[r].status # "lost"
    BY DEF TypeOK, RunsOK, RunOK
  <2>2. Ledger[r] = [status |-> runs[r].status, attempt |-> runs[r].attempt]
    BY <2>1, LedgerOf
  <2>3. runs[r].status \in RunStatuses
    BY <2>1 DEF RunRow
  <2> QED
    BY <2>1, <2>2, <2>3 DEF RunStatuses, TerminalStatuses, History!Open, History!Closed
<1>5. History!Remove(rs)
  BY <1>3, <1>4 DEF History!Remove
<1> QED
  BY <1>5 DEF History!Next

-----------------------------------------------------------------------------
\* Steps seen from the schedules table.

\* A step keeps the slugs of ids: it removes rows and jobs, rewrites them in
\* place, or uses the next id.
LEMMA RowFrame ==
  ASSUME GateInv, RowsOK, RecsOK,
         nextSchedule' \in Nat, nextSchedule <= nextSchedule',
         \A id \in ScheduleIds :
           \/ schedules'[id] = NoRow
           \/ /\ schedules[id] # NoRow
              /\ schedules'[id].id = id
              /\ schedules'[id].slug = schedules[id].slug
           \/ id = nextSchedule /\ id < nextSchedule' /\ schedules'[id].id = id,
         \A id \in ScheduleIds :
           \/ jobs'[id] = NoJob
           \/ jobs[id] # NoJob /\ jobs'[id].row = jobs[id].row
           \/ /\ schedules'[id] # NoRow
              /\ jobs'[id].row.id = id
              /\ jobs'[id].row.slug = schedules'[id].slug,
         \A r \in RunIds :
           \/ pc'[r] = "unborn"
           \/ pc[r] # "unborn" /\ rec'[r] = rec[r]
           \/ /\ rec'[r].id \in ScheduleIds
              /\ rec'[r].id < nextSchedule
              /\ schedules[rec'[r].id] # NoRow =>
                   schedules[rec'[r].id].slug = rec'[r].slug
  PROVE  RowsOK' /\ RecsOK'
<1>0. nextSchedule \in Nat /\ ScheduleIds \subseteq Nat
  BY ScheduleStoreAssumption DEF GateInv, TypeOK, ScheduleIds
<1>1. ASSUME NEW id \in ScheduleIds, schedules'[id] # NoRow
      PROVE  schedules'[id].id = id /\ id < nextSchedule'
  BY <1>0, <1>1 DEF RowsOK
<1>2. ASSUME NEW id \in ScheduleIds, jobs'[id] # NoJob
      PROVE  /\ jobs'[id].row.id = id
             /\ id < nextSchedule'
             /\ schedules'[id] # NoRow => jobs'[id].row.slug = schedules'[id].slug
  BY <1>0, <1>1, <1>2 DEF RowsOK
<1>3. ASSUME NEW r \in RunIds, pc'[r] # "unborn"
      PROVE  /\ rec'[r].id < nextSchedule'
             /\ schedules'[rec'[r].id] # NoRow =>
                  schedules'[rec'[r].id].slug = rec'[r].slug
  <2>1. /\ rec'[r].id \in ScheduleIds
        /\ rec'[r].id < nextSchedule
        /\ schedules[rec'[r].id] # NoRow => schedules[rec'[r].id].slug = rec'[r].slug
    BY <1>3 DEF GateInv, ThreadsOK, RecsOK, ScheduleRow
  <2>2. ASSUME NEW id \in ScheduleIds, id < nextSchedule, schedules'[id] # NoRow
        PROVE  schedules[id] # NoRow /\ schedules'[id].slug = schedules[id].slug
    BY <1>0, <2>2
  <2>3. rec'[r].id < nextSchedule'
    <3>1. \A n \in Nat : n < nextSchedule => n < nextSchedule'
      BY <1>0
    <3> QED
      BY <1>0, <2>1, <3>1
  <2>4. schedules'[rec'[r].id] # NoRow => schedules'[rec'[r].id].slug = rec'[r].slug
    BY <2>1, <2>2
  <2> QED
    BY <2>3, <2>4
<1> QED
  BY <1>1, <1>2, <1>3 DEF RowsOK, RecsOK

\* What every action is shown to do.
HistoryStep == HistoryInv' /\ (History!Next \/ Ledger' = Ledger)

\* An action that leaves the two tables and the attempts alone.
LEMMA PlainStep ==
  ASSUME HistoryInv, GateInv', UNCHANGED <<storeVars, rec, att, nextSchedule>>,
         \A id \in ScheduleIds : jobs'[id] = jobs[id] \/ jobs'[id] = NoJob,
         \A r \in RunIds : GateMove(r),
         \A r \in RunIds : pc'[r] = "unborn" <=> pc[r] = "unborn"
  PROVE  HistoryStep
<1>1. Ledger' = Ledger /\ Opened' = Opened
  BY LedgerKept DEF storeVars
<1>2. RunsOK'
  BY <1>1, RunFrame DEF HistoryInv, GateInv, RunsOK, storeVars
<1>3. RowsOK' /\ RecsOK' /\ ForeignKey'
  BY DEF HistoryInv, RowsOK, RecsOK, ForeignKey, storeVars
<1> QED
  BY <1>1, <1>2, <1>3 DEF HistoryStep, HistoryInv

\* syncCron(row) after the row has been written.
LEMMA SyncCronRows ==
  ASSUME GateInv, RowsOK, NEW row \in ScheduleRow, SyncCron(row), row.id \in ScheduleIds,
         schedules'[row.id] = row
  PROVE  /\ \A id \in ScheduleIds :
              \/ jobs'[id] = NoJob
              \/ jobs[id] # NoJob /\ jobs'[id].row = jobs[id].row
              \/ /\ schedules'[id] # NoRow
                 /\ jobs'[id].row.id = id
                 /\ jobs'[id].row.slug = schedules'[id].slug
         /\ \A r \in RunIds : pc'[r] = pc[r] \/ (pc[r] = "backoff" /\ pc'[r] = "done")
<1>1. jobs' = [jobs EXCEPT ![row.id] = SyncedJob(row)]
  BY DEF SyncCron
<1>2. row # NoRow
  BY ScheduleStoreAssumption
<1>3. \/ SyncedJob(row) = NoJob
      \/ jobs[row.id] # NoJob /\ SyncedJob(row) = [jobs[row.id] EXCEPT !.armed = FALSE]
      \/ SyncedJob(row) = [armed |-> HasNextRun(row), row |-> row]
  BY DEF SyncedJob
<1>4. jobs[row.id] # NoJob => [jobs[row.id] EXCEPT !.armed = FALSE].row = jobs[row.id].row
  BY DEF GateInv, TypeOK, Job
<1>5. \/ jobs'[row.id] = NoJob
      \/ jobs[row.id] # NoJob /\ jobs'[row.id].row = jobs[row.id].row
      \/ jobs'[row.id].row = row
  <2>1. jobs'[row.id] = SyncedJob(row)
    BY <1>1 DEF GateInv, TypeOK
  <2>2. [armed |-> HasNextRun(row), row |-> row].row = row
    OBVIOUS
  <2> QED
    BY <1>3, <1>4, <2>1, <2>2
<1>6. \A id \in ScheduleIds \ {row.id} : jobs'[id] = jobs[id]
  BY <1>1 DEF GateInv, TypeOK
<1>7. \A r \in RunIds : pc'[r] = pc[r] \/ (pc[r] = "backoff" /\ pc'[r] = "done")
  BY DEF GateInv, TypeOK, SyncCron, CancelRetries, RetryTimersOf
<1> QED
  BY <1>2, <1>5, <1>6, <1>7

-----------------------------------------------------------------------------
\* One lemma per action.

LEMMA UpsertHistory ==
  ASSUME HistoryInv, NEW def \in Definitions, Upsert(def)
  PROVE  HistoryStep
<1>0. UNCHANGED <<runs, started, rec, att, nextRun, phase>>
  BY DEF Upsert
<1>1. PICK id \in ScheduleIds :
        /\ schedules' = [schedules EXCEPT ![id] = RowOf(def, id)]
        /\ SyncCron(RowOf(def, id))
        /\ \/ id \in BySlug(schedules, def.slug) /\ nextSchedule' = nextSchedule
           \/ id = nextSchedule /\ nextSchedule' = nextSchedule + 1
  BY BySlugRow DEF Upsert, HistoryInv, GateInv
<1>2. /\ RowOf(def, id) \in ScheduleRow /\ RowOf(def, id).id = id
      /\ RowOf(def, id).slug = def.slug /\ RowOf(def, id) # NoRow
  BY RowOfType, ScheduleStoreAssumption DEF RowOf
<1>3. schedules'[id] = RowOf(def, id) /\ \A other \in ScheduleIds \ {id} : schedules'[other] = schedules[other]
  BY <1>1 DEF HistoryInv, GateInv, TypeOK
<1>4. /\ \A other \in ScheduleIds :
           \/ jobs'[other] = NoJob
           \/ jobs[other] # NoJob /\ jobs'[other].row = jobs[other].row
           \/ /\ schedules'[other] # NoRow
              /\ jobs'[other].row.id = other
              /\ jobs'[other].row.slug = schedules'[other].slug
      /\ \A r \in RunIds : pc'[r] = pc[r] \/ (pc[r] = "backoff" /\ pc'[r] = "done")
  BY <1>1, <1>2, <1>3, SyncCronRows DEF HistoryInv
<1>5. GateInv'
  BY UpsertOK DEF HistoryInv
<1>6. nextSchedule \in Nat /\ nextSchedule' \in Nat /\ nextSchedule <= nextSchedule'
      /\ (id = nextSchedule => id < nextSchedule' \/ nextSchedule' = nextSchedule)
  BY <1>1 DEF HistoryInv, GateInv, TypeOK
<1>7. \A other \in ScheduleIds :
        \/ schedules'[other] = NoRow
        \/ /\ schedules[other] # NoRow
           /\ schedules'[other].id = other
           /\ schedules'[other].slug = schedules[other].slug
        \/ other = nextSchedule /\ other < nextSchedule' /\ schedules'[other].id = other
  <2>1. id \in BySlug(schedules, def.slug) =>
          schedules[id] # NoRow /\ schedules[id].slug = def.slug
    BY DEF BySlug, Stored
  <2>2. \A other \in ScheduleIds : schedules[other] # NoRow => schedules[other].id = other
    BY DEF HistoryInv, RowsOK
  <2>3. nextSchedule < nextSchedule + 1
    BY <1>6
  <2> QED
    BY <1>1, <1>2, <1>3, <2>1, <2>2, <2>3
<1>8. RowsOK' /\ RecsOK'
  BY <1>0, <1>4, <1>6, <1>7, RowFrame DEF HistoryInv
<1>9. Ledger' = Ledger /\ Opened' = Opened
  BY <1>0, LedgerKept
<1>10. RunsOK'
  BY <1>0, <1>4, <1>9, RunFrame DEF HistoryInv, GateInv, RunsOK, GateMove
<1>11. ForeignKey'
  BY <1>0, <1>2, <1>3 DEF HistoryInv, ForeignKey, GateInv, TypeOK, RunRow
<1> QED
  BY <1>5, <1>8, <1>9, <1>10, <1>11 DEF HistoryStep, HistoryInv

LEMMA UpdateHistory ==
  ASSUME HistoryInv, NEW slug \in Slugs, NEW edit \in Edits, Update(slug, edit)
  PROVE  HistoryStep
<1>0. UNCHANGED <<runs, started, rec, att, nextRun, phase, nextSchedule>>
  BY DEF Update, idVars
<1>1. PICK id \in BySlug(schedules, slug) :
        /\ schedules' = [schedules EXCEPT ![id] = UpdatedRow(schedules[id], edit)]
        /\ SyncCron(UpdatedRow(schedules[id], edit))
  BY DEF Update
<1> DEFINE row == UpdatedRow(schedules[id], edit)
<1>2. id \in ScheduleIds /\ schedules[id] \in ScheduleRow /\ schedules[id].id = id
  BY BySlugRow, ScheduleStoreAssumption DEF HistoryInv, GateInv, RowsOK
<1>3. row \in ScheduleRow /\ row.id = id /\ row.slug = schedules[id].slug /\ row # NoRow
  BY <1>2, UpdatedRowType, ScheduleStoreAssumption DEF UpdatedRow, ScheduleRow
<1> HIDE DEF row
<1>4. schedules'[id] = row /\ \A other \in ScheduleIds \ {id} : schedules'[other] = schedules[other]
  BY <1>1, <1>2 DEF HistoryInv, GateInv, TypeOK, row
<1>5. /\ \A other \in ScheduleIds :
           \/ jobs'[other] = NoJob
           \/ jobs[other] # NoJob /\ jobs'[other].row = jobs[other].row
           \/ /\ schedules'[other] # NoRow
              /\ jobs'[other].row.id = other
              /\ jobs'[other].row.slug = schedules'[other].slug
      /\ \A r \in RunIds : pc'[r] = pc[r] \/ (pc[r] = "backoff" /\ pc'[r] = "done")
  BY <1>1, <1>2, <1>3, <1>4, SyncCronRows DEF HistoryInv, row
<1>6. GateInv'
  BY UpdateOK DEF HistoryInv
<1>7. \A other \in ScheduleIds :
        \/ schedules'[other] = NoRow
        \/ /\ schedules[other] # NoRow
           /\ schedules'[other].id = other
           /\ schedules'[other].slug = schedules[other].slug
  BY <1>2, <1>3, <1>4, ScheduleStoreAssumption DEF HistoryInv, RowsOK
<1>8. RowsOK' /\ RecsOK'
  BY <1>0, <1>5, <1>7, RowFrame DEF HistoryInv, GateInv, TypeOK
<1>9. Ledger' = Ledger /\ Opened' = Opened
  BY <1>0, LedgerKept
<1>10. RunsOK'
  BY <1>0, <1>5, <1>9, RunFrame DEF HistoryInv, GateInv, RunsOK, GateMove
<1>11. ForeignKey'
  BY <1>0, <1>3, <1>4 DEF HistoryInv, ForeignKey, GateInv, TypeOK, RunRow
<1> QED
  BY <1>6, <1>8, <1>9, <1>10, <1>11 DEF HistoryStep, HistoryInv

\* What a delete by slug takes away.
LEMMA DeleteRows ==
  ASSUME HistoryInv, NEW slug, schedules' = DeleteSlug(schedules, slug),
         NEW rs \in [RunIds -> RunRow \cup {NoRun}],
         runs' = CascadeRuns(schedules, rs, slug),
         \A r \in RunIds : rs[r] # NoRun => schedules[rs[r].schedule] # NoRow
  PROVE  /\ \A id \in ScheduleIds :
              \/ schedules'[id] = NoRow
              \/ /\ schedules[id] # NoRow
                 /\ schedules'[id].id = id
                 /\ schedules'[id].slug = schedules[id].slug
         /\ \A r \in RunIds : runs'[r] = rs[r] \/ runs'[r] = NoRun
         /\ ForeignKey'
<1>1. \A id \in ScheduleIds :
        schedules'[id] = IF id \in BySlug(schedules, slug) THEN NoRow ELSE schedules[id]
  BY DEF DeleteSlug
<1>2. \A r \in RunIds :
        runs'[r] = IF rs[r] # NoRun /\ rs[r].schedule \in BySlug(schedules, slug)
                   THEN NoRun ELSE rs[r]
  BY DEF CascadeRuns
<1>3. \A r \in RunIds : rs[r] # NoRun => rs[r].schedule \in ScheduleIds
  BY DEF RunRow
<1>4. ForeignKey'
  BY <1>1, <1>2, <1>3 DEF ForeignKey
<1> QED
  BY <1>1, <1>2, <1>4 DEF HistoryInv, RowsOK

LEMMA DeleteHistory ==
  ASSUME HistoryInv, NEW slug \in Slugs, Delete(slug)
  PROVE  HistoryStep
<1>0. /\ UNCHANGED <<started, rec, att, phase, nextSchedule>>
      /\ schedules' = DeleteSlug(schedules, slug)
      /\ runs' = CascadeRuns(schedules, runs, slug)
  BY DEF Delete, idVars
<1>1. /\ \A id \in ScheduleIds : jobs'[id] = jobs[id] \/ jobs'[id] = NoJob
      /\ \A r \in RunIds : pc'[r] = pc[r] \/ (pc[r] = "backoff" /\ pc'[r] = "done")
  BY DEF Delete, CancelRetries, RetryTimersOf, HistoryInv, GateInv, TypeOK
<1>2. GateInv'
  BY DeleteOK DEF HistoryInv
<1>3. /\ \A id \in ScheduleIds :
           \/ schedules'[id] = NoRow
           \/ /\ schedules[id] # NoRow
              /\ schedules'[id].id = id
              /\ schedules'[id].slug = schedules[id].slug
      /\ \A r \in RunIds : runs'[r] = runs[r] \/ runs'[r] = NoRun
      /\ ForeignKey'
  BY <1>0, DeleteRows DEF HistoryInv, ForeignKey, GateInv, TypeOK
<1>4. RowsOK' /\ RecsOK'
  BY <1>0, <1>1, <1>3, RowFrame DEF HistoryInv, GateInv, TypeOK
<1>5. History!Next
  BY <1>0, <1>3, RemoveStep DEF HistoryInv, GateInv
<1>6. RunsOK'
  BY <1>0, <1>1, <1>3, RunFrame DEF HistoryInv, GateInv, RunsOK, GateMove, Opened
<1> QED
  BY <1>2, <1>3, <1>4, <1>5, <1>6 DEF HistoryStep, HistoryInv

\* A new fire of a row that is, or was, in the table.
LEMMA FireHistory ==
  ASSUME HistoryInv, GateInv', NEW row \in ScheduleRow, NEW next \in {"acquired", "entered"},
         nextRun \in RunIds, Fire(nextRun, row, next),
         row.id < nextSchedule,
         schedules[row.id] # NoRow => schedules[row.id].slug = row.slug,
         UNCHANGED <<runs, started, att, phase, nextSchedule>>,
         \A id \in ScheduleIds :
           \/ schedules'[id] = NoRow /\ schedules[id] = NoRow
           \/ /\ schedules[id] # NoRow /\ schedules'[id] # NoRow
              /\ schedules'[id].id = id
              /\ schedules'[id].slug = schedules[id].slug,
         \A id \in ScheduleIds : jobs'[id] = NoJob \/ (jobs[id] # NoJob /\ jobs'[id].row = jobs[id].row)
  PROVE  HistoryStep
<1>1. PICK n \in RunIds :
        /\ n = nextRun /\ pc[n] = "unborn"
        /\ rec' = [rec EXCEPT ![n] = row] /\ EnterGate(n, next)
  <2>1. pc[nextRun] = "unborn"
    BY DEF HistoryInv, GateInv, ThreadsOK, TypeOK
  <2> QED
    BY <2>1, Zenon DEF Fire
<1>2. /\ pc'[n] \in AtGate
      /\ \A r \in RunIds \ {n} : pc'[r] = pc[r]
  BY <1>1, EnterGateOK DEF HistoryInv, GateInv, AtGate
<1>3. /\ rec'[n] = row
      /\ \A r \in RunIds \ {n} : rec'[r] = rec[r]
  BY <1>1 DEF HistoryInv, GateInv, TypeOK
<1>4. row.id \in ScheduleIds /\ row.maxAttempts \in Nat
  BY ScheduleStoreAssumption DEF ScheduleRow
<1>5. RowsOK' /\ RecsOK'
  <2>1. nextSchedule' \in Nat /\ nextSchedule <= nextSchedule'
    BY DEF HistoryInv, GateInv, TypeOK
  <2>2. \A r \in RunIds : \/ pc'[r] = "unborn"
                          \/ pc[r] # "unborn" /\ rec'[r] = rec[r]
                          \/ rec'[r] = row
    BY <1>2, <1>3
  <2>3. \A r \in RunIds : rec'[r] = row =>
          /\ rec'[r].id \in ScheduleIds
          /\ rec'[r].id < nextSchedule
          /\ schedules[rec'[r].id] # NoRow => schedules[rec'[r].id].slug = rec'[r].slug
    BY <1>4
  <2> QED
    BY <2>1, <2>2, <2>3, RowFrame DEF HistoryInv
<1>6. Ledger' = Ledger /\ Opened' = Opened
  BY LedgerKept
<1>7. ASSUME NEW r \in RunIds \ {n} PROVE RunOK(r)'
  BY <1>2, <1>3, <1>6, RunFrame DEF HistoryInv, GateInv, RunsOK, GateMove
<1>8. RunOK(n)'
  <2>1. att[n] = 0 /\ n \notin Opened /\ runs[n] = NoRun
    BY <1>1 DEF HistoryInv, RunsOK, RunOK
  <2>2. 0 <= AttemptLimit(row)
    BY <1>4, ScheduleManagerAssumption DEF AttemptLimit
  <2> QED
    BY <1>2, <1>3, <1>6, <2>1, <2>2 DEF RunOK, AtGate, AttemptLimit
<1>9. RunsOK'
  BY <1>7, <1>8 DEF RunsOK
<1>10. ForeignKey'
  <2>1. \A r \in RunIds : runs[r] # NoRun => runs[r].schedule \in ScheduleIds
    BY DEF HistoryInv, GateInv, TypeOK, RunRow
  <2> QED
    BY <2>1 DEF HistoryInv, ForeignKey
<1> QED
  BY <1>5, <1>6, <1>9, <1>10 DEF HistoryStep, HistoryInv

LEMMA FireNowHistory ==
  ASSUME HistoryInv, NEW slug, FireNow(slug)
  PROVE  HistoryStep
<1>0. UNCHANGED <<storeVars, jobs, att, phase, nextSchedule>> /\ nextRun \in RunIds
  BY DEF FireNow
<1>1. PICK id \in BySlug(schedules, slug) : Fire(nextRun, schedules[id], "acquired")
  BY DEF FireNow
<1>2. schedules[id] \in ScheduleRow /\ schedules[id] # NoRow
      /\ schedules[id].id = id /\ id \in ScheduleIds /\ id < nextSchedule
  BY BySlugRow, ScheduleStoreAssumption DEF HistoryInv, GateInv, RowsOK
<1>3. GateInv'
  BY FireNowOK DEF HistoryInv
<1> QED
  BY <1>0, <1>1, <1>2, <1>3, FireHistory DEF storeVars, HistoryInv, RowsOK

LEMMA CronFireHistory ==
  ASSUME HistoryInv, NEW id \in ScheduleIds, CronFire(id)
  PROVE  HistoryStep
<1>0. /\ UNCHANGED <<runs, started, att, phase, nextSchedule>>
      /\ nextRun \in RunIds
      /\ Armed(id)
      /\ Fire(nextRun, jobs[id].row, "entered")
  BY DEF CronFire
<1>1. jobs[id] # NoJob /\ jobs[id] \in Job /\ jobs[id].row \in ScheduleRow
  BY <1>0 DEF HistoryInv, GateInv, TypeOK, Armed, Job
<1>2. /\ jobs[id].row.id = id /\ id < nextSchedule
      /\ schedules[id] # NoRow => jobs[id].row.slug = schedules[id].slug
  BY <1>1 DEF HistoryInv, RowsOK
<1>3. GateInv'
  BY CronFireOK DEF HistoryInv
<1>4. \A other \in ScheduleIds :
        jobs'[other] = NoJob \/ (jobs[other] # NoJob /\ jobs'[other].row = jobs[other].row)
  <2>1. [jobs[id] EXCEPT !.armed = FALSE].row = jobs[id].row
    BY <1>1 DEF Job
  <2>2. jobs' = jobs \/ jobs' = [jobs EXCEPT ![id].armed = FALSE]
    BY DEF CronFire
  <2> QED
    BY <1>1, <2>1, <2>2 DEF HistoryInv, GateInv, TypeOK
<1>5. \A other \in ScheduleIds :
        \/ schedules'[other] = NoRow /\ schedules[other] = NoRow
        \/ /\ schedules[other] # NoRow /\ schedules'[other] # NoRow
           /\ schedules'[other].id = other
           /\ schedules'[other].slug = schedules[other].slug
  <2>1. schedules[id] # NoRow =>
          /\ [schedules[id] EXCEPT !.expr = "past"] \in ScheduleRow
          /\ [schedules[id] EXCEPT !.expr = "past"].id = schedules[id].id
          /\ [schedules[id] EXCEPT !.expr = "past"].slug = schedules[id].slug
    BY DEF HistoryInv, GateInv, TypeOK, ScheduleRow, Exprs
  <2>2. \/ schedules' = schedules
        \/ schedules' = [schedules EXCEPT ![id] = IF @ = NoRow THEN @
                                                  ELSE [@ EXCEPT !.expr = "past"]]
    BY DEF CronFire
  <2>3. \A other \in ScheduleIds : schedules[other] # NoRow => schedules[other].id = other
    BY DEF HistoryInv, RowsOK
  <2> QED
    BY <2>1, <2>2, <2>3, ScheduleStoreAssumption DEF HistoryInv, GateInv, TypeOK
<1> QED
  BY <1>0, <1>1, <1>2, <1>3, <1>4, <1>5, FireHistory

LEMMA TimePassesHistory ==
  ASSUME HistoryInv, NEW id \in ScheduleIds, TimePasses(id)
  PROVE  HistoryStep
<1>0. /\ UNCHANGED <<runs, started, jobs, pc, rec, att, nextSchedule>>
      /\ schedules[id] # NoRow
      /\ schedules' = [schedules EXCEPT ![id].expr = "past"]
  BY DEF TimePasses, taskVars, idVars
<1>1. /\ [schedules[id] EXCEPT !.expr = "past"] # NoRow
      /\ [schedules[id] EXCEPT !.expr = "past"].id = schedules[id].id
      /\ [schedules[id] EXCEPT !.expr = "past"].slug = schedules[id].slug
  <2>1. [schedules[id] EXCEPT !.expr = "past"] \in ScheduleRow
    BY <1>0 DEF HistoryInv, GateInv, TypeOK, ScheduleRow, Exprs
  <2> QED
    BY <1>0, <2>1, ScheduleStoreAssumption DEF HistoryInv, GateInv, TypeOK, ScheduleRow
<1>2. \A other \in ScheduleIds :
        \/ schedules'[other] = schedules[other]
        \/ /\ other = id
           /\ schedules'[other] # NoRow
           /\ schedules'[other].id = schedules[other].id
           /\ schedules'[other].slug = schedules[other].slug
  BY <1>0, <1>1 DEF HistoryInv, GateInv, TypeOK
<1>3. GateInv'
  BY TimePassesOK DEF HistoryInv
<1>4. RowsOK' /\ RecsOK'
  <2>1. \A other \in ScheduleIds : schedules[other] # NoRow => schedules[other].id = other
    BY DEF HistoryInv, RowsOK
  <2> QED
    BY <1>0, <1>2, <2>1, RowFrame DEF HistoryInv, GateInv, TypeOK
<1>5. Ledger' = Ledger /\ Opened' = Opened
  BY <1>0, LedgerKept
<1>6. RunsOK'
  BY <1>0, <1>5, RunFrame DEF HistoryInv, GateInv, RunsOK, GateMove
<1>7. ForeignKey'
  <2>1. \A r \in RunIds : runs[r] # NoRun => runs[r].schedule \in ScheduleIds
    BY DEF HistoryInv, GateInv, TypeOK, RunRow
  <2> QED
    BY <1>0, <1>2, <2>1 DEF HistoryInv, ForeignKey
<1> QED
  BY <1>3, <1>4, <1>5, <1>6, <1>7 DEF HistoryStep, HistoryInv

LEMMA ResumeWaiterHistory ==
  ASSUME HistoryInv, NEW r \in RunIds, ResumeWaiter(r)
  PROVE  HistoryStep
<1>1. /\ pc[r] = "woken"
      /\ pc' = [pc EXCEPT ![r] = "done"] \/ pc' = [pc EXCEPT ![r] = "acquired"]
      /\ UNCHANGED <<storeVars, jobs, rec, att, nextSchedule>>
  BY DEF ResumeWaiter, idVars
<1>2. GateInv'
  BY ResumeWaiterInv DEF HistoryInv
<1>3. \A s \in RunIds : GateMove(s) /\ (pc'[s] = "unborn" <=> pc[s] = "unborn")
  BY <1>1 DEF HistoryInv, GateInv, TypeOK, GateMove, AtGate
<1> QED
  BY <1>1, <1>2, <1>3, PlainStep

LEMMA StartRetryHistory ==
  ASSUME HistoryInv, NEW r \in RunIds, StartRetry(r)
  PROVE  HistoryStep
<1>1. /\ pc[r] \in AtGate /\ att[r] > 0
      /\ pc' = [pc EXCEPT ![r] = "dispatching"]
      /\ UNCHANGED <<storeVars, jobs, rec, att, nextSchedule>>
  BY DEF StartRetry, Dispatch, AtGate, idVars
<1>2. GateInv'
  BY StartRetryOK DEF HistoryInv
<1>3. \A s \in RunIds : GateMove(s) /\ (pc'[s] = "unborn" <=> pc[s] = "unborn")
  BY <1>1 DEF HistoryInv, GateInv, TypeOK, GateMove, AtGate
<1> QED
  BY <1>1, <1>2, <1>3, PlainStep

LEMMA ObservationHistory ==
  ASSUME HistoryInv, NEW r \in RunIds,
         (\E category \in Categories : TurnError(r, category)) \/ AgentEnd(r) \/ ObserveTimeout(r)
  PROVE  HistoryStep
<1>1. UNCHANGED <<storeVars, jobs, pc, rec, att, nextSchedule>>
  BY DEF TurnError, AgentEnd, ObserveTimeout, idVars
<1>2. GateInv'
  BY ObservationOK DEF HistoryInv
<1>3. \A s \in RunIds : GateMove(s) /\ (pc'[s] = "unborn" <=> pc[s] = "unborn")
  BY <1>1 DEF GateMove
<1> QED
  BY <1>1, <1>2, <1>3, PlainStep

LEMMA RetryTimerHistory ==
  ASSUME HistoryInv, NEW r \in RunIds, RetryTimer(r)
  PROVE  HistoryStep
<1>1. pc[r] = "backoff" /\ phase' = phase
      /\ UNCHANGED <<storeVars, jobs, rec, att, nextSchedule>>
  BY DEF RetryTimer, idVars
<1>2. GateInv'
  BY RetryTimerOK DEF HistoryInv
<1>3. ASSUME NEW s \in RunIds
      PROVE  GateMove(s) /\ (pc'[s] = "unborn" <=> pc[s] = "unborn")
  <2>1. CASE EnterGate(r, "entered")
    <3>1. pc'[r] \in {"waiting", "entered"} /\ \A t \in RunIds \ {r} : pc'[t] = pc[t]
      BY <1>1, <2>1, EnterGateOK DEF HistoryInv, GateInv
    <3> QED
      BY <1>1, <3>1 DEF GateMove, AtGate
  <2>2. CASE pc' = [pc EXCEPT ![r] = "done"]
    BY <1>1, <2>2 DEF GateMove, HistoryInv, GateInv, TypeOK
  <2>3. CASE pc' = CancelRetries(rec[r].id)
    BY <2>3 DEF GateMove, CancelRetries, RetryTimersOf
  <2> QED
    BY <2>1, <2>2, <2>3 DEF RetryTimer
<1> QED
  BY <1>1, <1>2, <1>3, PlainStep

LEMMA StopHistory ==
  ASSUME HistoryInv, Stop
  PROVE  HistoryStep
<1>1. /\ UNCHANGED <<storeVars, rec, att, nextSchedule>>
      /\ \A id \in ScheduleIds : jobs'[id] = NoJob
      /\ pc' = [r \in RunIds |-> IF pc[r] = "backoff" THEN "done" ELSE pc[r]]
  BY DEF Stop, idVars
<1>2. GateInv'
  BY StopOK DEF HistoryInv
<1>3. \A s \in RunIds : GateMove(s) /\ (pc'[s] = "unborn" <=> pc[s] = "unborn")
  BY <1>1 DEF GateMove
<1> QED
  BY <1>1, <1>2, <1>3, PlainStep

LEMMA CrashHistory ==
  ASSUME HistoryInv, Crash
  PROVE  HistoryStep
<1>1. /\ UNCHANGED <<storeVars, rec, att, nextSchedule>>
      /\ \A id \in ScheduleIds : jobs'[id] = NoJob
      /\ pc' = [r \in RunIds |-> IF pc[r] = "unborn" THEN "unborn" ELSE "done"]
  BY DEF Crash, idVars
<1>2. GateInv'
  BY CrashOK DEF HistoryInv
<1>3. \A s \in RunIds : GateMove(s) /\ (pc'[s] = "unborn" <=> pc[s] = "unborn")
  BY <1>1 DEF GateMove
<1> QED
  BY <1>1, <1>2, <1>3, PlainStep

LEMMA StartHistory ==
  ASSUME HistoryInv, NEW cutoff \in 0..Len(started), Start(cutoff)
  PROVE  HistoryStep
<1>0. /\ UNCHANGED <<schedules, started, pc, rec, att, nextSchedule>>
      /\ runs' = Cleanup(runs, started, KeepRuns, cutoff)
  BY DEF Start, taskVars, idVars
<1>1. \A r \in RunIds : runs'[r] = runs[r] \/ runs'[r] = NoRun
  BY <1>0 DEF Cleanup
<1>2. GateInv'
  BY StartOK DEF HistoryInv
<1>3. \A id \in ScheduleIds :
        \/ jobs'[id] = NoJob
        \/ /\ schedules'[id] # NoRow
           /\ jobs'[id].row.id = id
           /\ jobs'[id].row.slug = schedules'[id].slug
        \/ jobs[id] # NoJob /\ jobs'[id].row = jobs[id].row
  <2>1. ASSUME NEW id \in ListEnabled(schedules)
        PROVE  /\ schedules[id] \in ScheduleRow /\ schedules[id] # NoRow
               /\ schedules[id].id = id /\ id \in ScheduleIds
    BY DEF HistoryInv, GateInv, TypeOK, RowsOK, ListEnabled, Stored
  <2>2. ASSUME NEW id \in ListEnabled(schedules)
        PROVE  \/ SyncedJob(schedules[id]) = NoJob
               \/ /\ jobs[id] # NoJob
                  /\ SyncedJob(schedules[id]) = [jobs[id] EXCEPT !.armed = FALSE]
               \/ SyncedJob(schedules[id]) =
                    [armed |-> HasNextRun(schedules[id]), row |-> schedules[id]]
    BY <2>1 DEF SyncedJob
  <2>3. \A id \in ScheduleIds : jobs[id] # NoJob =>
          [jobs[id] EXCEPT !.armed = FALSE].row = jobs[id].row
    BY DEF HistoryInv, GateInv, TypeOK, Job
  <2>4. \A id \in ScheduleIds :
          \/ jobs'[id] = NoJob
          \/ id \in ListEnabled(schedules) /\ jobs'[id] = SyncedJob(schedules[id])
    BY DEF Start
  <2>5. ASSUME NEW id \in ListEnabled(schedules), jobs'[id] = SyncedJob(schedules[id])
        PROVE  \/ jobs'[id] = NoJob
               \/ jobs'[id].row = schedules[id]
               \/ jobs[id] # NoJob /\ jobs'[id].row = jobs[id].row
    <3>1. [armed |-> HasNextRun(schedules[id]), row |-> schedules[id]].row = schedules[id]
      OBVIOUS
    <3>2. jobs[id] # NoJob => [jobs[id] EXCEPT !.armed = FALSE].row = jobs[id].row
      BY <2>1, <2>3
    <3> QED
      BY <2>2, <2>5, <3>1, <3>2
  <2> QED
    BY <1>0, <2>1, <2>4, <2>5
<1>4. RowsOK' /\ RecsOK'
  <2>1. \A id \in ScheduleIds : schedules[id] # NoRow => schedules[id].id = id
    BY DEF HistoryInv, RowsOK
  <2> QED
    BY <1>0, <1>3, <2>1, RowFrame DEF HistoryInv, GateInv, TypeOK
<1>5. History!Next
  BY <1>0, <1>1, RemoveStep DEF HistoryInv, GateInv
<1>6. RunsOK'
  BY <1>0, <1>1, RunFrame DEF HistoryInv, GateInv, RunsOK, GateMove, Opened
<1>7. ForeignKey'
  BY <1>0, <1>1 DEF HistoryInv, ForeignKey
<1> QED
  BY <1>2, <1>4, <1>5, <1>6, <1>7 DEF HistoryStep, HistoryInv

-----------------------------------------------------------------------------
\* The steps of a fire that write its row.

\* What such a step of fire r leaves of the others.
OthersMove(r) ==
  \A s \in RunIds \ {r} :
    pc'[s] = pc[s] \/ (pc[s] = "waiting" /\ pc'[s] = "woken")

LEMMA OthersKept ==
  ASSUME HistoryInv, NEW r \in RunIds, OthersMove(r), RunOK(r)',
         UNCHANGED <<started, rec>>,
         \A s \in RunIds \ {r} : att'[s] = att[s] /\ runs'[s] = runs[s]
  PROVE  RunsOK'
<1>1. ASSUME NEW s \in RunIds \ {r} PROVE RunOK(s)'
  BY RunFrame DEF HistoryInv, GateInv, RunsOK, OthersMove, GateMove, AtGate, Opened
<1> QED
  BY <1>1 DEF RunsOK

\* One row of the ledger changes.
LEMMA LedgerStep ==
  ASSUME NEW r \in RunIds, Opened' = Opened \/ Opened' = Opened \cup {r},
         \A s \in RunIds \ {r} : runs'[s] = runs[s]
  PROVE  Ledger' = [Ledger EXCEPT ![r] = Ledger'[r]]
<1>1. Ledger' = [s \in RunIds |-> Ledger'[s]] /\ Ledger = [s \in RunIds |-> Ledger[s]]
  BY DEF Ledger
<1>2. \A s \in RunIds \ {r} : Ledger'[s] = Ledger[s]
  BY LedgerOf, LedgerOfNext
<1> QED
  BY <1>1, <1>2

\* The shape of the state after a step that touches no table but schedule_runs.
LEMMA TablesKept ==
  ASSUME HistoryInv, UNCHANGED <<schedules, jobs, rec, nextSchedule>>,
         \A s \in RunIds : pc'[s] = "unborn" \/ pc[s] # "unborn",
         \A s \in RunIds : \/ runs'[s] = NoRun
                           \/ runs[s] # NoRun /\ runs'[s].schedule = runs[s].schedule
  PROVE  RowsOK' /\ RecsOK' /\ ForeignKey'
BY DEF HistoryInv, RowsOK, RecsOK, ForeignKey

LEMMA StartRunHistory ==
  ASSUME HistoryInv, NEW r \in RunIds, StartRun(r)
  PROVE  HistoryStep
<1>0. /\ UNCHANGED <<schedules, jobs, rec, att, phase, nextSchedule>>
      /\ pc[r] \in {"acquired", "entered"} /\ att[r] = 0
  BY DEF StartRun, idVars
<1>g. GateInv'
  BY StartRunOK DEF HistoryInv
<1>1. CASE Release(r, "done") /\ UNCHANGED <<runs, started, pending>>
  <2>1. pc'[r] = "done" /\ OthersMove(r)
    BY <1>0, <1>1, ReleaseOK DEF HistoryInv, GateInv, HoldsSlot, OthersMove
  <2>2. \A s \in RunIds : GateMove(s) /\ (pc'[s] = "unborn" <=> pc[s] = "unborn")
    BY <1>0, <2>1 DEF OthersMove, GateMove, AtGate
  <2> QED
    BY <1>0, <1>1, <1>g, <2>2, PlainStep DEF storeVars
<1>2. CASE /\ schedules[rec[r].id] # NoRow
           /\ runs' = RecordRunStart(runs, r, rec[r].id)
           /\ started' = Append(started, r)
           /\ Dispatch(r)
  <2> DEFINE row == [schedule |-> rec[r].id, status |-> "queued", attempt |-> 0]
  <2>1. runs'[r] = row /\ row \in RunRow /\ row # NoRun
        /\ \A s \in RunIds \ {r} : runs'[s] = runs[s]
    <3>1. row \in RunRow
      BY <1>0 DEF HistoryInv, GateInv, ThreadsOK, ScheduleRow, RunRow, RunStatuses
    <3> QED
      BY <1>2, <3>1, ScheduleStoreAssumption DEF RecordRunStart, HistoryInv, GateInv, TypeOK
  <2>2. pc'[r] = "dispatching" /\ \A s \in RunIds \ {r} : pc'[s] = pc[s]
    BY <1>2 DEF Dispatch, HistoryInv, GateInv, TypeOK
  <2>3. Opened' = Opened \cup {r}
    <3>1. /\ Len(started') = Len(started) + 1
          /\ \A n \in 1..Len(started) : started'[n] = started[n]
          /\ started'[Len(started) + 1] = r
          /\ Len(started) \in Nat
      BY <1>2, AppendProperties DEF HistoryInv, GateInv, TypeOK
    <3>2. ASSUME NEW s \in RunIds
          PROVE  (\E n \in 1..Len(started') : started'[n] = s)
                   <=> (s = r \/ \E n \in 1..Len(started) : started[n] = s)
      BY <3>1
    <3> QED
      BY <3>2 DEF Opened
  <2>4. r \notin Opened /\ runs[r] = NoRun
    BY <1>0 DEF HistoryInv, RunsOK, RunOK, AtGate
  <2>5. RunOK(r)'
    BY <1>0, <2>1, <2>2, <2>3 DEF RunOK, AtGate, AttemptLimit, HistoryInv, RunsOK
  <2>6. ASSUME NEW s \in RunIds \ {r} PROVE RunOK(s)'
    BY <1>0, <2>1, <2>2, <2>3, RunFrame DEF HistoryInv, GateInv, RunsOK, GateMove
  <2>7. RowsOK' /\ RecsOK' /\ ForeignKey'
    BY <1>0, <1>2, <2>1, <2>2 DEF HistoryInv, RowsOK, RecsOK, ForeignKey
  <2>8. Ledger[r].status = "none" /\ Ledger'[r] = History!Entry("queued", 0)
    <3>1. Ledger[r] = [status |-> "none", attempt |-> 0]
      BY <2>4, LedgerOf
    <3>2. Ledger'[r] = [status |-> runs'[r].status, attempt |-> runs'[r].attempt]
      BY <2>1, LedgerOfNext
    <3> QED
      BY <2>1, <3>1, <3>2 DEF History!Entry
  <2>9. History!Begin(r)
    BY <2>1, <2>3, <2>8, LedgerStep DEF History!Begin
  <2> QED
    BY <1>g, <2>5, <2>6, <2>7, <2>9 DEF HistoryStep, HistoryInv, RunsOK, History!Next
<1> QED
  BY <1>1, <1>2 DEF StartRun

LEMMA DispatchOkHistory ==
  ASSUME HistoryInv, NEW r \in RunIds, DispatchOk(r)
  PROVE  HistoryStep
<1>0. /\ UNCHANGED <<schedules, started, jobs, rec, att, phase, nextSchedule>>
      /\ pc[r] = "dispatching"
      /\ pc' = [pc EXCEPT ![r] = "observing"]
      /\ runs' = RecordRunAdmitted(runs, r)
  BY DEF DispatchOk, idVars
<1>g. GateInv'
  BY DispatchOkOK DEF HistoryInv
<1>1. /\ pc'[r] = "observing"
      /\ OthersMove(r)
      /\ \A s \in RunIds \ {r} : runs'[s] = runs[s]
      /\ runs'[r] = IF runs[r] = NoRun THEN NoRun ELSE [runs[r] EXCEPT !.status = "admitted"]
  BY <1>0 DEF RecordRunAdmitted, OthersMove, HistoryInv, GateInv, TypeOK
<1>2. Opened' = Opened
  BY <1>0 DEF Opened
<1>3. runs[r] # NoRun =>
        /\ runs[r].status = "queued"
        /\ runs'[r] # NoRun
        /\ runs'[r].schedule = runs[r].schedule
        /\ runs'[r].attempt = runs[r].attempt
        /\ runs'[r].status = "admitted"
  <2>1. runs[r] # NoRun => runs[r] \in RunRow /\ runs[r].status = "queued"
    BY <1>0 DEF HistoryInv, GateInv, TypeOK, RunsOK, RunOK
  <2>2. runs[r] # NoRun => [runs[r] EXCEPT !.status = "admitted"] \in RunRow
    BY <2>1 DEF RunRow, RunStatuses
  <2> QED
    BY <1>1, <2>1, <2>2, ScheduleStoreAssumption DEF RunRow
<1>4. RunOK(r)'
  BY <1>0, <1>1, <1>2, <1>3 DEF HistoryInv, RunsOK, RunOK, AtGate, AttemptLimit
<1>5. RunsOK'
  BY <1>0, <1>1, <1>4, OthersKept
<1>6. RowsOK' /\ RecsOK' /\ ForeignKey'
  BY <1>0, <1>1, <1>3, TablesKept DEF OthersMove
<1>7. History!Next \/ Ledger' = Ledger
  <2>1. CASE runs[r] = NoRun
    <3>1. runs' = runs
      BY <1>0, <2>1 DEF RecordRunAdmitted, HistoryInv, GateInv, TypeOK
    <3> QED
      BY <1>0, <3>1, LedgerKept
  <2>2. CASE runs[r] # NoRun
    <3>1. /\ Ledger[r] = [status |-> "queued", attempt |-> runs[r].attempt]
          /\ Ledger'[r] = [status |-> "admitted", attempt |-> runs[r].attempt]
      BY <1>3, <2>2, LedgerOf, LedgerOfNext
    <3>2. Ledger' = [Ledger EXCEPT ![r].status = "admitted"]
      BY <1>1, <1>2, <3>1, LedgerStep
    <3>3. History!Admit(r)
      BY <3>1, <3>2 DEF History!Admit
    <3> QED
      BY <3>3 DEF History!Next
  <2> QED
    BY <2>1, <2>2
<1> QED
  BY <1>g, <1>5, <1>6, <1>7 DEF HistoryStep, HistoryInv

LEMMA ScheduleRetryHistory ==
  ASSUME HistoryInv, NEW r \in RunIds, ScheduleRetry(r)
  PROVE  HistoryStep
<1>0. /\ UNCHANGED <<schedules, started, jobs, rec, phase, nextSchedule>>
      /\ pc[r] = "observing"
      /\ runs' = RecordRunRetry(runs, r)
      /\ att' = [att EXCEPT ![r] = @ + 1]
      /\ att[r] < AttemptLimit(rec[r])
      /\ Release(r, "backoff")
  BY DEF ScheduleRetry, Retries, idVars
<1>g. GateInv'
  BY ScheduleRetryOK DEF HistoryInv
<1>1. /\ pc'[r] = "backoff"
      /\ OthersMove(r)
      /\ \A s \in RunIds \ {r} : runs'[s] = runs[s] /\ att'[s] = att[s]
      /\ runs'[r] = IF runs[r] = NoRun THEN NoRun
                    ELSE [runs[r] EXCEPT !.status = "queued", !.attempt = runs[r].attempt + 1]
      /\ att[r] \in Nat /\ att'[r] = att[r] + 1
  <2>1. pc'[r] = "backoff" /\ OthersMove(r)
    BY <1>0, ReleaseOK DEF HistoryInv, GateInv, HoldsSlot, OthersMove
  <2> QED
    BY <1>0, <2>1 DEF RecordRunRetry, HistoryInv, GateInv, TypeOK
<1>2. Opened' = Opened
  BY <1>0 DEF Opened
<1>3. ASSUME runs[r] # NoRun
      PROVE  /\ runs[r].status = "admitted"
             /\ runs[r].attempt = att[r]
             /\ runs'[r] # NoRun
             /\ runs'[r].schedule = runs[r].schedule
             /\ runs'[r].attempt = att[r] + 1
             /\ runs'[r].status = "queued"
  <2>1. runs[r] \in RunRow /\ runs[r].status = "admitted" /\ runs[r].attempt = att[r]
    BY <1>0, <1>3 DEF HistoryInv, GateInv, TypeOK, RunsOK, RunOK
  <2>2. runs'[r] = [runs[r] EXCEPT !.status = "queued", !.attempt = runs[r].attempt + 1]
    BY <1>1, <1>3
  <2>3. /\ runs'[r].schedule = runs[r].schedule
        /\ runs'[r].attempt = att[r] + 1
        /\ runs'[r].status = "queued"
    BY <2>1, <2>2 DEF RunRow
  <2>4. runs'[r] # NoRun
    <3>1. [schedule |-> runs[r].schedule, status |-> "queued", attempt |-> att[r] + 1] \in RunRow
      BY <1>1, <2>1 DEF RunRow, RunStatuses
    <3>2. runs'[r] = [schedule |-> runs[r].schedule, status |-> "queued", attempt |-> att[r] + 1]
      BY <2>1, <2>2 DEF RunRow
    <3> QED
      BY <3>1, <3>2, ScheduleStoreAssumption
  <2> QED
    BY <2>1, <2>3, <2>4
<1>4. AttemptLimit(rec[r]) \in Nat /\ AttemptLimit(rec[r]) <= MaxAttempt
  <2>1. rec[r] \in ScheduleRow
    BY <1>0 DEF HistoryInv, GateInv, ThreadsOK
  <2> QED
    BY <2>1, ScheduleStoreAssumption, ScheduleManagerAssumption
       DEF AttemptLimit, MaxAttempt, ScheduleRow
<1>5. RunOK(r)'
  <2>1. att'[r] > 0 /\ att'[r] <= AttemptLimit(rec[r])
    BY <1>0, <1>1, <1>4
  <2>2. rec'[r] = rec[r]
    BY <1>0
  <2>3. runs'[r] # NoRun => r \in Opened' /\ runs'[r].schedule = rec[r].id
    BY <1>0, <1>1, <1>2, <1>3 DEF HistoryInv, RunsOK, RunOK
  <2> QED
    BY <1>1, <1>3, <2>1, <2>2, <2>3 DEF RunOK, AtGate, AttemptLimit
<1>6. RunsOK'
  BY <1>0, <1>1, <1>5, OthersKept
<1>7. RowsOK' /\ RecsOK' /\ ForeignKey'
  BY <1>0, <1>1, <1>3, TablesKept DEF OthersMove
<1>8. History!Next \/ Ledger' = Ledger
  <2>1. CASE runs[r] = NoRun
    <3>1. runs' = runs
      BY <1>0, <2>1 DEF RecordRunRetry, HistoryInv, GateInv, TypeOK
    <3> QED
      BY <1>0, <3>1, LedgerKept
  <2>2. CASE runs[r] # NoRun
    <3>1. /\ Ledger[r] = [status |-> "admitted", attempt |-> att[r]]
          /\ Ledger'[r] = [status |-> "queued", attempt |-> att[r] + 1]
      BY <1>3, <2>2, LedgerOf, LedgerOfNext
    <3>2. Ledger' = [Ledger EXCEPT ![r] = History!Entry("queued", Ledger[r].attempt + 1)]
      BY <1>1, <1>2, <3>1, LedgerStep DEF History!Entry
    <3>3. att[r] < MaxAttempt
      BY <1>0, <1>1, <1>4, ScheduleStoreAssumption, ScheduleManagerAssumption DEF MaxAttempt
    <3>4. History!Retry(r)
      BY <3>1, <3>2, <3>3 DEF History!Retry
    <3> QED
      BY <3>4 DEF History!Next
  <2> QED
    BY <2>1, <2>2
<1> QED
  BY <1>g, <1>6, <1>7, <1>8 DEF HistoryStep, HistoryInv

\* The end of a fire: its row is closed, or removed with its schedule.
LEMMA SettleHistory ==
  ASSUME HistoryInv, GateInv', NEW r \in RunIds, NEW status \in History!Closed,
         pc[r] = "observing" \/ (pc[r] = "dispatching" /\ status = "error"),
         Settle(r, status),
         UNCHANGED <<started, rec, att, phase, nextSchedule>>
  PROVE  HistoryStep
<1> DEFINE closed == RecordRunTerminal(runs, r, status)
<1>t. status \in TerminalStatuses /\ status # "lost"
  BY DEF History!Closed, TerminalStatuses
<1>0. /\ pc'[r] = "done"
      /\ OthersMove(r)
      /\ Opened' = Opened
  BY ReleaseOK DEF Settle, HistoryInv, GateInv, HoldsSlot, OthersMove, Opened
<1>1. /\ closed \in [RunIds -> RunRow \cup {NoRun}]
      /\ \A s \in RunIds \ {r} : closed[s] = runs[s]
      /\ runs[r] = NoRun => closed[r] = NoRun
      /\ runs[r] # NoRun =>
           /\ closed[r] # NoRun
           /\ closed[r].schedule = runs[r].schedule
           /\ closed[r].attempt = runs[r].attempt
           /\ closed[r].status = status
  <2>1. runs[r] # NoRun =>
          /\ [runs[r] EXCEPT !.status = status] \in RunRow
          /\ [runs[r] EXCEPT !.status = status].schedule = runs[r].schedule
          /\ [runs[r] EXCEPT !.status = status].attempt = runs[r].attempt
          /\ [runs[r] EXCEPT !.status = status].status = status
    <3>1. runs[r] # NoRun => runs[r] \in RunRow
      BY DEF HistoryInv, GateInv, TypeOK
    <3>2. status \in RunStatuses
      BY <1>t DEF RunStatuses
    <3> QED
      BY <3>1, <3>2 DEF RunRow
  <2>2. closed \in [RunIds -> RunRow \cup {NoRun}]
    BY <1>t, RecordRunTypes DEF HistoryInv, GateInv
  <2>3. /\ \A s \in RunIds \ {r} : closed[s] = runs[s]
        /\ closed[r] = IF runs[r] = NoRun THEN NoRun ELSE [runs[r] EXCEPT !.status = status]
    BY DEF RecordRunTerminal, HistoryInv, GateInv, TypeOK
  <2> QED
    BY <2>1, <2>2, <2>3, ScheduleStoreAssumption
<1>2. runs[r] # NoRun =>
        /\ runs[r].schedule = rec[r].id
        /\ runs[r].status = IF pc[r] = "observing" THEN "admitted" ELSE "queued"
        /\ schedules[rec[r].id] # NoRow
        /\ schedules[rec[r].id].slug = rec[r].slug
        /\ rec[r].id \in ScheduleIds
  BY DEF HistoryInv, RunsOK, RunOK, RecsOK, ForeignKey, GateInv, ThreadsOK, ScheduleRow
<1> HIDE DEF closed
<1>3. ASSUME \/ runs'[r] = NoRun
             \/ runs[r] # NoRun /\ runs'[r] = closed[r]
      PROVE  RunOK(r)'
  <2>1. runs'[r] # NoRun => r \in Opened' /\ runs'[r].status # "lost"
    BY <1>t, <1>0, <1>1, <1>3 DEF HistoryInv, RunsOK, RunOK
  <2>2. att'[r] = att[r] /\ rec'[r] = rec[r] /\ att[r] <= AttemptLimit(rec[r])
    BY DEF HistoryInv, RunsOK, RunOK
  <2> QED
    BY <1>0, <2>1, <2>2 DEF RunOK, AtGate, AttemptLimit
<1>4. CASE AutoDeletes(r)
  <2>1. /\ schedules' = DeleteSlug(schedules, rec[r].slug)
        /\ runs' = CascadeRuns(schedules, closed, rec[r].slug)
        /\ jobs' = [jobs EXCEPT ![rec[r].id] = NoJob]
    BY <1>4 DEF Settle, closed
  <2>2. \A s \in RunIds : closed[s] # NoRun => schedules[closed[s].schedule] # NoRow
    BY <1>1, <1>2 DEF HistoryInv, ForeignKey
  <2>3. /\ \A id \in ScheduleIds :
             \/ schedules'[id] = NoRow
             \/ /\ schedules[id] # NoRow
                /\ schedules'[id].id = id
                /\ schedules'[id].slug = schedules[id].slug
        /\ \A s \in RunIds : runs'[s] = closed[s] \/ runs'[s] = NoRun
        /\ ForeignKey'
    BY <1>1, <2>1, <2>2, DeleteRows
  <2>4. runs'[r] = NoRun
    BY <1>1, <1>2, <2>1 DEF CascadeRuns, BySlug, Stored
  <2>5. \A id \in ScheduleIds : jobs'[id] = jobs[id] \/ jobs'[id] = NoJob
    BY <2>1 DEF HistoryInv, GateInv, TypeOK
  <2>6. RowsOK' /\ RecsOK'
    <3>1. nextSchedule' \in Nat /\ nextSchedule <= nextSchedule'
      BY DEF HistoryInv, GateInv, TypeOK
    <3>2. \A s \in RunIds : pc'[s] = "unborn" \/ (pc[s] # "unborn" /\ rec'[s] = rec[s])
      BY <1>0 DEF OthersMove
    <3> QED
      BY <2>3, <2>5, <3>1, <3>2, RowFrame DEF HistoryInv
  <2>7. \A s \in RunIds : runs'[s] = runs[s] \/ runs'[s] = NoRun
    BY <1>1, <2>3, <2>4
  <2>8. RunsOK'
    <3>1. ASSUME NEW s \in RunIds \ {r} PROVE RunOK(s)'
      BY <1>0, <2>7, RunFrame DEF HistoryInv, GateInv, RunsOK, OthersMove, GateMove, AtGate
    <3> QED
      BY <1>3, <2>4, <3>1 DEF RunsOK
  <2>9. History!Next
    BY <2>7, RemoveStep DEF HistoryInv, GateInv
  <2> QED
    BY <2>3, <2>6, <2>8, <2>9 DEF HistoryStep, HistoryInv
<1>5. CASE ~AutoDeletes(r)
  <2>1. runs' = closed /\ UNCHANGED <<schedules, jobs>>
    BY <1>5 DEF Settle, closed
  <2>2. RowsOK' /\ RecsOK' /\ ForeignKey'
    <3>1. \A s \in RunIds : pc'[s] = "unborn" \/ pc[s] # "unborn"
      BY <1>0 DEF OthersMove
    <3>2. \A s \in RunIds : \/ runs'[s] = NoRun
                            \/ runs[s] # NoRun /\ runs'[s].schedule = runs[s].schedule
      BY <1>1, <2>1
    <3> QED
      BY <2>1, <3>1, <3>2, TablesKept
  <2>3. RunsOK'
    <3>1. RunOK(r)'
      BY <1>1, <1>3, <2>1
    <3> QED
      BY <1>0, <1>1, <2>1, <3>1, OthersKept
  <2>4. History!Next \/ Ledger' = Ledger
    <3>1. CASE runs[r] = NoRun
      <4>1. \A s \in RunIds : runs'[s] = runs[s]
        BY <1>1, <2>1, <3>1
      <4>2. runs' = runs
        BY <1>1, <2>1, <4>1 DEF HistoryInv, GateInv, TypeOK
      <4> QED
        BY <4>2, LedgerKept
    <3>2. CASE runs[r] # NoRun
      <4>1. /\ Ledger[r] = [status |-> runs[r].status, attempt |-> runs[r].attempt]
            /\ Ledger'[r] = [status |-> status, attempt |-> runs[r].attempt]
        BY <1>1, <2>1, <3>2, LedgerOf, LedgerOfNext
      <4>2. Ledger' = [Ledger EXCEPT ![r].status = status]
        BY <1>0, <1>1, <2>1, <4>1, LedgerStep
      <4>3. CASE pc[r] = "observing"
        <5>1. History!Close(r, status)
          BY <1>2, <3>2, <4>1, <4>2, <4>3 DEF History!Close
        <5> QED
          BY <5>1 DEF History!Next
      <4>4. CASE pc[r] = "dispatching" /\ status = "error"
        <5>1. History!Refuse(r)
          BY <1>2, <3>2, <4>1, <4>2, <4>4 DEF History!Refuse
        <5> QED
          BY <5>1 DEF History!Next
      <4> QED
        BY <4>3, <4>4
    <3> QED
      BY <3>1, <3>2
  <2> QED
    BY <2>2, <2>3, <2>4 DEF HistoryStep, HistoryInv
<1> QED
  BY <1>4, <1>5

LEMMA DispatchFailHistory ==
  ASSUME HistoryInv, NEW r \in RunIds, DispatchFail(r)
  PROVE  HistoryStep
<1>1. /\ pc[r] = "dispatching"
      /\ Settle(r, "error")
      /\ UNCHANGED <<started, rec, att, phase, nextSchedule>>
  BY DEF DispatchFail, idVars
<1>2. GateInv'
  BY DispatchFailOK DEF HistoryInv
<1> QED
  BY <1>1, <1>2, SettleHistory DEF History!Closed

LEMMA FinishHistory ==
  ASSUME HistoryInv, NEW r \in RunIds, Finish(r)
  PROVE  HistoryStep
<1>1. /\ pc[r] = "observing" /\ outcome[r] # "none"
      /\ Settle(r, FinalStatus(r))
      /\ UNCHANGED <<started, rec, att, phase, nextSchedule>>
  BY DEF Finish, idVars
<1>2. FinalStatus(r) \in History!Closed
  BY <1>1 DEF HistoryInv, GateInv, TypeOK, FinalStatus, History!Closed
<1>3. GateInv'
  BY FinishOK DEF HistoryInv
<1> QED
  BY <1>1, <1>2, <1>3, SettleHistory

-----------------------------------------------------------------------------
\* The invariant, and what follows from it.

LEMMA InitHistory == Init => HistoryInv /\ History!Init
<1> SUFFICES ASSUME Init PROVE HistoryInv /\ History!Init
  OBVIOUS
<1>1. /\ \A r \in RunIds : runs[r] = NoRun /\ pc[r] = "unborn" /\ att[r] = 0
      /\ \A id \in ScheduleIds : schedules[id] = NoRow /\ jobs[id] = NoJob
      /\ Opened = {}
  BY DEF Init, Opened
<1>2. RunsOK
  BY <1>1 DEF RunsOK, RunOK, AtGate
<1>3. RowsOK /\ RecsOK /\ ForeignKey
  BY <1>1 DEF RowsOK, RecsOK, ForeignKey
<1>4. \A r \in RunIds : Ledger[r] = History!Entry("none", 0)
  BY <1>1, LedgerOf DEF History!Entry
<1>5. Ledger = [r \in RunIds |-> Ledger[r]]
  BY DEF Ledger
<1>6. History!Init
  BY <1>4, <1>5 DEF History!Init
<1> QED
  BY <1>2, <1>3, <1>6, InitOK DEF HistoryInv

LEMMA NextHistory == HistoryInv /\ [Next]_vars => HistoryInv' /\ [History!Next]_Ledger
<1> SUFFICES ASSUME HistoryInv, [Next]_vars PROVE HistoryStep
  BY DEF HistoryStep
<1>1. ASSUME NEW def \in Definitions, Upsert(def) PROVE HistoryStep
  BY <1>1, UpsertHistory
<1>2. ASSUME NEW slug \in Slugs, NEW edit \in Edits, Update(slug, edit) PROVE HistoryStep
  BY <1>2, UpdateHistory
<1>3. ASSUME NEW slug \in Slugs, Delete(slug) PROVE HistoryStep
  BY <1>3, DeleteHistory
<1>4. ASSUME NEW slug \in ManualSlugs, FireNow(slug) PROVE HistoryStep
  BY <1>4, FireNowHistory
<1>5. ASSUME NEW id \in ScheduleIds, CronFire(id) \/ TimePasses(id) PROVE HistoryStep
  BY <1>5, CronFireHistory, TimePassesHistory
<1>6. ASSUME NEW r \in RunIds,
             \/ ResumeWaiter(r) \/ StartRun(r) \/ StartRetry(r)
             \/ DispatchOk(r) \/ DispatchFail(r)
             \/ Finish(r) \/ ScheduleRetry(r) \/ RetryTimer(r)
      PROVE  HistoryStep
  BY <1>6, ResumeWaiterHistory, StartRunHistory, StartRetryHistory, DispatchOkHistory,
     DispatchFailHistory, FinishHistory, ScheduleRetryHistory, RetryTimerHistory
<1>7. ASSUME NEW r \in RunIds, AgentEnd(r) \/ ObserveTimeout(r) PROVE HistoryStep
  BY <1>7, ObservationHistory
<1>8. ASSUME NEW r \in RunIds, NEW category \in Categories, TurnError(r, category)
      PROVE  HistoryStep
  BY <1>8, ObservationHistory
<1>9. ASSUME NEW cutoff \in 0..Len(started), Start(cutoff) PROVE HistoryStep
  BY <1>9, StartHistory
<1>10. ASSUME Stop \/ Crash PROVE HistoryStep
  BY <1>10, StopHistory, CrashHistory
<1>11. ASSUME UNCHANGED vars PROVE HistoryStep
  <2>1. UNCHANGED <<storeVars, jobs, pc, rec, att, nextSchedule>> /\ UNCHANGED vars
    BY <1>11 DEF vars, taskVars, idVars
  <2>2. GateInv'
    BY <2>1, NextOK DEF HistoryInv
  <2>3. \A r \in RunIds : GateMove(r)
    BY <2>1 DEF GateMove
  <2> QED
    BY <2>1, <2>2, <2>3, PlainStep
<1> QED
  BY <1>1, <1>2, <1>3, <1>4, <1>5, <1>6, <1>7, <1>8, <1>9, <1>10, <1>11 DEF Next

LEMMA HistoryInvariant == Spec => []HistoryInv
BY InitHistory, NextHistory, PTL DEF Spec

\* While a fire is alive, its run row tells its attempt and what it is doing.
THEOREM LedgerIsFaithful == Spec => []LedgerMatchesFire
<1>1. HistoryInv => LedgerMatchesFire
  BY DEF HistoryInv, RunsOK, RunOK, LedgerMatchesFire, AtGate, GateInv, TypeOK
<1> QED
  BY <1>1, HistoryInvariant, PTL

\* No fire makes more attempts than the record it captured allows.
THEOREM AttemptsAreBounded == Spec => []AttemptBound
<1>1. HistoryInv => AttemptBound
  BY DEF HistoryInv, RunsOK, RunOK, AttemptBound
<1> QED
  BY <1>1, HistoryInvariant, PTL

\* The manager implements the run history: every step of every handler, timer
\* and crash is a step of RunLifecycle or leaves the history as it is.
THEOREM HistoryImplemented == Spec => HistorySpec
BY InitHistory, NextHistory, HistoryInvariant, PTL DEF Spec, HistorySpec, History!Spec

-----------------------------------------------------------------------------
\* Croner mirrors the table.  What is needed beside the mirror itself: a row and a job are
\* kept under the id they name, and a captured record has the slug of its id (RowsOK, RecsOK).

Mirrored(id) ==
  schedules[id] # NoRow =>
    /\ Armed(id) <=> (schedules[id].enabled /\ HasNextRun(schedules[id]))
    /\ Armed(id) => jobs[id].row = schedules[id]

MirrorInv == HistoryInv /\ CronMirror

LEMMA MirrorByRow == CronMirror <=> (phase = "up" => \A id \in ScheduleIds : Mirrored(id))
BY DEF CronMirror, Mirrored, Stored

LEMMA MirrorByRowNext ==
  CronMirror' <=> (phase' = "up" => \A id \in ScheduleIds : Mirrored(id)')
BY DEF CronMirror, Mirrored, Stored

LEMMA MirrorKept ==
  ASSUME CronMirror, phase' = "up" => phase = "up",
         \A id \in ScheduleIds :
           schedules'[id] # NoRow => schedules'[id] = schedules[id] /\ jobs'[id] = jobs[id]
  PROVE  CronMirror'
BY DEF CronMirror, Stored, Armed

\* syncCron(row) after the row has been written.
LEMMA SyncCronMirrors ==
  ASSUME MirrorInv, NEW row \in ScheduleRow, SyncCron(row), phase' = phase,
         schedules' = [schedules EXCEPT ![row.id] = row]
  PROVE  CronMirror'
<1>1. row.id \in ScheduleIds
  BY DEF ScheduleRow
<1>2. /\ jobs'[row.id] = SyncedJob(row) /\ schedules'[row.id] = row
      /\ \A id \in ScheduleIds \ {row.id} :
           jobs'[id] = jobs[id] /\ schedules'[id] = schedules[id]
  BY <1>1 DEF SyncCron, MirrorInv, HistoryInv, GateInv, TypeOK
<1>3. CASE phase = "up"
  <2>1. ASSUME NEW id \in ScheduleIds \ {row.id} PROVE Mirrored(id)'
    BY <1>2, <1>3, MirrorByRow DEF MirrorInv, Mirrored, Armed
  <2>2. Mirrored(row.id)'
    <3>1. Disabled(row) <=> ~row.enabled
      BY <1>3 DEF Disabled
    <3>2. CASE ~row.enabled \/ CronerPattern(row) = "null"
      <4>1. jobs'[row.id] = NoJob /\ ~(row.enabled /\ HasNextRun(row))
        BY <1>2, <3>1, <3>2 DEF SyncedJob, HasNextRun
      <4> QED
        BY <1>2, <4>1 DEF Mirrored, Armed
    <3>3. CASE row.enabled /\ CronerPattern(row) = "throws"
      <4>1. ~HasNextRun(row)
        BY <3>3 DEF HasNextRun
      <4>2. SyncedJob(row) = IF jobs[row.id] = NoJob THEN NoJob
                             ELSE [jobs[row.id] EXCEPT !.armed = FALSE]
        <5>1. ~Disabled(row) /\ CronerPattern(row) # "null" /\ CronerPattern(row) = "throws"
          BY <3>1, <3>3
        <5> QED
          BY <5>1, Zenon DEF SyncedJob
      <4>3. jobs[row.id] # NoJob => ~[jobs[row.id] EXCEPT !.armed = FALSE].armed
        BY <1>1 DEF MirrorInv, HistoryInv, GateInv, TypeOK, Job
      <4>4. ~Armed(row.id)'
        BY <1>2, <4>2, <4>3 DEF Armed
      <4> QED
        BY <1>2, <4>1, <4>4 DEF Mirrored
    <3>4. CASE row.enabled /\ CronerPattern(row) = "pattern"
      <4>1. jobs'[row.id] = [armed |-> HasNextRun(row), row |-> row]
        BY <1>2, <3>1, <3>4 DEF SyncedJob
      <4>2. jobs'[row.id] \in Job
        BY <4>1 DEF Job, HasNextRun
      <4>3. jobs'[row.id] # NoJob
        BY <4>2, ScheduleManagerAssumption DEF Job
      <4>4. Armed(row.id)' <=> HasNextRun(row)
        BY <4>1, <4>3 DEF Armed
      <4> QED
        BY <1>2, <3>4, <4>1, <4>4 DEF Mirrored
    <3> QED
      BY <3>2, <3>3, <3>4 DEF CronerPattern
  <2> QED
    BY <2>1, <2>2, MirrorByRowNext
<1> QED
  BY <1>3 DEF CronMirror

LEMMA HandlersMirror ==
  ASSUME MirrorInv,
         \/ \E def \in Definitions : Upsert(def)
         \/ \E slug \in Slugs, edit \in Edits : Update(slug, edit)
  PROVE  CronMirror'
<1>1. CASE \E def \in Definitions : Upsert(def)
  <2>1. PICK def \in Definitions : Upsert(def)
    BY <1>1
  <2>2. PICK id \in ScheduleIds :
          schedules' = [schedules EXCEPT ![id] = RowOf(def, id)] /\ SyncCron(RowOf(def, id))
    BY <2>1, BySlugRow DEF Upsert, MirrorInv, HistoryInv, GateInv
  <2>3. RowOf(def, id) \in ScheduleRow /\ RowOf(def, id).id = id
    BY RowOfType DEF RowOf
  <2> QED
    BY <2>1, <2>2, <2>3, SyncCronMirrors DEF Upsert
<1>2. CASE \E slug \in Slugs, edit \in Edits : Update(slug, edit)
  <2>1. PICK slug \in Slugs, edit \in Edits : Update(slug, edit)
    BY <1>2
  <2>2. PICK id \in BySlug(schedules, slug) :
          /\ schedules' = [schedules EXCEPT ![id] = UpdatedRow(schedules[id], edit)]
          /\ SyncCron(UpdatedRow(schedules[id], edit))
    BY <2>1 DEF Update
  <2>3. id \in ScheduleIds /\ schedules[id] \in ScheduleRow /\ schedules[id].id = id
    BY BySlugRow, ScheduleStoreAssumption DEF MirrorInv, HistoryInv, GateInv, RowsOK
  <2>4. UpdatedRow(schedules[id], edit) \in ScheduleRow /\ UpdatedRow(schedules[id], edit).id = id
    BY <2>3, UpdatedRowType
  <2> QED
    BY <2>1, <2>2, <2>4, SyncCronMirrors DEF Update
<1> QED
  BY <1>1, <1>2

\* The row of a slug goes, and the job of an id that has no row of another slug.
LEMMA RemovalMirrors ==
  ASSUME MirrorInv, phase' = phase, NEW slug, NEW id \in ScheduleIds,
         schedules' = DeleteSlug(schedules, slug), jobs' = [jobs EXCEPT ![id] = NoJob],
         schedules[id] # NoRow => schedules[id].slug = slug
  PROVE  CronMirror'
<1>1. ASSUME NEW other \in ScheduleIds, schedules'[other] # NoRow
      PROVE  schedules'[other] = schedules[other] /\ jobs'[other] = jobs[other]
  <2>1. schedules'[other] = schedules[other] /\ other \notin BySlug(schedules, slug)
    BY <1>1 DEF DeleteSlug
  <2>2. other # id
    BY <1>1, <2>1 DEF BySlug, Stored
  <2> QED
    BY <2>1, <2>2 DEF MirrorInv, HistoryInv, GateInv, TypeOK
<1> QED
  BY <1>1, MirrorKept DEF MirrorInv

LEMMA DeleteMirrors ==
  ASSUME MirrorInv, NEW slug \in Slugs, Delete(slug)
  PROVE  CronMirror'
<1>1. PICK id \in BySlug(schedules, slug) : jobs' = [jobs EXCEPT ![id] = NoJob]
  BY DEF Delete
<1>2. id \in ScheduleIds /\ schedules[id].slug = slug
  BY DEF BySlug, Stored
<1> QED
  BY <1>1, <1>2, RemovalMirrors DEF Delete

\* A one-shot that calls back has no next run, nor has its row from then on.
LEMMA CronFireMirrors ==
  ASSUME MirrorInv, NEW id \in ScheduleIds, CronFire(id)
  PROVE  CronMirror'
<1>1. Armed(id) /\ phase' = phase
  BY DEF CronFire
<1>2. CASE UNCHANGED <<jobs, schedules>>
  BY <1>1, <1>2, MirrorKept DEF MirrorInv
<1>3. CASE /\ jobs[id].row.kind = "at"
           /\ jobs' = [jobs EXCEPT ![id].armed = FALSE]
           /\ schedules' = [schedules EXCEPT ![id] = IF @ = NoRow THEN @
                                                     ELSE [@ EXCEPT !.expr = "past"]]
  <2>1. /\ jobs'[id] = [jobs[id] EXCEPT !.armed = FALSE] /\ ~jobs'[id].armed
        /\ schedules'[id] = IF schedules[id] = NoRow THEN NoRow ELSE [schedules[id] EXCEPT !.expr = "past"]
        /\ \A other \in ScheduleIds \ {id} :
             jobs'[other] = jobs[other] /\ schedules'[other] = schedules[other]
    BY <1>1, <1>3 DEF Armed, MirrorInv, HistoryInv, GateInv, TypeOK, Job
  <2>2. ASSUME phase = "up", NEW other \in ScheduleIds \ {id} PROVE Mirrored(other)'
    BY <2>1, <2>2, MirrorByRow DEF MirrorInv, Mirrored, Armed
  <2>3. ASSUME phase = "up", schedules[id] # NoRow PROVE ~HasNextRun(schedules'[id])
    <3>1. schedules[id].kind = "at" /\ schedules[id] \in ScheduleRow
      BY <1>1, <1>3, <2>3, MirrorByRow DEF Mirrored, MirrorInv, HistoryInv, GateInv, TypeOK
    <3>2. schedules'[id].kind = "at" /\ schedules'[id].expr = "past"
      BY <2>1, <2>3, <3>1 DEF ScheduleRow
    <3> QED
      BY <3>2 DEF HasNextRun
  <2>4. ASSUME phase = "up" PROVE Mirrored(id)'
    BY <2>1, <2>3, <2>4 DEF Mirrored, Armed
  <2> QED
    BY <1>1, <2>2, <2>4, MirrorByRowNext
<1> QED
  BY <1>2, <1>3 DEF CronFire

\* The instant of a one-shot whose job is not armed: its row was disabled.
LEMMA TimePassesMirrors ==
  ASSUME MirrorInv, NEW id \in ScheduleIds, TimePasses(id)
  PROVE  CronMirror'
<1>1. /\ schedules[id] # NoRow /\ schedules[id] \in ScheduleRow
      /\ schedules[id].kind = "at" /\ schedules[id].expr = "good" /\ ~Armed(id)
      /\ UNCHANGED <<jobs, phase>>
      /\ \A other \in ScheduleIds \ {id} : schedules'[other] = schedules[other]
      /\ schedules'[id] = [schedules[id] EXCEPT !.expr = "past"]
  BY DEF TimePasses, MirrorInv, HistoryInv, GateInv, TypeOK
<1>2. ASSUME phase = "up", NEW other \in ScheduleIds \ {id} PROVE Mirrored(other)'
  BY <1>1, <1>2, MirrorByRow DEF MirrorInv, Mirrored, Armed
<1>3. ASSUME phase = "up" PROVE Mirrored(id)'
  <2>1. schedules'[id].kind = "at" /\ schedules'[id].expr = "past"
    BY <1>1 DEF ScheduleRow
  <2> QED
    BY <1>1, <2>1 DEF Mirrored, Armed, HasNextRun
<1> QED
  BY <1>1, <1>2, <1>3, MirrorByRowNext

\* A terminal status, and perhaps maybeAutoDelete: by the slug of the captured record, and
\* the job of its id.
LEMMA SettleMirrors ==
  ASSUME MirrorInv, NEW r \in RunIds, pc[r] # "unborn", NEW status, Settle(r, status),
         phase' = phase
  PROVE  CronMirror'
<1>1. CASE AutoDeletes(r)
  <2>1. rec[r].id \in ScheduleIds
    BY DEF MirrorInv, HistoryInv, GateInv, ThreadsOK, ScheduleRow
  <2>2. schedules[rec[r].id] # NoRow => schedules[rec[r].id].slug = rec[r].slug
    BY DEF MirrorInv, HistoryInv, RecsOK
  <2> QED
    BY <1>1, <2>1, <2>2, RemovalMirrors DEF Settle
<1>2. CASE ~AutoDeletes(r)
  BY <1>2, MirrorKept DEF Settle, MirrorInv
<1> QED
  BY <1>1, <1>2

\* start() that succeeds has made a job of every enabled row.
LEMMA StartMirrors ==
  ASSUME MirrorInv, NEW cutoff, Start(cutoff)
  PROVE  CronMirror'
<1>1. SUFFICES ASSUME phase' = "up", NEW id \in ScheduleIds, schedules[id] # NoRow
               PROVE  Mirrored(id)'
  BY MirrorByRowNext DEF Start, Mirrored
<1> DEFINE row == schedules[id]
<1>2. /\ phase = "down" /\ schedules' = schedules
      /\ \A other \in ListEnabled(schedules) : ~Poison(other)
      /\ jobs'[id] = IF id \in ListEnabled(schedules) /\ Rehydrates(id) THEN SyncedJob(row) ELSE NoJob
  BY <1>1 DEF Start
<1>3. Rehydrates(id)
  BY <1>2 DEF Rehydrates
<1>4. id \in ListEnabled(schedules) <=> row.enabled
  BY <1>1 DEF ListEnabled, Stored
<1>5. row \in ScheduleRow
  BY <1>1 DEF MirrorInv, HistoryInv, GateInv, TypeOK
<1>6. CASE ~row.enabled
  BY <1>2, <1>4, <1>6 DEF Mirrored, Armed
<1>7. CASE row.enabled
  <2>1. CronerPattern(row) # "throws" /\ ~Disabled(row) /\ jobs'[id] = SyncedJob(row)
    BY <1>2, <1>3, <1>4, <1>7 DEF Poison, Disabled
  <2>2. CASE CronerPattern(row) = "null"
    BY <1>2, <2>1, <2>2 DEF Mirrored, Armed, SyncedJob, HasNextRun
  <2>3. CASE CronerPattern(row) = "pattern"
    <3>1. jobs'[id] = [armed |-> HasNextRun(row), row |-> row]
      BY <2>1, <2>3 DEF SyncedJob
    <3>2. jobs'[id] \in Job
      BY <1>5, <3>1 DEF Job, HasNextRun
    <3>3. jobs'[id] # NoJob
      BY <3>2, ScheduleManagerAssumption DEF Job
    <3>4. Armed(id)' <=> HasNextRun(row)
      BY <3>1, <3>3 DEF Armed
    <3> QED
      BY <1>2, <1>7, <3>1, <3>4 DEF Mirrored
  <2> QED
    BY <2>1, <2>2, <2>3 DEF CronerPattern
<1> QED
  BY <1>6, <1>7

LEMMA NextMirrors == MirrorInv /\ [Next]_vars => CronMirror'
<1> SUFFICES ASSUME MirrorInv, [Next]_vars PROVE CronMirror'
  OBVIOUS
<1>1. ASSUME NEW r \in RunIds, DispatchFail(r) \/ Finish(r) PROVE CronMirror'
  <2>1. pc[r] # "unborn" /\ phase' = phase /\ \E status : Settle(r, status)
    BY <1>1 DEF DispatchFail, Finish
  <2> QED
    BY <2>1, SettleMirrors
<1>2. ASSUME \/ \E slug \in ManualSlugs : FireNow(slug)
             \/ \E r \in RunIds :
                  \/ ResumeWaiter(r) \/ StartRun(r) \/ StartRetry(r) \/ DispatchOk(r)
                  \/ AgentEnd(r) \/ ObserveTimeout(r) \/ ScheduleRetry(r) \/ RetryTimer(r)
             \/ \E r \in RunIds, category \in Categories : TurnError(r, category)
             \/ UNCHANGED vars
      PROVE  CronMirror'
  <2>1. UNCHANGED <<schedules, jobs, phase>>
    BY <1>2 DEF FireNow, ResumeWaiter, StartRun, StartRetry, DispatchOk, AgentEnd,
       ObserveTimeout, ScheduleRetry, RetryTimer, TurnError, storeVars, vars
  <2> QED
    BY <2>1, MirrorKept DEF MirrorInv
<1>3. ASSUME Stop \/ Crash PROVE CronMirror'
  BY <1>3 DEF Stop, Crash, CronMirror
<1> QED
  BY <1>1, <1>2, <1>3, HandlersMirror, DeleteMirrors, CronFireMirrors, TimePassesMirrors,
     StartMirrors DEF Next

\* While the manager is up, the jobs that call back are those of the enabled rows that have
\* a next run, with the row's present definition: after every edit, also one whose
\* expression Croner rejects, one-shot, automatic deletion and restart.
THEOREM CronerMirrorsTable == Spec => []CronMirror
<1>1. Init => MirrorInv
  BY InitHistory DEF Init, MirrorInv, CronMirror
<1>2. MirrorInv /\ [Next]_vars => MirrorInv'
  BY NextHistory, NextMirrors DEF MirrorInv
<1>3. MirrorInv => CronMirror
  BY DEF MirrorInv
<1> QED
  BY <1>1, <1>2, <1>3, PTL DEF Spec

=============================================================================
