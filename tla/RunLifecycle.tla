---------------------------- MODULE RunLifecycle ----------------------------
(***************************************************************************)
(* What the run history promises its readers (schedule_runs, GET           *)
(* /api/schedules/:slug/runs), whatever happens to schedules, timers and   *)
(* the process: a run is opened once, is admitted before it can succeed,   *)
(* be skipped, time out or be retried, is closed once, and a row that has  *)
(* been removed never comes back.                                          *)
(***************************************************************************)
EXTENDS Naturals

CONSTANTS RunId, MaxAttempt

VARIABLE ledger   \* run id -> what the history shows of it

Entry(status, attempt) == [status |-> status, attempt |-> attempt]

Open   == {"queued", "admitted"}
Closed == {"ok", "error", "skipped", "timeout"}

Init == ledger = [r \in RunId |-> Entry("none", 0)]

Begin(r) == /\ ledger[r].status = "none"
            /\ ledger' = [ledger EXCEPT ![r] = Entry("queued", 0)]

Admit(r) == /\ ledger[r].status = "queued"
            /\ ledger' = [ledger EXCEPT ![r].status = "admitted"]

Refuse(r) == /\ ledger[r].status = "queued"
             /\ ledger' = [ledger EXCEPT ![r].status = "error"]

Close(r, status) == /\ ledger[r].status = "admitted"
                    /\ ledger' = [ledger EXCEPT ![r].status = status]

Retry(r) == /\ ledger[r].status = "admitted"
            /\ ledger[r].attempt < MaxAttempt
            /\ ledger' = [ledger EXCEPT ![r] = Entry("queued", @.attempt + 1)]

\* Deleting a schedule, or pruning, removes the rows of any set of runs.
Remove(rs) == /\ \A r \in rs : ledger[r].status \in Open \cup Closed
              /\ ledger' = [r \in RunId |-> IF r \in rs THEN Entry("gone", 0) ELSE ledger[r]]

Next == \/ \E r \in RunId : Begin(r) \/ Admit(r) \/ Refuse(r) \/ Retry(r)
        \/ \E r \in RunId, status \in Closed : Close(r, status)
        \/ \E rs \in SUBSET RunId : Remove(rs)

Spec == Init /\ [][Next]_ledger

=============================================================================
