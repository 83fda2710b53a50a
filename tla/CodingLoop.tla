----------------------------- MODULE CodingLoop -----------------------------
(***************************************************************************)
(* The bounded lead loop of the coding worker (workflow/loop.ts) with the  *)
(* verification commands it runs, the edits it applies and the checkpoint  *)
(* it writes to task-runs.json (session/task-run-store.ts).                *)
(*                                                                         *)
(* One task is run by successive calls of runCodingWorkerLoop, as after a  *)
(* crash; each call starts again from triage.  A step of the model is the  *)
(* code between two awaits whose results matter: subagents, the approval   *)
(* of edits, the edit transaction, the verification commands, the write of *)
(* the checkpoint.  Subagents, commands and operators answer anything.     *)
(***************************************************************************)
EXTENDS Integers, FiniteSets

CONSTANTS
  Commands,    \* names of verification commands; a name is its first definition
  Required,    \* those with required = true
  Preflight,   \* the names of preflight.verificationPlan
  MaxTurns,    \* bound on the turn limits of requests
  MaxReplans,  \* maxReplans
  MaxCalls     \* bound on the calls of the loop

ASSUME CodingLoopAssumption ==
  /\ Required \subseteq Commands
  /\ Preflight \subseteq Commands
  /\ MaxTurns \in Nat
  /\ MaxReplans \in Nat
  /\ MaxCalls \in Nat

VARIABLES
  task,      \* the request: verification directive, GitHub context, commands, maxTurns
  calls,     \* calls made so far
  awaiting,  \* the await the loop is suspended at; "idle" when no call is running
  step,      \* state.currentStep
  turn,      \* state.turn
  replans,   \* state.replanCount
  commands,  \* names in state.verificationResults.requiredCommands
  passed,    \* those whose status is "passed"
  pending,   \* state.pendingEdits is not empty
  guarded,   \* the turn guard stopped this call (history)
  fresh,     \* commands that passed on the present workspace contents (history)
  saved,     \* the checkpoint of the task in task-runs.json
  returned   \* the step of the result the last call returned

loopVars == <<task, calls, awaiting, step, turn, replans, commands, passed, pending, guarded,
             fresh, saved, returned>>

Steps    == {"triage", "implement", "test-debug", "code-review", "github"}
Stopped  == {"completed", "blocked", "error"}
Awaits   == {"idle", "create", "head", "step", "apply", "debug", "patch", "reverify",
             "persist", "finish", "fail"}

Checkpoint(s, names) == [step |-> s, commands |-> names]

Tasks == [directive: BOOLEAN, github: BOOLEAN, commands: SUBSET Commands, maxTurns: 0..MaxTurns]

NoRecord   == Checkpoint("none", {})
Unreadable == Checkpoint("unreadable", {})

\* What a call keeps in its state.
callState == <<step, turn, replans, commands, passed, pending, guarded>>

-----------------------------------------------------------------------------
\* resolveVerificationCommands and mergeVerificationCommands: no request means
\* the plan of the preflight; a name that is known keeps its entry.
Resolve(names) == IF names = {} THEN Preflight ELSE names

Merged(names) == commands \cup Resolve(names)

\* Every required command passes.
Passing(names, good) == names \cap Required \subseteq good

LoopInit ==
  /\ task \in Tasks
  /\ calls = 0
  /\ awaiting = "idle"
  /\ step = "triage"
  /\ turn = 0
  /\ replans = 0
  /\ commands = {}
  /\ passed = {}
  /\ pending = FALSE
  /\ guarded = FALSE
  /\ fresh = {}
  /\ saved = NoRecord
  /\ returned = "none"

\* createInitialLoopState.
Begin ==
  /\ awaiting = "idle"
  /\ calls < MaxCalls
  /\ calls' = calls + 1
  /\ awaiting' = "create"
  /\ step' = "triage"
  /\ turn' = 0
  /\ replans' = 0
  /\ commands' = Resolve(task.commands)
  /\ passed' = {}
  /\ pending' = FALSE
  /\ guarded' = FALSE
  /\ returned' = "none"
  /\ UNCHANGED <<task, fresh, saved>>

\* upsert reads the whole file before it writes, so an unreadable file fails it.
Store == saved # Unreadable /\ saved' = Checkpoint(step, commands)

outside == <<task, calls, fresh, returned>>

\* The first checkpoint is written outside the try: if that fails the call
\* just rejects.
PersistInitial ==
  /\ awaiting = "create"
  /\ \/ Store /\ awaiting' = "head"
     \/ awaiting' = "idle" /\ UNCHANGED saved
  /\ UNCHANGED <<outside, callState>>

\* The head of the while: the turn is counted even when the step is final.
NextTurn ==
  /\ awaiting = "head"
  /\ turn < task.maxTurns
  /\ turn' = turn + 1
  /\ awaiting' = IF step \in Stopped THEN "finish" ELSE "step"
  /\ UNCHANGED <<outside, saved, step, replans, commands, passed, pending, guarded>>

TurnGuard ==
  /\ awaiting = "head"
  /\ turn >= task.maxTurns
  /\ awaiting' = "finish"
  /\ IF step \in {"completed", "blocked"}
     THEN UNCHANGED <<step, guarded>>
     ELSE step' = "blocked" /\ guarded' = TRUE
  /\ UNCHANGED <<outside, saved, turn, replans, commands, passed, pending>>

\* A step ends: its successor is current and the checkpoint is written next.
EndStep(next) == step' = next /\ awaiting' = "persist"

Triage ==
  /\ awaiting = "step" /\ step = "triage"
  /\ EndStep("implement")
  /\ UNCHANGED <<outside, saved, turn, replans, commands, passed, pending, guarded>>

\* The implementer answers: in a structured answer edits are queued and commands
\* merged.  Then the edits are applied.
Implement ==
  /\ awaiting = "step" /\ step = "implement"
  /\ awaiting' = "apply"
  /\ \/ \E edits \in BOOLEAN, names \in SUBSET Commands :
          /\ pending' = (pending \/ edits)
          /\ commands' = Merged(names)
     \/ UNCHANGED <<pending, commands>>
  /\ UNCHANGED <<outside, saved, step, turn, replans, passed, guarded>>

\* applyPendingEditsWithApproval: nothing to apply, no approval, or an approval
\* and a transaction that is applied.  The approvals are those of another module;
\* here the service answers anything.
NothingToApply == ~pending /\ UNCHANGED <<pending, fresh>>
ApplyEdits     == pending /\ pending' = FALSE /\ fresh' = {}

ApplyImplementation ==
  /\ awaiting = "apply"
  /\ \/ (NothingToApply \/ ApplyEdits) /\ EndStep("test-debug")
     \/ pending /\ EndStep("blocked") /\ UNCHANGED <<pending, fresh>>
  /\ UNCHANGED <<task, calls, returned, saved, turn, replans, commands, passed, guarded>>

\* runVerification runs every command, whatever the earlier ones answered.
Verify(good) == passed' = good /\ fresh' = good

\* A step of test-debug whose commands fail in the end: the replan is counted
\* and the loop blocks, with the budget exhausted or not.
NotPassing == replans' = replans + 1 /\ EndStep("blocked")

TestDebug ==
  /\ awaiting = "step" /\ step = "test-debug"
  /\ IF task.directive /\ commands = {}
     THEN EndStep("blocked") /\ UNCHANGED <<passed, fresh>>
     ELSE \E good \in SUBSET commands :
            /\ Verify(good)
            /\ IF Passing(commands, good)
               THEN EndStep("code-review")
               ELSE awaiting' = "debug" /\ UNCHANGED step
  /\ UNCHANGED <<task, calls, returned, saved, turn, replans, commands, pending, guarded>>

\* The test-debug subagent answers, with edits or without.
Debug ==
  /\ awaiting = "debug"
  /\ \/ \E names \in SUBSET Commands :
          /\ commands' = Merged(names)
          /\ \/ pending' = TRUE /\ awaiting' = "patch" /\ UNCHANGED <<step, replans>>
             \/ NotPassing /\ UNCHANGED pending
     \/ NotPassing /\ UNCHANGED <<commands, pending>>
  /\ UNCHANGED <<outside, saved, turn, passed, guarded>>

\* Mutant: the debug edits are taken to have fixed the failure.
ApplyDebugEditsUnverified ==
  /\ awaiting = "patch"
  /\ \/ ApplyEdits /\ EndStep("code-review")
     \/ EndStep("blocked") /\ UNCHANGED <<pending, fresh>>
  /\ UNCHANGED <<task, calls, returned, saved, turn, replans, commands, passed, guarded>>

ApplyDebugEdits ==
  /\ awaiting = "patch"
  /\ \/ ApplyEdits /\ awaiting' = "reverify" /\ UNCHANGED step
     \/ EndStep("blocked") /\ UNCHANGED <<pending, fresh>>
  /\ UNCHANGED <<task, calls, returned, saved, turn, replans, commands, passed, guarded>>

Reverify ==
  /\ awaiting = "reverify"
  /\ \E good \in SUBSET commands :
       /\ Verify(good)
       /\ IF Passing(commands, good)
          THEN EndStep("code-review") /\ UNCHANGED replans
          ELSE NotPassing
  /\ UNCHANGED <<task, calls, returned, saved, turn, commands, pending, guarded>>

Approve ==
  /\ EndStep(IF task.github THEN "github" ELSE "completed")
  /\ UNCHANGED replans

\* Mutant: only failed verification counts against the budget.
RejectUncounted ==
  /\ UNCHANGED replans
  /\ EndStep(IF replans + 1 > MaxReplans THEN "blocked" ELSE "implement")

Reject ==
  /\ replans' = replans + 1
  /\ EndStep(IF replans + 1 > MaxReplans THEN "blocked" ELSE "implement")

\* An answer of the reviewer that is not structured counts as an approval.
CodeReview ==
  /\ awaiting = "step" /\ step = "code-review"
  /\ Approve \/ Reject
  /\ UNCHANGED <<outside, saved, turn, commands, passed, pending, guarded>>

Github ==
  /\ awaiting = "step" /\ step = "github"
  /\ EndStep("completed")
  /\ UNCHANGED <<outside, saved, turn, replans, commands, passed, pending, guarded>>

Persist ==
  /\ awaiting = "persist"
  /\ Store
  /\ awaiting' = "head"
  /\ UNCHANGED <<outside, callState>>

\* A transaction that is cut short has changed files or not; one that fails also
\* rolls them back, or fails to.
CutShort == fresh' \in IF awaiting \in {"apply", "patch"} /\ pending THEN {fresh, {}} ELSE {fresh}

\* Anything awaited inside the try rejects: a subagent, the sandbox, the store.
Throw ==
  /\ awaiting \notin {"idle", "create", "head", "fail"}
  /\ awaiting' = "fail"
  /\ step' = "error"
  /\ CutShort
  /\ UNCHANGED <<task, calls, returned, saved, turn, replans, commands, passed, pending, guarded>>

\* The result is returned once its checkpoint is written.
Finish ==
  /\ awaiting = "finish"
  /\ Store
  /\ returned' = step
  /\ awaiting' = "idle"
  /\ UNCHANGED <<task, calls, fresh, callState>>

\* The error is recorded if the store allows, and the call rejects.
Rethrow ==
  /\ awaiting = "fail"
  /\ Store \/ UNCHANGED saved
  /\ awaiting' = "idle"
  /\ UNCHANGED <<outside, callState>>

\* The process dies.  writeFile truncates and then writes: dying in it leaves a
\* file that no longer parses.
Crash ==
  /\ awaiting # "idle"
  /\ awaiting' = "idle"
  /\ \/ UNCHANGED saved
     \/ awaiting \in {"create", "persist", "finish", "fail"} /\ saved' = Unreadable
  /\ CutShort
  /\ UNCHANGED <<task, calls, returned, callState>>

LoopNext ==
  \/ Begin \/ PersistInitial \/ NextTurn \/ TurnGuard
  \/ Triage \/ Implement \/ ApplyImplementation
  \/ TestDebug \/ Debug \/ ApplyDebugEdits \/ Reverify
  \/ CodeReview \/ Github \/ Persist \/ Throw \/ Finish \/ Rethrow \/ Crash

LoopSpec == LoopInit /\ [][LoopNext]_loopVars

-----------------------------------------------------------------------------
\* The type invariant.
LoopTypeOK ==
  /\ task \in Tasks
  /\ calls \in 0..MaxCalls
  /\ awaiting \in Awaits
  /\ step \in Steps \cup Stopped
  /\ turn \in 0..MaxTurns
  /\ replans \in 0..(MaxReplans + 1)
  /\ commands \subseteq Commands
  /\ passed \subseteq commands
  /\ pending \in BOOLEAN
  /\ guarded \in BOOLEAN
  /\ fresh \subseteq Commands
  /\ saved \in [step: Steps \cup Stopped \cup {"none", "unreadable"}, commands: SUBSET Commands]
  /\ returned \in {"none", "completed", "blocked"}

\* A checkpoint that says "completed" was true of the files: every required
\* command passed on the contents the workspace still has, however many times
\* edits were debugged, reviews rejected or earlier calls crashed on the way.
CompletedIsVerified ==
  saved.step = "completed" => saved.commands \cap Required \subseteq fresh

\* The turn guard is the last resort: it stops a call only if the limit is too
\* small for the replan budget, each rejected review costing three turns.
GuardOnlyIfShort ==
  guarded => task.maxTurns < 4 + 3 * MaxReplans + (IF task.github THEN 1 ELSE 0)

=============================================================================
