--------------------------- MODULE CodingApprovals ---------------------------
(***************************************************************************)
(* The approval gate of mutating tools: DefaultCodingApprovalService over  *)
(* the file store (coding-worker/approvals/), the two gates that call it   *)
(* (evaluateGitApproval and the shared evaluateApproval) and the ingress   *)
(* through which operators list and decide.                                *)
(*                                                                         *)
(* The records are those of ONE dedupeKey, that is of one action on one    *)
(* target of one task: the gates filter by it and never look at another.   *)
(* Each store operation takes the file lock and renames a whole new file   *)
(* into place, so it is one step; everything between two of them is not.   *)
(* A request's id is its creation time in milliseconds, as in the source,  *)
(* where it is `${dedupeKey}:${Date.now()}`.                               *)
(***************************************************************************)
EXTENDS Integers, Sequences, FiniteSets

CONSTANTS
  Agents,      \* tool calls that may be in progress at once
  SharedGate,  \* those gated by evaluateApproval, the rest by evaluateGitApproval
  Operators,   \* clients of the approval routes
  Lifetime,    \* expiresAt - createdAt; 0 when requests carry no expiresAt
  MaxClock     \* bound on Date.now()

ASSUME CodingApprovalsAssumption ==
  /\ SharedGate \subseteq Agents
  /\ Agents \cap Operators = {}
  /\ Lifetime \in Nat
  /\ MaxClock \in Nat \ {0}

VARIABLES
  clock,    \* Date.now()
  file,     \* approvals.json
  pc,       \* the await each agent and operator is suspended at
  held,     \* the records it read and will write back
  now,      \* the Date.now() an agent's call last read
  target,   \* the id of the request an agent's call evaluates
  wants,    \* the answer an operator is recording
  granted,  \* ids some recordDecision answered with approved = true (history)
  effects   \* mutations performed: the request, and when it was evaluated (history)

vars == <<clock, file, pc, held, now, target, wants, granted, effects>>

Actors   == Agents \cup Operators
Times    == 1..MaxClock
Statuses == {"pending", "approved", "denied", "expired"}
Record   == [id: Times, status: Statuses, decision: {"none", "yes", "no"}]

Pending(id) == [id |-> id, status |-> "pending", decision |-> "none"]

RecordsIn(s) == {s[i] : i \in DOMAIN s}
IdsIn(s)     == {s[i].id : i \in DOMAIN s}

Records == RecordsIn(file)
Ids     == IdsIn(file)

-----------------------------------------------------------------------------
\* The store and the policy.

\* Mutant: only what the record brings is written, as an object spread would.
UpsertedMerging(s, r) ==
  IF r.id \in IdsIn(s)
  THEN [i \in DOMAIN s |-> IF s[i].id # r.id THEN s[i]
                            ELSE IF r.decision = "none" THEN [s[i] EXCEPT !.status = r.status]
                            ELSE r]
  ELSE Append(s, r)

\* upsertRecord: the whole record replaces the one with its id, or is appended.
Upserted(s, r) ==
  IF r.id \in IdsIn(s)
  THEN [i \in DOMAIN s |-> IF s[i].id = r.id THEN r ELSE s[i]]
  ELSE Append(s, r)

Upsert(r) == file' = Upserted(file, r)

Expired(id) == Lifetime # 0 /\ id + Lifetime <= clock

AsExpired(r) == [r EXCEPT !.status = "expired"]

Decided(r, answer) ==
  [r EXCEPT !.status = IF answer = "yes" THEN "approved" ELSE "denied", !.decision = answer]

Stale == {r \in Records : r.status = "pending" /\ Expired(r.id)}

\* Mutant: a decision is good for ever.
EvaluationUnexpiring(r) == CASE r.decision = "none" -> "pending"
                             [] r.decision = "yes"  -> "approved"
                             [] r.decision = "no"   -> "denied"

\* evaluateCodingApproval: expiry comes first, then the decision; the record's
\* status is not consulted.
Evaluation(r) == IF Expired(r.id) THEN "expired"
                 ELSE CASE r.decision = "none" -> "pending"
                        [] r.decision = "yes"  -> "approved"
                        [] r.decision = "no"   -> "denied"

\* The record the gates take: the latest createdAt.
IsLatest(r) == \A q \in Records : q.id <= r.id

\* The record createRequest takes: the first of the key, if it is pending.
FirstPending == IF file = <<>> THEN FALSE ELSE file[1].status = "pending"

\* evaluateRequest of agent a's request at this moment.
Answers(a, answer) == \E r \in Records : r.id = target[a] /\ Evaluation(r) = answer

-----------------------------------------------------------------------------
Init ==
  /\ clock = 1
  /\ file = <<>>
  /\ pc = [p \in Actors |-> "idle"]
  /\ held = [p \in Actors |-> {}]
  /\ now = [a \in Agents |-> 0]
  /\ target = [a \in Agents |-> 0]
  /\ wants = [d \in Operators |-> "no"]
  /\ granted = {}
  /\ effects = {}

history == <<granted, effects>>

Goto(p, step) == pc' = [pc EXCEPT ![p] = step]

Hold(p, rs) == held' = [held EXCEPT ![p] = rs]

\* A gate reads the clock and goes on, or the tool call returns and its locals
\* are gone.
Continue(a, step) ==
  /\ Goto(a, step)
  /\ now' = [now EXCEPT ![a] = clock]
  /\ UNCHANGED target

Return(a) ==
  /\ Goto(a, "idle")
  /\ now' = [now EXCEPT ![a] = 0]
  /\ target' = [target EXCEPT ![a] = 0]

\* A gate lists the task's records and picks the latest.  With none it goes on
\* to createRequest, which mints its request at once.
List(a) ==
  /\ pc[a] = "idle"
  /\ \/ /\ file = <<>>
        /\ Continue(a, "creating")
        /\ UNCHANGED held
     \/ \E r \in Records :
          /\ IsLatest(r)
          /\ Goto(a, "listed")
          /\ Hold(a, Stale)
          /\ target' = [target EXCEPT ![a] = r.id]
          /\ UNCHANGED now
  /\ UNCHANGED <<clock, file, wants, history>>

\* listRecords and getRecord write "expired" over each stale record they read,
\* as they read it.
ExpireStale(p) ==
  /\ pc[p] = "listed"
  /\ \E r \in held[p] :
       /\ Upsert(AsExpired(r))
       /\ Hold(p, held[p] \ {r})
  /\ UNCHANGED <<clock, pc, now, target, wants, history>>

\* The gate evaluates the latest request.  The shared gate also returns on a
\* denial; otherwise a new request is asked for.
EvaluateLatest(a) ==
  /\ pc[a] = "listed"
  /\ held[a] = {}
  /\ \/ Answers(a, "approved") /\ Continue(a, "performing")
     \/ Answers(a, "denied") /\ a \in SharedGate /\ Return(a)
     \/ Answers(a, "denied") /\ a \notin SharedGate /\ Continue(a, "creating")
     \/ (Answers(a, "pending") \/ Answers(a, "expired")) /\ Continue(a, "creating")
  /\ UNCHANGED <<clock, file, held, wants, history>>

\* createRequest looks at the FIRST record of the key.  A pending one is
\* returned, and marked first when it has expired.
FindExisting(a) ==
  /\ pc[a] = "creating"
  /\ \/ /\ FirstPending
        /\ target' = [target EXCEPT ![a] = file[1].id]
        /\ \/ Expired(file[1].id) /\ Goto(a, "expiring") /\ Hold(a, {file[1]})
           \/ ~Expired(file[1].id) /\ Goto(a, "confirming") /\ UNCHANGED held
     \/ /\ ~FirstPending
        /\ Goto(a, "writing")
        /\ UNCHANGED <<held, target>>
  /\ UNCHANGED <<clock, file, now, wants, history>>

ExpireExisting(a) ==
  /\ pc[a] = "expiring"
  /\ \E r \in held[a] : Upsert(AsExpired(r))
  /\ Hold(a, {})
  /\ Goto(a, "confirming")
  /\ UNCHANGED <<clock, now, target, wants, history>>

WriteRequest(a) ==
  /\ pc[a] = "writing"
  /\ Upsert(Pending(now[a]))
  /\ target' = [target EXCEPT ![a] = now[a]]
  /\ Goto(a, "confirming")
  /\ UNCHANGED <<clock, held, now, wants, history>>

\* The gate evaluates what createRequest returned; the tool answers "blocked"
\* unless it is allowed.
EvaluateCreated(a) ==
  /\ pc[a] = "confirming"
  /\ \/ Answers(a, "approved") /\ Continue(a, "performing")
     \/ ~Answers(a, "approved") /\ Return(a)
  /\ UNCHANGED <<clock, file, held, wants, history>>

\* The tool runs its command.
Perform(a) ==
  /\ pc[a] = "performing"
  /\ effects' = effects \cup {[id |-> target[a], at |-> now[a]]}
  /\ Return(a)
  /\ UNCHANGED <<clock, file, held, wants, granted>>

-----------------------------------------------------------------------------
\* The ingress.

\* listPendingApprovals.
Review(d) ==
  /\ pc[d] = "idle"
  /\ Stale # {}
  /\ Goto(d, "listed")
  /\ Hold(d, Stale)
  /\ UNCHANGED <<clock, file, now, target, wants, history>>

\* recordDecision reads the record (getRecord, which marks a stale one) and
\* throws unless it is pending.
ReadPending(d) ==
  /\ pc[d] = "idle"
  /\ \E r \in Records, answer \in {"yes", "no"} :
       /\ r.status = "pending"
       /\ Hold(d, {r})
       /\ wants' = [wants EXCEPT ![d] = answer]
       /\ Goto(d, IF Expired(r.id) THEN "listed" ELSE "deciding")
  /\ UNCHANGED <<clock, file, now, target, history>>

\* The read has nothing left to mark: the route answers.
Reply(d) ==
  /\ pc[d] = "listed"
  /\ held[d] = {}
  /\ Goto(d, "idle")
  /\ wants' = [wants EXCEPT ![d] = "no"]
  /\ UNCHANGED <<clock, file, held, now, target, history>>

\* recordDecision writes its decision, without looking again.
RecordDecision(d) ==
  /\ pc[d] = "deciding"
  /\ \E r \in held[d] :
       /\ Upsert(Decided(r, wants[d]))
       /\ granted' = IF wants[d] = "yes" THEN granted \cup {r.id} ELSE granted
  /\ Hold(d, {})
  /\ wants' = [wants EXCEPT ![d] = "no"]
  /\ Goto(d, "idle")
  /\ UNCHANGED <<clock, now, target, effects>>

\* The server dies and is started again: only the file is left.
Restart ==
  /\ pc' = [p \in Actors |-> "idle"]
  /\ held' = [p \in Actors |-> {}]
  /\ now' = [a \in Agents |-> 0]
  /\ target' = [a \in Agents |-> 0]
  /\ wants' = [d \in Operators |-> "no"]
  /\ UNCHANGED <<clock, file, history>>

Tick ==
  /\ clock < MaxClock
  /\ clock' = clock + 1
  /\ UNCHANGED <<file, pc, held, now, target, wants, history>>

AgentStep(a) ==
  \/ List(a) \/ ExpireStale(a) \/ EvaluateLatest(a) \/ FindExisting(a)
  \/ ExpireExisting(a) \/ WriteRequest(a) \/ EvaluateCreated(a) \/ Perform(a)

OperatorStep(d) ==
  Review(d) \/ ExpireStale(d) \/ Reply(d) \/ ReadPending(d) \/ RecordDecision(d)

Next ==
  \/ \E a \in Agents : AgentStep(a)
  \/ \E d \in Operators : OperatorStep(d)
  \/ Restart
  \/ Tick

Spec == Init /\ [][Next]_vars

-----------------------------------------------------------------------------
\* The type invariant.
TypeOK ==
  /\ clock \in Times
  /\ file \in Seq(Record)
  /\ pc \in [Actors -> {"idle", "listed", "creating", "expiring", "writing",
                        "confirming", "performing", "deciding"}]
  /\ held \in [Actors -> SUBSET Record]
  /\ now \in [Agents -> 0..MaxClock]
  /\ target \in [Agents -> 0..MaxClock]
  /\ wants \in [Operators -> {"yes", "no"}]
  /\ granted \subseteq Times
  /\ effects \subseteq [id: Times, at: Times]

\* A tool never mutates anything on a request no operator approved, nor on one
\* that had expired when the gate evaluated it: whatever the other calls, the
\* listings that mark requests expired and the restarts did in between.
EffectsGranted ==
  \A e \in effects : e.id \in granted /\ (Lifetime = 0 \/ e.at < e.id + Lifetime)

\* A record's status and its decision tell the same story.  The gate decides by
\* the decision, operators and listings by the status, and three operations
\* write whole records back from reads that may be stale.
StatusMatchesDecision ==
  \A r \in Records :
    /\ r.status = "approved" <=> r.decision = "yes"
    /\ r.status = "denied" <=> r.decision = "no"

\* The strengthening that makes EffectsGranted inductive: approvals in the file
\* were granted, a record on its way back to the file is undecided, and a tool
\* about to run holds a request that was allowed when it looked.
GrantInv ==
  /\ TypeOK
  /\ \A r \in Records : r.decision = "yes" => r.id \in granted
  /\ \A p \in Actors : \A r \in held[p] : r.status = "pending" /\ r.decision = "none"
  /\ \A a \in Agents : pc[a] \in {"creating", "writing", "performing"} => now[a] \in Times
  /\ \A a \in Agents : pc[a] = "performing" =>
       target[a] \in granted /\ (Lifetime = 0 \/ now[a] < target[a] + Lifetime)
  /\ EffectsGranted
  /\ StatusMatchesDecision

=============================================================================
