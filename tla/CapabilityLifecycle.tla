------------------------ MODULE CapabilityLifecycle ------------------------
(***************************************************************************)
(* CapabilityLifecycleService (src/engine/capabilities/) over its two      *)
(* stores: the SQLite registry and the tree of promoted packages that the  *)
(* orchestrator loads when the gateway starts.  No transaction spans both, *)
(* so every mutation renames, promotes, writes and deletes one step at a   *)
(* time and rolls back by hand.                                            *)
(*                                                                         *)
(* The state is that of ONE capability id.  The service is synchronous,    *)
(* but the gateway (for agents) and each run of the sim-one command have   *)
(* one of their own on the same files, so their steps interleave.  A       *)
(* process may die between any two steps; its `.rollback-<uuid>` directory *)
(* is then known to nobody.                                                *)
(***************************************************************************)
EXTENDS Naturals

CONSTANTS
  Agents,        \* gateway processes: they act for agents, and reconcile at boot
  Commands,      \* runs of the sim-one command, for the authenticated user
  Kinds,         \* kinds of capability in use
  Contents,      \* contents a package may have
  MaxOperations  \* bound on the operations begun

None     == "none"      \* there is no package
Partial  == "partial"   \* a package some of whose files are deleted
Unpinned == "unpinned"  \* a version that does not fix the content, as a branch

ASSUME CapabilityAssumption ==
  /\ Agents \cap Commands = {}
  /\ Kinds \subseteq {"skill", "tool", "worker", "mcp"}
  /\ Contents \cap {None, Partial, Unpinned} = {}
  /\ MaxOperations \in Nat

VARIABLES
  rows,      \* the registry's row of the id: at most one, whatever its kind
  target,    \* target[k]: the promoted package of the id as a k
  pc,        \* the step each process is about to take
  held,      \* the locals of the operation it is in
  origin,    \* both stores as the operation found them: {} once another process
             \* changed them, or once the operation's own rollback failed (history)
  approved,  \* executable packages staged by an operation that asked for them to
             \* be enabled (history)
  begun      \* number of operations begun (bound)

vars == <<rows, target, pc, held, origin, approved, begun>>

Processes    == Agents \cup Commands
SourceBacked == {"skill", "tool", "worker"}
Packages     == Contents \cup {None, Partial}
Record       == [kind: Kinds, want: Contents \cup {Unpinned}, enabled: BOOLEAN]
Snapshot     == [rows |-> rows, target |-> target]

Ops       == {"add", "update", "enable", "disable", "remove", "seed"}
Operation == [op: Ops, kind: Kinds, existing: SUBSET Record, next: SUBSET Record,
              staged: Contents \cup {None}, backup: Packages,
              promoted: BOOLEAN, committed: BOOLEAN]

\* An idle process has no operation.
NoOperation == [op |-> "none"]

-----------------------------------------------------------------------------
\* Which way an operation goes.

Enabled(rs) == \E r \in rs : r.enabled

\* replaceMaterialized, and an add that is enabled at once.
Promotes(h) ==
  h.op \in {"add", "update", "enable"} /\ Enabled(h.next) /\ h.kind \in SourceBacked

\* replaceEnabledWithDisabled.
Demotes(h) ==
  h.op = "update" /\ Enabled(h.existing) /\ ~Enabled(h.next) /\ h.kind \in SourceBacked

\* Mutant: only what replaces or removes a package moves the old one away.
BacksUpReplaced(h) ==
  h.op \in {"disable", "remove"} \/ (Promotes(h) /\ h.op # "add")

BacksUp(h) ==
  h.op \in {"disable", "remove"} \/ Demotes(h) \/ (Promotes(h) /\ h.op # "add")

AfterBackup(h) == IF Promotes(h) THEN "promote" ELSE "commit"
FirstStep(h)   == IF BacksUp(h) THEN "backup" ELSE AfterBackup(h)

\* Mutant: a package that was moved away and not replaced is forgotten.
RollbackStepForgetful(h) ==
  IF h.committed /\ Demotes(h) THEN "undo" ELSE IF h.promoted THEN "unpromote" ELSE "failed"

\* What a catch block does next.  Only replaceEnabledWithDisabled puts back the
\* row it committed.
RollbackStep(h) ==
  IF h.committed /\ Demotes(h) THEN "undo"
  ELSE IF h.promoted THEN "unpromote"
  ELSE IF h.backup # None THEN "restore"
  ELSE "failed"

\* What staging a record may yield: an MCP connection has no package, and a
\* version that names exact content (a sha256, a commit) is checked against it.
Staged(r) == IF r.kind \notin SourceBacked THEN {None}
             ELSE IF r.want = Unpinned THEN Contents ELSE {r.want}

\* Mutant: a changed executable stays enabled, as a changed skill does.
UpdatedEnabled(r, want) == [r EXCEPT !.want = want]

\* The record an update writes.
Updated(r, want) ==
  [r EXCEPT !.want = want, !.enabled = r.enabled /\ r.kind = "skill"]

-----------------------------------------------------------------------------
\* The registry: a primary key on (kind, id) and a unique index on id.

Stored(h) == \E r \in rows : r.kind = h.kind

\* insertStrict and insert meet the index; remove answers whether it deleted.
Writable(h) == CASE h.op = "add"    -> rows = {}
                 [] h.op = "seed"   -> rows = {} \/ Stored(h)
                 [] h.op = "remove" -> Stored(h)
                 [] OTHER           -> TRUE

\* update and setEnabled change a row that is there, and no other.
Written(h) ==
  CASE h.op \in {"enable", "disable"} ->
         {IF r.kind = h.kind THEN [r EXCEPT !.enabled = (h.op = "enable")] ELSE r : r \in rows}
    [] h.op = "update" -> IF Stored(h) THEN h.next ELSE rows
    [] OTHER -> h.next

-----------------------------------------------------------------------------
Init ==
  /\ rows = {}
  /\ target = [k \in Kinds |-> None]
  /\ pc = [p \in Processes |-> "idle"]
  /\ held = [p \in Processes |-> NoOperation]
  /\ origin = [p \in Processes |-> {}]
  /\ approved = {}
  /\ begun = 0

\* An operation has read the registry, staged and validated; it has changed
\* nothing yet.  One that throws before this point leaves no trace.
Begin(p, op, kind, existing, next, staged) ==
  LET h == [op |-> op, kind |-> kind, existing |-> existing, next |-> next,
            staged |-> staged, backup |-> None, promoted |-> FALSE, committed |-> FALSE]
  IN /\ pc[p] = "idle"
     /\ begun < MaxOperations
     /\ begun' = begun + 1
     /\ pc' = [pc EXCEPT ![p] = FirstStep(h)]
     /\ held' = [held EXCEPT ![p] = h]
     /\ origin' = [origin EXCEPT ![p] = {Snapshot}]
     /\ approved' = IF op \in {"add", "enable"} /\ kind # "skill" /\ Promotes(h)
                     THEN approved \cup {<<kind, staged>>} ELSE approved
     /\ UNCHANGED <<rows, target>>

\* An agent's tool, worker or MCP connection is always added disabled.
Add(p) ==
  /\ rows = {}
  /\ \E r \in Record : \E c \in Staged(r) :
       /\ r.enabled => r.kind = "skill" \/ p \notin Agents
       /\ Begin(p, "add", r.kind, {}, {r}, c)

Update(p) ==
  \E r \in rows, want \in Contents \cup {Unpinned} : \E c \in Staged(Updated(r, want)) :
    Begin(p, "update", r.kind, {r}, {Updated(r, want)}, c)

\* Enabling what the row says is enabled changes nothing.
Enable(p) ==
  \E r \in rows : \E c \in Staged(r) :
    /\ ~r.enabled
    /\ Begin(p, "enable", r.kind, {}, {[r EXCEPT !.enabled = TRUE]}, c)

Disable(p) ==
  \E r \in rows : Begin(p, "disable", r.kind, {}, {[r EXCEPT !.enabled = FALSE]}, None)

Remove(p) == \E r \in rows : Begin(p, "remove", r.kind, {}, {}, None)

\* The gateway boots: an entry of the configuration file that is not in the
\* registry is inserted, without its package.
Reconcile(p) ==
  /\ p \in Agents
  /\ rows = {}
  /\ \E r \in Record : Begin(p, "seed", r.kind, {}, {r}, None)

-----------------------------------------------------------------------------
\* The steps of an operation.  Each may fail, and then the catch block runs.

Goto(p, h, step) ==
  /\ held' = [held EXCEPT ![p] = h]
  /\ pc' = [pc EXCEPT ![p] = step]
  /\ origin' = [q \in Processes |-> IF q = p THEN origin[p] ELSE {}]
  /\ UNCHANGED <<approved, begun>>

Throw(p, h) == Goto(p, h, RollbackStep(h))

\* A catch block that itself throws ends the operation.
ThrowAgain(p) ==
  /\ pc' = [pc EXCEPT ![p] = "failed"]
  /\ origin' = [q \in Processes |-> {}]
  /\ UNCHANGED <<held, approved, begun>>

SetPackage(kind, package) == target' = [target EXCEPT ![kind] = package]

Backup(p) ==
  LET h == held[p] IN
  /\ pc[p] = "backup"
  /\ \/ /\ target[h.kind] = None
        /\ Goto(p, h, AfterBackup(h))
        /\ UNCHANGED target
     \/ /\ target[h.kind] # None
        /\ Goto(p, [h EXCEPT !.backup = target[h.kind]], AfterBackup(h))
        /\ SetPackage(h.kind, None)
     \/ /\ target[h.kind] # None
        /\ Throw(p, h)
        /\ UNCHANGED target
  /\ UNCHANGED rows

\* The staged directory is renamed, which fails if a package is there.
Promote(p) ==
  LET h == held[p] IN
  /\ pc[p] = "promote"
  /\ \/ /\ target[h.kind] = None
        /\ Goto(p, [h EXCEPT !.promoted = TRUE], "commit")
        /\ SetPackage(h.kind, h.staged)
     \/ /\ Throw(p, h)
        /\ UNCHANGED target
  /\ UNCHANGED rows

Commit(p) ==
  LET h == held[p] IN
  /\ pc[p] = "commit"
  /\ \/ /\ Writable(h)
        /\ rows' = Written(h)
        /\ Goto(p, [h EXCEPT !.committed = TRUE], IF h.backup = None THEN "done" ELSE "cleanup")
     \/ /\ Throw(p, h)
        /\ UNCHANGED rows
  /\ UNCHANGED target

\* The backup is deleted; a deletion that fails may have deleted some of it.
CleanUp(p) ==
  LET h == held[p] IN
  /\ pc[p] = "cleanup"
  /\ \/ Goto(p, [h EXCEPT !.backup = None], "done")
     \/ \E left \in {h.backup, Partial} : Throw(p, [h EXCEPT !.backup = left])
  /\ UNCHANGED <<rows, target>>

\* replaceEnabledWithDisabled puts the row back.
Undo(p) ==
  LET h == [held[p] EXCEPT !.committed = FALSE] IN
  /\ pc[p] = "undo"
  /\ \/ /\ rows' = IF Stored(h) THEN h.existing ELSE rows
        /\ Goto(p, h, RollbackStep(h))
     \/ ThrowAgain(p) /\ UNCHANGED rows
  /\ UNCHANGED target

\* What was promoted is deleted.
Unpromote(p) ==
  LET h == [held[p] EXCEPT !.promoted = FALSE] IN
  /\ pc[p] = "unpromote"
  /\ \/ Goto(p, h, RollbackStep(h)) /\ SetPackage(h.kind, None)
     \/ /\ target[h.kind] # None
        /\ ThrowAgain(p)
        /\ \E left \in {target[h.kind], Partial} : SetPackage(h.kind, left)
  /\ UNCHANGED rows

\* The backup is renamed into place.
Restore(p) ==
  LET h == held[p] IN
  /\ pc[p] = "restore"
  /\ \/ /\ target[h.kind] = None
        /\ Goto(p, h, "failed")
        /\ SetPackage(h.kind, h.backup)
     \/ ThrowAgain(p) /\ UNCHANGED target
  /\ UNCHANGED rows

Leave(p) ==
  /\ pc' = [pc EXCEPT ![p] = "idle"]
  /\ held' = [held EXCEPT ![p] = NoOperation]
  /\ origin' = [origin EXCEPT ![p] = {}]
  /\ UNCHANGED <<rows, target, approved, begun>>

Answer(p) == pc[p] \in {"done", "failed"} /\ Leave(p)

Crash(p) == pc[p] \notin {"idle", "done", "failed"} /\ Leave(p)

Next ==
  \E p \in Processes :
    \/ Add(p) \/ Update(p) \/ Enable(p) \/ Disable(p) \/ Remove(p) \/ Reconcile(p)
    \/ Backup(p) \/ Promote(p) \/ Commit(p) \/ CleanUp(p)
    \/ Undo(p) \/ Unpromote(p) \/ Restore(p)
    \/ Answer(p) \/ Crash(p)

Spec == Init /\ [][Next]_vars

-----------------------------------------------------------------------------
Awaits == {"backup", "promote", "commit", "cleanup", "undo", "unpromote", "restore",
           "done", "failed"}

\* The type invariant: in particular the id has one row.
TypeOK ==
  /\ rows \in SUBSET Record /\ \A r, q \in rows : r = q
  /\ target \in [Kinds -> Packages]
  /\ pc \in [Processes -> Awaits \cup {"idle"}]
  /\ held \in [Processes -> Operation \cup {NoOperation}]
  /\ \A p \in Processes : pc[p] # "idle" => held[p] \in Operation
  /\ origin \in [Processes -> SUBSET [rows: SUBSET Record, target: [Kinds -> Packages]]]
  /\ approved \subseteq Kinds \X (Contents \cup {None})
  /\ begun \in 0..MaxOperations

\* What the orchestrator attaches when the gateway starts: the packages of the
\* enabled rows that have one.
Loaded == {<<r.kind, target[r.kind]>> : r \in {q \in rows : q.enabled /\ target[q.kind] # None}}

\* No executable package is loaded unless some operation that asked for it to be
\* enabled staged and validated that very content (or a failed deletion left only
\* some of its files): not an added one, not an updated one, whatever crashes,
\* failures and other processes do to the rows, the packages and the backups.
OnlyEnabledLoads ==
  \A p \in Loaded : p[1] = "skill" \/ p[2] = Partial \/ p \in approved

\* An operation that fails before it has committed puts both stores back as it
\* found them, if no other process changed them in between and its rollback does
\* not fail too.  An update that disables does so even after the commit.
FailureRestores ==
  \A p \in Processes :
    pc[p] = "failed" /\ origin[p] # {} /\ ~held[p].committed /\ held[p].backup # Partial
      => origin[p] = {Snapshot}

\* An operation that succeeds, undisturbed, has brought both stores to what it
\* answers: the row as asked, the package that was validated when it is enabled,
\* and no package of what it disabled or removed.
SuccessInstalls ==
  \A p \in Processes :
    pc[p] = "done" /\ origin[p] # {} =>
      LET h == held[p] IN
      /\ rows = h.next
      /\ Promotes(h) => target[h.kind] = h.staged
      /\ h.op \in {"disable", "remove"} \/ Demotes(h) => target[h.kind] = None

\* What an operation answers is what it did.
AnswersAreTrue == FailureRestores /\ SuccessInstalls

=============================================================================
