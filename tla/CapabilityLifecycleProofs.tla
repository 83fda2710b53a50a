--------------------- MODULE CapabilityLifecycleProofs ---------------------
(***************************************************************************)
(* Proofs about CapabilityLifecycle for any number of processes, kinds,    *)
(* contents and operations, and about ProtocolStore for any releases,      *)
(* providers and users.                                                    *)
(*                                                                         *)
(* None of the three properties is inductive.  OnlyEnabledLoads needs that *)
(* what is moved aside or staged was approved too (GateOf), for it comes   *)
(* back; the other two need to know, at each step, what the steps still to *)
(* come would make of both stores: going back (BackOf) or on (OnwardOf).   *)
(* SeedsInForce needs what each provider that is under way found and has   *)
(* yet to do (SeedsRelease).                                               *)
(***************************************************************************)
EXTENDS CapabilityLifecycle, ProtocolStore, TLAPS

Busy(p) == pc[p] # "idle"

\* What each step knows of the locals.
LocalsOf(p) ==
  LET h == held[p] IN
  Busy(p) =>
    /\ \A r \in h.existing \cup h.next : r.kind = h.kind
    /\ \A r, q \in h.existing : r = q
    /\ \A r, q \in h.next : r = q
    /\ h.op = "update" => h.next # {}
    /\ pc[p] = "backup" => BacksUp(h) /\ ~h.promoted /\ ~h.committed /\ h.backup = None
    /\ pc[p] = "promote" => Promotes(h) /\ ~h.promoted /\ ~h.committed
    /\ pc[p] = "commit" => ~h.committed
    /\ pc[p] = "undo" => h.committed /\ Demotes(h)
    /\ pc[p] = "unpromote" => h.promoted /\ ~(h.committed /\ Demotes(h))
    /\ pc[p] = "restore" => ~h.promoted /\ ~(h.committed /\ Demotes(h)) /\ h.backup # None

\* A package of an executable is one that was approved, or what is left of one.
Safe(k, package) == package \in {None, Partial} \/ <<k, package>> \in approved

GateOf(p) ==
  Busy(p) /\ held[p].kind # "skill" =>
    /\ Safe(held[p].kind, held[p].backup)
    /\ Promotes(held[p]) => <<held[p].kind, held[p].staged>> \in approved

TargetsSafe == \A k \in Kinds : k # "skill" => Safe(k, target[k])

\* Both stores as the rollback of h would leave them.
RolledBack(h) ==
  [rows   |-> IF h.committed /\ Demotes(h) THEN h.existing ELSE rows,
   target |-> [target EXCEPT ![h.kind] = IF h.backup # None THEN h.backup
                                         ELSE IF h.promoted THEN None ELSE @]]

BackOf(p) ==
  LET h == held[p] IN
  Busy(p) /\ origin[p] # {} =>
    /\ Demotes(h) => \A o \in origin[p] : o.rows = h.existing
    /\ Demotes(h) /\ h.committed => Stored(h)
    /\ pc[p] \notin {"done", "failed"} /\ (h.committed => Demotes(h)) /\ h.backup # Partial
         => origin[p] = {RolledBack(h)}
    /\ pc[p] = "failed" /\ ~h.committed /\ h.backup # Partial => origin[p] = {Snapshot}

OnwardOf(p) ==
  LET h == held[p] IN
  Busy(p) /\ origin[p] # {} =>
    /\ pc[p] \in {"backup", "promote", "commit"} => Writable(h) /\ Written(h) = h.next
    /\ pc[p] \in {"cleanup", "done"} => rows = h.next
    /\ pc[p] \in {"commit", "cleanup", "done"} /\ Promotes(h) => target[h.kind] = h.staged
    /\ pc[p] \in {"promote", "commit", "cleanup", "done"} /\ BacksUp(h) /\ ~Promotes(h)
         => target[h.kind] = None

InvOf(p) == LocalsOf(p) /\ GateOf(p) /\ BackOf(p) /\ OnwardOf(p)

LifecycleInv == TypeOK /\ TargetsSafe /\ \A p \in Processes : InvOf(p)

-----------------------------------------------------------------------------
\* The branch an operation takes does not depend on how far it has come.
LEMMA SameBranch ==
  ASSUME NEW h \in Operation, NEW b \in Packages, NEW x \in BOOLEAN
  PROVE  /\ [h EXCEPT !.backup = b] \in Operation
         /\ [h EXCEPT !.promoted = x] \in Operation
         /\ [h EXCEPT !.committed = x] \in Operation
         /\ \A g \in {[h EXCEPT !.backup = b], [h EXCEPT !.promoted = x], [h EXCEPT !.committed = x]} :
              /\ g.op = h.op /\ g.kind = h.kind /\ g.existing = h.existing
              /\ g.next = h.next /\ g.staged = h.staged
              /\ Promotes(g) = Promotes(h) /\ Demotes(g) = Demotes(h) /\ BacksUp(g) = BacksUp(h)
              /\ Stored(g) = Stored(h) /\ Writable(g) = Writable(h) /\ Written(g) = Written(h)
<1>1. /\ [h EXCEPT !.backup = b] \in Operation
      /\ [h EXCEPT !.promoted = x] \in Operation
      /\ [h EXCEPT !.committed = x] \in Operation
  BY DEF Operation
<1>2. ASSUME NEW g \in {[h EXCEPT !.backup = b], [h EXCEPT !.promoted = x], [h EXCEPT !.committed = x]}
      PROVE  /\ g.op = h.op /\ g.kind = h.kind /\ g.existing = h.existing
             /\ g.next = h.next /\ g.staged = h.staged
  BY DEF Operation
<1>3. ASSUME NEW g \in {[h EXCEPT !.backup = b], [h EXCEPT !.promoted = x], [h EXCEPT !.committed = x]}
      PROVE  /\ Promotes(g) = Promotes(h) /\ Demotes(g) = Demotes(h) /\ BacksUp(g) = BacksUp(h)
             /\ Stored(g) = Stored(h)
  BY <1>2 DEF Promotes, Demotes, BacksUp, Stored
<1>4. ASSUME NEW g, g.op = h.op, g.kind = h.kind, g.next = h.next
      PROVE  Writable(g) = Writable(h) /\ Written(g) = Written(h)
  BY <1>4 DEF Writable, Written, Stored
<1> QED
  BY <1>1, <1>2, <1>3, <1>4

\* A step of p changes its own locals and takes the other processes' promise.
LEMMA GotoMoves ==
  ASSUME TypeOK, NEW p \in Processes, NEW h \in Operation, NEW step \in Awaits, Goto(p, h, step)
  PROVE  /\ pc'[p] = step /\ held'[p] = h /\ origin'[p] = origin[p]
         /\ \A q \in Processes \ {p} : pc'[q] = pc[q] /\ held'[q] = held[q] /\ origin'[q] = {}
         /\ approved' = approved /\ begun' = begun
         /\ pc' \in [Processes -> Awaits \cup {"idle"}]
         /\ held' \in [Processes -> Operation \cup {NoOperation}]
         /\ \A q \in Processes : pc'[q] # "idle" => held'[q] \in Operation
         /\ origin' \in [Processes -> SUBSET [rows: SUBSET Record, target: [Kinds -> Packages]]]
<1>1. /\ pc'[p] = step /\ held'[p] = h /\ origin'[p] = origin[p]
      /\ \A q \in Processes \ {p} : pc'[q] = pc[q] /\ held'[q] = held[q] /\ origin'[q] = {}
      /\ approved' = approved /\ begun' = begun
  BY DEF TypeOK, Goto
<1>2. /\ pc' \in [Processes -> Awaits \cup {"idle"}]
      /\ held' \in [Processes -> Operation \cup {NoOperation}]
  BY DEF TypeOK, Goto
<1>3. \A q \in Processes : pc'[q] # "idle" => held'[q] \in Operation
  BY <1>1 DEF TypeOK
<1>4. origin' \in [Processes -> SUBSET [rows: SUBSET Record, target: [Kinds -> Packages]]]
  BY DEF TypeOK, Goto
<1> QED
  BY <1>1, <1>2, <1>3, <1>4

LEMMA ThrowAgainMoves ==
  ASSUME TypeOK, NEW p \in Processes, pc[p] # "idle", ThrowAgain(p)
  PROVE  /\ pc'[p] = "failed" /\ held' = held
         /\ \A q \in Processes : origin'[q] = {}
         /\ \A q \in Processes \ {p} : pc'[q] = pc[q]
         /\ approved' = approved /\ begun' = begun
         /\ pc' \in [Processes -> Awaits \cup {"idle"}]
         /\ \A q \in Processes : pc'[q] # "idle" => held'[q] \in Operation
         /\ origin' \in [Processes -> SUBSET [rows: SUBSET Record, target: [Kinds -> Packages]]]
  BY DEF TypeOK, ThrowAgain, Awaits

\* What the operations write is at most one row, of the operation's kind.
LEMMA WrittenRows ==
  ASSUME TypeOK, NEW h \in Operation,
         \A r, q \in h.existing : r = q, \A r, q \in h.next : r = q
  PROVE  /\ Written(h) \in SUBSET Record
         /\ \A r, q \in Written(h) : r = q
<1>1. CASE h.op \in {"enable", "disable"}
  <2>1. \A r \in rows : [r EXCEPT !.enabled = (h.op = "enable")] \in Record
    BY DEF TypeOK, Record
  <2> QED
    BY <1>1, <2>1 DEF TypeOK, Written
<1>2. CASE h.op = "update"
  BY <1>2 DEF TypeOK, Written, Operation
<1>3. CASE h.op \notin {"enable", "disable", "update"}
  BY <1>3 DEF Written, Operation
<1> QED
  BY <1>1, <1>2, <1>3

-----------------------------------------------------------------------------
\* What holds of a process goes on holding when another one moves.
LEMMA Others ==
  ASSUME LifecycleInv, NEW q \in Processes,
         pc'[q] = pc[q], held'[q] = held[q], approved \subseteq approved',
         \/ origin'[q] = {}
         \/ origin'[q] = origin[q] /\ rows' = rows /\ target' = target
  PROVE  InvOf(q)'
<1>1. InvOf(q)
  BY DEF LifecycleInv
<1>2. LocalsOf(q)'
  BY <1>1 DEF InvOf, LocalsOf, Busy
<1>3. GateOf(q)'
  BY <1>1 DEF InvOf, GateOf, Busy, Safe
<1>4. BackOf(q)' /\ OnwardOf(q)'
  <2>1. CASE origin'[q] = {}
    BY <2>1 DEF BackOf, OnwardOf
  <2>2. CASE origin'[q] = origin[q] /\ rows' = rows /\ target' = target
    BY <1>1, <2>2 DEF InvOf, BackOf, OnwardOf, Busy, RolledBack, Stored, Snapshot, Writable, Written
  <2> QED
    BY <2>1, <2>2
<1> QED
  BY <1>2, <1>3, <1>4 DEF InvOf

\* The row that enable and disable write.
Toggled(r, op) == [r EXCEPT !.enabled = (op = "enable")]

\* An idle process begins: its operation, seen from both stores.
LEMMA BeginMoves ==
  ASSUME LifecycleInv, NEW p \in Processes, NEW op \in Ops, NEW kind \in Kinds,
         NEW existing \in SUBSET Record, NEW next \in SUBSET Record,
         NEW staged \in Contents \cup {None},
         Begin(p, op, kind, existing, next, staged),
         \A r \in existing \cup next : r.kind = kind,
         \A r, q \in existing : r = q, \A r, q \in next : r = q,
         op = "update" => existing = rows /\ next # {},
         op = "update" /\ kind # "skill" => ~Enabled(next),
         op \in {"add", "update", "enable"} /\ Enabled(next) /\ kind \in SourceBacked
           => staged \in Contents,
         op \in {"add", "seed"} => rows = {},
         op \notin {"add", "seed"} => \E r \in rows : r.kind = kind,
         op \in {"enable", "disable"} => \A r \in rows : next = {Toggled(r, op)},
         op = "remove" => next = {}
  PROVE  LifecycleInv'
<1> DEFINE h == [op |-> op, kind |-> kind, existing |-> existing, next |-> next,
                 staged |-> staged, backup |-> None, promoted |-> FALSE, committed |-> FALSE]
<1>1. h \in Operation
  BY DEF Operation, Packages
<1>2. /\ pc[p] = "idle" /\ pc'[p] = FirstStep(h) /\ held'[p] = h /\ origin'[p] = {Snapshot}
      /\ \A q \in Processes \ {p} : pc'[q] = pc[q] /\ held'[q] = held[q] /\ origin'[q] = origin[q]
      /\ rows' = rows /\ target' = target
      /\ begun' \in 0..MaxOperations
      /\ approved \subseteq approved'
  <2>1. begun' \in 0..MaxOperations
    BY CapabilityAssumption DEF LifecycleInv, TypeOK, Begin
  <2> QED
    BY <2>1 DEF LifecycleInv, TypeOK, Begin
<1>3. FirstStep(h) \in {"backup", "promote", "commit"}
  BY DEF FirstStep, AfterBackup
<1>4. /\ approved' \subseteq Kinds \X (Contents \cup {None})
      /\ kind # "skill" /\ Promotes(h) => <<kind, staged>> \in approved'
  <2>1. kind # "skill" /\ Promotes(h) => op \in {"add", "enable"}
    BY DEF Promotes
  <2> QED
    BY <2>1 DEF LifecycleInv, TypeOK, Begin
<1>5. TypeOK'
  <2>1. pc' \in [Processes -> Awaits \cup {"idle"}] /\ held' \in [Processes -> Operation \cup {NoOperation}]
    BY <1>1, <1>3 DEF LifecycleInv, TypeOK, Begin, Awaits
  <2>2. \A q \in Processes : pc'[q] # "idle" => held'[q] \in Operation
    BY <1>1, <1>2 DEF LifecycleInv, TypeOK
  <2>3. Snapshot \in [rows: SUBSET Record, target: [Kinds -> Packages]]
    BY DEF LifecycleInv, TypeOK, Snapshot
  <2>4. origin' \in [Processes -> SUBSET [rows: SUBSET Record, target: [Kinds -> Packages]]]
    BY <2>3 DEF LifecycleInv, TypeOK, Begin
  <2> QED
    BY <1>2, <1>4, <2>1, <2>2, <2>4 DEF LifecycleInv, TypeOK
<1>6. \A q \in Processes \ {p} : InvOf(q)'
  BY <1>2, Others
<1>7. LocalsOf(p)'
  <2>1. /\ FirstStep(h) = "backup" => BacksUp(h)
        /\ FirstStep(h) = "promote" => Promotes(h)
    BY DEF FirstStep, AfterBackup
  <2> QED
    BY <1>2, <1>3, <2>1 DEF LocalsOf
<1>8. GateOf(p)'
  BY <1>2, <1>4 DEF GateOf, Safe
<1>9. BackOf(p)'
  <2>1. target \in [Kinds -> Packages]
    BY DEF LifecycleInv, TypeOK
  <2>2. RolledBack(h)' = Snapshot
    BY <1>2, <2>1 DEF RolledBack, Snapshot
  <2>3. Demotes(h) => existing = rows
    BY DEF Demotes
  <2>4. Demotes(h) => \A o \in {Snapshot} : o.rows = h.existing
    BY <2>3 DEF Snapshot
  <2>5. h.committed = FALSE /\ pc'[p] \notin {"done", "failed"}
    BY <1>2, <1>3
  <2> HIDE DEF h
  <2> QED
    BY <1>2, <2>2, <2>4, <2>5 DEF BackOf, Demotes
<1>10. OnwardOf(p)'
  <2>1. \A r, s \in rows : r = s
    BY DEF LifecycleInv, TypeOK
  <2>2. Writable(h)
    BY DEF Writable, Stored, Ops
  <2>3. Written(h) = next
    <3>1. CASE op \in {"enable", "disable"}
      <4>1. \A r \in rows : r.kind = kind
        BY <1>1, <2>1, <3>1
      <4>2. Written(h) = {IF r.kind = kind THEN Toggled(r, op) ELSE r : r \in rows}
        BY <3>1 DEF Written, Toggled
      <4> HIDE DEF h
      <4>3. PICK r \in rows : rows = {r} /\ next = {Toggled(r, op)}
        BY <2>1, <3>1
      <4>4. {IF q.kind = kind THEN Toggled(q, op) ELSE q : q \in rows} = {Toggled(r, op)}
        BY <4>1, <4>3
      <4> QED
        BY <4>2, <4>3, <4>4
    <3>2. CASE op \notin {"enable", "disable"}
      BY <3>2 DEF Written, Stored, Ops
    <3> QED
      BY <3>1, <3>2
  <2>4. (Writable(h) /\ Written(h) = h.next)'
    BY <1>2, <2>2, <2>3 DEF Writable, Written, Stored
  <2>5. FirstStep(h) = "commit" => ~Promotes(h) /\ ~BacksUp(h)
    BY DEF FirstStep, AfterBackup
  <2>6. FirstStep(h) = "promote" => ~BacksUp(h)
    BY DEF FirstStep, AfterBackup
  <2> QED
    BY <1>2, <1>3, <2>4, <2>5, <2>6 DEF OnwardOf
<1>11. TargetsSafe'
  BY <1>2 DEF LifecycleInv, TargetsSafe, Safe
<1> QED
  BY <1>5, <1>6, <1>7, <1>8, <1>9, <1>10, <1>11 DEF LifecycleInv, InvOf

LEMMA Begins ==
  ASSUME LifecycleInv, NEW p \in Processes,
         Add(p) \/ Update(p) \/ Enable(p) \/ Disable(p) \/ Remove(p) \/ Reconcile(p)
  PROVE  LifecycleInv'
<1>1. /\ rows \subseteq Record
      /\ \A r, q \in rows : r = q
      /\ \A r \in rows : rows = {r}
      /\ \A r \in Record : r.kind \in Kinds /\ Staged(r) \subseteq Contents \cup {None}
      /\ \A r \in Record : r.kind \in SourceBacked => Staged(r) \subseteq Contents
  BY DEF LifecycleInv, TypeOK, Record, Staged
<1>2. CASE Add(p)
  <2>1. PICK r \in Record : \E c \in Staged(r) : Begin(p, "add", r.kind, {}, {r}, c)
    BY <1>2 DEF Add
  <2>2. PICK c \in Staged(r) : Begin(p, "add", r.kind, {}, {r}, c)
    BY <2>1
  <2> QED
    BY <1>1, <1>2, <2>2, BeginMoves DEF Add, Ops
<1>3. CASE Update(p)
  <2>1. PICK r \in rows, want \in Contents \cup {Unpinned} : \E c \in Staged(Updated(r, want)) :
          Begin(p, "update", r.kind, {r}, {Updated(r, want)}, c)
    BY <1>3 DEF Update
  <2> DEFINE u == Updated(r, want)
  <2>2. /\ u \in Record /\ u.kind = r.kind
        /\ r.kind # "skill" => ~u.enabled
    BY <1>1 DEF Updated, Record
  <2> HIDE DEF u
  <2>3. PICK c \in Staged(u) : Begin(p, "update", r.kind, {r}, {u}, c)
    BY <2>1 DEF u
  <2>4. r.kind # "skill" => ~Enabled({u})
    BY <2>2 DEF Enabled
  <2>5. rows = {r}
    BY <1>1
  <2> QED
    BY <1>1, <2>2, <2>3, <2>4, <2>5, BeginMoves DEF Ops
<1>4. CASE Enable(p)
  <2>1. PICK r \in rows : \E c \in Staged(r) :
          Begin(p, "enable", r.kind, {}, {[r EXCEPT !.enabled = TRUE]}, c)
    BY <1>4 DEF Enable
  <2> DEFINE u == [r EXCEPT !.enabled = TRUE]
  <2>2. u \in Record /\ u.kind = r.kind
    BY <1>1 DEF Record
  <2>3. \A q \in rows : {u} = {Toggled(q, "enable")}
    BY <1>1 DEF Toggled
  <2> HIDE DEF u
  <2>4. PICK c \in Staged(r) : Begin(p, "enable", r.kind, {}, {u}, c)
    BY <2>1 DEF u
  <2> QED
    BY <1>1, <2>2, <2>3, <2>4, BeginMoves DEF Ops
<1>5. CASE Disable(p)
  <2>1. PICK r \in rows : Begin(p, "disable", r.kind, {}, {[r EXCEPT !.enabled = FALSE]}, None)
    BY <1>5 DEF Disable
  <2> DEFINE u == [r EXCEPT !.enabled = FALSE]
  <2>2. u \in Record /\ u.kind = r.kind
    BY <1>1 DEF Record
  <2>3. \A q \in rows : {u} = {Toggled(q, "disable")}
    BY <1>1 DEF Toggled
  <2> HIDE DEF u
  <2>4. Begin(p, "disable", r.kind, {}, {u}, None)
    BY <2>1 DEF u
  <2> QED
    BY <1>1, <2>2, <2>3, <2>4, BeginMoves DEF Ops
<1>6. CASE Remove(p)
  BY <1>1, <1>6, BeginMoves DEF Remove, Ops, Enabled
<1>7. CASE Reconcile(p)
  BY <1>1, <1>7, BeginMoves DEF Reconcile, Ops
<1> QED
  BY <1>2, <1>3, <1>4, <1>5, <1>6, <1>7

-----------------------------------------------------------------------------
\* What is left to show of a step of p, besides what Goto shows.
LEMMA GotoKeeps ==
  ASSUME LifecycleInv, NEW p \in Processes, NEW h \in Operation, NEW step \in Awaits,
         Goto(p, h, step),
         rows' \in SUBSET Record, \A r, q \in rows' : r = q,
         target' \in [Kinds -> Packages],
         TargetsSafe', InvOf(p)'
  PROVE  LifecycleInv'
<1>1. TypeOK
  BY DEF LifecycleInv
<1>2. TypeOK'
  BY <1>1, GotoMoves DEF TypeOK
<1>3. \A q \in Processes \ {p} : InvOf(q)'
  BY <1>1, GotoMoves, Others
<1> QED
  BY <1>2, <1>3 DEF LifecycleInv

\* A step that throws, or that rolls back, may go on rolling back.
LEMMA RollsBack ==
  ASSUME LifecycleInv, NEW p \in Processes, NEW h \in Operation, Goto(p, h, RollbackStep(h)),
         \A r \in h.existing \cup h.next : r.kind = h.kind,
         \A r, q \in h.existing : r = q, \A r, q \in h.next : r = q,
         h.op = "update" => h.next # {},
         h.kind # "skill" => Safe(h.kind, h.backup)
                             /\ (Promotes(h) => <<h.kind, h.staged>> \in approved),
         rows' \in SUBSET Record, \A r, q \in rows' : r = q,
         target' \in [Kinds -> Packages], TargetsSafe',
         origin[p] # {} =>
           /\ Demotes(h) => \A o \in origin[p] : o.rows = h.existing
           /\ Demotes(h) /\ h.committed => Stored(h)'
           /\ (h.committed => Demotes(h)) /\ h.backup # Partial => origin[p] = {RolledBack(h)'}
  PROVE  LifecycleInv'
<1> DEFINE step == RollbackStep(h)
<1>1. step \in {"undo", "unpromote", "restore", "failed"} /\ step \in Awaits
  BY DEF RollbackStep, Awaits
<1>2. /\ pc'[p] = step /\ held'[p] = h /\ origin'[p] = origin[p] /\ approved' = approved
  BY <1>1, GotoMoves DEF LifecycleInv
<1>3. LocalsOf(p)'
  BY <1>1, <1>2 DEF LocalsOf, RollbackStep
<1>4. GateOf(p)'
  BY <1>1, <1>2 DEF GateOf, Safe
<1>5. OnwardOf(p)'
  BY <1>1, <1>2 DEF OnwardOf
<1>6. BackOf(p)'
  <2>1. step = "failed" => ~(h.committed /\ Demotes(h)) /\ ~h.promoted /\ h.backup = None
    BY DEF RollbackStep
  <2>2. step = "failed" => RolledBack(h)' = Snapshot'
    <3>1. h.kind \in Kinds
      BY DEF Operation
    <3> QED
      BY <2>1, <3>1 DEF RolledBack, Snapshot
  <2> QED
    BY <1>1, <1>2, <2>1, <2>2 DEF BackOf, Demotes, Stored
<1> QED
  BY <1>1, <1>3, <1>4, <1>5, <1>6, GotoKeeps DEF InvOf

\* A rollback that throws leaves nothing to promise.
LEMMA ThrowsAgain ==
  ASSUME LifecycleInv, NEW p \in Processes, pc[p] # "idle", ThrowAgain(p),
         rows' = rows, target' \in [Kinds -> Packages], TargetsSafe'
  PROVE  LifecycleInv'
<1>1. TypeOK /\ InvOf(p)
  BY DEF LifecycleInv
<1>2. TypeOK'
  BY <1>1, ThrowAgainMoves DEF TypeOK
<1>3. \A q \in Processes \ {p} : InvOf(q)'
  BY <1>1, ThrowAgainMoves, Others
<1>4. InvOf(p)'
  BY <1>1, ThrowAgainMoves DEF InvOf, LocalsOf, GateOf, BackOf, OnwardOf, Busy, Safe
<1> QED
  BY <1>2, <1>3, <1>4 DEF LifecycleInv

\* What the steps below start from: h is what held[p] is before the step.
LEMMA InOperation ==
  ASSUME LifecycleInv, NEW p \in Processes, Busy(p)
  PROVE  /\ TypeOK /\ InvOf(p) /\ TargetsSafe
         /\ target \in [Kinds -> Packages] /\ rows \in SUBSET Record /\ \A r, q \in rows : r = q
         /\ \E h \in Operation : h = held[p]
  BY DEF LifecycleInv, TypeOK, Busy

LEMMA Types ==
  ASSUME LifecycleInv, NEW p \in Processes, Busy(p), NEW h \in Operation, h = held[p]
  PROVE  /\ h.kind \in Kinds /\ h.backup \in Packages /\ h.staged \in Contents \cup {None}
         /\ h.existing \in SUBSET Record /\ h.next \in SUBSET Record
         /\ h.promoted \in BOOLEAN /\ h.committed \in BOOLEAN
         /\ target[h.kind] \in Packages
  BY InOperation DEF Operation

LEMMA Asked ==
  ASSUME LifecycleInv, NEW p \in Processes, Busy(p), NEW h \in Operation, h = held[p]
  PROVE  /\ \A r \in h.existing \cup h.next : r.kind = h.kind
         /\ \A r, q \in h.existing : r = q
         /\ \A r, q \in h.next : r = q
         /\ h.op = "update" => h.next # {}
  BY InOperation DEF InvOf, LocalsOf

LEMMA SafeBackup ==
  ASSUME LifecycleInv, NEW p \in Processes, Busy(p), NEW h \in Operation, h = held[p]
  PROVE  h.kind # "skill" => /\ Safe(h.kind, h.backup) /\ Safe(h.kind, target[h.kind])
                             /\ Promotes(h) => <<h.kind, h.staged>> \in approved
  BY InOperation, Types DEF InvOf, GateOf, TargetsSafe

LEMMA WayBack ==
  ASSUME LifecycleInv, NEW p \in Processes, Busy(p), NEW h \in Operation, h = held[p],
         origin[p] # {}
  PROVE  /\ Demotes(h) => \A o \in origin[p] : o.rows = h.existing
         /\ Demotes(h) /\ h.committed => Stored(h)
         /\ pc[p] \notin {"done", "failed"} /\ (h.committed => Demotes(h)) /\ h.backup # Partial
              => origin[p] = {RolledBack(h)}
  BY InOperation DEF InvOf, BackOf

\* A package put in place leaves only safe packages if it is safe.
LEMMA PutSafe ==
  ASSUME TypeOK, TargetsSafe, NEW k \in Kinds, NEW x \in Packages,
         target' = [target EXCEPT ![k] = x], approved' = approved,
         k # "skill" => Safe(k, x)
  PROVE  TargetsSafe'
  BY DEF TypeOK, TargetsSafe, Safe

\* A step that throws, with both stores as they are.
LEMMA Throws ==
  ASSUME LifecycleInv, NEW p \in Processes, Busy(p), pc[p] \notin {"done", "failed"},
         Throw(p, held[p]), rows' = rows, target' = target
  PROVE  LifecycleInv'
<1>1. PICK h \in Operation : h = held[p]
  BY InOperation
<1>2. /\ TypeOK /\ TargetsSafe
      /\ target \in [Kinds -> Packages] /\ rows \in SUBSET Record /\ \A r, q \in rows : r = q
  BY InOperation
<1>3. TargetsSafe' /\ Goto(p, h, RollbackStep(h))
  BY <1>1, <1>2 DEF TargetsSafe, Safe, Throw, Goto
<1>4. RolledBack(h)' = RolledBack(h) /\ Stored(h)' = Stored(h)
  BY DEF RolledBack, Stored
<1>5. /\ \A r \in h.existing \cup h.next : r.kind = h.kind
      /\ \A r, q \in h.existing : r = q
      /\ \A r, q \in h.next : r = q
      /\ h.op = "update" => h.next # {}
      /\ h.kind # "skill" => Safe(h.kind, h.backup)
                             /\ (Promotes(h) => <<h.kind, h.staged>> \in approved)
  BY <1>1, Types, Asked, SafeBackup, WayBack
<1>6. origin[p] # {} =>
        /\ Demotes(h) => \A o \in origin[p] : o.rows = h.existing
        /\ Demotes(h) /\ h.committed => Stored(h)
        /\ (h.committed => Demotes(h)) /\ h.backup # Partial => origin[p] = {RolledBack(h)}
  BY <1>1, Types, Asked, SafeBackup, WayBack
<1> QED
  BY <1>2, <1>3, <1>4, <1>5, <1>6, RollsBack

\* The locals of an operation further on: what it was asked to do is the same.
SameOperation(g, h) ==
  /\ g.op = h.op /\ g.kind = h.kind /\ g.existing = h.existing
  /\ g.next = h.next /\ g.staged = h.staged

LEMMA SameWay ==
  ASSUME NEW g, NEW h, SameOperation(g, h)
  PROVE  /\ (Promotes(g) <=> Promotes(h)) /\ (Demotes(g) <=> Demotes(h)) /\ (BacksUp(g) <=> BacksUp(h))
         /\ (Stored(g) <=> Stored(h)) /\ (Writable(g) <=> Writable(h)) /\ Written(g) = Written(h)
<1>1. (Promotes(g) <=> Promotes(h)) /\ (Demotes(g) <=> Demotes(h)) /\ (BacksUp(g) <=> BacksUp(h))
  BY DEF SameOperation, Promotes, Demotes, BacksUp
<1>2. (Stored(g) <=> Stored(h)) /\ (Writable(g) <=> Writable(h)) /\ Written(g) = Written(h)
  BY DEF SameOperation, Stored, Writable, Written
<1> QED
  BY <1>1, <1>2

\* A step that goes on, or that restores: from the locals h to the locals g.
LEMMA Advances ==
  ASSUME LifecycleInv, NEW p \in Processes, Busy(p), NEW h \in Operation, h = held[p],
         NEW g \in Operation, SameOperation(g, h), NEW step \in Awaits, Goto(p, g, step),
         rows' \in SUBSET Record, \A r, q \in rows' : r = q,
         target' \in [Kinds -> Packages], TargetsSafe',
         h.kind # "skill" => Safe(h.kind, g.backup),
         step \notin {"backup", "undo", "unpromote", "restore"},
         step = "promote" => Promotes(h) /\ ~g.promoted /\ ~g.committed,
         step = "commit" => ~g.committed,
         origin[p] # {} =>
           /\ Demotes(h) /\ g.committed => Stored(h)'
           /\ step \notin {"done", "failed"} /\ (g.committed => Demotes(h)) /\ g.backup # Partial
                => origin[p] = {RolledBack(g)'}
           /\ step = "failed" /\ ~g.committed /\ g.backup # Partial => origin[p] = {Snapshot'}
           /\ step \in {"promote", "commit"} => Writable(h)' /\ Written(h)' = h.next
           /\ step \in {"cleanup", "done"} => rows' = h.next
           /\ step \in {"commit", "cleanup", "done"} /\ Promotes(h) => target'[h.kind] = h.staged
           /\ step \in {"promote", "commit", "cleanup", "done"} /\ BacksUp(h) /\ ~Promotes(h)
                => target'[h.kind] = None
  PROVE  LifecycleInv'
<1>1. /\ pc'[p] = step /\ held'[p] = g /\ origin'[p] = origin[p] /\ approved' = approved
  BY GotoMoves DEF LifecycleInv
<1>2. /\ (Promotes(g) <=> Promotes(h)) /\ (Demotes(g) <=> Demotes(h)) /\ (BacksUp(g) <=> BacksUp(h))
      /\ g.op = h.op /\ g.kind = h.kind /\ g.existing = h.existing
      /\ g.next = h.next /\ g.staged = h.staged
  BY SameWay DEF SameOperation
<1>3. (Stored(g)' <=> Stored(h)') /\ (Writable(g)' <=> Writable(h)') /\ Written(g)' = Written(h)'
  BY <1>2 DEF Stored, Writable, Written
<1>4. LocalsOf(p)'
  <2>1. /\ \A r \in h.existing \cup h.next : r.kind = h.kind
        /\ \A r, q \in h.existing : r = q
        /\ \A r, q \in h.next : r = q
        /\ h.op = "update" => h.next # {}
    BY Asked
  <2> QED
    BY <1>1, <1>2, <2>1 DEF LocalsOf
<1>5. GateOf(p)'
  BY <1>1, <1>2, SafeBackup DEF GateOf, Safe
<1>6. BackOf(p)'
  <2>1. origin[p] # {} /\ Demotes(g) => \A o \in origin[p] : o.rows = g.existing
    <3>1. origin[p] # {} /\ Demotes(h) => \A o \in origin[p] : o.rows = h.existing
      BY WayBack
    <3> QED
      BY <1>2, <3>1
  <2>2. (Demotes(held[p])' <=> Demotes(g)) /\ RolledBack(held[p])' = RolledBack(g)'
        /\ (Stored(held[p])' <=> Stored(g)')
    BY <1>1 DEF Demotes, RolledBack, Stored
  <2>3. Snapshot' = [rows |-> rows', target |-> target']
    BY DEF Snapshot
  <2> QED
    BY <1>1, <1>2, <1>3, <2>1, <2>2 DEF BackOf
<1>7. OnwardOf(p)'
  <2>1. /\ (Promotes(held[p])' <=> Promotes(g)) /\ (BacksUp(held[p])' <=> BacksUp(g))
        /\ (Writable(held[p])' <=> Writable(g)') /\ Written(held[p])' = Written(g)'
    BY <1>1 DEF Promotes, BacksUp, Demotes, Writable, Written, Stored
  <2> QED
    BY <1>1, <1>2, <1>3, <2>1 DEF OnwardOf
<1> QED
  BY <1>4, <1>5, <1>6, <1>7, GotoKeeps DEF InvOf

-----------------------------------------------------------------------------
\* One lemma for each step of an operation.
LEMMA BackupKeeps ==
  ASSUME LifecycleInv, NEW p \in Processes, Backup(p)
  PROVE  LifecycleInv'
<1>0. Busy(p) /\ pc[p] = "backup" /\ rows' = rows
  BY DEF Backup, Busy
<1>1. PICK h \in Operation : h = held[p]
  BY <1>0, InOperation
<1>2. /\ TypeOK /\ InvOf(p) /\ TargetsSafe
      /\ target \in [Kinds -> Packages] /\ rows \in SUBSET Record /\ \A r, q \in rows : r = q
      /\ h.kind \in Kinds /\ target[h.kind] \in Packages
  BY <1>0, <1>1, InOperation, Types
<1>3. /\ BacksUp(h) /\ ~h.promoted /\ ~h.committed /\ h.backup = None
      /\ origin[p] # {} => Writable(h) /\ Written(h) = h.next
  BY <1>0, <1>1, <1>2 DEF InvOf, LocalsOf, OnwardOf
<1>4. /\ AfterBackup(h) \in {"promote", "commit"} /\ AfterBackup(h) \in Awaits
      /\ AfterBackup(h) = "promote" <=> Promotes(h)
  BY DEF AfterBackup, Awaits
<1>5. RolledBack(h) = Snapshot /\ (origin[p] # {} => origin[p] = {Snapshot})
  <2>1. RolledBack(h) = Snapshot
    BY <1>2, <1>3 DEF RolledBack, Snapshot
  <2> QED
    BY <1>0, <1>1, <1>3, <2>1, WayBack DEF None, Partial
<1>6. (Writable(h)' <=> Writable(h)) /\ Written(h)' = Written(h)
  BY <1>0 DEF Writable, Written, Stored
<1>7. CASE target[h.kind] = None /\ Goto(p, h, AfterBackup(h)) /\ target' = target
  <2>1. TargetsSafe'
    BY <1>2, <1>7 DEF TargetsSafe, Safe, Goto
  <2>2. RolledBack(h)' = RolledBack(h)
    BY <1>0, <1>7 DEF RolledBack
  <2> QED
    BY <1>0, <1>1, <1>2, <1>3, <1>4, <1>5, <1>6, <1>7, <2>1, <2>2, SafeBackup, Advances
       DEF SameOperation
<1>8. CASE /\ target[h.kind] # None
           /\ Goto(p, [h EXCEPT !.backup = target[h.kind]], AfterBackup(h))
           /\ target' = [target EXCEPT ![h.kind] = None]
  <2>1. PICK x \in Packages : x = target[h.kind]
    BY <1>2
  <2>2. PICK f \in Operation : f = [h EXCEPT !.backup = x]
    BY <2>1 DEF Operation
  <2>3. /\ SameOperation(f, h) /\ f.kind = h.kind /\ f.backup = x
        /\ ~f.promoted /\ ~f.committed /\ Goto(p, f, AfterBackup(h))
    BY <1>3, <1>8, <2>1, <2>2 DEF Operation, SameOperation
  <2>4. target' \in [Kinds -> Packages] /\ target'[h.kind] = None /\ approved' = approved
    BY <1>2, <1>8 DEF Packages, Goto
  <2>5. TargetsSafe'
    BY <1>2, <1>8, <2>4, PutSafe DEF Safe, Packages
  <2>6. RolledBack(f)' = Snapshot
    <3>1. [target' EXCEPT ![h.kind] = x] = target
      BY <1>2, <1>8, <2>1, <2>4
    <3> QED
      BY <1>0, <1>8, <2>1, <2>3, <3>1 DEF RolledBack, Snapshot
  <2>7. h.kind # "skill" => Safe(h.kind, f.backup)
    BY <1>0, <1>1, <2>1, <2>3, SafeBackup
  <2> QED
    BY <1>0, <1>1, <1>2, <1>3, <1>4, <1>5, <1>6, <2>3, <2>4, <2>5, <2>6, <2>7, Advances
<1>9. CASE Throw(p, h) /\ target' = target
  BY <1>0, <1>1, <1>9, Throws
<1> QED
  BY <1>1, <1>7, <1>8, <1>9 DEF Backup, SetPackage

LEMMA PromoteKeeps ==
  ASSUME LifecycleInv, NEW p \in Processes, Promote(p)
  PROVE  LifecycleInv'
<1>0. Busy(p) /\ pc[p] = "promote" /\ rows' = rows
  BY DEF Promote, Busy
<1>1. PICK h \in Operation : h = held[p]
  BY <1>0, InOperation
<1>2. /\ TypeOK /\ InvOf(p) /\ TargetsSafe
      /\ target \in [Kinds -> Packages] /\ rows \in SUBSET Record /\ \A r, q \in rows : r = q
      /\ h.kind \in Kinds /\ h.staged \in Packages
  BY <1>0, <1>1, InOperation, Types DEF Packages
<1>3. /\ Promotes(h) /\ ~h.promoted /\ ~h.committed
      /\ origin[p] # {} => Writable(h) /\ Written(h) = h.next
  BY <1>0, <1>1, <1>2 DEF InvOf, LocalsOf, OnwardOf
<1>4. (Writable(h)' <=> Writable(h)) /\ Written(h)' = Written(h)
  BY <1>0 DEF Writable, Written, Stored
<1>5. CASE /\ target[h.kind] = None
           /\ Goto(p, [h EXCEPT !.promoted = TRUE], "commit")
           /\ target' = [target EXCEPT ![h.kind] = h.staged]
  <2>1. PICK g \in Operation : g = [h EXCEPT !.promoted = TRUE]
    BY DEF Operation
  <2>2. /\ SameOperation(g, h) /\ g.kind = h.kind /\ g.backup = h.backup
        /\ g.promoted /\ ~g.committed /\ Goto(p, g, "commit")
    BY <1>3, <1>5, <2>1 DEF Operation, SameOperation
  <2>3. target' \in [Kinds -> Packages] /\ target'[h.kind] = h.staged /\ approved' = approved
    BY <1>2, <1>5 DEF Goto
  <2>4. h.kind # "skill" => Safe(h.kind, g.backup) /\ Safe(h.kind, h.staged)
    BY <1>0, <1>1, <1>3, <2>2, SafeBackup DEF Safe
  <2>5. TargetsSafe'
    BY <1>2, <1>5, <2>3, <2>4, PutSafe
  <2>6. RolledBack(g)' = RolledBack(h)
    <3>1. \A x \in Packages : [target' EXCEPT ![h.kind] = x] = [target EXCEPT ![h.kind] = x]
      BY <1>2, <1>5
    <3>2. [target EXCEPT ![h.kind] = None] = target
      BY <1>2, <1>5
    <3>3. h.backup \in Packages /\ None \in Packages
      BY DEF Operation, Packages
    <3> QED
      BY <1>0, <1>2, <1>3, <1>5, <2>2, <3>1, <3>2, <3>3 DEF RolledBack
  <2>7. origin[p] # {} /\ h.backup # Partial => origin[p] = {RolledBack(h)}
    BY <1>0, <1>1, <1>3, WayBack
  <2>8. "commit" \in Awaits
    BY DEF Awaits
  <2> QED
    BY <1>0, <1>1, <1>2, <1>3, <1>4, <2>2, <2>3, <2>4, <2>5, <2>6, <2>7, <2>8, Advances
<1>6. CASE Throw(p, h) /\ target' = target
  BY <1>0, <1>1, <1>6, Throws
<1> QED
  BY <1>1, <1>5, <1>6 DEF Promote, SetPackage

LEMMA CommitKeeps ==
  ASSUME LifecycleInv, NEW p \in Processes, Commit(p)
  PROVE  LifecycleInv'
<1>0. Busy(p) /\ pc[p] = "commit" /\ target' = target
  BY DEF Commit, Busy
<1>1. PICK h \in Operation : h = held[p]
  BY <1>0, InOperation
<1>2. /\ TypeOK /\ InvOf(p) /\ TargetsSafe
      /\ target \in [Kinds -> Packages] /\ rows \in SUBSET Record /\ \A r, q \in rows : r = q
  BY <1>0, InOperation
<1>3. /\ ~h.committed
      /\ origin[p] # {} =>
           /\ Writable(h) /\ Written(h) = h.next
           /\ Promotes(h) => target[h.kind] = h.staged
           /\ BacksUp(h) /\ ~Promotes(h) => target[h.kind] = None
  BY <1>0, <1>1, <1>2 DEF InvOf, LocalsOf, OnwardOf
<1>4. ASSUME rows' = Written(h), NEW step \in {"done", "cleanup"},
             Goto(p, [h EXCEPT !.committed = TRUE], step)
      PROVE  LifecycleInv'
  <2>1. PICK g \in Operation : g = [h EXCEPT !.committed = TRUE]
    BY DEF Operation
  <2>2. /\ SameOperation(g, h) /\ g.kind = h.kind /\ g.existing = h.existing
        /\ g.backup = h.backup /\ g.promoted = h.promoted
        /\ g.committed /\ Goto(p, g, step) /\ (Demotes(g) <=> Demotes(h))
    BY <1>4, <2>1, SameWay DEF Operation, SameOperation
  <2>3. rows' \in SUBSET Record /\ \A r, q \in rows' : r = q
    BY <1>0, <1>1, <1>2, <1>4, Asked, WrittenRows
  <2>4. h.kind # "skill" => Safe(h.kind, g.backup)
    BY <1>0, <1>1, <2>2, SafeBackup
  <2>5. TargetsSafe'
    BY <1>0, <1>2, <1>4 DEF TargetsSafe, Safe, Goto
  <2>6. origin[p] # {} /\ Demotes(h) => Stored(h)'
    <3>1. Demotes(h) => h.op = "update"
      BY DEF Demotes
    <3> QED
      BY <1>0, <1>1, <1>3, <1>4, <3>1, Asked DEF Stored
  <2>7. ASSUME origin[p] # {}, Demotes(h), h.backup # Partial
        PROVE  origin[p] = {RolledBack(g)'}
    <3>1. origin[p] = {RolledBack(h)} /\ \A o \in origin[p] : o.rows = h.existing
      BY <1>0, <1>1, <1>3, <2>7, WayBack
    <3>2. rows = h.existing
      BY <1>3, <3>1 DEF RolledBack
    <3>3. RolledBack(g)' = RolledBack(h)
      BY <1>0, <1>3, <2>2, <2>7, <3>2 DEF RolledBack
    <3> QED
      BY <3>1, <3>3
  <2>8. step \in Awaits
    BY DEF Awaits
  <2> QED
    BY <1>0, <1>1, <1>2, <1>3, <1>4, <2>2, <2>3, <2>4, <2>5, <2>6, <2>7, <2>8, Advances
<1>5. CASE Throw(p, h) /\ rows' = rows
  BY <1>0, <1>1, <1>5, Throws
<1> QED
  BY <1>1, <1>4, <1>5 DEF Commit

LEMMA CleanUpKeeps ==
  ASSUME LifecycleInv, NEW p \in Processes, CleanUp(p)
  PROVE  LifecycleInv'
<1>0. Busy(p) /\ pc[p] = "cleanup" /\ target' = target /\ rows' = rows
  BY DEF CleanUp, Busy
<1>1. PICK h \in Operation : h = held[p]
  BY <1>0, InOperation
<1>2. /\ TypeOK /\ InvOf(p) /\ TargetsSafe
      /\ target \in [Kinds -> Packages] /\ rows \in SUBSET Record /\ \A r, q \in rows : r = q
      /\ h.backup \in Packages
  BY <1>0, <1>1, InOperation, Types
<1>3. origin[p] # {} =>
        /\ rows = h.next
        /\ Promotes(h) => target[h.kind] = h.staged
        /\ BacksUp(h) /\ ~Promotes(h) => target[h.kind] = None
  BY <1>0, <1>1, <1>2 DEF InvOf, OnwardOf
<1>4. Stored(h)' <=> Stored(h)
  BY <1>0 DEF Stored
<1>5. approved' = approved => TargetsSafe'
  BY <1>0, <1>2 DEF TargetsSafe, Safe
<1>6. ASSUME NEW left \in Packages
      PROVE  \E g \in Operation :
               /\ g = [h EXCEPT !.backup = left] /\ SameOperation(g, h) /\ g.backup = left
               /\ g.promoted = h.promoted /\ g.committed = h.committed
               /\ g.kind = h.kind /\ g.existing = h.existing /\ g.next = h.next
               /\ g.staged = h.staged /\ g.op = h.op
               /\ Demotes(g) <=> Demotes(h)
               /\ Promotes(g) <=> Promotes(h)
               /\ Stored(g) <=> Stored(h)
  <2> DEFINE g == [h EXCEPT !.backup = left]
  <2>1. /\ g \in Operation /\ SameOperation(g, h) /\ g.backup = left
        /\ g.promoted = h.promoted /\ g.committed = h.committed
        /\ g.kind = h.kind /\ g.existing = h.existing /\ g.next = h.next
        /\ g.staged = h.staged /\ g.op = h.op
    BY DEF Operation, SameOperation
  <2>2. g = [h EXCEPT !.backup = left]
    OBVIOUS
  <2> HIDE DEF g
  <2> QED
    BY <2>1, <2>2, SameWay
<1>7. CASE Goto(p, [h EXCEPT !.backup = None], "done")
  <2>1. PICK g \in Operation :
          /\ g = [h EXCEPT !.backup = None] /\ SameOperation(g, h) /\ g.backup = None
          /\ g.committed = h.committed
    BY <1>6 DEF Packages
  <2>2. Goto(p, g, "done")
    BY <1>7, <2>1
  <2>3. approved' = approved /\ "done" \in Awaits
    BY <1>7 DEF Goto, Awaits
  <2>4. origin[p] # {} /\ Demotes(h) /\ g.committed => Stored(h)'
    BY <1>0, <1>1, <1>4, <2>1, WayBack
  <2> QED
    BY <1>0, <1>1, <1>2, <1>3, <1>5, <2>1, <2>2, <2>3, <2>4, Advances DEF Safe
<1>8. ASSUME NEW left \in {h.backup, Partial}, Throw(p, [h EXCEPT !.backup = left])
      PROVE  LifecycleInv'
  <2>1. left \in Packages
    BY <1>2 DEF Packages
  <2>2. PICK g \in Operation :
          /\ g = [h EXCEPT !.backup = left] /\ SameOperation(g, h) /\ g.backup = left
          /\ g.promoted = h.promoted /\ g.committed = h.committed
          /\ g.kind = h.kind /\ g.existing = h.existing /\ g.next = h.next
          /\ g.staged = h.staged /\ g.op = h.op
          /\ Demotes(g) <=> Demotes(h)
          /\ Promotes(g) <=> Promotes(h)
          /\ Stored(g) <=> Stored(h)
    BY <1>6, <2>1
  <2>3. Goto(p, g, RollbackStep(g)) /\ approved' = approved
    BY <1>8, <2>2 DEF Throw, Goto
  <2>4. g.backup # Partial => RolledBack(g)' = RolledBack(h)
    BY <1>0, <2>2 DEF RolledBack
  <2>5. /\ \A r \in g.existing \cup g.next : r.kind = g.kind
        /\ \A r, q \in g.existing : r = q
        /\ \A r, q \in g.next : r = q
        /\ g.op = "update" => g.next # {}
    BY <1>0, <1>1, <2>2, Asked
  <2>6. g.kind # "skill" => Safe(g.kind, g.backup) /\ (Promotes(g) => <<g.kind, g.staged>> \in approved)
    BY <1>0, <1>1, <2>2, SafeBackup DEF Safe
  <2>7. Stored(g)' <=> Stored(g)
    BY <1>0 DEF Stored
  <2>8. origin[p] # {} =>
          /\ Demotes(g) => \A o \in origin[p] : o.rows = g.existing
          /\ Demotes(g) /\ g.committed => Stored(g)'
          /\ (g.committed => Demotes(g)) /\ g.backup # Partial => origin[p] = {RolledBack(g)'}
    BY <1>0, <1>1, <2>2, <2>4, <2>7, WayBack
  <2> QED
    BY <1>0, <1>2, <1>5, <2>3, <2>5, <2>6, <2>8, RollsBack
<1> QED
  BY <1>1, <1>7, <1>8 DEF CleanUp

LEMMA UndoKeeps ==
  ASSUME LifecycleInv, NEW p \in Processes, Undo(p)
  PROVE  LifecycleInv'
<1>0. Busy(p) /\ pc[p] = "undo" /\ target' = target
  BY DEF Undo, Busy
<1>1. PICK h \in Operation : h = held[p]
  BY <1>0, InOperation
<1>2. /\ TypeOK /\ InvOf(p) /\ TargetsSafe
      /\ target \in [Kinds -> Packages] /\ rows \in SUBSET Record /\ \A r, q \in rows : r = q
  BY <1>0, InOperation
<1>3. h.committed /\ Demotes(h)
  BY <1>0, <1>1, <1>2 DEF InvOf, LocalsOf
<1>4. approved' = approved => TargetsSafe'
  BY <1>0, <1>2 DEF TargetsSafe, Safe
<1>g. PICK g \in Operation : g = [h EXCEPT !.committed = FALSE]
  BY DEF Operation
<1>5. /\ SameOperation(g, h)
      /\ g.backup = h.backup /\ g.promoted = h.promoted /\ ~g.committed
      /\ g.kind = h.kind /\ g.existing = h.existing /\ g.next = h.next
      /\ g.staged = h.staged /\ g.op = h.op
  BY <1>g DEF Operation, SameOperation
<1>6. (Stored(g) <=> Stored(h)) /\ (Promotes(g) <=> Promotes(h)) /\ (Demotes(g) <=> Demotes(h))
  BY <1>5, SameWay
<1>7. CASE rows' = (IF Stored(g) THEN g.existing ELSE rows) /\ Goto(p, g, RollbackStep(g))
  <2>1. approved' = approved
    BY <1>7 DEF Goto
  <2>2. /\ \A r \in g.existing \cup g.next : r.kind = g.kind
        /\ \A r, q \in g.existing : r = q
        /\ \A r, q \in g.next : r = q
        /\ g.op = "update" => g.next # {}
    BY <1>0, <1>1, <1>5, Asked
  <2>3. g.kind # "skill" => Safe(g.kind, g.backup) /\ (Promotes(g) => <<g.kind, g.staged>> \in approved)
    BY <1>0, <1>1, <1>5, <1>6, SafeBackup
  <2>4. rows' \in SUBSET Record /\ \A r, q \in rows' : r = q
    BY <1>2, <1>7, <2>2 DEF Operation
  <2>5. ASSUME origin[p] # {}, g.backup # Partial
        PROVE  origin[p] = {RolledBack(g)'}
    <3>1. origin[p] = {RolledBack(h)} /\ Stored(h)
      BY <1>0, <1>1, <1>3, <1>5, <2>5, WayBack
    <3>2. rows' = h.existing
      BY <1>5, <1>6, <1>7, <3>1
    <3>3. RolledBack(g)' = RolledBack(h)
      BY <1>0, <1>3, <1>5, <3>2 DEF RolledBack
    <3> QED
      BY <3>1, <3>3
  <2>6. origin[p] # {} => \A o \in origin[p] : o.rows = g.existing
    BY <1>0, <1>1, <1>3, <1>5, WayBack
  <2> QED
    BY <1>0, <1>2, <1>4, <1>5, <1>7, <2>1, <2>2, <2>3, <2>4, <2>5, <2>6, RollsBack
<1>8. CASE ThrowAgain(p) /\ rows' = rows
  <2>1. TargetsSafe' /\ target' \in [Kinds -> Packages]
    BY <1>0, <1>2, <1>4, <1>8 DEF ThrowAgain
  <2> QED
    BY <1>0, <1>8, <2>1, ThrowsAgain DEF Busy
<1> QED
  BY <1>1, <1>g, <1>7, <1>8 DEF Undo

LEMMA UnpromoteKeeps ==
  ASSUME LifecycleInv, NEW p \in Processes, Unpromote(p)
  PROVE  LifecycleInv'
<1>0. Busy(p) /\ pc[p] = "unpromote" /\ rows' = rows
  BY DEF Unpromote, Busy
<1>1. PICK h \in Operation : h = held[p]
  BY <1>0, InOperation
<1>2. /\ TypeOK /\ InvOf(p) /\ TargetsSafe
      /\ target \in [Kinds -> Packages] /\ rows \in SUBSET Record /\ \A r, q \in rows : r = q
      /\ h.kind \in Kinds /\ h.backup \in Packages /\ target[h.kind] \in Packages
  BY <1>0, <1>1, InOperation, Types
<1>3. h.promoted /\ ~(h.committed /\ Demotes(h))
  BY <1>0, <1>1, <1>2 DEF InvOf, LocalsOf
<1>g. PICK g \in Operation : g = [h EXCEPT !.promoted = FALSE]
  BY DEF Operation
<1>4. /\ SameOperation(g, h)
      /\ g.backup = h.backup /\ ~g.promoted /\ g.committed = h.committed
      /\ g.kind = h.kind /\ g.existing = h.existing /\ g.next = h.next
      /\ g.staged = h.staged /\ g.op = h.op
  BY <1>g DEF Operation, SameOperation
<1>5. (Stored(g) <=> Stored(h)) /\ (Promotes(g) <=> Promotes(h)) /\ (Demotes(g) <=> Demotes(h))
  BY <1>4, SameWay
<1>6. CASE Goto(p, g, RollbackStep(g)) /\ target' = [target EXCEPT ![g.kind] = None]
  <2>1. approved' = approved /\ target' \in [Kinds -> Packages]
    BY <1>2, <1>4, <1>6 DEF Goto, Packages
  <2>2. /\ \A r \in g.existing \cup g.next : r.kind = g.kind
        /\ \A r, q \in g.existing : r = q
        /\ \A r, q \in g.next : r = q
        /\ g.op = "update" => g.next # {}
    BY <1>0, <1>1, <1>4, Asked
  <2>3. g.kind # "skill" => Safe(g.kind, g.backup) /\ (Promotes(g) => <<g.kind, g.staged>> \in approved)
    BY <1>0, <1>1, <1>4, <1>5, SafeBackup
  <2>4. TargetsSafe'
    BY <1>2, <1>4, <1>6, <2>1, PutSafe DEF Safe, Packages
  <2>5. RolledBack(g)' = RolledBack(h)
    <3>1. \A x \in Packages : [target' EXCEPT ![h.kind] = x] = [target EXCEPT ![h.kind] = x]
      BY <1>2, <1>4, <1>6
    <3>2. target'[h.kind] = None /\ None \in Packages
      BY <1>2, <1>4, <1>6 DEF Packages
    <3>3. CASE h.backup # None
      BY <1>0, <1>2, <1>3, <1>4, <1>5, <3>1, <3>3 DEF RolledBack
    <3>4. CASE h.backup = None
      <4>1. RolledBack(h).target = [target EXCEPT ![h.kind] = None]
        BY <1>3, <3>4 DEF RolledBack
      <4>2. RolledBack(g)'.target = [target' EXCEPT ![h.kind] = None]
        BY <1>4, <3>2, <3>4 DEF RolledBack
      <4>3. RolledBack(h).rows = rows /\ RolledBack(g)'.rows = rows
        BY <1>0, <1>3, <1>4, <1>5 DEF RolledBack, Demotes
      <4> QED
        BY <3>1, <3>2, <4>1, <4>2, <4>3 DEF RolledBack
    <3> QED
      BY <3>3, <3>4
  <2>6. origin[p] # {} =>
          /\ Demotes(g) => \A o \in origin[p] : o.rows = g.existing
          /\ Demotes(g) => ~g.committed
          /\ (g.committed => Demotes(g)) /\ g.backup # Partial => origin[p] = {RolledBack(g)'}
    <3>1. origin[p] # {} =>
            /\ Demotes(h) => \A o \in origin[p] : o.rows = h.existing
            /\ (h.committed => Demotes(h)) /\ h.backup # Partial => origin[p] = {RolledBack(h)}
      BY <1>0, <1>1, WayBack
    <3> QED
      BY <1>3, <1>4, <1>5, <2>5, <3>1
  <2> QED
    BY <1>0, <1>2, <1>6, <2>1, <2>2, <2>3, <2>4, <2>6, RollsBack
<1>7. ASSUME ThrowAgain(p), NEW left \in {target[g.kind], Partial},
             target' = [target EXCEPT ![g.kind] = left]
      PROVE  LifecycleInv'
  <2>1. left \in Packages /\ target' \in [Kinds -> Packages] /\ approved' = approved
    BY <1>2, <1>4, <1>7 DEF Packages, ThrowAgain
  <2>2. h.kind # "skill" => Safe(h.kind, left)
    BY <1>0, <1>1, <1>4, SafeBackup DEF Safe
  <2>3. TargetsSafe'
    BY <1>2, <1>4, <1>7, <2>1, <2>2, PutSafe
  <2> QED
    BY <1>0, <1>7, <2>1, <2>3, ThrowsAgain DEF Busy
<1> QED
  BY <1>1, <1>g, <1>4, <1>6, <1>7 DEF Unpromote, SetPackage

LEMMA RestoreKeeps ==
  ASSUME LifecycleInv, NEW p \in Processes, Restore(p)
  PROVE  LifecycleInv'
<1>0. Busy(p) /\ pc[p] = "restore" /\ rows' = rows
  BY DEF Restore, Busy
<1>1. PICK h \in Operation : h = held[p]
  BY <1>0, InOperation
<1>2. /\ TypeOK /\ InvOf(p) /\ TargetsSafe
      /\ target \in [Kinds -> Packages] /\ rows \in SUBSET Record /\ \A r, q \in rows : r = q
      /\ h.kind \in Kinds /\ h.backup \in Packages
  BY <1>0, <1>1, InOperation, Types
<1>3. ~h.promoted /\ ~(h.committed /\ Demotes(h)) /\ h.backup # None
  BY <1>0, <1>1, <1>2 DEF InvOf, LocalsOf
<1>4. CASE Goto(p, h, "failed") /\ target' = [target EXCEPT ![h.kind] = h.backup]
  <2>1. target' \in [Kinds -> Packages] /\ approved' = approved
    BY <1>2, <1>4 DEF Goto
  <2>2. h.kind # "skill" => Safe(h.kind, h.backup)
    BY <1>0, <1>1, SafeBackup
  <2>3. TargetsSafe'
    BY <1>2, <1>4, <2>1, <2>2, PutSafe
  <2>4. RolledBack(h) = Snapshot'
    BY <1>0, <1>3, <1>4 DEF RolledBack, Snapshot
  <2>5. origin[p] # {} /\ ~h.committed /\ h.backup # Partial => origin[p] = {Snapshot'}
    BY <1>0, <1>1, <2>4, WayBack
  <2>6. "failed" \in Awaits
    BY DEF Awaits
  <2> QED
    BY <1>0, <1>1, <1>2, <1>3, <1>4, <2>1, <2>2, <2>3, <2>5, <2>6, Advances DEF SameOperation
<1>5. CASE ThrowAgain(p) /\ target' = target
  <2>1. TargetsSafe' /\ target' \in [Kinds -> Packages]
    BY <1>2, <1>5 DEF ThrowAgain, TargetsSafe, Safe
  <2> QED
    BY <1>0, <1>5, <2>1, ThrowsAgain DEF Busy
<1> QED
  BY <1>1, <1>4, <1>5 DEF Restore, SetPackage

\* A process answers, or dies: what it knew is forgotten, what it did stays.
LEMMA LeaveKeeps ==
  ASSUME LifecycleInv, NEW p \in Processes, Leave(p)
  PROVE  LifecycleInv'
<1>1. /\ pc'[p] = "idle"
      /\ \A q \in Processes \ {p} : pc'[q] = pc[q] /\ held'[q] = held[q] /\ origin'[q] = origin[q]
      /\ rows' = rows /\ target' = target /\ approved' = approved /\ begun' = begun
  BY DEF LifecycleInv, TypeOK, Leave
<1>2. TypeOK'
  <2>1. /\ pc' \in [Processes -> Awaits \cup {"idle"}]
        /\ held' \in [Processes -> Operation \cup {NoOperation}]
        /\ origin' \in [Processes -> SUBSET [rows: SUBSET Record, target: [Kinds -> Packages]]]
    BY DEF LifecycleInv, TypeOK, Leave
  <2>2. \A q \in Processes : pc'[q] # "idle" => held'[q] \in Operation
    BY <1>1 DEF LifecycleInv, TypeOK
  <2> QED
    BY <1>1, <2>1, <2>2 DEF LifecycleInv, TypeOK
<1>3. \A q \in Processes \ {p} : InvOf(q)'
  BY <1>1, Others
<1>4. InvOf(p)'
  BY <1>1 DEF InvOf, LocalsOf, GateOf, BackOf, OnwardOf, Busy
<1>5. TargetsSafe'
  BY <1>1 DEF LifecycleInv, TargetsSafe, Safe
<1> QED
  BY <1>2, <1>3, <1>4, <1>5 DEF LifecycleInv

-----------------------------------------------------------------------------
LEMMA Starts == Init => LifecycleInv
<1> SUFFICES ASSUME Init PROVE LifecycleInv
  OBVIOUS
<1>1. TypeOK
  BY CapabilityAssumption DEF Init, TypeOK, Packages
<1>2. TargetsSafe
  BY DEF Init, TargetsSafe, Safe
<1>3. \A p \in Processes : InvOf(p)
  BY DEF Init, InvOf, LocalsOf, GateOf, BackOf, OnwardOf, Busy
<1> QED
  BY <1>1, <1>2, <1>3 DEF LifecycleInv

LEMMA Keeps == LifecycleInv /\ [Next]_vars => LifecycleInv'
<1> SUFFICES ASSUME LifecycleInv, [Next]_vars PROVE LifecycleInv'
  OBVIOUS
<1>1. CASE UNCHANGED vars
  <2>1. TypeOK' /\ TargetsSafe'
    BY <1>1 DEF LifecycleInv, TypeOK, TargetsSafe, Safe, vars
  <2>2. \A p \in Processes : InvOf(p)'
    BY <1>1, Others DEF vars
  <2> QED
    BY <2>1, <2>2 DEF LifecycleInv
<1>2. ASSUME NEW p \in Processes,
             Add(p) \/ Update(p) \/ Enable(p) \/ Disable(p) \/ Remove(p) \/ Reconcile(p)
      PROVE  LifecycleInv'
  BY <1>2, Begins
<1>3. ASSUME NEW p \in Processes, Backup(p) \/ Promote(p) \/ Commit(p) \/ CleanUp(p)
      PROVE  LifecycleInv'
  BY <1>3, BackupKeeps, PromoteKeeps, CommitKeeps, CleanUpKeeps
<1>4. ASSUME NEW p \in Processes, Undo(p) \/ Unpromote(p) \/ Restore(p)
      PROVE  LifecycleInv'
  BY <1>4, UndoKeeps, UnpromoteKeeps, RestoreKeeps
<1>5. ASSUME NEW p \in Processes, Answer(p) \/ Crash(p)
      PROVE  LifecycleInv'
  BY <1>5, LeaveKeeps DEF Answer, Crash
<1> QED
  BY <1>1, <1>2, <1>3, <1>4, <1>5 DEF Next

LEMMA InvariantHolds == Spec => []LifecycleInv
  BY Starts, Keeps, PTL DEF Spec

\* The id never has two rows, and rows, packages, locals and bounds keep their
\* types, whatever processes, crashes and failures there are.
THEOREM LifecycleTypes == Spec => []TypeOK
<1>1. LifecycleInv => TypeOK
  BY DEF LifecycleInv
<1> QED
  BY <1>1, InvariantHolds, PTL

\* No executable package loads that was not approved.
THEOREM OnlyEnabledLoadsHolds == Spec => []OnlyEnabledLoads
<1>1. LifecycleInv => OnlyEnabledLoads
  BY DEF LifecycleInv, TypeOK, TargetsSafe, OnlyEnabledLoads, Loaded, Safe, Record
<1> QED
  BY <1>1, InvariantHolds, PTL

\* An undisturbed operation that fails before its commit leaves no trace.
THEOREM FailureRestoresHolds == Spec => []FailureRestores
<1>1. LifecycleInv => FailureRestores
  BY DEF LifecycleInv, InvOf, BackOf, FailureRestores, Busy
<1> QED
  BY <1>1, InvariantHolds, PTL

\* An undisturbed operation that succeeds has done what it answers.
THEOREM SuccessInstallsHolds == Spec => []SuccessInstalls
<1>1. ASSUME LifecycleInv PROVE SuccessInstalls
  <2>1. \A h : (h.op \in {"disable", "remove"} \/ Demotes(h)) => BacksUp(h) /\ ~Promotes(h)
    BY DEF BacksUp, Promotes, Demotes
  <2> QED
    BY <1>1, <2>1 DEF LifecycleInv, InvOf, OnwardOf, SuccessInstalls, Busy
<1> QED
  BY <1>1, InvariantHolds, PTL

\* What an operation answers, when no other process disturbed it, is what it did.
THEOREM AnswersHold == Spec => []AnswersAreTrue
  BY FailureRestoresHolds, SuccessInstallsHolds, PTL DEF AnswersAreTrue

-----------------------------------------------------------------------------
\* The table of protocols.


\* The row of id is as release r wants it, or a user's doing.
InForce(r, id) ==
  IF id \in SeedIds(SeedsOf[r])
  THEN protocols[id] = SeedRow(SeedsOf[r][id]) \/ IsUser(protocols[id]) \/ id \in withdrawn
  ELSE ~IsSeed(protocols[id])

\* What p, which seeds release r, will find and leave if nobody disturbs it: a seed that it
\* found is still one, or a user's; another is not there yet, or already as it should be.
Seedable(p, r, id) ==
  IF id \in opening[p].todo
  THEN \/ IsUser(protocols[id])
       \/ id \in opening[p].found /\ (IsSeed(protocols[id]) \/ id \in withdrawn)
       \/ id \notin opening[p].found /\ protocols[id] \in {NoRow, SeedRow(SeedsOf[r][id])}
  ELSE InForce(r, id) \/ id \in opening[p].found \ SeedIds(SeedsOf[r])

\* p seeds release r.  If it is undisturbed, so does any other, and p can finish.
SeedsRelease(p, r) ==
  /\ opening[p].release = {r}
  /\ opening[p].todo \subseteq SeedIds(SeedsOf[r])
  /\ settled \subseteq {r}
  /\ opening[p].alone =>
       /\ \A q \in Providers : opening[q].seeding => opening[q].release = {r}
       /\ \A id \in ProtocolIds : Seedable(p, r, id)

OpeningInv ==
  \A p \in Providers : opening[p].seeding => \E r \in Releases : SeedsRelease(p, r)

SettledInv == \A r \in settled, id \in ProtocolIds : InForce(r, id)

-----------------------------------------------------------------------------
SeedType == [text: BaseTexts, events: SUBSET LookedUp]

LEMMA SeedIdsType ==
  ASSUME NEW r \in Releases, NEW id \in SeedIds(SeedsOf[r])
  PROVE  id \in ProtocolIds /\ SeedsOf[r][id] \in SeedType
<1>1. SeedsOf[r] \in Seeds /\ SeedsOf[r][id] # NoSeed /\ id \in ProtocolIds
  BY ProtocolAssumption DEF SeedIds
<1> QED BY <1>1 DEF Seeds, SeedType

LEMMA ScriptSeedsType ==
  ASSUME NEW id \in SeedIds(ScriptSeeds)
  PROVE  id \in ProtocolIds /\ ScriptSeeds[id] \in SeedType
BY ProtocolAssumption DEF SeedIds, Seeds, SeedType

\* A seed is a row of the table that no user made, and there is one.
LEMMA SeedRowIs ==
  ASSUME NEW s \in SeedType
  PROVE  SeedRow(s) \in Rows /\ IsSeed(SeedRow(s)) /\ ~IsUser(SeedRow(s)) /\ SeedRow(s) # NoRow
<1>1. SeedRow(s) \in Rows
  BY DEF SeedType, Rows
<1> QED BY <1>1 DEF SeedRow, Row, IsSeed, IsUser, NoRow

LEMMA UserRowIs ==
  ASSUME NEW t \in UserTexts, NEW e \in BOOLEAN
  PROVE  UserRow(t, e) \in Rows /\ IsUser(UserRow(t, e))
<1>1. UserRow(t, e) \in Rows
  BY DEF Rows
<1> QED BY <1>1 DEF UserRow, Row, IsUser

\* Every row is none, a seed or a user's, and only seeds come from the source "seed".
LEMMA RowCases ==
  ASSUME NEW row \in Rows
  PROVE  /\ row = NoRow => ~IsSeed(row) /\ ~IsUser(row)
         /\ row = NoRow \/ IsSeed(row) \/ IsUser(row)
         /\ ~(IsSeed(row) /\ IsUser(row))
         /\ row.source = "seed" <=> IsSeed(row)
         /\ IsSeed(row) <=> row.scope = "base"
         /\ \A e \in BOOLEAN : IsUser(row) => [row EXCEPT !.enabled = e] \in Rows /\ IsUser([row EXCEPT !.enabled = e])
<1>1. CASE row = NoRow
  BY <1>1 DEF NoRow, Row, IsSeed, IsUser
<1>2. ASSUME NEW s \in SeedType, row = SeedRow(s)
      PROVE  row.scope = "base" /\ row.source = "seed" /\ row # NoRow
  BY <1>2 DEF SeedRow, Row, NoRow
<1>3. ASSUME NEW t \in UserTexts, NEW d \in BOOLEAN, row = UserRow(t, d)
      PROVE  /\ row.scope = "user" /\ row.source = "sqlite" /\ row # NoRow
             /\ \A e \in BOOLEAN : [row EXCEPT !.enabled = e] = UserRow(t, e)
  BY <1>3 DEF UserRow, Row, NoRow
<1>4. \/ row = NoRow
      \/ \E s \in SeedType : row = SeedRow(s)
      \/ \E t \in UserTexts, d \in BOOLEAN : row = UserRow(t, d)
  BY DEF Rows, SeedType
<1>5. CASE \E s \in SeedType : row = SeedRow(s)
  BY <1>2, <1>5 DEF IsSeed, IsUser
<1>6. CASE \E t \in UserTexts, d \in BOOLEAN : row = UserRow(t, d)
  <2>1. row.scope = "user" /\ row.source = "sqlite" /\ row # NoRow
    BY <1>3, <1>6
  <2>2. ASSUME NEW e \in BOOLEAN
        PROVE  [row EXCEPT !.enabled = e] \in Rows /\ IsUser([row EXCEPT !.enabled = e])
    <3>1. PICK t \in UserTexts, d \in BOOLEAN : row = UserRow(t, d)
      BY <1>6
    <3>2. [row EXCEPT !.enabled = e] = UserRow(t, e)
      BY <3>1 DEF UserRow, Row
    <3> QED BY <3>2, UserRowIs
  <2> QED BY <2>1, <2>2 DEF IsSeed, IsUser
<1> QED BY <1>1, <1>4, <1>5, <1>6

Openings == [seeding: BOOLEAN, release: SUBSET Releases,
             found: SUBSET ProtocolIds, todo: SUBSET ProtocolIds, alone: BOOLEAN]

LEMMA IdsOfSeeds == \A seeds : SeedIds(seeds) \subseteq ProtocolIds
BY DEF SeedIds

\* What a step that puts one row in the table does to it.
LEMMA PutOne ==
  ASSUME ProtocolTypeOK, \A i \in withdrawn : protocols[i] = NoRow,
         NEW id \in ProtocolIds, NEW row \in Rows, Put(id, row),
         row = NoRow => protocols[id] = NoRow
  PROVE  /\ protocols' \in [ProtocolIds -> Rows] /\ withdrawn' \subseteq ProtocolIds
         /\ \A i \in withdrawn' : protocols'[i] = NoRow
         /\ protocols'[id] = row
         /\ \A i \in ProtocolIds \ {id} : protocols'[i] = protocols[i]
         /\ withdrawn \ {id} \subseteq withdrawn'
         /\ row = protocols[id] => withdrawn \subseteq withdrawn'
BY DEF ProtocolTypeOK, Put

\* What SeedNext and SeedByScript put is the row there was or, for none or a seed, the seed.
LEMMA SeedPut ==
  ASSUME NEW row \in Rows, NEW s \in SeedType
  PROVE  /\ Reseeded(row, s) \in Rows /\ Inserted(row, s) \in Rows
         /\ Reseeded(row, s) = IF IsSeed(row) THEN SeedRow(s) ELSE row
         /\ Inserted(row, s) = IF row = NoRow THEN SeedRow(s) ELSE row
         /\ Reseeded(row, s) = NoRow => row = NoRow
         /\ Inserted(row, s) # NoRow
BY SeedRowIs, RowCases DEF Reseeded, Inserted

LEMMA OpenType ==
  ASSUME ProtocolTypeOK, NEW p \in Providers, OpenProvider(p)
  PROVE  ProtocolTypeOK'
<1>1. PICK r \in Releases :
        LET others == {q \in Providers : opening[q].seeding /\ opening[q].release # {r}}
        IN  /\ opening' = [q \in Providers |->
                 IF q = p THEN [seeding |-> TRUE, release |-> {r},
                                found |-> {id \in ProtocolIds : protocols[id].source = "seed"},
                                todo |-> SeedIds(SeedsOf[r]), alone |-> others = {}]
                 ELSE [opening[q] EXCEPT !.alone = @ /\ q \notin others]]
            /\ settled' = settled \cap {r}
  BY DEF OpenProvider
<1> DEFINE Strays == {q \in Providers : opening[q].seeding /\ opening[q].release # {r}}
           Opened == [seeding |-> TRUE, release |-> {r},
                      found |-> {id \in ProtocolIds : protocols[id].source = "seed"},
                      todo |-> SeedIds(SeedsOf[r]), alone |-> Strays = {}]
           Told(q) == [opening[q] EXCEPT !.alone = @ /\ q \notin Strays]
<1>2. Opened \in Openings
  BY IdsOfSeeds DEF Openings
<1>3. \A q \in Providers : Told(q) \in Openings
  BY DEF ProtocolTypeOK, Openings
<1>4. opening' = [q \in Providers |-> IF q = p THEN Opened ELSE Told(q)]
  BY <1>1
<1>5. opening' \in [Providers -> Openings]
  <2> HIDE DEF Opened, Told
  <2> QED BY <1>2, <1>3, <1>4
<1> QED BY <1>1, <1>5 DEF ProtocolTypeOK, OpenProvider, Openings


ScriptInv == \A a \in Admins : command[a].op = "seed" => command[a].ids \subseteq SeedIds(ScriptSeeds)

ProtocolBase ==
  /\ ProtocolTypeOK
  /\ \A i \in withdrawn : protocols[i] = NoRow
  /\ OpeningInv
  /\ ScriptInv

LEMMA SeedNextIs ==
  ASSUME ProtocolBase, NEW p \in Providers, SeedNext(p)
  PROVE  \E r \in Releases, id \in opening[p].todo :
           /\ SeedsRelease(p, r) /\ id \in ProtocolIds /\ id \in SeedIds(SeedsOf[r])
           /\ opening' = [opening EXCEPT ![p].todo = opening[p].todo \ {id}]
           /\ IF id \in opening[p].found THEN Put(id, Reseeded(protocols[id], SeedsOf[r][id]))
              ELSE Put(id, Inserted(protocols[id], SeedsOf[r][id]))
<1>1. PICK r \in Releases : SeedsRelease(p, r)
  BY DEF ProtocolBase, OpeningInv, SeedNext
<1>2. PICK id \in opening[p].todo, q \in opening[p].release :
        /\ Put(id, IF id \in opening[p].found THEN Reseeded(protocols[id], SeedsOf[q][id])
                   ELSE Inserted(protocols[id], SeedsOf[q][id]))
        /\ opening' = [opening EXCEPT ![p].todo = @ \ {id}]
  BY DEF SeedNext
<1>3. q = r /\ id \in SeedIds(SeedsOf[r])
  BY <1>1, <1>2 DEF SeedsRelease
<1>4. id \in ProtocolIds
  BY <1>3, SeedIdsType
<1> QED BY <1>1, <1>2, <1>3, <1>4

LEMMA SeedNextBase ==
  ASSUME ProtocolBase, NEW p \in Providers, SeedNext(p)
  PROVE  ProtocolTypeOK' /\ (\A i \in withdrawn' : protocols'[i] = NoRow)
<1>1. PICK r \in Releases, id \in opening[p].todo :
           /\ SeedsRelease(p, r) /\ id \in ProtocolIds /\ id \in SeedIds(SeedsOf[r])
           /\ opening' = [opening EXCEPT ![p].todo = opening[p].todo \ {id}]
           /\ IF id \in opening[p].found THEN Put(id, Reseeded(protocols[id], SeedsOf[r][id]))
              ELSE Put(id, Inserted(protocols[id], SeedsOf[r][id]))
  BY SeedNextIs
<1>2. SeedsOf[r][id] \in SeedType /\ protocols[id] \in Rows
  BY <1>1, SeedIdsType DEF ProtocolBase, ProtocolTypeOK
<1>3. /\ protocols' \in [ProtocolIds -> Rows] /\ withdrawn' \subseteq ProtocolIds
      /\ \A i \in withdrawn' : protocols'[i] = NoRow
  BY <1>1, <1>2, SeedPut, PutOne DEF ProtocolBase
<1>4. opening' \in [Providers -> Openings]
  BY <1>1 DEF ProtocolBase, ProtocolTypeOK, Openings
<1> QED BY <1>3, <1>4 DEF ProtocolBase, ProtocolTypeOK, Openings, SeedNext

LEMMA AdminBase ==
  ASSUME ProtocolBase, NEW a \in Admins,
         AddProtocol(a) \/ LookAtRow(a) \/ Apply(a) \/ StartSeeding(a) \/ SeedByScript(a)
  PROVE  ProtocolTypeOK' /\ (\A i \in withdrawn' : protocols'[i] = NoRow)
<1>1. CASE AddProtocol(a)
  <2>1. PICK id \in ProtocolIds, text \in UserTexts : Put(id, UserRow(text, TRUE))
    BY <1>1 DEF AddProtocol
  <2>2. UserRow(text, TRUE) \in Rows /\ UserRow(text, TRUE) # NoRow
    BY UserRowIs, RowCases
  <2>3. /\ protocols' \in [ProtocolIds -> Rows] /\ withdrawn' \subseteq ProtocolIds
        /\ \A i \in withdrawn' : protocols'[i] = NoRow
    BY <2>1, <2>2, PutOne DEF ProtocolBase
  <2> QED BY <1>1, <2>3 DEF ProtocolBase, ProtocolTypeOK, AddProtocol
<1>2. CASE LookAtRow(a)
  BY <1>2 DEF ProtocolBase, ProtocolTypeOK, LookAtRow
<1>3. CASE StartSeeding(a)
  BY <1>3, IdsOfSeeds DEF ProtocolBase, ProtocolTypeOK, StartSeeding
<1>4. CASE Apply(a)
  <2>1. command' \in [Admins -> [op: {"none", "seed", "remove", "enable", "disable"}, ids: SUBSET ProtocolIds]]
    BY <1>4 DEF ProtocolBase, ProtocolTypeOK, Apply, NoCommand
  <2>2. PICK id \in command[a].ids :
          \/ /\ IsUser(protocols[id]) /\ command[a].op = "remove"
             /\ protocols' = [protocols EXCEPT ![id] = NoRow]
             /\ withdrawn' = withdrawn \cup {id}
          \/ /\ IsUser(protocols[id]) /\ command[a].op # "remove"
             /\ Put(id, [protocols[id] EXCEPT !.enabled = (command[a].op = "enable")])
          \/ ~IsUser(protocols[id]) /\ UNCHANGED <<protocols, withdrawn>>
    BY <1>4 DEF Apply
  <2>3. id \in ProtocolIds /\ protocols[id] \in Rows
    BY <2>2 DEF ProtocolBase, ProtocolTypeOK
  <2>4. NoRow \in Rows
    BY DEF Rows
  <2>5. CASE /\ IsUser(protocols[id]) /\ command[a].op # "remove"
             /\ Put(id, [protocols[id] EXCEPT !.enabled = (command[a].op = "enable")])
    <3>1. [protocols[id] EXCEPT !.enabled = (command[a].op = "enable")] \in Rows
      BY <2>3, <2>5, RowCases
    <3>2. IsUser([protocols[id] EXCEPT !.enabled = (command[a].op = "enable")])
      BY <2>3, <2>5, RowCases
    <3>3. [protocols[id] EXCEPT !.enabled = (command[a].op = "enable")] # NoRow
      BY <3>1, <3>2, RowCases
    <3>4. /\ protocols' \in [ProtocolIds -> Rows] /\ withdrawn' \subseteq ProtocolIds
          /\ \A i \in withdrawn' : protocols'[i] = NoRow
      BY <2>3, <2>5, <3>1, <3>3, PutOne DEF ProtocolBase
    <3> QED BY <1>4, <2>1, <3>4 DEF ProtocolBase, ProtocolTypeOK, Apply
  <2>6. CASE /\ IsUser(protocols[id]) /\ command[a].op = "remove"
             /\ protocols' = [protocols EXCEPT ![id] = NoRow]
             /\ withdrawn' = withdrawn \cup {id}
    BY <1>4, <2>1, <2>3, <2>4, <2>6 DEF ProtocolBase, ProtocolTypeOK, Apply
  <2>7. CASE ~IsUser(protocols[id]) /\ UNCHANGED <<protocols, withdrawn>>
    BY <1>4, <2>1, <2>7 DEF ProtocolBase, ProtocolTypeOK, Apply
  <2> QED BY <2>2, <2>5, <2>6, <2>7
<1>5. CASE SeedByScript(a)
  <2>1. PICK id \in command[a].ids :
       /\ Put(id, Inserted(protocols[id], ScriptSeeds[id]))
       /\ command' = [command EXCEPT ![a] =
            IF command[a].ids = {id} THEN NoCommand ELSE [op |-> "seed", ids |-> command[a].ids \ {id}]]
       /\ IF protocols[id] = NoRow
          THEN /\ settled' = {}
               /\ opening' = [q \in Providers |-> [opening[q] EXCEPT !.alone = FALSE]]
          ELSE UNCHANGED <<settled, opening>>
    BY <1>5 DEF SeedByScript
  <2>2. ScriptSeeds[id] \in SeedType /\ id \in ProtocolIds /\ protocols[id] \in Rows
    BY <1>5, <2>1, ScriptSeedsType DEF ProtocolBase, ScriptInv, SeedByScript, ProtocolTypeOK
  <2>3. /\ protocols' \in [ProtocolIds -> Rows] /\ withdrawn' \subseteq ProtocolIds
        /\ \A i \in withdrawn' : protocols'[i] = NoRow
    BY <2>1, <2>2, SeedPut, PutOne DEF ProtocolBase
  <2>4. command' \in [Admins -> [op: {"none", "seed", "remove", "enable", "disable"}, ids: SUBSET ProtocolIds]]
    BY <2>1 DEF ProtocolBase, ProtocolTypeOK, NoCommand
  <2>5. opening' \in [Providers -> Openings] /\ settled' \subseteq Releases
    <3>1. CASE protocols[id] = NoRow
      <4>1. \A q \in Providers : [opening[q] EXCEPT !.alone = FALSE] \in Openings
        BY DEF ProtocolBase, ProtocolTypeOK, Openings
      <4> QED BY <2>1, <3>1, <4>1
    <3>2. CASE protocols[id] # NoRow
      BY <2>1, <3>2 DEF ProtocolBase, ProtocolTypeOK, Openings
    <3> QED BY <3>1, <3>2
  <2> QED BY <2>3, <2>4, <2>5 DEF ProtocolBase, ProtocolTypeOK, Openings
<1> QED BY <1>1, <1>2, <1>3, <1>4, <1>5

LEMMA ProviderBase ==
  ASSUME ProtocolBase, NEW p \in Providers,
         OpenProvider(p) \/ SeedNext(p) \/ DeleteStale(p) \/ DieSeeding(p)
  PROVE  ProtocolTypeOK' /\ (\A i \in withdrawn' : protocols'[i] = NoRow)
<1>1. CASE OpenProvider(p)
  BY <1>1, OpenType DEF ProtocolBase, OpenProvider
<1>2. CASE SeedNext(p)
  BY <1>2, SeedNextBase
<1>3. CASE DeleteStale(p)
  <2>1. opening' \in [Providers -> Openings]
    BY <1>3 DEF ProtocolBase, ProtocolTypeOK, DeleteStale, Openings, Idle
  <2>2. NoRow \in Rows
    BY DEF Rows
  <2>3. protocols' \in [ProtocolIds -> Rows] /\ \A i \in ProtocolIds : protocols'[i] \in {NoRow, protocols[i]}
    BY <1>3, <2>2 DEF ProtocolBase, ProtocolTypeOK, DeleteStale
  <2>4. settled' \subseteq Releases
    BY <1>3 DEF ProtocolBase, ProtocolTypeOK, DeleteStale
  <2> QED BY <1>3, <2>1, <2>3, <2>4 DEF ProtocolBase, ProtocolTypeOK, DeleteStale, Openings
<1>4. CASE DieSeeding(p)
  BY <1>4 DEF ProtocolBase, ProtocolTypeOK, DieSeeding, Idle
<1> QED BY <1>1, <1>2, <1>3, <1>4

\* The script's seed goes through its seeds only.
LEMMA ScriptStep ==
  ASSUME ProtocolBase, [ProtocolNext]_protocolVars
  PROVE  ScriptInv'
<1>1. ASSUME NEW a \in Admins, AddProtocol(a) \/ LookAtRow(a) \/ Apply(a) \/ StartSeeding(a)
      PROVE  ScriptInv'
  <2>1. CASE AddProtocol(a)
    BY <2>1 DEF ProtocolBase, ScriptInv, AddProtocol
  <2>2. CASE LookAtRow(a)
    <3>1. PICK id \in ProtocolIds, op \in {"remove", "enable", "disable"} :
            command' = [command EXCEPT ![a] = [op |-> op, ids |-> {id}]]
      BY <2>2 DEF LookAtRow
    <3> QED BY <3>1 DEF ProtocolBase, ProtocolTypeOK, ScriptInv
  <2>3. CASE Apply(a)
    BY <2>3 DEF ProtocolBase, ProtocolTypeOK, ScriptInv, Apply, NoCommand
  <2>4. CASE StartSeeding(a)
    BY <2>4 DEF ProtocolBase, ProtocolTypeOK, ScriptInv, StartSeeding
  <2> QED BY <1>1, <2>1, <2>2, <2>3, <2>4
<1>2. ASSUME NEW a \in Admins, SeedByScript(a)
      PROVE  ScriptInv'
  <2>1. PICK id \in command[a].ids :
       command' = [command EXCEPT ![a] =
            IF command[a].ids = {id} THEN NoCommand ELSE [op |-> "seed", ids |-> command[a].ids \ {id}]]
    BY <1>2 DEF SeedByScript
  <2> QED BY <1>2, <2>1 DEF ProtocolBase, ProtocolTypeOK, ScriptInv, SeedByScript, NoCommand
<1>3. CASE UNCHANGED command
  BY <1>3 DEF ProtocolBase, ScriptInv
<1> QED
  BY <1>1, <1>2, <1>3 DEF ProtocolNext, protocolVars, OpenProvider, SeedNext, DeleteStale, DieSeeding

-----------------------------------------------------------------------------
\* What a step may do to the row of id without disturbing release r.
Harmless(r, id) ==
  \/ protocols'[id] = protocols[id] /\ (id \in withdrawn => id \in withdrawn')
  \/ IsUser(protocols'[id])
  \/ protocols'[id] = NoRow /\ id \in withdrawn'
  \/ id \in SeedIds(SeedsOf[r]) /\ protocols'[id] = SeedRow(SeedsOf[r][id])
  \/ id \notin SeedIds(SeedsOf[r]) /\ protocols'[id] = NoRow

LEMMA HarmlessKeeps ==
  ASSUME ProtocolTypeOK', NEW r \in Releases, NEW id \in ProtocolIds, Harmless(r, id)
  PROVE  /\ InForce(r, id) => InForce(r, id)'
         /\ \A p \in Providers :
              /\ opening'[p].todo = opening[p].todo /\ opening'[p].found = opening[p].found
              /\ opening[p].todo \subseteq SeedIds(SeedsOf[r])
              /\ Seedable(p, r, id)
              => Seedable(p, r, id)'
<1>1. /\ protocols'[id] = NoRow => ~IsSeed(protocols'[id]) /\ ~IsUser(protocols'[id])
      /\ ~(IsSeed(protocols'[id]) /\ IsUser(protocols'[id]))
  BY RowCases DEF ProtocolTypeOK
<1>2. id \in SeedIds(SeedsOf[r]) => IsSeed(SeedRow(SeedsOf[r][id]))
  BY SeedIdsType, SeedRowIs
<1>3. InForce(r, id) => InForce(r, id)'
  BY <1>1, <1>2 DEF InForce, Harmless
<1>4. ASSUME NEW p \in Providers, opening'[p].todo = opening[p].todo, opening'[p].found = opening[p].found,
             opening[p].todo \subseteq SeedIds(SeedsOf[r]), Seedable(p, r, id)
      PROVE  Seedable(p, r, id)'
  <2>1. CASE id \in opening[p].todo
    BY <1>1, <1>2, <1>4, <2>1 DEF Seedable, Harmless
  <2>2. CASE id \notin opening[p].todo
    BY <1>1, <1>2, <1>3, <1>4, <2>2 DEF Seedable
  <2> QED BY <2>1, <2>2
<1> QED BY <1>3, <1>4

\* Of a provider other than the one that moves.
LEMMA OpeningKept ==
  ASSUME ProtocolTypeOK', OpeningInv, NEW p \in Providers,
         opening'[p].seeding => opening[p].seeding /\ opening'[p].release = opening[p].release
                                /\ opening'[p].todo = opening[p].todo /\ opening'[p].found = opening[p].found,
         opening'[p].alone => opening[p].alone,
         NEW r \in Releases,
         opening[p].seeding => opening[p].release = {r},
         settled' \subseteq {r},
         opening'[p].seeding /\ opening'[p].alone =>
           /\ \A q \in Providers : opening'[q].seeding => opening'[q].release = {r}
           /\ \A id \in ProtocolIds : Harmless(r, id),
         opening'[p].seeding
  PROVE  SeedsRelease(p, r)'
<1>1. SeedsRelease(p, r)
  BY DEF OpeningInv, SeedsRelease
<1>2. opening'[p].alone => \A id \in ProtocolIds : Seedable(p, r, id)'
  BY <1>1, HarmlessKeeps DEF SeedsRelease
<1> QED BY <1>1, <1>2 DEF SeedsRelease

\* Steps that leave the providers alone, but perhaps disturb all of them.
LEMMA AdminOpening ==
  ASSUME ProtocolTypeOK', OpeningInv, SettledInv,
         \/ UNCHANGED <<opening, settled>> /\ \A r \in Releases, id \in ProtocolIds : Harmless(r, id)
         \/ settled' = {} /\ opening' = [q \in Providers |-> [opening[q] EXCEPT !.alone = FALSE]],
         ProtocolTypeOK
  PROVE  OpeningInv' /\ SettledInv'
<1>1. CASE UNCHANGED <<opening, settled>> /\ \A r \in Releases, id \in ProtocolIds : Harmless(r, id)
  <2>1. SettledInv'
    BY <1>1, HarmlessKeeps DEF SettledInv, ProtocolTypeOK
  <2>2. ASSUME NEW p \in Providers, opening'[p].seeding
        PROVE  \E r \in Releases : SeedsRelease(p, r)'
    <3>1. PICK r \in Releases : SeedsRelease(p, r)
      BY <1>1, <2>2 DEF OpeningInv
    <3>2. SeedsRelease(p, r)'
      BY <1>1, <2>2, <3>1, OpeningKept DEF SeedsRelease
    <3> QED BY <3>2
  <2> QED BY <2>1, <2>2 DEF OpeningInv
<1>2. CASE settled' = {} /\ opening' = [q \in Providers |-> [opening[q] EXCEPT !.alone = FALSE]]
  <2>1. \A q \in Providers : /\ opening'[q].seeding = opening[q].seeding /\ opening'[q].release = opening[q].release
                             /\ opening'[q].todo = opening[q].todo /\ ~opening'[q].alone
    BY <1>2 DEF ProtocolTypeOK
  <2> QED BY <1>2, <2>1 DEF OpeningInv, SettledInv, SeedsRelease
<1> QED BY <1>1, <1>2

LEMMA AdminStep ==
  ASSUME ProtocolBase, SettledInv, NEW a \in Admins,
         AddProtocol(a) \/ LookAtRow(a) \/ Apply(a) \/ StartSeeding(a) \/ SeedByScript(a)
  PROVE  OpeningInv' /\ SettledInv'
<1>0. ProtocolTypeOK /\ ProtocolTypeOK' /\ OpeningInv /\ \A i \in withdrawn : protocols[i] = NoRow
  BY AdminBase DEF ProtocolBase
<1>1. CASE AddProtocol(a)
  <2>1. PICK id \in ProtocolIds, text \in UserTexts : Put(id, UserRow(text, TRUE))
    BY <1>1 DEF AddProtocol
  <2>2. IsUser(UserRow(text, TRUE)) /\ UserRow(text, TRUE) \in Rows /\ UserRow(text, TRUE) # NoRow
    BY UserRowIs, RowCases
  <2>3. \A r \in Releases, i \in ProtocolIds : Harmless(r, i)
    BY <1>0, <2>1, <2>2, PutOne DEF Harmless
  <2> QED BY <1>0, <1>1, <2>3, AdminOpening DEF AddProtocol
<1>2. CASE LookAtRow(a) \/ StartSeeding(a)
  <2>1. \A r \in Releases, i \in ProtocolIds : Harmless(r, i)
    BY <1>2 DEF Harmless, LookAtRow, StartSeeding
  <2> QED BY <1>0, <1>2, <2>1, AdminOpening DEF LookAtRow, StartSeeding
<1>3. CASE Apply(a)
  <2>2. PICK id \in command[a].ids :
          \/ /\ IsUser(protocols[id]) /\ command[a].op = "remove"
             /\ protocols' = [protocols EXCEPT ![id] = NoRow]
             /\ withdrawn' = withdrawn \cup {id}
          \/ /\ IsUser(protocols[id]) /\ command[a].op # "remove"
             /\ Put(id, [protocols[id] EXCEPT !.enabled = (command[a].op = "enable")])
          \/ ~IsUser(protocols[id]) /\ UNCHANGED <<protocols, withdrawn>>
    BY <1>3 DEF Apply
  <2>3. id \in ProtocolIds /\ protocols[id] \in Rows
    BY <1>0, <2>2 DEF ProtocolTypeOK
  <2>4. \A r \in Releases, i \in ProtocolIds : Harmless(r, i)
    <3>1. CASE /\ IsUser(protocols[id]) /\ command[a].op # "remove"
               /\ Put(id, [protocols[id] EXCEPT !.enabled = (command[a].op = "enable")])
      <4> DEFINE row == [protocols[id] EXCEPT !.enabled = (command[a].op = "enable")]
      <4>1. row \in Rows /\ IsUser(row) /\ row # NoRow
        BY <2>3, <3>1, RowCases
      <4>2. Put(id, row)
        BY <3>1
      <4> HIDE DEF row
      <4> QED BY <1>0, <2>3, <4>1, <4>2, PutOne DEF Harmless
    <3>2. CASE /\ IsUser(protocols[id]) /\ command[a].op = "remove"
               /\ protocols' = [protocols EXCEPT ![id] = NoRow]
               /\ withdrawn' = withdrawn \cup {id}
      BY <1>0, <2>3, <3>2 DEF Harmless, ProtocolTypeOK
    <3>3. CASE ~IsUser(protocols[id]) /\ UNCHANGED <<protocols, withdrawn>>
      BY <3>3 DEF Harmless
    <3> QED BY <2>2, <3>1, <3>2, <3>3
  <2> QED BY <1>0, <1>3, <2>4, AdminOpening DEF Apply
<1>4. CASE SeedByScript(a)
  <2>1. PICK id \in command[a].ids :
       /\ Put(id, Inserted(protocols[id], ScriptSeeds[id]))
       /\ IF protocols[id] = NoRow
          THEN /\ settled' = {}
               /\ opening' = [q \in Providers |-> [opening[q] EXCEPT !.alone = FALSE]]
          ELSE UNCHANGED <<settled, opening>>
    BY <1>4 DEF SeedByScript
  <2>2. CASE protocols[id] = NoRow
    BY <1>0, <2>1, <2>2, AdminOpening
  <2>3. CASE protocols[id] # NoRow
    <3>1. id \in ProtocolIds /\ protocols[id] \in Rows /\ Put(id, protocols[id])
      BY <1>0, <2>1, <2>3 DEF ProtocolTypeOK, Inserted
    <3>2. \A r \in Releases, i \in ProtocolIds : Harmless(r, i)
      BY <1>0, <3>1, PutOne DEF Harmless
    <3> QED BY <1>0, <2>1, <2>3, <3>2, AdminOpening
  <2> QED BY <2>2, <2>3
<1> QED BY <1>1, <1>2, <1>3, <1>4

LEMMA OpenStep ==
  ASSUME ProtocolBase, SettledInv, NEW p \in Providers, OpenProvider(p)
  PROVE  OpeningInv' /\ SettledInv'
<1>0. ProtocolTypeOK /\ ProtocolTypeOK' /\ OpeningInv /\ protocols' = protocols /\ withdrawn' = withdrawn
  BY OpenType DEF ProtocolBase, OpenProvider
<1>1. PICK r \in Releases :
        LET others == {q \in Providers : opening[q].seeding /\ opening[q].release # {r}}
        IN  /\ opening' = [q \in Providers |->
                 IF q = p THEN [seeding |-> TRUE, release |-> {r},
                                found |-> {id \in ProtocolIds : protocols[id].source = "seed"},
                                todo |-> SeedIds(SeedsOf[r]), alone |-> others = {}]
                 ELSE [opening[q] EXCEPT !.alone = @ /\ q \notin others]]
            /\ settled' = settled \cap {r}
  BY DEF OpenProvider
<1> DEFINE Strays == {q \in Providers : opening[q].seeding /\ opening[q].release # {r}}
<1>2. /\ opening'[p].seeding /\ opening'[p].release = {r} /\ opening'[p].todo = SeedIds(SeedsOf[r])
      /\ opening'[p].found = {id \in ProtocolIds : protocols[id].source = "seed"}
      /\ opening'[p].alone => Strays = {}
  BY <1>1
<1>3. ASSUME NEW q \in Providers, q # p
      PROVE  /\ opening'[q].seeding = opening[q].seeding /\ opening'[q].release = opening[q].release
             /\ opening'[q].todo = opening[q].todo /\ opening'[q].found = opening[q].found
             /\ opening'[q].alone => opening[q].alone /\ q \notin Strays
  <2>1. opening'[q] = [opening[q] EXCEPT !.alone = @ /\ q \notin Strays]
    BY <1>1, <1>3
  <2>2. opening[q] \in Openings
    BY <1>0 DEF ProtocolTypeOK, Openings
  <2> HIDE DEF Strays
  <2> QED BY <2>1, <2>2 DEF Openings
<1>4. settled' \subseteq {r} /\ settled' \subseteq settled
  BY <1>1
<1> HIDE DEF Strays
<1>5. \A s \in Releases, id \in ProtocolIds : Harmless(s, id)
  BY <1>0 DEF Harmless
<1>6. SettledInv'
  BY <1>0, <1>4 DEF SettledInv, InForce
<1>7. SeedsRelease(p, r)'
  <2>1. ASSUME NEW id \in ProtocolIds
        PROVE  Seedable(p, r, id)'
    <3>1. protocols[id] \in Rows
      BY <1>0 DEF ProtocolTypeOK
    <3> QED BY <1>0, <1>2, <3>1, RowCases DEF Seedable, InForce
  <2>2. ASSUME opening'[p].alone, NEW q \in Providers, opening'[q].seeding
        PROVE  opening'[q].release = {r}
    BY <1>2, <1>3, <2>2 DEF Strays
  <2> QED BY <1>2, <1>4, <2>1, <2>2 DEF SeedsRelease
<1>8. ASSUME NEW q \in Providers, q # p, opening'[q].seeding
      PROVE  \E s \in Releases : SeedsRelease(q, s)'
  <2>1. PICK s \in Releases : SeedsRelease(q, s)
    BY <1>0, <1>3, <1>8 DEF OpeningInv
  <2>2. ASSUME opening'[q].alone, NEW q2 \in Providers, opening'[q2].seeding
        PROVE  opening'[q2].release = {s}
    <3>1. opening[q].release = {r} /\ opening[q].release = {s}
      BY <1>3, <1>8, <2>1, <2>2 DEF Strays, SeedsRelease
    <3>2. CASE q2 = p
      BY <1>2, <3>1, <3>2
    <3>3. CASE q2 # p
      BY <1>3, <1>8, <2>1, <2>2, <3>3 DEF SeedsRelease
    <3> QED BY <3>2, <3>3
  <2> QED BY <1>0, <1>3, <1>4, <1>5, <1>8, <2>1, <2>2, OpeningKept DEF SeedsRelease
<1> QED BY <1>6, <1>7, <1>8 DEF OpeningInv

LEMMA DieStep ==
  ASSUME ProtocolBase, SettledInv, NEW p \in Providers, DieSeeding(p)
  PROVE  OpeningInv' /\ SettledInv'
<1>0. ProtocolTypeOK /\ ProtocolTypeOK' /\ OpeningInv /\ protocols' = protocols /\ withdrawn' = withdrawn /\ settled' = settled
  BY ProviderBase DEF ProtocolBase, DieSeeding
<1>1. ~opening'[p].seeding /\ \A q \in Providers \ {p} : opening'[q] = opening[q]
  BY <1>0 DEF ProtocolTypeOK, DieSeeding, Idle
<1>2. \A s \in Releases, id \in ProtocolIds : Harmless(s, id)
  BY <1>0 DEF Harmless
<1>3. ASSUME NEW q \in Providers, opening'[q].seeding
      PROVE  \E s \in Releases : SeedsRelease(q, s)'
  <2>1. PICK s \in Releases : SeedsRelease(q, s)
    BY <1>0, <1>1, <1>3 DEF OpeningInv
  <2> QED BY <1>0, <1>1, <1>2, <1>3, <2>1, OpeningKept DEF SeedsRelease
<1> QED BY <1>0, <1>3 DEF OpeningInv, SettledInv, InForce

LEMMA DeleteStep ==
  ASSUME ProtocolBase, SettledInv, NEW p \in Providers, DeleteStale(p)
  PROVE  OpeningInv' /\ SettledInv'
<1>0. ProtocolTypeOK /\ ProtocolTypeOK' /\ OpeningInv /\ withdrawn' = withdrawn
  BY ProviderBase DEF ProtocolBase, DeleteStale
<1>1. PICK r \in Releases : SeedsRelease(p, r)
  BY <1>0 DEF OpeningInv, DeleteStale
<1>2. ~opening'[p].seeding /\ \A q \in Providers \ {p} : opening'[q] = opening[q]
  BY <1>0 DEF ProtocolTypeOK, DeleteStale, Idle
<1>3. ASSUME NEW id \in ProtocolIds
      PROVE  \/ /\ id \in opening[p].found \ SeedIds(SeedsOf[r]) /\ protocols[id].source = "seed"
                /\ protocols'[id] = NoRow
             \/ /\ ~(id \in opening[p].found \ SeedIds(SeedsOf[r]) /\ protocols[id].source = "seed")
                /\ protocols'[id] = protocols[id]
  BY <1>1 DEF DeleteStale, SeedsRelease
<1>4. \A id \in ProtocolIds : Harmless(r, id)
  BY <1>0, <1>3 DEF Harmless
<1>5. settled' \subseteq {r} /\ (settled' = settled \/ opening[p].alone)
  BY <1>1 DEF DeleteStale, SeedsRelease
<1>6. ASSUME opening[p].alone, NEW id \in ProtocolIds
      PROVE  InForce(r, id)'
  <2>1. InForce(r, id) \/ id \in opening[p].found \ SeedIds(SeedsOf[r])
    BY <1>1, <1>6 DEF SeedsRelease, Seedable, DeleteStale
  <2>2. CASE InForce(r, id)
    BY <1>0, <1>4, <2>2, HarmlessKeeps
  <2>3. CASE id \in opening[p].found \ SeedIds(SeedsOf[r])
    <3>1. ~IsSeed(protocols'[id])
      <4>1. protocols[id] \in Rows /\ NoRow \in Rows
        BY <1>0 DEF ProtocolTypeOK, Rows
      <4> QED BY <1>3, <2>3, <4>1, RowCases
    <3> QED BY <2>3, <3>1 DEF InForce
  <2> QED BY <2>1, <2>2, <2>3
<1>7. SettledInv'
  <2>1. CASE opening[p].alone
    BY <1>5, <1>6, <2>1 DEF SettledInv
  <2>2. CASE settled' = settled
    BY <1>0, <1>4, <1>5, <2>2, HarmlessKeeps DEF SettledInv
  <2> QED BY <1>5, <2>1, <2>2
<1>8. ASSUME NEW q \in Providers, opening'[q].seeding
      PROVE  \E s \in Releases : SeedsRelease(q, s)'
  <2>1. PICK s \in Releases : SeedsRelease(q, s)
    BY <1>0, <1>2, <1>8 DEF OpeningInv
  <2>2. opening[p].seeding /\ q # p
    BY <1>2, <1>8 DEF DeleteStale
  <2>3. opening[q].alone \/ opening[p].alone => r = s
    BY <1>1, <1>2, <1>8, <2>1, <2>2 DEF SeedsRelease
  <2>4. settled' \subseteq {s}
    BY <1>5, <2>1, <2>3 DEF SeedsRelease
  <2> QED BY <1>0, <1>2, <1>4, <1>8, <2>1, <2>2, <2>3, <2>4, OpeningKept DEF SeedsRelease
<1> QED BY <1>7, <1>8 DEF OpeningInv

LEMMA SeedStep ==
  ASSUME ProtocolBase, SettledInv, NEW p \in Providers, SeedNext(p)
  PROVE  OpeningInv' /\ SettledInv'
<1>0. /\ ProtocolTypeOK /\ ProtocolTypeOK' /\ OpeningInv /\ settled' = settled
      /\ \A i \in withdrawn : protocols[i] = NoRow
  BY SeedNextBase DEF ProtocolBase, SeedNext
<1>1. PICK r \in Releases, id \in opening[p].todo :
        /\ SeedsRelease(p, r) /\ id \in ProtocolIds /\ id \in SeedIds(SeedsOf[r])
        /\ opening' = [opening EXCEPT ![p].todo = opening[p].todo \ {id}]
        /\ IF id \in opening[p].found THEN Put(id, Reseeded(protocols[id], SeedsOf[r][id]))
           ELSE Put(id, Inserted(protocols[id], SeedsOf[r][id]))
  BY SeedNextIs
<1>2. /\ opening'[p].seeding = opening[p].seeding /\ opening'[p].release = opening[p].release
      /\ opening'[p].found = opening[p].found /\ opening'[p].alone = opening[p].alone
      /\ opening'[p].todo = opening[p].todo \ {id}
      /\ \A q \in Providers \ {p} : opening'[q] = opening[q]
  BY <1>0, <1>1 DEF ProtocolTypeOK
<1>3. protocols[id] \in Rows /\ SeedsOf[r][id] \in SeedType
  BY <1>0, <1>1, SeedIdsType DEF ProtocolTypeOK
<1>4. /\ \A i \in ProtocolIds \ {id} : protocols'[i] = protocols[i] /\ (i \in withdrawn => i \in withdrawn')
      /\ id \in opening[p].found => protocols'[id] = Reseeded(protocols[id], SeedsOf[r][id])
      /\ id \notin opening[p].found => protocols'[id] = Inserted(protocols[id], SeedsOf[r][id])
      /\ protocols'[id] = protocols[id] => (id \in withdrawn => id \in withdrawn')
  BY <1>0, <1>1, <1>3, SeedPut, PutOne
<1>5. \A i \in ProtocolIds : Harmless(r, i)
  BY <1>1, <1>3, <1>4, SeedPut DEF Harmless
<1>6. SettledInv'
  BY <1>0, <1>1, <1>5, HarmlessKeeps DEF SettledInv, SeedsRelease
<1>7. ASSUME opening[p].alone
      PROVE  InForce(r, id)'
  <2>1. Seedable(p, r, id)
    BY <1>1, <1>7 DEF SeedsRelease, SeedNext
  <2>2. /\ id \in opening[p].found => IsUser(protocols[id]) \/ IsSeed(protocols[id]) \/ id \in withdrawn
        /\ id \notin opening[p].found => IsUser(protocols[id]) \/ protocols[id] \in {NoRow, SeedRow(SeedsOf[r][id])}
    BY <1>1, <2>1 DEF Seedable
  <2>3. protocols'[id] = SeedRow(SeedsOf[r][id]) \/ IsUser(protocols'[id]) \/ id \in withdrawn'
    BY <1>3, <1>4, <2>2, SeedPut
  <2> QED BY <1>1, <2>3 DEF InForce
<1>8. SeedsRelease(p, r)'
  <2>1. ASSUME opening[p].alone, NEW i \in ProtocolIds
        PROVE  Seedable(p, r, i)'
    <3>1. CASE i = id
      BY <1>2, <1>7, <2>1, <3>1 DEF Seedable
    <3>2. CASE i # id
      <4>1. Seedable(p, r, i)
        BY <1>1, <2>1 DEF SeedsRelease, SeedNext
      <4> QED BY <1>2, <1>4, <3>2, <4>1 DEF Seedable, InForce
    <3> QED BY <3>1, <3>2
  <2> QED BY <1>0, <1>1, <1>2, <2>1 DEF SeedsRelease
<1>9. ASSUME NEW q \in Providers, q # p, opening'[q].seeding
      PROVE  \E s \in Releases : SeedsRelease(q, s)'
  <2>1. PICK s \in Releases : SeedsRelease(q, s)
    BY <1>0, <1>2, <1>9 DEF OpeningInv
  <2>2. opening[p].seeding
    BY DEF SeedNext
  <2>3. opening[q].alone => r = s
    BY <1>1, <2>1, <2>2 DEF SeedsRelease
  <2>4. \A q2 \in Providers : opening'[q2].seeding = opening[q2].seeding /\ opening'[q2].release = opening[q2].release
    BY <1>2
  <2> QED BY <1>0, <1>2, <1>5, <1>9, <2>1, <2>3, <2>4, OpeningKept DEF SeedsRelease
<1> QED BY <1>6, <1>8, <1>9 DEF OpeningInv

ProtocolInv == ProtocolBase /\ SettledInv

LEMMA ProtocolInvariant == ProtocolSpec => []ProtocolInv
<1>1. ProtocolInit => ProtocolInv
  BY DEF ProtocolInit, ProtocolInv, ProtocolBase, ProtocolTypeOK, OpeningInv, SettledInv, ScriptInv, Idle,
         NoCommand, Rows
<1>2. ProtocolInv /\ [ProtocolNext]_protocolVars => ProtocolInv'
  <2> SUFFICES ASSUME ProtocolInv, [ProtocolNext]_protocolVars PROVE ProtocolInv'
    OBVIOUS
  <2>1. ScriptInv'
    BY ScriptStep DEF ProtocolInv
  <2>2. CASE \E p \in Providers : OpenProvider(p) \/ SeedNext(p) \/ DeleteStale(p) \/ DieSeeding(p)
    BY <2>1, <2>2, ProviderBase, OpenStep, SeedStep, DeleteStep, DieStep DEF ProtocolInv, ProtocolBase
  <2>3. CASE \E a \in Admins : AddProtocol(a) \/ LookAtRow(a) \/ Apply(a) \/ StartSeeding(a) \/ SeedByScript(a)
    BY <2>1, <2>3, AdminBase, AdminStep DEF ProtocolInv, ProtocolBase
  <2>4. CASE UNCHANGED protocolVars
    BY <2>4 DEF protocolVars, ProtocolInv, ProtocolBase, ProtocolTypeOK, OpeningInv, SettledInv, ScriptInv,
                SeedsRelease, Seedable, InForce
  <2> QED BY <2>2, <2>3, <2>4 DEF ProtocolNext
<1> QED BY <1>1, <1>2, PTL DEF ProtocolSpec

\* Whatever providers of whatever releases have been opened, cut short or run side by side, and
\* whatever operators did: if the last release was seeded undisturbed, its base protocols are
\* given as it words them, but for those that a user replaced or removed.
THEOREM SeedsAreInForce == ProtocolSpec => []SeedsInForce
<1>1. ProtocolInv => SeedsInForce
  <2> SUFFICES ASSUME ProtocolInv, NEW r \in settled, NEW id \in ProtocolIds
               PROVE  IF id \in SeedIds(SeedsOf[r])
                      THEN \/ /\ protocols[id].text = SeedsOf[r][id].text
                              /\ \A e \in LookedUp : id \in Applicable(e) <=> e \in SeedsOf[r][id].events
                           \/ IsUser(protocols[id])
                           \/ id \in withdrawn
                      ELSE ~IsSeed(protocols[id])
    BY DEF SeedsInForce
  <2>1. InForce(r, id)
    BY DEF ProtocolInv, SettledInv
  <2>2. CASE protocols[id] = SeedRow(SeedsOf[r][id])
    <3>1. protocols[id].text = SeedsOf[r][id].text /\ protocols[id].enabled
          /\ protocols[id].events = SeedsOf[r][id].events
      BY <2>2 DEF SeedRow, Row
    <3> QED BY <2>1, <3>1 DEF Applicable, InForce
  <2>3. CASE protocols[id] # SeedRow(SeedsOf[r][id])
    BY <2>1, <2>3 DEF InForce
  <2> QED BY <2>2, <2>3
<1> QED BY <1>1, ProtocolInvariant, PTL

\* No seeding, of any release, overwrites or deletes the row of a user, even one that was
\* added after the seeding looked; and no command but seed and add changes a base protocol.
THEOREM UserProtocolsAreKept == ProtocolSpec => UserProtocolsKept
<1>1. ASSUME ProtocolInv, ProtocolInv', [ProtocolNext]_protocolVars, NEW id \in ProtocolIds,
             protocols'[id] # protocols[id]
      PROVE  /\ IsUser(protocols[id]) => \E a \in Admins : AddProtocol(a) \/ Apply(a)
             /\ IsSeed(protocols[id]) => \A a \in Admins : command'[a] = command[a] \/ command[a].op = "seed"
  <2>0. ProtocolTypeOK /\ protocols[id] \in Rows /\ \A i \in withdrawn : protocols[i] = NoRow
    BY <1>1 DEF ProtocolInv, ProtocolBase, ProtocolTypeOK
  <2>1. ASSUME NEW p \in Providers, SeedNext(p) \/ DeleteStale(p)
        PROVE  command' = command /\ ~IsUser(protocols[id])
    <3>1. CASE DeleteStale(p)
      BY <1>1, <2>0, <3>1, RowCases DEF DeleteStale
    <3>2. CASE SeedNext(p)
      <4>1. PICK r \in Releases, i \in opening[p].todo :
              /\ i \in ProtocolIds /\ i \in SeedIds(SeedsOf[r])
              /\ IF i \in opening[p].found THEN Put(i, Reseeded(protocols[i], SeedsOf[r][i]))
                 ELSE Put(i, Inserted(protocols[i], SeedsOf[r][i]))
        BY <1>1, <3>2, SeedNextIs DEF ProtocolInv
      <4>2. SeedsOf[r][i] \in SeedType /\ protocols[i] \in Rows
        BY <2>0, <4>1, SeedIdsType DEF ProtocolTypeOK
      <4>3. protocols'[id] \in {protocols[id], Reseeded(protocols[id], SeedsOf[r][id]), Inserted(protocols[id], SeedsOf[r][id])}
            /\ (id # i => protocols'[id] = protocols[id])
        BY <2>0, <4>1, <4>2, SeedPut, PutOne
      <4>4. ~IsUser(protocols[id])
        BY <1>1, <2>0, <4>2, <4>3, SeedPut, RowCases
      <4> QED BY <3>2, <4>4 DEF SeedNext
    <3> QED BY <2>1, <3>1, <3>2
  <2>2. ASSUME NEW a \in Admins, SeedByScript(a)
        PROVE  ~IsUser(protocols[id]) /\ ~IsSeed(protocols[id])
    <3>1. PICK i \in command[a].ids : Put(i, Inserted(protocols[i], ScriptSeeds[i]))
      BY <2>2 DEF SeedByScript
    <3>2. i \in ProtocolIds /\ protocols[id] = NoRow
      BY <1>1, <2>0, <3>1 DEF ProtocolTypeOK, Put, Inserted
    <3> QED BY <2>0, <3>2, RowCases
  <2>3. ASSUME NEW a \in Admins, Apply(a)
        PROVE  ~IsSeed(protocols[id])
    <3>1. PICK i \in command[a].ids :
            \/ IsUser(protocols[i]) /\ protocols' = [protocols EXCEPT ![i] = NoRow]
            \/ /\ IsUser(protocols[i])
               /\ \E row : protocols' = [protocols EXCEPT ![i] = row]
            \/ protocols' = protocols
      BY <2>3 DEF Apply, Put
    <3>2. i = id /\ IsUser(protocols[id])
      BY <1>1, <2>0, <3>1 DEF ProtocolTypeOK
    <3> QED BY <2>0, <3>2, RowCases
  <2>4. ASSUME NEW a \in Admins, AddProtocol(a)
        PROVE  command' = command
    BY <2>4 DEF AddProtocol
  <2>5. CASE UNCHANGED protocols
    BY <1>1, <2>5
  <2> QED BY <1>1, <2>1, <2>2, <2>3, <2>4, <2>5
          DEF ProtocolNext, protocolVars, OpenProvider, DieSeeding, LookAtRow, StartSeeding
<1>2. ProtocolInv /\ ProtocolInv' /\ [ProtocolNext]_protocolVars =>
        [\A id \in ProtocolIds :
           protocols'[id] # protocols[id] =>
             /\ IsUser(protocols[id]) => \E a \in Admins : AddProtocol(a) \/ Apply(a)
             /\ IsSeed(protocols[id]) => \A a \in Admins : command'[a] = command[a] \/ command[a].op = "seed"]_protocolVars
  BY <1>1
<1> QED BY <1>2, ProtocolInvariant, PTL DEF ProtocolSpec, UserProtocolsKept

=============================================================================
