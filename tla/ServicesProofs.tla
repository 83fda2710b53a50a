---------------------------- MODULE ServicesProofs ----------------------------
(***************************************************************************)
(* What holds of the services around the agents for every value of the     *)
(* constants.  The parts are those of MCServices: schedules as tools see   *)
(* them, the handoff of capabilities, the routing of messages to sessions, *)
(* the indexes of documents, telemetry, web research and the budget of a   *)
(* session.  A part has one inductive invariant, a lemma for each kind of  *)
(* step, and the theorems at its end.                                      *)
(***************************************************************************)
EXTENDS ScheduleTools, CapabilityHandoff, SessionRouting, DocumentIndex, RunTelemetry, WebResearch,
        ContextBudget, FiniteSetTheorems, SequenceTheorems, WellFoundedInduction, TLAPS

-----------------------------------------------------------------------------
(* The tools of schedules.  Every tool and route changes the store through   *)
(* one of five operations, so the proof is about those: the ownership check *)
(* matters for UpdateFields alone, the only one that writes a prompt into a *)
(* row whose owner it leaves.                                               *)

ScheduleRow == [slug: Slugs, owner: Owners, author: Owners, enabled: BOOLEAN]
ScheduleRun == [slug: Slugs, owner: Owners, author: Owners, number: 1..MaxFired]

ScheduleToolsInv == ScheduleToolsTypeOK /\ WrittenByOwner

\* A create leaves the one row of its slug, owned by the scope that wrote the prompt.
LEMMA UpsertKeeps ==
  ASSUME ScheduleToolsInv, NEW slug \in Slugs, NEW scope \in Owners, NEW enabled \in BOOLEAN,
         Upsert(slug, scope, enabled)
  PROVE  ScheduleToolsInv'
<1> DEFINE row == [slug |-> slug, owner |-> scope, author |-> scope, enabled |-> enabled]
<1>1. schedules' = (schedules \ BySlug(slug)) \cup {row} /\ runs' = runs
  BY DEF Upsert
<1>2. row \in ScheduleRow
  BY DEF ScheduleRow
<1>3. schedules' \subseteq ScheduleRow /\ runs' \subseteq ScheduleRun
  BY <1>1, <1>2 DEF ScheduleToolsInv, ScheduleToolsTypeOK, ScheduleRow, ScheduleRun
<1>4. \A s, t \in schedules' : s.slug = t.slug => s = t
  <2> SUFFICES ASSUME NEW s \in schedules', NEW t \in schedules', s.slug = t.slug  PROVE s = t
    OBVIOUS
  <2>1. CASE s \in schedules /\ t \in schedules
    BY <2>1 DEF ScheduleToolsInv, ScheduleToolsTypeOK
  <2>2. \A u \in schedules \ BySlug(slug) : u.slug # slug
    BY DEF BySlug
  <2> QED  BY <1>1, <2>1, <2>2
<1>5. \A r \in runs' : \E s \in schedules' : s.slug = r.slug
  <2> SUFFICES ASSUME NEW r \in runs  PROVE \E s \in schedules' : s.slug = r.slug
    BY <1>1
  <2>1. PICK s \in schedules : s.slug = r.slug
    BY DEF ScheduleToolsInv, ScheduleToolsTypeOK
  <2>2. CASE s \in BySlug(slug)
    <3>1. row \in schedules' /\ row.slug = slug
      BY <1>1
    <3>2. s.slug = slug
      BY <2>2 DEF BySlug
    <3> HIDE DEF row
    <3> QED  BY <2>1, <3>1, <3>2
  <2>3. CASE s \notin BySlug(slug)
    BY <1>1, <2>1, <2>3
  <2> QED  BY <2>2, <2>3
<1>6. WrittenByOwner'
  BY <1>1 DEF ScheduleToolsInv, WrittenByOwner, ListForOwner
<1> QED  BY <1>3, <1>4, <1>5, <1>6 DEF ScheduleToolsInv, ScheduleToolsTypeOK, ScheduleRow, ScheduleRun

\* A row that is changed in place keeps its slug and owner; its author becomes one who
\* may write for the owner.
LEMMA ChangeKeeps ==
  ASSUME ScheduleToolsInv, NEW rows \in SUBSET schedules, NEW new,
         new \in [rows -> ScheduleRow],
         \A s \in rows : /\ new[s].slug = s.slug /\ new[s].owner = s.owner
                         /\ new[s].author \in {s.author, s.owner, Admin},
         schedules' = (schedules \ rows) \cup {new[s] : s \in rows},
         UNCHANGED runs
  PROVE  ScheduleToolsInv'
<1>1. schedules' \subseteq ScheduleRow /\ runs' \subseteq ScheduleRun
  BY DEF ScheduleToolsInv, ScheduleToolsTypeOK, ScheduleRow, ScheduleRun
<1>2. \A t \in schedules' : \E s \in schedules :
        /\ t.slug = s.slug /\ t.owner = s.owner /\ t.author \in {s.author, s.owner, Admin}
        /\ (t = s /\ s \notin rows) \/ (s \in rows /\ t = new[s])
  OBVIOUS
<1>3. \A s, t \in schedules' : s.slug = t.slug => s = t
  <2> SUFFICES ASSUME NEW s \in schedules', NEW t \in schedules', s.slug = t.slug  PROVE s = t
    OBVIOUS
  <2>1. PICK u \in schedules : s.slug = u.slug /\ ((s = u /\ u \notin rows) \/ (u \in rows /\ s = new[u]))
    BY <1>2
  <2>2. PICK w \in schedules : t.slug = w.slug /\ ((t = w /\ w \notin rows) \/ (w \in rows /\ t = new[w]))
    BY <1>2
  <2>3. \A x, y \in schedules : x.slug = y.slug => x = y
    BY DEF ScheduleToolsInv, ScheduleToolsTypeOK
  <2>4. u.slug = w.slug
    BY <2>1, <2>2
  <2>5. u = w
    BY <2>3, <2>4
  <2> QED  BY <2>1, <2>2, <2>5
<1>4. \A r \in runs' : \E s \in schedules' : s.slug = r.slug
  <2> SUFFICES ASSUME NEW r \in runs  PROVE \E s \in schedules' : s.slug = r.slug
    OBVIOUS
  <2>1. PICK s \in schedules : s.slug = r.slug
    BY DEF ScheduleToolsInv, ScheduleToolsTypeOK
  <2>2. CASE s \in rows
    BY <2>1, <2>2
  <2>3. CASE s \notin rows
    BY <2>1, <2>3
  <2> QED  BY <2>2, <2>3
<1>5. WrittenByOwner'
  <2>1. ASSUME NEW t \in schedules'  PROVE t.author \in {t.owner, Admin}
    <3>1. PICK s \in schedules : t.owner = s.owner /\ t.author \in {s.author, s.owner, Admin}
      BY <1>2, <2>1
    <3>2. s.owner \in Owners
      BY DEF ScheduleToolsInv, ScheduleToolsTypeOK
    <3>3. s.author \in {s.owner, Admin}
      BY <3>2 DEF ScheduleToolsInv, WrittenByOwner, ListForOwner
    <3> QED  BY <3>1, <3>3
  <2>2. \A scope \in Owners : \A t \in ListForOwner(scope)' : t.author \in {scope, Admin}
    BY <2>1 DEF ListForOwner
  <2> QED  BY <2>2 DEF ScheduleToolsInv, WrittenByOwner
<1> QED  BY <1>1, <1>3, <1>4, <1>5 DEF ScheduleToolsInv, ScheduleToolsTypeOK, ScheduleRow, ScheduleRun

LEMMA SetEnabledKeeps ==
  ASSUME ScheduleToolsInv, NEW rows \in SUBSET schedules, NEW enabled \in BOOLEAN, SetEnabled(rows, enabled)
  PROVE  ScheduleToolsInv'
<1> DEFINE new == [s \in rows |-> [s EXCEPT !.enabled = enabled]]
<1>1. \A s \in rows : s \in ScheduleRow
  BY DEF ScheduleToolsInv, ScheduleToolsTypeOK, ScheduleRow
<1>2. new \in [rows -> ScheduleRow]
  BY <1>1 DEF ScheduleRow
<1>3. \A s \in rows : new[s].slug = s.slug /\ new[s].owner = s.owner /\ new[s].author = s.author
  BY <1>1 DEF ScheduleRow
<1>4. schedules' = (schedules \ rows) \cup {new[s] : s \in rows} /\ UNCHANGED runs
  BY DEF SetEnabled
<1> QED
  <2> HIDE DEF new
  <2> QED  BY <1>2, <1>3, <1>4, ChangeKeeps

\* The scope that writes is the owner of the rows, or the operator.
LEMMA UpdateFieldsKeeps ==
  ASSUME ScheduleToolsInv, NEW rows \in SUBSET schedules, NEW scope \in Owners, UpdateFields(rows, scope),
         \A s \in rows : scope \in {s.owner, Admin}
  PROVE  ScheduleToolsInv'
<1>1. PICK rewritten \in BOOLEAN, enabled \in BOOLEAN :
        schedules' = (schedules \ rows)
          \cup {[s EXCEPT !.author = IF rewritten THEN scope ELSE @, !.enabled = enabled] : s \in rows}
  BY DEF UpdateFields
<1> DEFINE new == [s \in rows |->
                     [s EXCEPT !.author = IF rewritten THEN scope ELSE @, !.enabled = enabled]]
<1>2. \A s \in rows : s \in ScheduleRow
  BY DEF ScheduleToolsInv, ScheduleToolsTypeOK, ScheduleRow
<1>3. new \in [rows -> ScheduleRow]
  BY <1>2 DEF ScheduleRow
<1>4. \A s \in rows : new[s].slug = s.slug /\ new[s].owner = s.owner
                      /\ new[s].author \in {s.author, s.owner, Admin}
  BY <1>2 DEF ScheduleRow
<1>5. schedules' = (schedules \ rows) \cup {new[s] : s \in rows} /\ UNCHANGED runs
  BY <1>1 DEF UpdateFields
<1> QED
  <2> HIDE DEF new
  <2> QED  BY <1>3, <1>4, <1>5, ChangeKeeps

\* The runs of a row that is deleted go with it, so none is left without a row.
LEMMA DeleteRowsKeeps ==
  ASSUME ScheduleToolsInv, NEW rows \in SUBSET schedules, DeleteRows(rows)
  PROVE  ScheduleToolsInv'
<1>1. schedules' = schedules \ rows /\ runs' = {r \in runs : \A s \in rows : r.slug # s.slug}
  BY DEF DeleteRows
<1>2. \A r \in runs' : \E s \in schedules' : s.slug = r.slug
  BY <1>1 DEF ScheduleToolsInv, ScheduleToolsTypeOK
<1> QED  BY <1>1, <1>2 DEF ScheduleToolsInv, ScheduleToolsTypeOK, WrittenByOwner, ListForOwner

\* A progress is fired in the name of the owner that its row has.
LEMMA FiresKeeps ==
  ASSUME ScheduleToolsInv, NEW rows \in SUBSET schedules, Fires(rows)
  PROVE  ScheduleToolsInv'
<1>1. PICK number \in 1..MaxFired :
        runs' = runs \cup {[slug |-> s.slug, owner |-> s.owner, author |-> s.author,
                            number |-> number] : s \in rows}
  BY DEF Fires
<1>2. schedules' = schedules
  BY DEF Fires
<1>3. \A s \in rows : s \in ScheduleRow /\ s.author \in {s.owner, Admin}
  BY DEF ScheduleToolsInv, ScheduleToolsTypeOK, WrittenByOwner, ListForOwner, ScheduleRow
<1>4. runs' \subseteq ScheduleRun
  BY <1>1, <1>3 DEF ScheduleToolsInv, ScheduleToolsTypeOK, ScheduleRow, ScheduleRun
<1>5. \A r \in runs' : \E s \in schedules' : s.slug = r.slug
  BY <1>1, <1>2 DEF ScheduleToolsInv, ScheduleToolsTypeOK
<1>6. \A r \in runs' : r.author \in {r.owner, Admin}
  BY <1>1, <1>3 DEF ScheduleToolsInv, WrittenByOwner
<1> QED  BY <1>2, <1>4, <1>5, <1>6 DEF ScheduleToolsInv, ScheduleToolsTypeOK, WrittenByOwner, ListForOwner, ScheduleRun

\* What a scope's tools do to a slug.
LEMMA ToolKeeps ==
  ASSUME ScheduleToolsInv, NEW slug \in Slugs, NEW scope \in Owners,
         \/ Create(scope, slug) \/ Pause(scope, slug) \/ Resume(scope, slug)
         \/ Update(scope, slug) \/ Delete(scope, slug) \/ RunNow(scope, slug)
  PROVE  ScheduleToolsInv'
<1> DEFINE rows == OwnedRows(scope, slug)
<1>1. rows \in SUBSET schedules /\ \A s \in rows : scope \in {s.owner, Admin}
  BY DEF OwnedRows, BySlug, ListForOwner
<1>2. CASE Create(scope, slug)
  BY <1>2, UpsertKeeps DEF Create
<1>3. CASE Pause(scope, slug)
  BY <1>1, <1>3, SetEnabledKeeps DEF Pause
<1>4. CASE Resume(scope, slug)
  BY <1>1, <1>4, SetEnabledKeeps DEF Resume
<1>5. CASE Update(scope, slug)
  BY <1>1, <1>5, UpdateFieldsKeeps DEF Update
<1>6. CASE Delete(scope, slug)
  BY <1>1, <1>6, DeleteRowsKeeps DEF Delete
<1>7. CASE RunNow(scope, slug)
  BY <1>1, <1>7, FiresKeeps DEF RunNow
<1> QED  BY <1>2, <1>3, <1>4, <1>5, <1>6, <1>7

\* What the operator's routes and the cron job do to it.
LEMMA RouteKeeps ==
  ASSUME ScheduleToolsInv, NEW slug \in Slugs,
         \/ Post(slug) \/ Patch(slug) \/ PauseRoute(slug) \/ ResumeRoute(slug)
         \/ DeleteRoute(slug) \/ RunRoute(slug) \/ CronFire(slug)
  PROVE  ScheduleToolsInv'
<1>1. BySlug(slug) \in SUBSET schedules /\ Admin \in Owners
  BY DEF BySlug, Owners
<1>2. CASE Post(slug)
  BY <1>1, <1>2, UpsertKeeps DEF Post
<1>3. CASE Patch(slug)
  BY <1>1, <1>3, UpdateFieldsKeeps DEF Patch
<1>4. CASE PauseRoute(slug)
  BY <1>1, <1>4, SetEnabledKeeps DEF PauseRoute
<1>5. CASE ResumeRoute(slug)
  BY <1>1, <1>5, SetEnabledKeeps DEF ResumeRoute
<1>6. CASE DeleteRoute(slug)
  BY <1>1, <1>6, DeleteRowsKeeps DEF DeleteRoute
<1>7. CASE RunRoute(slug)
  BY <1>1, <1>7, FiresKeeps DEF RunRoute
<1>8. CASE CronFire(slug)
  BY <1>1, <1>8, FiresKeeps DEF CronFire
<1> QED  BY <1>2, <1>3, <1>4, <1>5, <1>6, <1>7, <1>8

LEMMA ScheduleToolsStep == ASSUME ScheduleToolsInv, [ScheduleToolsNext]_scheduleToolsVars  PROVE ScheduleToolsInv'
<1>1. CASE UNCHANGED scheduleToolsVars
  BY <1>1 DEF scheduleToolsVars, ScheduleToolsInv, ScheduleToolsTypeOK, WrittenByOwner, ListForOwner
<1>2. CASE ScheduleToolsNext
  <2>1. PICK slug \in Slugs :
          \/ Post(slug) \/ Patch(slug) \/ PauseRoute(slug) \/ ResumeRoute(slug)
          \/ DeleteRoute(slug) \/ RunRoute(slug) \/ CronFire(slug)
          \/ \E actor \in Actors :
               \/ Create(actor, slug) \/ Pause(actor, slug) \/ Resume(actor, slug)
               \/ Update(actor, slug) \/ Delete(actor, slug) \/ RunNow(actor, slug)
          \/ \E project \in Projects \cup {NoProject} :
               \/ CodingCreate(project, slug) \/ CodingPause(project, slug)
               \/ CodingResume(project, slug) \/ CodingUpdate(project, slug)
               \/ CodingDelete(project, slug) \/ CodingRunNow(project, slug)
    BY <1>2 DEF ScheduleToolsNext
  <2>2. CASE \E actor \in Actors :
               \/ Create(actor, slug) \/ Pause(actor, slug) \/ Resume(actor, slug)
               \/ Update(actor, slug) \/ Delete(actor, slug) \/ RunNow(actor, slug)
    BY <2>2, ToolKeeps DEF Owners
  <2>3. CASE \E project \in Projects \cup {NoProject} :
               \/ CodingCreate(project, slug) \/ CodingPause(project, slug)
               \/ CodingResume(project, slug) \/ CodingUpdate(project, slug)
               \/ CodingDelete(project, slug) \/ CodingRunNow(project, slug)
    <3>1. PICK project \in Projects \cup {NoProject} :
               \/ CodingCreate(project, slug) \/ CodingPause(project, slug)
               \/ CodingResume(project, slug) \/ CodingUpdate(project, slug)
               \/ CodingDelete(project, slug) \/ CodingRunNow(project, slug)
      BY <2>3
    <3>2. project \in Owners
      BY <3>1 DEF Owners, TrustedProject, CodingCreate, CodingPause, CodingResume, CodingUpdate,
                  CodingDelete, CodingRunNow
    <3>3. \/ Create(project, slug) \/ Pause(project, slug) \/ Resume(project, slug)
          \/ Update(project, slug) \/ Delete(project, slug) \/ RunNow(project, slug)
      BY <3>1 DEF CodingCreate, CodingPause, CodingResume, CodingUpdate, CodingDelete, CodingRunNow
    <3> QED  BY <3>2, <3>3, ToolKeeps
  <2> QED  BY <2>1, <2>2, <2>3, RouteKeeps
<1> QED  BY <1>1, <1>2

\* Rows and runs are of their type, there is one row for a slug, and no progress without its row.
THEOREM ScheduleToolsTypes == ScheduleToolsSpec => []ScheduleToolsTypeOK
<1>1. ScheduleToolsInit => ScheduleToolsInv
  BY DEF ScheduleToolsInit, ScheduleToolsInv, ScheduleToolsTypeOK, WrittenByOwner, ListForOwner
<1>2. ScheduleToolsInv /\ [ScheduleToolsNext]_scheduleToolsVars => ScheduleToolsInv'
  BY ScheduleToolsStep
<1>3. ScheduleToolsInv => ScheduleToolsTypeOK
  BY DEF ScheduleToolsInv
<1> QED  BY <1>1, <1>2, <1>3, PTL DEF ScheduleToolsSpec

\* The prompt of a schedule, and of each progress it fired, was written by its owner or by the
\* operator, whatever the tools of any number of scopes and the routes do in turn.
THEOREM PromptsAreOwned == ScheduleToolsSpec => []WrittenByOwner
<1>1. ScheduleToolsInit => ScheduleToolsInv
  BY DEF ScheduleToolsInit, ScheduleToolsInv, ScheduleToolsTypeOK, WrittenByOwner, ListForOwner
<1>2. ScheduleToolsInv /\ [ScheduleToolsNext]_scheduleToolsVars => ScheduleToolsInv'
  BY ScheduleToolsStep
<1>3. ScheduleToolsInv => WrittenByOwner
  BY DEF ScheduleToolsInv
<1> QED  BY <1>1, <1>2, <1>3, PTL DEF ScheduleToolsSpec

-----------------------------------------------------------------------------
(* The handoff of capabilities.  A content gets into attested only when a   *)
(* test of it passed, into prepared only from attested or when the caller   *)
(* named it, and into an input, and so into a record, only from prepared or *)
(* when the caller named it; #stage compares what it pins with the package  *)
(* that it takes.                                                           *)

\* What pins a version pins a content that a test passed on, or that a caller named.
Pinned == passed \cup named \cup {Unpinned}

PinsAreTested ==
  /\ \A a \in attested : a[1] \in passed
  /\ prepared \subseteq Pinned
  /\ \A c \in HandoffCalls :
       work[c].pc = "mutate" =>
         work[c].version \in Pinned \cup {Kept} /\ (work[c].op = "add" => work[c].version # Kept)
  /\ \A r \in record : r.version \in Pinned

HandoffInv == HandoffTypeOK /\ PinsAreTested /\ InstalledIsTested

\* The steps that leave the registry and the runtime, and what tests passed on, alone.
LEMMA HandoffFrame ==
  ASSUME HandoffInv, HandoffTypeOK', UNCHANGED <<passed, record, installed>>, named \subseteq named',
         \A a \in attested' : a[1] \in passed,
         prepared' \subseteq Pinned',
         \A c \in HandoffCalls :
           \/ work'[c] = work[c]
           \/ work'[c].pc # "mutate"
           \/ /\ work'[c].version \in Pinned' \cup {Kept}
              /\ work'[c].op = "add" => work'[c].version # Kept
  PROVE  HandoffInv'
BY DEF HandoffInv, PinsAreTested, InstalledIsTested, Pinned

\* One call moves to a wait of its own.
LEMMA WaitsTyped ==
  ASSUME HandoffInv, NEW c \in HandoffCalls, NEW wait \in Waiting, Waits(c, wait)
  PROVE  /\ work' \in [HandoffCalls -> Waiting]
         /\ \A d \in HandoffCalls \ {c} : work'[d] = work[d]
         /\ work'[c] = wait
BY DEF HandoffInv, HandoffTypeOK, Waits

LEMMA IdleIsWait == IdleTool \in Waiting /\ IdleTool.pc = "idle"
BY DEF IdleTool, Waiting

LEMMA EndsTyped ==
  ASSUME HandoffInv, NEW c \in HandoffCalls, Ends(c)
  PROVE  /\ work' \in [HandoffCalls -> Waiting]
         /\ \A d \in HandoffCalls \ {c} : work'[d] = work[d]
         /\ work'[c] = IdleTool
BY IdleIsWait DEF HandoffInv, HandoffTypeOK, Waits, Ends

\* What #stage accepts, when it pins a version that a test passed on.
LEMMA StagedIsTested ==
  ASSUME HandoffInv, NEW version \in Pinned, Staged(version), version # Unpinned
  PROVE  package = [content |-> version, extras |-> FALSE] /\ version \in passed \cup named
BY DEF Staged, Pinned

\* A record and what is installed with it, after any operation of the lifecycle.
LEMMA RuntimeKeeps ==
  ASSUME HandoffInv, NEW c \in HandoffCalls, Ends(c),
         UNCHANGED <<kind, package, attested, passed, prepared, named>>,
         record' \subseteq Records, \A r, s \in record' : r = s,
         installed' \in Packages,
         \A r \in record' : r.version \in Pinned,
         InstalledIsTested'
  PROVE  HandoffInv'
<1>1. /\ work' \in [HandoffCalls -> Waiting] /\ \A d \in HandoffCalls \ {c} : work'[d] = work[d]
      /\ work'[c] = IdleTool
  BY EndsTyped
<1>2. HandoffTypeOK'
  BY <1>1 DEF HandoffInv, HandoffTypeOK
<1>3. PinsAreTested'
  BY <1>1, IdleIsWait DEF HandoffInv, PinsAreTested, Pinned
<1> QED  BY <1>2, <1>3 DEF HandoffInv

LEMMA RecordIsTyped ==
  ASSUME HandoffInv, NEW r \in record
  PROVE  r \in Records /\ r.version \in Pinned /\ r.enabled \in BOOLEAN
         /\ [r EXCEPT !.enabled = TRUE] \in Records /\ [r EXCEPT !.enabled = FALSE] \in Records
         /\ [r EXCEPT !.enabled = TRUE].version = r.version
         /\ [r EXCEPT !.enabled = FALSE].version = r.version
         /\ [r EXCEPT !.enabled = FALSE].enabled = FALSE
BY DEF HandoffInv, HandoffTypeOK, PinsAreTested, Records

LEMMA MutateKeeps ==
  ASSUME HandoffInv, NEW c \in HandoffCalls, Mutate(c)
  PROVE  HandoffInv'
<1> USE DEF Runtime
<1>1. /\ Ends(c) /\ UNCHANGED <<kind, package, attested, passed, prepared, named>>
      /\ work[c].pc = "mutate" /\ work[c].version \in Pinned \cup {Kept}
      /\ work[c].op = "add" => work[c].version # Kept
      /\ work[c] \in Waiting
  BY DEF Mutate, HandoffInv, PinsAreTested, HandoffTypeOK
<1>2. /\ package \in Packages /\ installed \in Packages /\ NoPackage \in Packages
      /\ Pinned \subseteq Versions /\ Pinned' = Pinned
  BY <1>1 DEF HandoffInv, HandoffTypeOK, Pinned, Versions, Packages, NoPackage
<1>3. work[c].enabled \in BOOLEAN /\ work[c].op \in {"add", "update", "enable", "disable", "remove"}
  BY <1>1, IdleIsWait DEF Waiting, IdleTool
<1>4. CASE UNCHANGED <<record, installed>>
  BY <1>1, <1>4, RuntimeKeeps DEF HandoffInv, HandoffTypeOK, PinsAreTested, InstalledIsTested
<1>5. CASE work[c].op = "add" /\ AddCapability(work[c])
  <2>1. work[c].version \in Pinned
    BY <1>1, <1>5
  <2>2. PICK e \in BOOLEAN : /\ record' = {[version |-> work[c].version, enabled |-> e]}
                             /\ installed' = IF e THEN package ELSE installed
    BY <1>3, <1>5 DEF AddCapability
  <2>3. record' \subseteq Records /\ installed' \in Packages
    BY <1>2, <2>1, <2>2 DEF Records
  <2>4. InstalledIsTested'
    <3>1. Staged(work[c].version) /\ passed' = passed /\ named' = named
      BY <1>1, <1>5 DEF AddCapability
    <3>2. work[c].version # Unpinned =>
            package = [content |-> work[c].version, extras |-> FALSE] /\ work[c].version \in passed \cup named
      BY <2>1, <3>1, StagedIsTested
    <3>3. CASE e = TRUE
      BY <2>2, <3>1, <3>2, <3>3 DEF InstalledIsTested
    <3>4. CASE e = FALSE
      BY <2>2, <3>4 DEF InstalledIsTested
    <3> QED  BY <3>3, <3>4
  <2> QED  BY <1>1, <2>1, <2>2, <2>3, <2>4, RuntimeKeeps
<1>6. CASE work[c].op = "update" /\ UpdateCapability(work[c])
  <2>1. PICK r \in record : 
          LET version == IF work[c].version = Kept THEN r.version ELSE work[c].version
              enabled == kind = "skill" /\ r.enabled
          IN /\ Staged(version)
             /\ record' = {[version |-> version, enabled |-> enabled]}
             /\ installed' = CASE enabled -> package
                               [] r.enabled /\ ~enabled -> NoPackage
                               [] OTHER -> installed
    BY <1>6 DEF UpdateCapability
  <2> DEFINE version == IF work[c].version = Kept THEN r.version ELSE work[c].version
             enabled == kind = "skill" /\ r.enabled
  <2>2. version \in Pinned /\ enabled \in BOOLEAN /\ r.enabled \in BOOLEAN
    BY <1>1, RecordIsTyped
  <2>3. /\ Staged(version) /\ record' = {[version |-> version, enabled |-> enabled]}
        /\ enabled => installed' = package
        /\ installed' \in {package, NoPackage, installed}
    BY <2>1, <2>2
  <2> HIDE DEF version, enabled
  <2>4. record' \subseteq Records /\ installed' \in Packages
    BY <1>2, <2>2, <2>3 DEF Records
  <2>5. InstalledIsTested'
    BY <1>1, <2>2, <2>3, StagedIsTested DEF InstalledIsTested
  <2> QED  BY <1>1, <2>2, <2>3, <2>4, <2>5, RuntimeKeeps
<1>7. CASE work[c].op = "enable" /\ Enable
  <2>1. PICK r \in record : Staged(r.version) /\ record' = {[r EXCEPT !.enabled = TRUE]}
                            /\ installed' = package
    BY <1>7 DEF Enable
  <2>2. r.version \in Pinned /\ [r EXCEPT !.enabled = TRUE] \in Records
        /\ [r EXCEPT !.enabled = TRUE].version = r.version
    BY RecordIsTyped
  <2>3. InstalledIsTested'
    BY <1>1, <2>1, <2>2, StagedIsTested DEF InstalledIsTested
  <2> QED  BY <1>1, <1>2, <2>1, <2>2, <2>3, RuntimeKeeps
<1>8. CASE work[c].op = "disable" /\ Disable
  <2>1. \A r \in record' : \E s \in record : r = [s EXCEPT !.enabled = FALSE]
    BY <1>8 DEF Disable
  <2>2. \A r \in record' : r \in Records /\ r.version \in Pinned /\ r.enabled = FALSE
    <3> SUFFICES ASSUME NEW r \in record'  PROVE r \in Records /\ r.version \in Pinned /\ r.enabled = FALSE
      OBVIOUS
    <3>1. PICK s \in record : r = [s EXCEPT !.enabled = FALSE]
      BY <2>1
    <3>2. /\ [s EXCEPT !.enabled = FALSE] \in Records /\ s.version \in Pinned
          /\ [s EXCEPT !.enabled = FALSE].version = s.version
          /\ [s EXCEPT !.enabled = FALSE].enabled = FALSE
      BY RecordIsTyped
    <3> QED  BY <3>1, <3>2
  <2>3. \A r, s \in record' : r = s
    BY <2>1 DEF HandoffInv, HandoffTypeOK
  <2> QED  BY <1>1, <1>2, <1>8, <2>2, <2>3, RuntimeKeeps DEF Disable, InstalledIsTested
<1>9. CASE work[c].op = "remove" /\ RemoveCapability
  BY <1>1, <1>2, <1>9, RuntimeKeeps DEF RemoveCapability, InstalledIsTested
<1> QED  BY <1>4, <1>5, <1>6, <1>7, <1>8, <1>9 DEF Mutate

LEMMA ProposeKeeps ==
  ASSUME HandoffInv, NEW c \in HandoffCalls, Propose(c)
  PROVE  HandoffInv'
<1>1. PICK input \in AddInputs \cup UpdateInputs \cup OtherInputs :
        Waits(c, input) /\ named' = named \cup (Pinning(input.version) \ prepared)
  BY DEF Propose
<1>2. /\ input \in Waiting /\ (input.op = "add" => input.version # Kept)
      /\ input.version \in Versions \cup {Kept}
  <2>1. Unpinned # Kept /\ Kept \notin Contents
    BY HandoffAssumption DEF Unpinned, Kept
  <2>2. CASE input \in AddInputs
    BY <2>1, <2>2 DEF AddInputs, Waiting, Versions
  <2>3. CASE input \in UpdateInputs
    BY <2>3 DEF UpdateInputs, Waiting, Versions
  <2>4. CASE input \in OtherInputs
    BY <2>4 DEF OtherInputs, Waiting, Versions
  <2> QED  BY <1>1, <2>2, <2>3, <2>4
<1>3. named' = named \cup (Pinning(input.version) \ prepared)
      /\ UNCHANGED <<kind, package, attested, passed, prepared, record, installed>>
  BY <1>1 DEF Propose, Runtime
<1>4. Pinned \subseteq Pinned' /\ input.version \in Pinned' \cup {Kept}
  BY <1>2, <1>3 DEF HandoffInv, PinsAreTested, Pinned, Pinning, Versions
<1>5. /\ work' \in [HandoffCalls -> Waiting] /\ \A d \in HandoffCalls \ {c} : work'[d] = work[d]
      /\ work'[c] = input
  BY <1>1, <1>2, WaitsTyped
<1>6. HandoffTypeOK' /\ named \subseteq named'
  BY <1>3, <1>5 DEF HandoffInv, HandoffTypeOK, Pinning
<1>7. \A d \in HandoffCalls :
        \/ work'[d] = work[d]
        \/ work'[d].version \in Pinned' \cup {Kept} /\ (work'[d].op = "add" => work'[d].version # Kept)
  BY <1>2, <1>4, <1>5
<1>8. (\A a \in attested' : a[1] \in passed) /\ prepared' \subseteq Pinned'
  BY <1>3, <1>4 DEF HandoffInv, PinsAreTested
<1> QED  BY <1>3, <1>6, <1>7, <1>8, HandoffFrame

LEMMA TestPassesKeeps ==
  ASSUME HandoffInv, NEW c \in HandoffCalls, TestPasses(c)
  PROVE  HandoffInv'
<1>1. work[c].content \in Contents /\ work[c].directives \in Directives
  BY IdleIsWait DEF HandoffInv, HandoffTypeOK, TestPasses, Waiting, IdleTool
<1>2. /\ work' \in [HandoffCalls -> Waiting] /\ \A d \in HandoffCalls \ {c} : work'[d] = work[d]
      /\ work'[c] = IdleTool
  BY EndsTyped DEF TestPasses
<1>3. HandoffTypeOK'
  BY <1>1, <1>2 DEF HandoffInv, HandoffTypeOK, TestPasses, Runtime, Attests, Key
<1>4. PinsAreTested'
  BY <1>2, IdleIsWait DEF HandoffInv, PinsAreTested, Pinned, TestPasses, Runtime, Attests, Key
<1>5. InstalledIsTested'
  BY DEF HandoffInv, InstalledIsTested, TestPasses, Runtime
<1> QED  BY <1>3, <1>4, <1>5 DEF HandoffInv

LEMMA HandoffStep ==
  ASSUME HandoffInv, [HandoffNext]_handoffVars
  PROVE  HandoffInv'
<1> USE DEF Runtime
<1>1. CASE Edit
  <2>1. HandoffTypeOK'
    BY <1>1 DEF Edit, HandoffInv, HandoffTypeOK
  <2> QED  BY <1>1, <2>1, HandoffFrame DEF Edit, HandoffInv, PinsAreTested, Pinned
<1>2. CASE RestartTools
  <2>1. HandoffTypeOK'
    BY <1>2, IdleIsWait DEF RestartTools, HandoffInv, HandoffTypeOK
  <2>2. \A c \in HandoffCalls : work'[c].pc # "mutate"
    BY <1>2, IdleIsWait DEF RestartTools
  <2> QED  BY <1>2, <2>1, <2>2, HandoffFrame DEF RestartTools, HandoffInv, PinsAreTested, Pinned
<1>3. ASSUME NEW d \in Directives, NEW asked \in Versions \cup {Latest}, PrepareHandoff(d, asked)
      PROVE  HandoffInv'
  <2>1. Digest(package) \in passed /\ Digest(package) \in Contents
    BY <1>3 DEF PrepareHandoff, Key, HandoffInv, PinsAreTested, HandoffTypeOK
  <2>2. /\ prepared' = prepared \cup Pinning(Handoff(package, asked))
        /\ named' = named \cup (Pinning(asked) \ {Digest(package)})
        /\ UNCHANGED <<kind, package, work, attested, passed, record, installed>>
    BY <1>3 DEF PrepareHandoff
  <2>3. HandoffTypeOK'
    BY <2>2 DEF Pinning, HandoffInv, HandoffTypeOK
  <2>4. Pinning(Handoff(package, asked)) \subseteq passed \cup named'
    BY <2>1, <2>2 DEF Handoff, Pinning
  <2>5. (\A a \in attested' : a[1] \in passed) /\ prepared' \subseteq Pinned'
    BY <2>2, <2>4 DEF HandoffInv, PinsAreTested, Pinned
  <2> QED  BY <2>2, <2>3, <2>5, HandoffFrame
<1>4. ASSUME NEW d \in Directives, NEW c \in HandoffCalls, Test(c, d)  PROVE HandoffInv'
  <2> DEFINE wait == [pc |-> "test", content |-> Digest(package), directives |-> d]
  <2>1. wait \in Waiting /\ wait.pc # "mutate" /\ Waits(c, wait)
    BY <1>4 DEF Test, Valid, Digest, Waiting
  <2> HIDE DEF wait
  <2>2. /\ work' \in [HandoffCalls -> Waiting] /\ \A e \in HandoffCalls \ {c} : work'[e] = work[e]
        /\ work'[c] = wait
    BY <2>1, WaitsTyped
  <2>3. HandoffTypeOK'
    BY <1>4, <2>2 DEF Test, HandoffInv, HandoffTypeOK
  <2> QED  BY <1>4, <2>1, <2>2, <2>3, HandoffFrame DEF Test, HandoffInv, PinsAreTested, Pinned
<1>5. ASSUME NEW c \in HandoffCalls, Scaffold(c)  PROVE HandoffInv'
  <2> DEFINE wait == [pc |-> "scaffold"]
  <2>1. wait \in Waiting /\ wait.pc # "mutate" /\ Waits(c, wait)
    BY <1>5 DEF Scaffold, Waiting
  <2> HIDE DEF wait
  <2>2. /\ work' \in [HandoffCalls -> Waiting] /\ \A e \in HandoffCalls \ {c} : work'[e] = work[e]
        /\ work'[c] = wait
    BY <2>1, WaitsTyped
  <2>3. HandoffTypeOK'
    BY <1>5, <2>2 DEF Scaffold, HandoffInv, HandoffTypeOK
  <2> QED  BY <1>5, <2>1, <2>2, <2>3, HandoffFrame DEF Scaffold, HandoffInv, PinsAreTested, Pinned
<1>6. ASSUME NEW c \in HandoffCalls, WriteScaffold(c) \/ TestFails(c)  PROVE HandoffInv'
  <2>1. /\ work' \in [HandoffCalls -> Waiting] /\ \A e \in HandoffCalls \ {c} : work'[e] = work[e]
        /\ work'[c] = IdleTool
    BY <1>6, EndsTyped DEF WriteScaffold, TestFails
  <2>2. package' \in Packages
    <3>1. Scaffolded \in Packages /\ package \in Packages
      BY HandoffAssumption DEF Scaffolded, Packages, HandoffInv, HandoffTypeOK
    <3> QED  BY <1>6, <3>1 DEF WriteScaffold, TestFails
  <2>3. HandoffTypeOK'
    BY <1>6, <2>1, <2>2 DEF WriteScaffold, TestFails, HandoffInv, HandoffTypeOK
  <2> QED
    BY <1>6, <2>1, <2>3, IdleIsWait, HandoffFrame
    DEF WriteScaffold, TestFails, HandoffInv, PinsAreTested, Pinned
<1>7. CASE UNCHANGED handoffVars
  <2>1. HandoffTypeOK'
    BY <1>7 DEF handoffVars, HandoffInv, HandoffTypeOK
  <2> QED  BY <1>7, <2>1, HandoffFrame DEF handoffVars, HandoffInv, PinsAreTested, Pinned
<1> QED
  BY <1>1, <1>2, <1>3, <1>4, <1>5, <1>6, <1>7, TestPassesKeeps, ProposeKeeps, MutateKeeps
  DEF HandoffNext

\* Whatever is edited, and whenever, what the runtime loads of a capability with a pinned
\* version is that content, and one that a test passed on or that a caller named itself.
THEOREM InstalledTested == HandoffSpec => []InstalledIsTested
<1>1. HandoffInit => HandoffInv
  BY IdleIsWait
  DEF HandoffInit, HandoffInv, HandoffTypeOK, PinsAreTested, InstalledIsTested, Packages, NoPackage
<1>2. HandoffInv /\ [HandoffNext]_handoffVars => HandoffInv'
  BY HandoffStep
<1>3. HandoffInv => InstalledIsTested
  BY DEF HandoffInv
<1> QED  BY <1>1, <1>2, <1>3, PTL DEF HandoffSpec

-----------------------------------------------------------------------------
(* Sessions and their owners.  The code looks sessions up by the owner, or  *)
(* compares it, and no operation but the creation of a session, under an id *)
(* that none has, writes an owner.                                          *)

StoredSession == [owner: Identities, name: Names \cup {NoName}]

RoutingInv ==
  /\ DOMAIN sessions \subseteq SessionIds \cup Names
  /\ sessions \in [DOMAIN sessions -> StoredSession]
  /\ active \in [Identities -> SessionIds \cup Names \cup {NoSession}]
  /\ events \in Seq([by: Identities, session: SessionIds \cup Names \cup {NoSession}])
  /\ RoutedToOwner

\* What an operation of session-routing.ts does to the sessions for the one it is called for:
\* no session goes or changes hands, and the session s that it ends with is i's.
RoutingKeeps(i, s) ==
  /\ DOMAIN sessions \subseteq DOMAIN sessions'
  /\ DOMAIN sessions' \subseteq SessionIds \cup Names
  /\ sessions' \in [DOMAIN sessions' -> StoredSession]
  /\ \A t \in DOMAIN sessions : sessions'[t].owner = sessions[t].owner
  /\ s \in DOMAIN sessions' /\ sessions'[s].owner = i
  /\ active' = Activated(i, s)

LEMMA CreateKeeps ==
  ASSUME RoutingInv, NEW i \in Identities, NEW s \in (SessionIds \cup Names) \ DOMAIN sessions,
         NEW name \in Names \cup {NoName}, CreateSession(i, s, name)
  PROVE  RoutingKeeps(i, s)
<1> DEFINE new == [owner |-> i, name |-> name]
<1>1. /\ DOMAIN sessions' = DOMAIN sessions \cup {s}
      /\ sessions' = [t \in DOMAIN sessions \cup {s} |-> IF t = s THEN new ELSE sessions[t]]
  BY DEF CreateSession
<1>2. new \in StoredSession
  BY DEF StoredSession
<1>3. sessions'[s] = new /\ \A t \in DOMAIN sessions : sessions'[t] = sessions[t]
  BY <1>1
<1>4. new.owner = i
  OBVIOUS
<1> HIDE DEF new
<1> QED  BY <1>1, <1>2, <1>3, <1>4 DEF RoutingKeeps, RoutingInv, CreateSession

LEMMA ResumeKeeps ==
  ASSUME RoutingInv, NEW i \in Identities, NEW selector, NEW s, ResumeOwned(i, selector, s)
  PROVE  RoutingKeeps(i, s)
<1>1. s \in DOMAIN sessions /\ sessions[s].owner = i
  BY DEF ResumeOwned, FoundSessions, Owned, Named
<1> QED  BY <1>1 DEF RoutingKeeps, ResumeOwned, RoutingInv

\* The sessions of the events, and those that are active, stay their identities'.
LEMMA RoutedAfter ==
  ASSUME RoutingInv, NEW i \in Identities, NEW s \in SessionIds \cup Names, RoutingKeeps(i, s)
  PROVE  /\ active' \in [Identities -> SessionIds \cup Names \cup {NoSession}]
         /\ \A j \in Identities : active'[j] # NoSession => active'[j] \in Owned(j)'
         /\ \A n \in DOMAIN events :
              events[n].session # NoSession =>
                /\ events[n].session \in DOMAIN sessions'
                /\ sessions'[events[n].session].owner = events[n].by
<1>1. active' = active \/ active' = [active EXCEPT ![i] = s]
  BY DEF RoutingKeeps, Activated
<1>2. \A t \in DOMAIN sessions : t \in DOMAIN sessions' /\ sessions'[t].owner = sessions[t].owner
  BY DEF RoutingKeeps
<1>3. active' \in [Identities -> SessionIds \cup Names \cup {NoSession}]
  BY <1>1 DEF RoutingInv
<1>4. ASSUME NEW j \in Identities, active'[j] # NoSession
      PROVE  active'[j] \in DOMAIN sessions' /\ sessions'[active'[j]].owner = j
  <2>1. CASE active'[j] = active[j]
    BY <1>2, <1>4, <2>1 DEF RoutingInv, RoutedToOwner, Owned
  <2>2. CASE active'[j] # active[j]
    <3>1. j = i /\ active'[j] = s
      BY <1>1, <2>2 DEF RoutingInv
    <3> QED  BY <3>1 DEF RoutingKeeps
  <2> QED  BY <2>1, <2>2
<1>5. \A n \in DOMAIN events :
        events[n].session # NoSession =>
          /\ events[n].session \in DOMAIN sessions'
          /\ sessions'[events[n].session].owner = events[n].by
  BY <1>2 DEF RoutingInv, RoutedToOwner
<1> QED  BY <1>3, <1>4, <1>5 DEF Owned

\* An operation that records no event.
LEMMA QuietKeeps ==
  ASSUME RoutingInv, NEW i \in Identities, NEW s \in SessionIds \cup Names, RoutingKeeps(i, s),
         UNCHANGED events
  PROVE  RoutingInv'
BY RoutedAfter DEF RoutingInv, RoutedToOwner, RoutingKeeps

\* An operation that records one.
LEMMA RecordKeeps ==
  ASSUME RoutingInv, NEW i \in Identities, NEW s \in SessionIds \cup Names, RoutingKeeps(i, s),
         RecordEvent(i, s)
  PROVE  RoutingInv'
<1> DEFINE event == [by |-> i, session |-> s]
<1>1. event \in [by: Identities, session: SessionIds \cup Names \cup {NoSession}]
      /\ event.by = i /\ event.session = s
  OBVIOUS
<1>2. events' = Append(events, event)
  BY DEF RecordEvent
<1> HIDE DEF event
<1>3. /\ events' \in Seq([by: Identities, session: SessionIds \cup Names \cup {NoSession}])
      /\ \A n \in DOMAIN events' : (n \in DOMAIN events /\ events'[n] = events[n]) \/ events'[n] = event
  BY <1>1, <1>2 DEF RoutingInv
<1>4. s \in DOMAIN sessions' /\ sessions'[s].owner = i
  BY DEF RoutingKeeps
<1>5. \A n \in DOMAIN events' :
        events'[n].session # NoSession =>
          /\ events'[n].session \in DOMAIN sessions'
          /\ sessions'[events'[n].session].owner = events'[n].by
  BY <1>1, <1>3, <1>4, RoutedAfter
<1> QED  BY <1>3, <1>5, RoutedAfter DEF RoutingInv, RoutedToOwner, RoutingKeeps

\* One that changes neither sessions nor the events.
LEMMA SettingsKeep ==
  ASSUME RoutingInv, UNCHANGED <<sessions, active, events>>
  PROVE  RoutingInv'
BY DEF RoutingInv, RoutedToOwner, Owned

LEMMA GeneratedIsNew == \A s \in Generated : s \in (SessionIds \cup Names) \ DOMAIN sessions
BY DEF Generated

LEMMA FoundIsStored == ASSUME RoutingInv, NEW i \in Identities, NEW x, NEW s \in FoundSessions(i, x)
                       PROVE  s \in SessionIds \cup Names
BY DEF FoundSessions, Owned, Named, RoutingInv

LEMMA ResolvesKeeps ==
  ASSUME RoutingInv, NEW i \in Identities, NEW x \in Selectors, NEW s \in SessionIds \cup Names,
         Resolves(i, x, s)
  PROVE  RoutingKeeps(i, s)
<1>1. CASE ResumeOwned(i, x, s)
  BY <1>1, ResumeKeeps
<1>2. CASE NotFound(i, x) /\ s = x /\ CreateSession(i, s, NoName)
  BY <1>2, CreateKeeps DEF NotFound
<1>3. CASE s \in Generated /\ CreateSession(i, s, NoName)
  BY <1>3, CreateKeeps, GeneratedIsNew
<1> QED  BY <1>1, <1>2, <1>3 DEF Resolves

LEMMA RenameKeeps ==
  ASSUME RoutingInv, NEW i \in Identities, NEW x \in Selectors, NEW name \in Names, Rename(i, x, name)
  PROVE  RoutingInv'
<1>1. PICK s \in SessionIds \cup Names :
        /\ RecordEvent(i, s)
        /\ \/ /\ FoundSessions(i, x) = {s}
              /\ sessions' = [sessions EXCEPT ![s].name = name]
              /\ active' = Activated(i, s)
           \/ /\ \/ NotFound(i, x) /\ s = x
                 \/ s \in Generated
              /\ CreateSession(i, s, name)
  BY DEF Rename
<1>2. CASE /\ FoundSessions(i, x) = {s}
           /\ sessions' = [sessions EXCEPT ![s].name = name]
           /\ active' = Activated(i, s)
  <2>1. s \in DOMAIN sessions /\ sessions[s].owner = i
    BY <1>2 DEF FoundSessions, Owned, Named
  <2>2. [sessions[s] EXCEPT !.name = name] \in StoredSession
        /\ [sessions[s] EXCEPT !.name = name].owner = sessions[s].owner
    BY <2>1 DEF RoutingInv, StoredSession
  <2>3. /\ DOMAIN sessions' = DOMAIN sessions
        /\ sessions'[s] = [sessions[s] EXCEPT !.name = name]
        /\ \A t \in DOMAIN sessions \ {s} : sessions'[t] = sessions[t]
        /\ sessions' = [t \in DOMAIN sessions |-> sessions'[t]]
    BY <1>2, <2>1
  <2>4. sessions' \in [DOMAIN sessions' -> StoredSession]
    BY <2>1, <2>2, <2>3 DEF RoutingInv
  <2>5. RoutingKeeps(i, s)
    BY <1>2, <2>1, <2>2, <2>3, <2>4 DEF RoutingKeeps, RoutingInv
  <2> QED  BY <1>1, <2>5, RecordKeeps
<1>3. CASE /\ \/ NotFound(i, x) /\ s = x
              \/ s \in Generated
           /\ CreateSession(i, s, name)
  <2>1. s \in (SessionIds \cup Names) \ DOMAIN sessions
    BY <1>3, GeneratedIsNew DEF NotFound
  <2>2. RoutingKeeps(i, s)
    BY <1>3, <2>1, CreateKeeps
  <2> QED  BY <1>1, <2>2, RecordKeeps
<1> QED  BY <1>1, <1>2, <1>3

LEMMA RefuseKeeps ==
  ASSUME RoutingInv, NEW i \in Identities, Refuse(i)
  PROVE  RoutingInv'
<1> DEFINE event == [by |-> i, session |-> NoSession]
<1>1. event \in [by: Identities, session: SessionIds \cup Names \cup {NoSession}]
      /\ event.session = NoSession
  OBVIOUS
<1>2. events' = Append(events, event) /\ UNCHANGED <<sessions, active>>
  BY DEF Refuse, RecordEvent
<1> HIDE DEF event
<1>3. /\ events' \in Seq([by: Identities, session: SessionIds \cup Names \cup {NoSession}])
      /\ \A n \in DOMAIN events' : (n \in DOMAIN events /\ events'[n] = events[n]) \/ events'[n] = event
  BY <1>1, <1>2 DEF RoutingInv
<1> QED  BY <1>1, <1>2, <1>3 DEF RoutingInv, RoutedToOwner, Owned

LEMMA TelegramKeeps ==
  ASSUME RoutingInv, NEW i \in Identities, TelegramUpdate(i)
  PROVE  RoutingInv'
<1>1. PICK s \in SessionIds \cup Names :
        /\ IF active[i] # NoSession THEN ResumeOwned(i, active[i], s)
           ELSE s \in Generated /\ CreateSession(i, s, NoName)
        /\ RecordEvent(i, s)
  BY DEF TelegramUpdate
<1>2. RoutingKeeps(i, s)
  BY <1>1, ResumeKeeps, CreateKeeps, GeneratedIsNew
<1> QED  BY <1>1, <1>2, RecordKeeps

LEMMA RoutingStep ==
  ASSUME RoutingInv, [RoutingNext]_routingVars
  PROVE  RoutingInv'
<1>1. ASSUME NEW i \in Terminals, CreateRoute(i)  PROVE RoutingInv'
  <2>1. PICK s \in Generated : CreateSession(i, s, NoName)
    BY <1>1 DEF CreateRoute
  <2>2. i \in Identities /\ RoutingKeeps(i, s)
    BY <2>1, CreateKeeps, GeneratedIsNew DEF Terminals
  <2> QED  BY <1>1, <2>2, GeneratedIsNew, QuietKeeps DEF CreateRoute
<1>2. ASSUME NEW i \in Terminals, NEW x \in Selectors, ResumeSessionRoute(i, x)  PROVE RoutingInv'
  <2>1. PICK s \in SessionIds \cup Names :
          ResumeOwned(i, x, s) \/ (s \in Generated /\ CreateSession(i, s, NoName))
    BY <1>2, FoundIsStored, GeneratedIsNew DEF ResumeSessionRoute, Terminals
  <2>2. i \in Identities /\ RoutingKeeps(i, s)
    BY <2>1, CreateKeeps, ResumeKeeps, GeneratedIsNew DEF Terminals
  <2> QED  BY <1>2, <2>2, QuietKeeps DEF ResumeSessionRoute
<1>3. ASSUME NEW i \in Clients, Refuse(i)  PROVE RoutingInv'
  BY <1>3, RefuseKeeps DEF Clients
<1>4. ASSUME NEW i \in Clients, NEW x \in Selectors, Prompt(i, x)  PROVE RoutingInv'
  <2>1. PICK s \in SessionIds \cup Names : Resolves(i, x, s) /\ RecordEvent(i, s)
    BY <1>4 DEF Prompt
  <2> QED  BY <2>1, ResolvesKeeps, RecordKeeps DEF Clients
<1>5. ASSUME NEW i \in Clients, NEW x \in Selectors, NEW name \in Names, Rename(i, x, name)
      PROVE  RoutingInv'
  BY <1>5, RenameKeeps DEF Clients
<1>6. ASSUME NEW i \in Terminals, NEW name \in Names \cup {NoName}, NewSession(i, name)
      PROVE  RoutingInv'
  <2>1. PICK s \in Generated : CreateSession(i, s, name) /\ RecordEvent(i, s)
    BY <1>6 DEF NewSession
  <2>2. i \in Identities /\ RoutingKeeps(i, s)
    BY <2>1, CreateKeeps, GeneratedIsNew DEF Terminals
  <2> QED  BY <2>1, <2>2, GeneratedIsNew, RecordKeeps
<1>7. ASSUME ClientStep  PROVE RoutingInv'
  BY <1>1, <1>2, <1>3, <1>4, <1>5, <1>6, <1>7 DEF ClientStep
<1>8. ASSUME TelegramStep  PROVE RoutingInv'
  BY <1>8, TelegramKeeps, SettingsKeep DEF TelegramStep, Allow, Disallow, SetPolicy, SetGroup
<1>9. CASE UNCHANGED routingVars
  BY <1>9, SettingsKeep DEF routingVars
<1> QED  BY <1>7, <1>8, <1>9 DEF RoutingNext

\* For any identities, chats and names, no client, command or update reaches the session of
\* another identity, and no session changes hands.
THEOREM SessionsAreOwned == RoutingSpec => []RoutedToOwner
<1>1. RoutingInit => RoutingInv
  BY DEF RoutingInit, RoutingInv, RoutedToOwner
<1>2. RoutingInv /\ [RoutingNext]_routingVars => RoutingInv'
  BY RoutingStep
<1>3. RoutingInv => RoutedToOwner
  BY DEF RoutingInv
<1> QED  BY <1>1, <1>2, <1>3, PTL DEF RoutingSpec

-----------------------------------------------------------------------------
(* The index.  While no other progress is active, the rows of what a progress has     *)
(* stored are its own: what is left of its records says which those are.    *)

IndexRows == Documents \cup Additions
IndexPhases == {"idle", "embed", "open", "delete", "add", "list", "prune", "done", "failed"}
Storing == {"embed", "open", "delete", "add"}

\* What is left of a progress's records: no document twice.
Distinct(records) ==
  /\ records \in Seq(Documents)
  /\ \A i, j \in DOMAIN records : records[i] = records[j] => i = j

Writer == [pc: IndexPhases, records: Seq(IndexRows), keep: SUBSET Documents, stale: SUBSET Documents,
           alone: BOOLEAN]

\* What a progress that is alone has done so far, and what it has left to do.
RunProgress(progress, rows) ==
  LET left == Range(progress.records)
  IN  /\ Distinct(progress.records) /\ left \subseteq progress.keep
      /\ progress.pc \in Storing \cup {"list", "prune", "done"} =>
           \A id \in progress.keep \ left : rows[id] = 1
      /\ progress.pc = "add" => \A i \in DOMAIN progress.records : i <= BatchSize => rows[progress.records[i]] = 0
      /\ progress.pc \in {"list", "prune", "done"} => left = {}
      /\ progress.pc = "prune" =>
           /\ progress.stale \cap progress.keep = {}
           /\ \A id \in Documents \ (progress.keep \cup progress.stale) : rows[id] = 0
      /\ progress.pc = "done" => \A id \in Documents \ progress.keep : rows[id] = 0

IndexInv ==
  /\ disk \in [Files -> FileVersions \cup {Gone}]
  /\ table \in [IndexRows -> Nat]
  /\ writer \in [Writers -> Writer]
  /\ \A r \in IndexRuns :
       /\ Range(writer[r].records) \subseteq Documents
       /\ writer[r].alone =>
            /\ \A v \in IndexRuns \ {r} : ~Active(v)
            /\ writer[r].pc # "failed" => RunProgress(writer[r], table)
  /\ \A a \in Additions :
       /\ writer[a].pc \in Storing => writer[a].records = <<a>>
       /\ writer[a].pc \in Storing \cup {"idle", "done", "failed"}
       /\ writer[a].pc = "done" => table[a] > 0

\* SetToSeq lists a finite set, each element once.
LEMMA SetToSeqLists ==
  ASSUME NEW S, IsFiniteSet(S)
  PROVE  /\ SetToSeq(S) \in Seq(S) /\ Range(SetToSeq(S)) = S
         /\ \A i, j \in DOMAIN SetToSeq(S) : SetToSeq(S)[i] = SetToSeq(S)[j] => i = j
<1> DEFINE n == Cardinality(S)
           Lists(f) == f \in [1..n -> S] /\ IsInjective(f)
<1>1. n \in Nat /\ \E f : f \in Bijection(1..n, S)
  BY FS_CardinalityType DEF ExistsBijection
<1>2. \E f : Lists(f)
  BY <1>1 DEF Bijection, Injection, IsInjective
<1>3. SetToSeq(S) = CHOOSE f \in [1..n -> S] : IsInjective(f)
  BY DEF SetToSeq
<1>4. SetToSeq(S) \in [1..n -> S] /\ IsInjective(SetToSeq(S))
  BY <1>2, <1>3
<1>5. SetToSeq(S) \in Injection(1..n, S)
  BY <1>4 DEF Injection, IsInjective
<1>6. IsFiniteSet(1..n) /\ Cardinality(1..n) = n
  BY <1>1, FS_Interval
<1>7. SetToSeq(S) \in Surjection(1..n, S)
  BY <1>5, <1>6, FS_Injection
<1> HIDE DEF n
<1> QED  BY <1>1, <1>4, <1>7 DEF Surjection, Range, IsInjective

LEMMA FoundIsFinite ==
  ASSUME IndexInv, NEW readable \in SUBSET Present
  PROVE  LET found == {<<f, disk[f]>> : f \in readable}
         IN  IsFiniteSet(found) /\ found \subseteq Documents
<1> DEFINE found == {<<f, disk[f]>> : f \in readable}
           pairs == [f \in readable |-> <<f, disk[f]>>]
<1>1. IsFiniteSet(readable)
  BY IndexAssumption, FS_Subset DEF Present
<1>2. pairs \in Surjection(readable, found)
  BY DEF Surjection
<1>3. found \subseteq Documents
  BY DEF Documents, Present, IndexInv
<1> QED  BY <1>1, <1>2, <1>3, FS_Surjection

LEMMA ProgressOnDocuments ==
  ASSUME NEW progress \in Writer, NEW rows, NEW later, \A id \in Documents : later[id] = rows[id],
         RunProgress(progress, rows)
  PROVE  RunProgress(progress, later)
<1>1. \A i \in DOMAIN progress.records : progress.records[i] \in Documents
  BY DEF RunProgress, Distinct
<1> QED  BY <1>1 DEF RunProgress, Writer

\* A step of one writer that is active, or of an addition that begins: a progress that is alone
\* has no other beside it, and what an addition does is not to documents.
LEMMA WriterKeeps ==
  ASSUME IndexInv, NEW w \in Writers, NEW new \in Writer, writer' = [writer EXCEPT ![w] = new],
         disk' \in [Files -> FileVersions \cup {Gone}], table' \in [IndexRows -> Nat],
         w \in IndexRuns =>
           /\ Active(w)
           /\ \A id \in Additions : table'[id] = table[id]
           /\ Range(new.records) \subseteq Documents /\ new.alone = writer[w].alone
           /\ new.alone /\ new.pc # "failed" => RunProgress(new, table'),
         w \in Additions =>
           /\ \A id \in IndexRows \ {w} : table'[id] = table[id]
           /\ new.pc \in Storing => new.records = <<w>>
           /\ new.pc \in Storing \cup {"idle", "done", "failed"}
           /\ new.pc = "done" => table'[w] > 0
  PROVE  IndexInv'
<1>1. writer' \in [Writers -> Writer] /\ \A v \in Writers : writer'[v] = IF v = w THEN new ELSE writer[v]
  BY DEF IndexInv
<1>2. IndexRuns \subseteq Writers /\ Additions \subseteq Writers
  BY DEF Writers
<1>3. ASSUME NEW r \in IndexRuns
      PROVE  /\ Range(writer'[r].records) \subseteq Documents
             /\ writer'[r].alone =>
                  /\ \A v \in IndexRuns \ {r} : writer'[v].pc \in {"idle", "done", "failed"}
                  /\ writer'[r].pc # "failed" => RunProgress(writer'[r], table')
  <2>1. CASE r = w
    <3>1. new.alone => \A v \in IndexRuns \ {r} : writer[v].pc \in {"idle", "done", "failed"}
      BY <2>1, <1>2 DEF IndexInv, Active
    <3> QED  BY <1>1, <1>2, <2>1, <3>1
  <2>2. CASE r # w /\ w \in IndexRuns
    <3>1. writer'[r] = writer[r] /\ ~writer[r].alone
      BY <1>1, <1>2, <2>2 DEF IndexInv
    <3> QED  BY <3>1 DEF IndexInv
  <2>3. CASE r # w /\ w \in Additions
    <3>1. \A v \in IndexRuns : writer'[v] = writer[v]
      BY <1>1, <1>2, <2>3, IndexAssumption
    <3>2. \A id \in Documents : table'[id] = table[id]
      BY <2>3, IndexAssumption DEF IndexRows
    <3>3. writer[r] \in Writer
      BY <1>2 DEF IndexInv
    <3>4. RunProgress(writer[r], table) => RunProgress(writer[r], table')
      BY <3>2, <3>3, ProgressOnDocuments
    <3> QED  BY <3>1, <3>4 DEF IndexInv, Active
  <2> QED  BY <2>1, <2>2, <2>3 DEF Writers
<1>4. ASSUME NEW a \in Additions
      PROVE  /\ writer'[a].pc \in Storing => writer'[a].records = <<a>>
             /\ writer'[a].pc \in Storing \cup {"idle", "done", "failed"}
             /\ writer'[a].pc = "done" => table'[a] > 0
  <2>1. CASE a = w
    BY <1>1, <1>2, <2>1
  <2>2. CASE a # w
    <3>1. table'[a] = table[a]
      BY <2>2 DEF Writers, IndexRows
    <3> QED  BY <1>1, <1>2, <2>2, <3>1 DEF IndexInv
  <2> QED  BY <2>1, <2>2
<1> QED  BY <1>1, <1>3, <1>4 DEF IndexInv, Active

\* Steps that only move the program counter of an active writer.
LEMMA AdvanceKeeps ==
  ASSUME IndexInv, NEW w \in Writers, Active(w), NEW pc \in IndexPhases, writer' = WriterAt(w, pc),
         disk' \in [Files -> FileVersions \cup {Gone}], table' \in [IndexRows -> Nat],
         \A id \in IndexRows \ Batch(w) : table'[id] = table[id],
         \/ pc = "failed" /\ UNCHANGED table
         \/ writer[w].pc \in {"embed", "open", "delete"} /\ pc \in {"open", "delete", "add"},
         pc = "add" => \A id \in Batch(w) : table'[id] = 0
  PROVE  IndexInv'
<1> DEFINE new == [writer[w] EXCEPT !.pc = pc]
<1>1. writer[w] \in Writer /\ new \in Writer /\ writer' = [writer EXCEPT ![w] = new]
  BY DEF IndexInv, WriterAt, Writer
<1>2. new.pc = pc /\ new.records = writer[w].records /\ new.keep = writer[w].keep
      /\ new.stale = writer[w].stale /\ new.alone = writer[w].alone
  BY <1>1 DEF Writer
<1> HIDE DEF new
<1>3. Batch(w) \subseteq Range(writer[w].records)
  BY DEF Batch, Range
<1>4. ASSUME w \in IndexRuns
      PROVE  /\ \A id \in Additions : table'[id] = table[id]
             /\ Range(new.records) \subseteq Documents
             /\ new.alone /\ new.pc # "failed" => RunProgress(new, table')
  <2>1. Batch(w) \subseteq Documents /\ Range(new.records) \subseteq Documents
    BY <1>2, <1>3, <1>4 DEF IndexInv
  <2>2. \A id \in Additions : table'[id] = table[id]
    BY <2>1, IndexAssumption DEF IndexRows
  <2>3. ASSUME new.alone, new.pc # "failed"  PROVE RunProgress(new, table')
    <3>1. RunProgress(writer[w], table) /\ pc \in {"open", "delete", "add"} /\ writer[w].pc \in Storing
      BY <1>2, <1>4, <2>3 DEF IndexInv, Storing
    <3>2. \A id \in new.keep \ Range(new.records) : table'[id] = 1
      <4>1. new.keep \subseteq IndexRows
        BY <1>1 DEF Writer, IndexRows
      <4> QED  BY <1>2, <1>3, <3>1, <4>1 DEF RunProgress
    <3>3. pc = "add" => \A i \in DOMAIN new.records : i <= BatchSize => table'[new.records[i]] = 0
      BY <1>2 DEF Batch
    <3> QED  BY <1>2, <3>1, <3>2, <3>3 DEF RunProgress
  <2> QED  BY <2>1, <2>2, <2>3
<1>5. ASSUME w \in Additions
      PROVE  /\ \A id \in IndexRows \ {w} : table'[id] = table[id]
             /\ new.pc \in Storing => new.records = <<w>>
             /\ new.pc \in Storing \cup {"idle", "done", "failed"}
             /\ new.pc # "done"
  <2>1. writer[w].pc \in Storing /\ writer[w].records = <<w>>
    BY <1>5 DEF IndexInv, Active
  <2>2. Batch(w) \subseteq {w}
    BY <1>3, <2>1 DEF Range
  <2> QED  BY <1>2, <2>1, <2>2 DEF Storing, IndexPhases
<1> QED  BY <1>1, <1>2, <1>4, <1>5, WriterKeeps

LeftOf(records) == SubSeq(records, BatchSize + 1, Len(records))

\* What is left after a batch has been stored: the records behind it.
LEMMA LeftIsRest ==
  ASSUME NEW S, NEW records \in Seq(S)
  PROVE  /\ LeftOf(records) \in Seq(S)
         /\ \A i \in DOMAIN LeftOf(records) :
              i + BatchSize \in DOMAIN records /\ LeftOf(records)[i] = records[i + BatchSize]
         /\ \A i \in DOMAIN records :
              i > BatchSize => i - BatchSize \in DOMAIN LeftOf(records)
                               /\ LeftOf(records)[i - BatchSize] = records[i]
<1>1. BatchSize \in Nat \ {0} /\ Len(records) \in Nat /\ DOMAIN records = 1..Len(records)
  BY IndexAssumption
<1>2. \A i \in (BatchSize + 1)..Len(records) : records[i] \in S
  BY <1>1
<1>3. /\ LeftOf(records) \in Seq(S)
      /\ Len(LeftOf(records)) = IF BatchSize + 1 <= Len(records) THEN Len(records) - BatchSize ELSE 0
      /\ \A i \in 1..(Len(records) - BatchSize) : LeftOf(records)[i] = records[i + BatchSize]
  BY <1>1, <1>2, SubSeqProperties DEF LeftOf
<1>4. DOMAIN LeftOf(records) = 1..Len(LeftOf(records))
  BY <1>3
<1>5. ASSUME NEW i \in DOMAIN LeftOf(records)
      PROVE  i + BatchSize \in DOMAIN records /\ LeftOf(records)[i] = records[i + BatchSize]
  <2>1. i \in Nat /\ i >= 1 /\ i <= Len(records) - BatchSize
    BY <1>1, <1>3, <1>4
  <2>2. i \in 1..(Len(records) - BatchSize) /\ i + BatchSize \in 1..Len(records)
    BY <1>1, <2>1
  <2> QED  BY <1>1, <1>3, <2>2
<1>6. ASSUME NEW i \in DOMAIN records, i > BatchSize
      PROVE  i - BatchSize \in DOMAIN LeftOf(records) /\ LeftOf(records)[i - BatchSize] = records[i]
  <2>1. i - BatchSize \in 1..(Len(records) - BatchSize) /\ (i - BatchSize) + BatchSize = i
        /\ BatchSize + 1 <= Len(records)
    BY <1>1, <1>6
  <2>2. Len(LeftOf(records)) = Len(records) - BatchSize
    BY <1>3, <2>1
  <2> QED  BY <1>3, <1>4, <2>1, <2>2
<1> QED  BY <1>3, <1>5, <1>6

LEMMA AddRowsKeeps ==
  ASSUME IndexInv, NEW w \in Writers, AddRows(w)
  PROVE  IndexInv'
<1> DEFINE records == writer[w].records
           left == LeftOf(records)
           pc == IF w \in Additions THEN "done" ELSE IF left = <<>> THEN "list" ELSE "embed"
           new == [writer[w] EXCEPT !.pc = pc, !.records = left]
<1>1. writer[w] \in Writer /\ records \in Seq(IndexRows)
  BY DEF IndexInv, Writer
<1>2. left \in Seq(IndexRows)
  BY <1>1, LeftIsRest
<1>3. new \in Writer /\ writer' = [writer EXCEPT ![w] = new]
  BY <1>1, <1>2 DEF AddRows, LeftOf, IndexInv, Writer, IndexPhases
<1>4. /\ new.pc = pc /\ new.records = left /\ new.keep = writer[w].keep /\ new.alone = writer[w].alone
  BY <1>1 DEF Writer
<1>5. /\ table' \in [IndexRows -> Nat]
      /\ \A id \in IndexRows : table'[id] = IF id \in Batch(w) THEN table[id] + 1 ELSE table[id]
  BY DEF AddRows, IndexInv
<1>6. Batch(w) \subseteq Range(records)
  BY DEF Batch, Range
<1>7. Range(left) \subseteq Range(records)
  BY <1>1, LeftIsRest DEF Range
<1>8. ASSUME w \in IndexRuns
      PROVE  /\ \A id \in Additions : table'[id] = table[id]
             /\ Range(left) \subseteq Documents
             /\ new.alone /\ new.pc # "failed" => RunProgress(new, table')
  <2>1. Range(records) \subseteq Documents /\ Batch(w) \subseteq Documents
    BY <1>6, <1>8 DEF IndexInv
  <2>2. \A id \in Additions : table'[id] = table[id]
    BY <1>5, <2>1, IndexAssumption DEF IndexRows
  <2>3. ASSUME new.alone  PROVE RunProgress(new, table')
    <3>1. RunProgress(writer[w], table) /\ writer[w].pc = "add"
      BY <1>4, <1>8, <2>3 DEF IndexInv, AddRows
    <3>2. Distinct(records) /\ Distinct(left)
      <4>1. Distinct(records)
        BY <3>1 DEF RunProgress
      <4>2. left \in Seq(Documents)
        BY <4>1, LeftIsRest DEF Distinct
      <4>3. \A i \in DOMAIN left : i \in Nat /\ i + BatchSize \in DOMAIN records /\ left[i] = records[i + BatchSize]
        BY <1>1, <4>2, LeftIsRest
      <4>4. ASSUME NEW i \in DOMAIN left, NEW j \in DOMAIN left, left[i] = left[j]  PROVE i = j
        <5>1. i + BatchSize = j + BatchSize
          BY <4>1, <4>3, <4>4 DEF Distinct
        <5> QED  BY <4>3, <5>1, IndexAssumption
      <4> QED  BY <4>1, <4>2, <4>4 DEF Distinct
    <3>3. \A id \in Batch(w) : table'[id] = 1
      <4>1. \A id \in Batch(w) : table[id] = 0 /\ id \in IndexRows
        BY <1>1, <2>1, <3>1 DEF RunProgress, Batch, IndexRows
      <4> QED  BY <1>5, <4>1
    <3>4. \A id \in Range(records) \ Range(left) : id \in Batch(w)
      <4>1. ASSUME NEW i \in DOMAIN records, i > BatchSize  PROVE records[i] \in Range(left)
        BY <1>1, <4>1, LeftIsRest DEF Range
      <4> QED  BY <1>1, <4>1, IndexAssumption DEF Batch, Range
    <3>5. ASSUME NEW id \in new.keep \ Range(left)  PROVE table'[id] = 1
      <4>1. id \in IndexRows
        BY <1>1, <1>4, <3>5 DEF Writer, IndexRows
      <4>2. CASE id \in Batch(w)
        BY <3>3, <4>2
      <4>3. CASE id \notin Batch(w)
        <5>1. id \in writer[w].keep \ Range(records)
          BY <1>4, <3>4, <3>5, <4>3
        <5> QED  BY <1>5, <3>1, <4>1, <4>3, <5>1 DEF RunProgress, Storing
      <4> QED  BY <4>2, <4>3
    <3>6. w \notin Additions /\ (new.pc = "list" => Range(left) = {})
          /\ new.pc \in {"list", "embed"}
      BY <1>4, <1>8, IndexAssumption DEF Range
    <3>7. Range(left) \subseteq new.keep
      BY <1>4, <1>7, <3>1 DEF RunProgress
    <3> HIDE DEF new, left
    <3> QED  BY <1>4, <3>2, <3>5, <3>6, <3>7 DEF RunProgress
  <2> QED  BY <2>1, <2>2, <2>3, <1>7
<1>9. ASSUME w \in Additions
      PROVE  /\ \A id \in IndexRows \ {w} : table'[id] = table[id]
             /\ new.pc = "done" /\ table'[w] > 0
  <2>1. records = <<w>>
    BY <1>9 DEF IndexInv, AddRows, Storing
  <2>2. Batch(w) = {w}
    BY <2>1, IndexAssumption DEF Batch
  <2>3. table[w] \in Nat /\ w \in IndexRows
    BY <1>9 DEF IndexInv, IndexRows
  <2> QED  BY <1>4, <1>5, <1>9, <2>2, <2>3
<1>10. disk' \in [Files -> FileVersions \cup {Gone}] /\ Active(w)
  BY DEF AddRows, IndexInv, Active
<1> HIDE DEF new, left, pc
<1> QED  BY <1>3, <1>4, <1>5, <1>8, <1>9, <1>10, WriterKeeps DEF Storing

LEMMA ListPruneKeeps ==
  ASSUME IndexInv, NEW r \in IndexRuns, List(r) \/ Prune(r)
  PROVE  IndexInv'
<1>1. /\ r \in Writers /\ Active(r) /\ writer[r] \in Writer
      /\ writer[r].alone => RunProgress(writer[r], table)
      /\ Range(writer[r].records) \subseteq Documents
      /\ disk' \in [Files -> FileVersions \cup {Gone}] /\ r \notin Additions
  BY IndexAssumption DEF IndexInv, List, Prune, Writers, Active
<1>2. CASE List(r)
  <2> DEFINE stale == {id \in Documents \ writer[r].keep : table[id] > 0}
             new == [writer[r] EXCEPT !.pc = "prune", !.stale = stale]
  <2>1. new \in Writer /\ writer' = [writer EXCEPT ![r] = new]
    BY <1>1, <1>2 DEF List, IndexInv, Writer, IndexPhases
  <2>2. /\ new.pc = "prune" /\ new.records = writer[r].records /\ new.keep = writer[r].keep
        /\ new.alone = writer[r].alone /\ new.stale = stale
    BY <1>1 DEF Writer
  <2> HIDE DEF new
  <2>3. ASSUME new.alone  PROVE RunProgress(new, table)
    <3>1. RunProgress(writer[r], table) /\ writer[r].pc = "list"
      BY <1>1, <1>2, <2>2, <2>3 DEF List
    <3>2. \A id \in Documents \ (new.keep \cup new.stale) : table[id] = 0
      <4>1. \A id \in Documents : table[id] \in Nat
        BY DEF IndexInv, IndexRows
      <4> QED  BY <2>2, <4>1
    <3> QED  BY <2>2, <3>1, <3>2 DEF RunProgress
  <2>4. table' = table /\ table \in [IndexRows -> Nat]
    BY <1>2 DEF List, IndexInv
  <2> QED  BY <1>1, <2>1, <2>2, <2>3, <2>4, WriterKeeps
<1>3. CASE Prune(r)
  <2> DEFINE new == [writer[r] EXCEPT !.pc = "done"]
  <2>1. new \in Writer /\ writer' = [writer EXCEPT ![r] = new]
    BY <1>1, <1>3 DEF Prune, WriterAt, IndexInv, Writer, IndexPhases
  <2>2. /\ new.pc = "done" /\ new.records = writer[r].records /\ new.keep = writer[r].keep
        /\ new.alone = writer[r].alone /\ new.stale = writer[r].stale
    BY <1>1 DEF Writer
  <2> HIDE DEF new
  <2>3. /\ table' \in [IndexRows -> Nat]
        /\ \A id \in IndexRows : table'[id] = IF id \in writer[r].stale THEN 0 ELSE table[id]
    BY <1>3 DEF Prune, RemoveRows, IndexInv
  <2>4. writer[r].stale \subseteq Documents /\ \A id \in Additions : table'[id] = table[id]
    BY <1>1, <2>3, IndexAssumption DEF Writer, IndexRows
  <2>5. ASSUME new.alone  PROVE RunProgress(new, table')
    <3>1. RunProgress(writer[r], table) /\ writer[r].pc = "prune"
      BY <1>1, <1>3, <2>2, <2>5 DEF Prune
    <3>2. new.keep \subseteq Documents /\ Documents \subseteq IndexRows
      BY <1>1, <2>2 DEF Writer, IndexRows
    <3> QED  BY <2>2, <2>3, <3>1, <3>2 DEF RunProgress
  <2> QED  BY <1>1, <2>1, <2>2, <2>3, <2>4, <2>5, WriterKeeps
<1> QED  BY <1>2, <1>3

LEMMA BeginRunKeeps ==
  ASSUME IndexInv, NEW r \in IndexRuns, BeginRun(r)
  PROVE  IndexInv'
<1>1. PICK readable \in SUBSET Present :
        LET found == {<<f, disk[f]>> : f \in readable}
        IN  writer' = [w \in Writers |->
              IF w = r THEN [pc |-> IF found = {} THEN "list" ELSE "embed", records |-> SetToSeq(found),
                             keep |-> found, stale |-> {},
                             alone |-> \A v \in IndexRuns \ {r} : ~Active(v)]
              ELSE [writer[w] EXCEPT !.alone = FALSE]]
  BY DEF BeginRun
<1> DEFINE found == {<<f, disk[f]>> : f \in readable}
           new == [pc |-> IF found = {} THEN "list" ELSE "embed", records |-> SetToSeq(found),
                   keep |-> found, stale |-> {},
                   alone |-> \A v \in IndexRuns \ {r} : ~Active(v)]
<1>2. IsFiniteSet(found) /\ found \subseteq Documents
  BY FoundIsFinite
<1>3. writer' = [w \in Writers |-> IF w = r THEN new ELSE [writer[w] EXCEPT !.alone = FALSE]]
  BY <1>1
<1> HIDE DEF found
<1>4. /\ SetToSeq(found) \in Seq(found) /\ Range(SetToSeq(found)) = found
      /\ \A i, j \in DOMAIN SetToSeq(found) : SetToSeq(found)[i] = SetToSeq(found)[j] => i = j
  BY <1>2, SetToSeqLists
<1>5. SetToSeq(found) \in Seq(Documents) /\ SetToSeq(found) \in Seq(IndexRows)
  BY <1>2, <1>4, SeqMonotonic DEF IndexRows
<1>6. new \in Writer
  BY <1>2, <1>5 DEF Writer, IndexPhases
<1>7. new.alone => RunProgress(new, table) /\ \A v \in IndexRuns \ {r} : ~Active(v)
  BY <1>2, <1>4, <1>5 DEF RunProgress, Distinct, Storing
<1>8. new.records = SetToSeq(found)
  OBVIOUS
<1> HIDE DEF new
<1>9. \A w \in Writers : [writer[w] EXCEPT !.alone = FALSE] \in Writer
  BY DEF IndexInv, Writer
<1>10. writer' \in [Writers -> Writer]
  BY <1>3, <1>6, <1>9
<1>11. r \in Writers /\ IndexRuns \subseteq Writers /\ Additions \subseteq Writers /\ r \notin Additions
  BY IndexAssumption DEF Writers
<1>12. ASSUME NEW w \in Writers \ {r}
       PROVE  /\ writer'[w].alone = FALSE /\ writer'[w].pc = writer[w].pc
              /\ writer'[w].records = writer[w].records
  <2>1. writer'[w] = [writer[w] EXCEPT !.alone = FALSE] /\ writer[w] \in Writer
    BY <1>3 DEF IndexInv
  <2> QED  BY <2>1 DEF Writer
<1>13. writer'[r] = new
  BY <1>3, <1>11
<1>14. UNCHANGED <<disk, table>>
  BY DEF BeginRun
<1>15. ASSUME NEW s \in IndexRuns
       PROVE  /\ Range(writer'[s].records) \subseteq Documents
              /\ writer'[s].alone =>
                   /\ \A v \in IndexRuns \ {s} : writer'[v].pc \in {"idle", "done", "failed"}
                   /\ writer'[s].pc # "failed" => RunProgress(writer'[s], table)
  <2>1. CASE s = r
    BY <1>2, <1>4, <1>7, <1>8, <1>11, <1>12, <1>13, <2>1 DEF Active
  <2>2. CASE s # r
    BY <1>11, <1>12, <2>2 DEF IndexInv
  <2> QED  BY <2>1, <2>2
<1>16. ASSUME NEW a \in Additions
       PROVE  writer'[a].pc = writer[a].pc /\ writer'[a].records = writer[a].records
  BY <1>11, <1>12
<1> QED  BY <1>10, <1>14, <1>15, <1>16 DEF IndexInv, Active

LEMMA RestartKeeps ==
  ASSUME IndexInv, RestartIndexer
  PROVE  IndexInv'
<1>1. writer' = [w \in Writers |-> IF Active(w) THEN [writer[w] EXCEPT !.pc = "failed"] ELSE writer[w]]
      /\ UNCHANGED <<disk, table>>
  BY DEF RestartIndexer
<1>2. ASSUME NEW w \in Writers
      PROVE  /\ writer'[w] \in Writer
             /\ writer'[w].records = writer[w].records /\ writer'[w].alone = writer[w].alone
             /\ (writer'[w] = writer[w] /\ ~Active(w)) \/ writer'[w].pc = "failed"
  <2>1. writer[w] \in Writer
    BY DEF IndexInv
  <2>2. writer'[w] = IF Active(w) THEN [writer[w] EXCEPT !.pc = "failed"] ELSE writer[w]
    BY <1>1
  <2> QED  BY <2>1, <2>2 DEF Writer, IndexPhases
<1>3. writer' \in [Writers -> Writer]
  BY <1>1, <1>2
<1>4. IndexRuns \subseteq Writers /\ Additions \subseteq Writers
  BY DEF Writers
<1>5. \A w \in Writers : writer'[w].pc \in {"idle", "done", "failed"}
  BY <1>2 DEF Active
<1>6. ASSUME NEW s \in IndexRuns
      PROVE  /\ Range(writer'[s].records) \subseteq Documents
             /\ writer'[s].alone /\ writer'[s].pc # "failed" => RunProgress(writer'[s], table)
  BY <1>2, <1>4 DEF IndexInv
<1>7. ASSUME NEW a \in Additions
      PROVE  /\ writer'[a].pc \notin Storing
             /\ writer'[a].pc = "done" => table[a] > 0
  BY <1>2, <1>4, <1>5 DEF IndexInv, Storing
<1> QED  BY <1>1, <1>3, <1>4, <1>5, <1>6, <1>7 DEF IndexInv, Active, Storing

LEMMA IndexStep ==
  ASSUME IndexInv, [IndexNext]_indexVars
  PROVE  IndexInv'
<1>1. ASSUME NEW a \in Additions, AddKnowledge(a)  PROVE IndexInv'
  <2> DEFINE new == [writer[a] EXCEPT !.pc = "embed", !.records = <<a>>]
  <2>1. a \in Writers /\ a \in IndexRows /\ a \notin IndexRuns /\ writer[a] \in Writer
    BY IndexAssumption DEF Writers, IndexRows, IndexInv
  <2>2. <<a>> \in Seq(IndexRows)
    BY <2>1
  <2>3. new \in Writer /\ writer' = [writer EXCEPT ![a] = new]
    BY <1>1, <2>1, <2>2 DEF AddKnowledge, IndexInv, Writer, IndexPhases
  <2>4. new.pc = "embed" /\ new.records = <<a>>
    BY <2>1 DEF Writer
  <2>5. UNCHANGED <<disk, table>>
    BY <1>1 DEF AddKnowledge
  <2> HIDE DEF new
  <2> QED  BY <2>1, <2>3, <2>4, <2>5, WriterKeeps DEF Storing, IndexInv
<1>2. ASSUME NEW w \in Writers, EmbedBatch(w)  PROVE IndexInv'
  BY <1>2, AdvanceKeeps DEF EmbedBatch, Active, IndexPhases, IndexInv
<1>3. ASSUME NEW w \in Writers, Open(w)  PROVE IndexInv'
  <2>1. /\ table' \in [IndexRows -> Nat]
        /\ \A id \in IndexRows \ Batch(w) : table'[id] = table[id]
    BY <1>3 DEF Open, IndexInv
  <2> QED  BY <1>3, <2>1, AdvanceKeeps DEF Open, Active, IndexPhases, IndexInv
<1>4. ASSUME NEW w \in Writers, DeleteBatch(w)  PROVE IndexInv'
  <2>1. Batch(w) \subseteq IndexRows
    BY DEF Batch, IndexInv, Writer
  <2>2. /\ table' \in [IndexRows -> Nat]
        /\ \A id \in IndexRows \ Batch(w) : table'[id] = table[id]
        /\ \A id \in Batch(w) : table'[id] = 0
    BY <1>4, <2>1 DEF DeleteBatch, RemoveRows, IndexInv
  <2> QED  BY <1>4, <2>2, AdvanceKeeps DEF DeleteBatch, Active, IndexPhases, IndexInv
<1>5. ASSUME NEW w \in Writers, Fail(w)  PROVE IndexInv'
  BY <1>5, AdvanceKeeps DEF Fail, IndexPhases, IndexInv
<1>6. ASSUME NEW f \in Files, Change(f)  PROVE IndexInv'
  <2>1. UNCHANGED <<table, writer>> /\ disk' \in [Files -> FileVersions \cup {Gone}]
    BY <1>6 DEF Change, IndexInv
  <2> QED  BY <2>1 DEF IndexInv, Active
<1>7. CASE UNCHANGED indexVars
  BY <1>7 DEF indexVars, IndexInv, Active
<1> QED
  BY <1>1, <1>2, <1>3, <1>4, <1>5, <1>6, <1>7, BeginRunKeeps, ListPruneKeeps, AddRowsKeeps, RestartKeeps
  DEF IndexNext

\* For any runs, files and batches, a progress that no other overlapped leaves exactly the rows
\* of what it read, whatever the runs before it left, and an answered addition is there.
THEOREM IndexesAreExact == IndexSpec => []IndexIsExact
<1>1. IndexInit => IndexInv
  <2> SUFFICES ASSUME IndexInit  PROVE IndexInv
    OBVIOUS
  <2>1. IdleWriter \in Writer /\ IdleWriter.pc = "idle" /\ IdleWriter.alone = FALSE
        /\ IdleWriter.records = <<>>
    BY DEF IdleWriter, Writer, IndexPhases
  <2>2. Range(<<>>) = {}
    BY DEF Range
  <2>3. \A w \in Writers : writer[w] = IdleWriter
    BY DEF IndexInit
  <2>4. writer \in [Writers -> Writer] /\ table \in [IndexRows -> Nat]
    BY <2>1 DEF IndexInit, IndexRows
  <2> QED  BY <2>1, <2>2, <2>3, <2>4 DEF IndexInit, IndexInv, Writers, Storing
<1>2. IndexInv /\ [IndexNext]_indexVars => IndexInv'
  BY IndexStep
<1>3. IndexInv => IndexIsExact
  <2> SUFFICES ASSUME IndexInv, NEW r \in IndexRuns, writer[r].pc = "done", writer[r].alone,
                      NEW id \in Documents
               PROVE  table[id] = IF id \in writer[r].keep THEN 1 ELSE 0
    BY DEF IndexInv, IndexIsExact
  <2>1. RunProgress(writer[r], table)
    BY DEF IndexInv
  <2> QED  BY <2>1 DEF RunProgress, Storing
<1> QED  BY <1>1, <1>2, <1>3, PTL DEF IndexSpec

-----------------------------------------------------------------------------
(* Recursive functions: what is computed over 0..N step by step exists, and  *)
(* stays in a set that every step stays in.  By induction over the naturals  *)
(* (SetInduction, from their well-foundedness).                              *)

LEMMA LeastNatural ==
  ASSUME NEW S, S \subseteq Nat, S # {}
  PROVE  \E n \in S : \A m \in S : n <= m
<1>1. PICK n \in S : \A m \in S : ~(<<m, n>> \in OpToRel(<, Nat))
  BY NatLessThanWellFounded, WFMin
<1>2. ASSUME NEW m \in S  PROVE n <= m
  <2>1. m \in Nat /\ n \in Nat
    OBVIOUS
  <2>2. ~(m < n)
    BY <1>1, <2>1 DEF OpToRel
  <2> QED  BY <2>1, <2>2
<1> QED BY <1>2

LEMMA SetInduction ==
  ASSUME NEW S, 0 \in S, \A n \in Nat : n \in S => n + 1 \in S
  PROVE  Nat \subseteq S
<1> SUFFICES ASSUME Nat \ S # {} PROVE FALSE
  OBVIOUS
<1>1. PICK n \in Nat \ S : \A m \in Nat \ S : n <= m
  BY LeastNatural
<1>2. n # 0
  BY <1>1
<1>3. n - 1 \in Nat /\ n - 1 \in S
  BY <1>1, <1>2
<1> QED BY <1>1, <1>3

\* A function on 0..N that each value gives the next one of.
Follows(f, N, v, next) == f[0] = v /\ \A n \in 1..N : f[n] = next[<<n, f[n - 1]>>]

LEMMA RecursionExists ==
  ASSUME NEW N \in Nat, NEW V, NEW v \in V, NEW next \in [(1..N) \X V -> V]
  PROVE  \E f \in [0..N -> V] : Follows(f, N, v, next)
<1> USE DEF Follows
<1> DEFINE S == {k \in Nat : k <= N => \E f \in [0..k -> V] : Follows(f, k, v, next)}
<1>1. 0 \in S
  <2> DEFINE f == [n \in 0..0 |-> v]
  <2>1. f \in [0..0 -> V] /\ Follows(f, 0, v, next)
    OBVIOUS
  <2> QED  BY <2>1
<1>2. \A k \in Nat : k \in S => k + 1 \in S
  <2> SUFFICES ASSUME NEW k \in Nat, k + 1 <= N, NEW f \in [0..k -> V], Follows(f, k, v, next)
               PROVE  \E g \in [0..(k + 1) -> V] : Follows(g, k + 1, v, next)
    OBVIOUS
  <2> DEFINE w == next[<<k + 1, f[k]>>]
             g == [n \in 0..(k + 1) |-> IF n <= k THEN f[n] ELSE w]
  <2>1. w \in V
    <3>1. <<k + 1, f[k]>> \in (1..N) \X V
      OBVIOUS
    <3> QED  BY <3>1
  <2>2. /\ g \in [0..(k + 1) -> V] /\ g[k + 1] = w
        /\ \A n \in 0..k : g[n] = f[n]
    <3> HIDE DEF w
    <3> QED  BY <2>1
  <2> HIDE DEF g
  <2>3. ASSUME NEW n \in 1..(k + 1)  PROVE g[n] = next[<<n, g[n - 1]>>]
    <3>1. n - 1 \in 0..k /\ g[n - 1] = f[n - 1]
      BY <2>2
    <3>2. CASE n = k + 1
      BY <2>2, <3>1, <3>2
    <3>3. CASE n # k + 1
      <4>1. n \in 1..k /\ n \in 0..k
        BY <3>3
      <4> QED  BY <2>2, <3>1, <4>1
    <3> QED  BY <3>2, <3>3
  <2>4. g[0] = v
    BY <2>2
  <2> QED  BY <2>2, <2>3, <2>4
<1>3. N \in S
  BY <1>1, <1>2, SetInduction
<1> QED BY <1>3


LEMMA StaysIn ==
  ASSUME NEW N \in Nat, NEW V, NEW g, g[0] \in V, \A n \in 1..N : g[n - 1] \in V => g[n] \in V
  PROVE  \A n \in 0..N : g[n] \in V
<1> DEFINE S == {n \in Nat : n <= N => g[n] \in V}
<1>1. 0 \in S
  OBVIOUS
<1>2. \A n \in Nat : n \in S => n + 1 \in S
  <2> SUFFICES ASSUME NEW n \in Nat, g[n] \in V, n + 1 <= N  PROVE g[n + 1] \in V
    OBVIOUS
  <2> DEFINE m == n + 1
  <2>1. m \in 1..N /\ m - 1 = n
    OBVIOUS
  <2> HIDE DEF m
  <2>2. g[m] \in V
    BY <2>1
  <2> QED  BY <2>2 DEF m
<1>3. Nat \subseteq S
  <2> HIDE DEF S
  <2> QED  BY <1>1, <1>2, SetInduction
<1> QED  BY <1>3

InStep(f, g, N) == f[0] = g[0] /\ \A n \in 1..N : f[n - 1] = g[n - 1] => f[n] = g[n]

LEMMA StepwiseSame ==
  ASSUME NEW N \in Nat, NEW f, NEW g, InStep(f, g, N)
  PROVE  \A n \in 0..N : f[n] = g[n]
<1> USE DEF InStep
<1> DEFINE S == {n \in Nat : n <= N => f[n] = g[n]}
<1>1. 0 \in S
  OBVIOUS
<1>2. \A n \in Nat : n \in S => n + 1 \in S
  <2> SUFFICES ASSUME NEW n \in Nat, f[n] = g[n], n + 1 <= N  PROVE f[n + 1] = g[n + 1]
    OBVIOUS
  <2> DEFINE m == n + 1
  <2>1. m \in 1..N /\ m - 1 = n
    OBVIOUS
  <2> HIDE DEF m
  <2>2. f[m] = g[m]
    BY <2>1
  <2> QED  BY <2>2 DEF m
<1>3. Nat \subseteq S
  <2> HIDE DEF S
  <2> QED  BY <1>1, <1>2, SetInduction
<1> QED  BY <1>3

-----------------------------------------------------------------------------
(* Telemetry.  A summary is computed from the events of a run one by one, so  *)
(* another event adds one or none at its end (SummariesAppend), and what the  *)
(* store keeps, cut at its front, stays an end of it.                         *)

\* What is kept of a sequence of heard.
Summarized == Seq(Kinds \ {"delta"})
KeptFrom(type, before) == IF ShouldKeepEvent(type) THEN Append(before, type) ELSE before
IsSummary(heard, N, f) ==
  f = [n \in 0..N |-> IF n = 0 THEN <<>> ELSE KeptFrom(heard[n], f[n - 1])]

LEMMA KeptIsSummarized ==
  ASSUME NEW type \in Kinds, NEW before \in Summarized
  PROVE  KeptFrom(type, before) \in Summarized
BY DEF KeptFrom, ShouldKeepEvent, Summarized

LEMMA SummaryIs ==
  ASSUME NEW heard \in Seq(Kinds)
  PROVE  \E f \in [0..Len(heard) -> Summarized] :
           /\ f[0] = <<>> /\ \A n \in 1..Len(heard) : f[n] = KeptFrom(heard[n], f[n - 1])
           /\ Summaries(heard) = f[Len(heard)]
<1> DEFINE N == Len(heard)
           next == [p \in (1..N) \X Summarized |-> KeptFrom(heard[p[1]], p[2])]
           g == CHOOSE f : IsSummary(heard, N, f)
<1>1. N \in Nat
  OBVIOUS
<1>2. next \in [(1..N) \X Summarized -> Summarized]
  BY KeptIsSummarized
<1>3. <<>> \in Summarized
  BY DEF Summarized
<1>4. PICK f \in [0..N -> Summarized] : f[0] = <<>> /\ \A n \in 1..N : f[n] = next[<<n, f[n - 1]>>]
  <2> HIDE DEF N, next, g
  <2>1. \E f \in [0..N -> Summarized] : Follows(f, N, <<>>, next)
    BY <1>1, <1>2, <1>3, RecursionExists
  <2> QED  BY <2>1 DEF Follows
<1>5. \A n \in 1..N : f[n] = KeptFrom(heard[n], f[n - 1])
  <2> SUFFICES ASSUME NEW n \in 1..N  PROVE f[n] = KeptFrom(heard[n], f[n - 1])
    OBVIOUS
  <2>1. <<n, f[n - 1]>> \in (1..N) \X Summarized
    BY <1>1
  <2> QED  BY <1>4, <2>1
<1>6. IsSummary(heard, N, f)
  <2> DEFINE h == [n \in 0..N |-> IF n = 0 THEN <<>> ELSE KeptFrom(heard[n], f[n - 1])]
  <2>1. \A n \in 0..N : f[n] = h[n]
    BY <1>1, <1>4, <1>5
  <2>2. f = h
    <3>1. f = [n \in 0..N |-> f[n]] /\ h = [n \in 0..N |-> h[n]]
      OBVIOUS
    <3> HIDE DEF h
    <3> QED  BY <2>1, <3>1
  <2> QED  BY <2>2 DEF IsSummary
<1>7. Summaries(heard) = g[N]
  BY DEF Summaries, IsSummary, KeptFrom
<1>8. IsSummary(heard, N, g)
  <2> HIDE DEF N
  <2> QED  BY <1>6
<1> HIDE DEF g, next, N
<1>9. g = [n \in 0..N |-> IF n = 0 THEN <<>> ELSE KeptFrom(heard[n], g[n - 1])]
  BY <1>8 DEF IsSummary
<1>10. \A n \in 0..N : g[n] = f[n]
  <2> DEFINE S == {n \in Nat : n <= N => g[n] = f[n]}
  <2>1. 0 \in S
    BY <1>1, <1>4, <1>9
  <2>2. \A n \in Nat : n \in S => n + 1 \in S
    <3> SUFFICES ASSUME NEW n \in Nat, g[n] = f[n], n + 1 <= N  PROVE g[n + 1] = f[n + 1]
      BY <1>1
    <3> DEFINE m == n + 1
    <3>1. m \in 0..N /\ m # 0 /\ m - 1 = n /\ m \in 1..N
      BY <1>1
    <3> HIDE DEF m
    <3>2. g[m] = KeptFrom(heard[m], g[m - 1]) /\ f[m] = KeptFrom(heard[m], f[m - 1])
      BY <1>5, <1>9, <3>1
    <3>3. g[m] = f[m]
      BY <3>1, <3>2
    <3> QED  BY <3>3 DEF m
  <2>3. Nat \subseteq S
    <3> HIDE DEF S
    <3> QED  BY <2>1, <2>2, SetInduction
  <2> QED  BY <1>1, <2>3
<1>11. Summaries(heard) = f[N]
  BY <1>1, <1>7, <1>10
<1> QED  BY <1>4, <1>5, <1>11 DEF N

\* Another event adds its summary, or nothing.
LEMMA SummariesAppend ==
  ASSUME NEW heard \in Seq(Kinds), NEW type \in Kinds
  PROVE  /\ Summaries(heard) \in Summarized
         /\ Summaries(Append(heard, type)) = KeptFrom(type, Summaries(heard))
<1> DEFINE N == Len(heard)
           more == Append(heard, type)
<1>1. N \in Nat /\ more \in Seq(Kinds) /\ Len(more) = N + 1 /\ more[N + 1] = type
      /\ \A n \in 1..N : more[n] = heard[n]
  OBVIOUS
<1>2. PICK f \in [0..N -> Summarized] :
        /\ f[0] = <<>> /\ \A n \in 1..N : f[n] = KeptFrom(heard[n], f[n - 1])
        /\ Summaries(heard) = f[N]
  BY SummaryIs
<1>3. PICK g \in [0..(N + 1) -> Summarized] :
        /\ g[0] = <<>> /\ \A n \in 1..(N + 1) : g[n] = KeptFrom(more[n], g[n - 1])
        /\ Summaries(more) = g[N + 1]
  <2> HIDE DEF more, N
  <2> QED  BY <1>1, SummaryIs
<1> HIDE DEF more, N
<1>4. g[N] = f[N]
  <2> DEFINE S == {n \in Nat : n <= N => g[n] = f[n]}
  <2>1. 0 \in S
    BY <1>2, <1>3
  <2>2. \A n \in Nat : n \in S => n + 1 \in S
    <3> SUFFICES ASSUME NEW n \in Nat, g[n] = f[n], n + 1 <= N  PROVE g[n + 1] = f[n + 1]
      BY <1>1
    <3> DEFINE m == n + 1
    <3>1. m \in 1..N /\ m \in 1..(N + 1) /\ m - 1 = n
      BY <1>1
    <3> HIDE DEF m
    <3>2. g[m] = KeptFrom(more[m], g[m - 1]) /\ f[m] = KeptFrom(heard[m], f[m - 1])
      BY <1>2, <1>3, <3>1
    <3>3. g[m] = f[m]
      BY <1>1, <3>1, <3>2
    <3> QED  BY <3>3 DEF m
  <2>3. Nat \subseteq S
    <3> HIDE DEF S
    <3> QED  BY <2>1, <2>2, SetInduction
  <2> QED  BY <1>1, <2>3
<1>5. g[N + 1] = KeptFrom(type, g[N])
  <2> DEFINE m == N + 1
  <2>1. m \in 1..(N + 1) /\ m - 1 = N
    BY <1>1
  <2> HIDE DEF m
  <2>2. g[m] = KeptFrom(more[m], g[m - 1])
    BY <1>3, <2>1
  <2>3. more[m] = type
    BY <1>1 DEF m
  <2>4. g[m] = KeptFrom(type, g[N])
    BY <2>1, <2>2, <2>3
  <2> QED  BY <2>4 DEF m
<1> QED  BY <1>1, <1>2, <1>3, <1>4, <1>5 DEF N, more

-----------------------------------------------------------------------------
\* The end of a sequence.
EndOf(s, t) == Len(s) <= Len(t) /\ \A i \in 1..Len(s) : s[i] = t[Len(t) - Len(s) + i]

LEMMA EndIsSuffix ==
  ASSUME NEW S, NEW s \in Seq(S), NEW t \in Seq(S), EndOf(s, t)
  PROVE  IsSuffix(s, t)
<1> DEFINE p == Reverse(s)
           q == Reverse(t)
<1>1. p \in Seq(S) /\ Len(p) = Len(s) /\ \A i \in 1..Len(s) : p[i] = s[Len(s) - i + 1]
  BY DEF Reverse
<1>2. q \in Seq(S) /\ Len(q) = Len(t) /\ \A i \in 1..Len(t) : q[i] = t[Len(t) - i + 1]
  BY DEF Reverse
<1> HIDE DEF p, q
<1>3. \A i \in 1..Len(s) : p[i] = q[i]
  <2> SUFFICES ASSUME NEW i \in 1..Len(s)  PROVE p[i] = q[i]
    OBVIOUS
  <2>1. Len(s) - i + 1 \in 1..Len(s) /\ i \in 1..Len(t)
    BY DEF EndOf
  <2>2. s[Len(s) - i + 1] = t[Len(t) - Len(s) + (Len(s) - i + 1)]
    BY <2>1 DEF EndOf
  <2>3. Len(t) - Len(s) + (Len(s) - i + 1) = Len(t) - i + 1
    BY DEF EndOf
  <2> QED  BY <1>1, <1>2, <2>1, <2>2, <2>3
<1>4. SubSeq(p, 1, Len(p)) = SubSeq(q, 1, Len(p))
  BY <1>1, <1>2, <1>3 DEF EndOf
<1>5. IsPrefix(p, q)
  BY <1>1, <1>2, <1>4 DEF IsPrefix, EndOf
<1> QED  BY <1>5 DEF IsSuffix, p, q

LEMMA EndTakes ==
  ASSUME NEW S, NEW s \in Seq(S), NEW t \in Seq(S), EndOf(s, t), NEW e \in S
  PROVE  EndOf(Append(s, e), Append(t, e))
BY DEF EndOf

LEMMA EndTrims ==
  ASSUME NEW S, NEW s \in Seq(S), NEW t \in Seq(S), EndOf(s, t), NEW max \in Nat
  PROVE  /\ EndOf(TrimArray(s, max), t) /\ TrimArray(s, max) \in Seq(S)
         /\ Len(TrimArray(s, max)) = IF Len(s) > max THEN max ELSE Len(s)
         /\ s # <<>> /\ max # 0 => TrimArray(s, max)[Len(TrimArray(s, max))] = s[Len(s)]
<1>1. CASE Len(s) > max
  <2> DEFINE u == SubSeq(s, Len(s) - max + 1, Len(s))
  <2>1. u \in Seq(S) /\ Len(u) = max /\ \A i \in 1..max : u[i] = s[Len(s) - max + i]
    BY <1>1
  <2>2. TrimArray(s, max) = u
    BY <1>1 DEF TrimArray
  <2> HIDE DEF u
  <2>3. ASSUME NEW i \in 1..max  PROVE u[i] = t[Len(t) - max + i]
    <3>1. Len(s) - max + i \in 1..Len(s)
      BY <1>1
    <3>2. Len(t) - Len(s) + (Len(s) - max + i) = Len(t) - max + i
      OBVIOUS
    <3> QED  BY <2>1, <3>1, <3>2 DEF EndOf
  <2>4. EndOf(u, t)
    BY <1>1, <2>1, <2>3 DEF EndOf
  <2>5. s # <<>> /\ max # 0 => u[Len(u)] = s[Len(s)]
    BY <1>1, <2>1
  <2> QED  BY <1>1, <2>1, <2>2, <2>4, <2>5
<1>2. CASE ~(Len(s) > max)
  BY <1>2 DEF TrimArray
<1> QED  BY <1>1, <1>2

-----------------------------------------------------------------------------
TelemetryInv ==
  /\ happened \in [Runs -> Seq(Kinds)]
  /\ kept \in [Runs -> Summarized]
  /\ order \in Seq(Runs) /\ Len(order) <= MaxRuns
  /\ \A r \in Runs : r \in ToSet(order) <=> kept[r] # <<>>
  /\ \A r \in Runs : EndOf(kept[r], Summaries(happened[r]))
  /\ latest \in Runs \cup {NoRun}
  /\ latest # NoRun => kept[latest] # <<>>
  /\ unscoped \in 0..MaxUnscoped
  /\ mutations \in 0..MaxMutations

LEMMA Nonempty == \A S : \A s \in Seq(S) : s # <<>> <=> Len(s) > 0
BY EmptySeq

LEMMA KeyStays ==
  ASSUME TelemetryInv, NEW r \in Runs, NEW keys,
         keys = TrimRuns(IF r \in ToSet(order) THEN order ELSE Append(order, r))
  PROVE  /\ keys \in Seq(Runs) /\ Len(keys) <= MaxRuns
         /\ r \in ToSet(keys) /\ ToSet(keys) \subseteq ToSet(order) \cup {r}
<1>1. MaxRuns \in Nat \ {0}
  BY TelemetryAssumption
<1>2. CASE r \in ToSet(order)
  BY <1>1, <1>2 DEF TelemetryInv, TrimRuns, TrimArray
<1>3. CASE r \notin ToSet(order)
  <2> DEFINE all == Append(order, r)
  <2>1. /\ all \in Seq(Runs) /\ all # <<>> /\ all[Len(all)] = r
        /\ \A i \in 1..Len(all) : all[i] \in ToSet(order) \cup {r}
    BY DEF TelemetryInv, ToSet
  <2>2. keys = TrimArray(all, MaxRuns)
    BY <1>3 DEF TrimRuns
  <2> HIDE DEF all
  <2>3. EndOf(all, all)
    BY <2>1 DEF EndOf
  <2>4. /\ EndOf(keys, all) /\ keys \in Seq(Runs) /\ Len(keys) = IF Len(all) > MaxRuns THEN MaxRuns ELSE Len(all)
        /\ keys[Len(keys)] = r
    BY <1>1, <2>1, <2>2, <2>3, EndTrims
  <2>5. Len(all) \in Nat \ {0}
    BY <2>1, Nonempty
  <2>6. Len(keys) \in 1..MaxRuns /\ Len(keys) \in DOMAIN keys
    BY <1>1, <2>4, <2>5
  <2>7. \A i \in DOMAIN keys : keys[i] \in ToSet(order) \cup {r}
    <3> SUFFICES ASSUME NEW i \in 1..Len(keys)  PROVE keys[i] \in ToSet(order) \cup {r}
      BY <2>4
    <3>1. Len(all) - Len(keys) + i \in 1..Len(all)
      BY <1>1, <2>1, <2>4, <2>5, <2>6
    <3> QED  BY <2>1, <2>4, <3>1 DEF EndOf
  <2>8. r \in ToSet(keys)
    BY <2>4, <2>6 DEF ToSet
  <2>9. ToSet(keys) \subseteq ToSet(order) \cup {r}
    BY <2>7 DEF ToSet
  <2> QED  BY <2>4, <2>6, <2>8, <2>9
<1> QED  BY <1>2, <1>3

LEMMA EventKeeps ==
  ASSUME TelemetryInv, NEW r \in Runs, NEW k \in Kinds, RecordRun(r, k)
  PROVE  TelemetryInv'
<1> DEFINE grown == Append(happened[r], k)
<1>1. /\ happened' = [happened EXCEPT ![r] = grown] /\ unscoped' = unscoped /\ mutations' = mutations
  BY DEF RecordRun, TelemetryInv
<1>2. /\ happened[r] \in Seq(Kinds) /\ grown \in Seq(Kinds)
      /\ Summaries(happened[r]) \in Summarized /\ Summaries(grown) = KeptFrom(k, Summaries(happened[r]))
      /\ Summaries(grown) \in Summarized
  BY SummariesAppend, KeptIsSummarized DEF TelemetryInv
<1>3. /\ happened' \in [Runs -> Seq(Kinds)] /\ happened'[r] = grown
      /\ \A q \in Runs : q # r => happened'[q] = happened[q]
  BY <1>1, <1>2 DEF TelemetryInv
<1> HIDE DEF grown
<1>4. CASE ~ShouldKeepEvent(k)
  <2>1. UNCHANGED <<order, kept, latest>>
    BY <1>4 DEF RecordRun
  <2>2. Summaries(grown) = Summaries(happened[r])
    BY <1>2, <1>4 DEF KeptFrom
  <2>3. \A q \in Runs : EndOf(kept'[q], Summaries(happened'[q]))
    BY <1>3, <2>1, <2>2 DEF TelemetryInv
  <2> QED  BY <1>1, <1>3, <2>1, <2>3 DEF TelemetryInv
<1>5. CASE ShouldKeepEvent(k)
  <2> DEFINE more == Append(kept[r], k)
             new == TrimArray(more, MaxEvents)
  <2>1. /\ order' = TrimRuns(IF r \in ToSet(order) THEN order ELSE Append(order, r))
        /\ kept' = [q \in Runs |-> IF q \notin ToSet(order') THEN <<>> ELSE IF q = r THEN new ELSE kept[q]]
        /\ latest' = r
    BY <1>5 DEF RecordRun
  <2>2. /\ order' \in Seq(Runs) /\ Len(order') <= MaxRuns
        /\ r \in ToSet(order') /\ ToSet(order') \subseteq ToSet(order) \cup {r}
    BY <2>1, KeyStays
  <2>3. MaxEvents \in Nat \ {0}
    BY TelemetryAssumption
  <2>4. k \in Kinds \ {"delta"} /\ Summaries(grown) = Append(Summaries(happened[r]), k)
    BY <1>2, <1>5 DEF ShouldKeepEvent, KeptFrom
  <2>5. more \in Summarized /\ EndOf(more, Summaries(grown)) /\ more # <<>>
    <3>1. kept[r] \in Summarized /\ EndOf(kept[r], Summaries(happened[r]))
      BY DEF TelemetryInv
    <3>2. EndOf(more, Append(Summaries(happened[r]), k))
      BY <1>2, <2>4, <3>1, EndTakes DEF Summarized
    <3>3. more \in Summarized /\ Len(more) > 0
      BY <2>4, <3>1 DEF Summarized
    <3> QED  BY <2>4, <3>2, <3>3
  <2> HIDE DEF more
  <2>6. EndOf(new, Summaries(grown)) /\ new \in Summarized /\ new # <<>>
    <3>1. /\ EndOf(new, Summaries(grown)) /\ new \in Summarized
          /\ Len(new) = IF Len(more) > MaxEvents THEN MaxEvents ELSE Len(more)
      BY <1>2, <2>3, <2>5, EndTrims DEF Summarized
    <3>2. Len(more) \in Nat \ {0}
      BY <2>5, Nonempty DEF Summarized
    <3> HIDE DEF new
    <3>3. Len(new) > 0
      BY <2>3, <3>1, <3>2
    <3> QED  BY <3>1, <3>3
  <2> HIDE DEF new
  <2>7. ASSUME NEW q \in Runs
        PROVE  /\ kept'[q] \in Summarized /\ (q \in ToSet(order') <=> kept'[q] # <<>>)
               /\ EndOf(kept'[q], Summaries(happened'[q]))
    <3>1. Summaries(happened[q]) \in Summarized /\ <<>> \in Summarized
      BY SummariesAppend, <2>4 DEF TelemetryInv, Summarized
    <3>2. CASE q \notin ToSet(order')
      <4>1. kept'[q] = <<>> /\ q # r
        BY <2>1, <2>2, <3>2
      <4>2. EndOf(<<>>, Summaries(happened[q]))
        BY <3>1 DEF EndOf, Summarized
      <4> QED  BY <1>3, <3>1, <3>2, <4>1, <4>2
    <3>3. CASE q \in ToSet(order') /\ q = r
      BY <1>3, <2>1, <2>6, <3>3
    <3>4. CASE q \in ToSet(order') /\ q # r
      <4>1. kept'[q] = kept[q] /\ kept[q] # <<>>
        BY <2>1, <2>2, <3>4 DEF TelemetryInv
      <4> QED  BY <1>3, <3>4, <4>1 DEF TelemetryInv
    <3> QED  BY <3>2, <3>3, <3>4
  <2>8. kept' \in [Runs -> Summarized]
    BY <2>1, <2>7
  <2>9. latest' \in Runs /\ kept'[latest'] # <<>>
    BY <2>1, <2>2, <2>7
  <2> QED  BY <1>1, <1>3, <2>2, <2>7, <2>8, <2>9 DEF TelemetryInv
<1> QED  BY <1>4, <1>5

LEMMA EmptyStore ==
  ASSUME happened' \in [Runs -> Seq(Kinds)], kept' = [r \in Runs |-> <<>>], order' = <<>>, unscoped' = 0,
         mutations' = 0, latest' = NoRun
  PROVE  TelemetryInv'
<1>1. \A r \in Runs : EndOf(<<>>, Summaries(happened'[r]))
  <2> SUFFICES ASSUME NEW r \in Runs  PROVE EndOf(<<>>, Summaries(happened'[r]))
    OBVIOUS
  <2>1. \E f \in [0..Len(happened'[r]) -> Summarized] : Summaries(happened'[r]) = f[Len(happened'[r])]
    BY SummaryIs
  <2>2. Summaries(happened'[r]) \in Summarized
    BY <2>1
  <2> QED  BY <2>2 DEF EndOf, Summarized
<1>2. <<>> \in Summarized /\ ToSet(<<>>) = {}
  BY DEF Summarized, ToSet
<1> QED  BY <1>1, <1>2, TelemetryAssumption DEF TelemetryInv

LEMMA TelemetryInit0 == ASSUME TelemetryInit  PROVE TelemetryInv
<1>1. \A r \in Runs : EndOf(<<>>, Summaries(<<>>))
  <2>1. <<>> \in Seq(Kinds) /\ Len(<<>>) = 0
    OBVIOUS
  <2>2. \E f \in [0..Len(<<>>) -> Summarized] : Summaries(<<>>) = f[Len(<<>>)]
    BY <2>1, SummaryIs
  <2>3. Summaries(<<>>) \in Summarized
    BY <2>1, <2>2
  <2> QED  BY <2>3 DEF EndOf, Summarized
<1>2. <<>> \in Summarized /\ ToSet(<<>>) = {}
  BY DEF Summarized, ToSet
<1>3. Len(order) <= MaxRuns
  BY TelemetryAssumption DEF TelemetryInit
<1>4. \A r \in Runs : r \in ToSet(order) <=> kept[r] # <<>>
  BY <1>2 DEF TelemetryInit
<1>5. \A r \in Runs : EndOf(kept[r], Summaries(happened[r]))
  BY <1>1 DEF TelemetryInit
<1> QED  BY <1>2, <1>3, <1>4, <1>5, TelemetryAssumption DEF TelemetryInit, TelemetryInv

LEMMA TelemetryAlways == TelemetrySpec => []TelemetryInv
<1>1. TelemetryInit => TelemetryInv
  BY TelemetryInit0
<1>2. TelemetryInv /\ [TelemetryNext]_telemetryVars => TelemetryInv'
  <2> SUFFICES ASSUME TelemetryInv, [TelemetryNext]_telemetryVars  PROVE TelemetryInv'
    OBVIOUS
  <2>1. CASE \E r \in Runs, k \in Kinds : RecordRun(r, k)
    BY <2>1, EventKeeps
  <2>2. CASE RecordUnscoped \/ EmitMemoryMutation
    BY <2>2, TelemetryAssumption DEF RecordUnscoped, EmitMemoryMutation, TelemetryInv
  <2>3. CASE RestartTelemetry
    BY <2>3, EmptyStore DEF RestartTelemetry, TelemetryInv
  <2>4. CASE UNCHANGED telemetryVars
    BY <2>4 DEF telemetryVars, TelemetryInv
  <2> QED  BY <2>1, <2>2, <2>3, <2>4 DEF TelemetryNext
<1> QED  BY <1>1, <1>2, PTL DEF TelemetrySpec

\* The summaries that the routes answer are ends of what happened, and the run that was
\* heard of last is always among them.
THEOREM SummariesAreEnds == TelemetrySpec => []SummariesAreTails
<1>1. TelemetryInv => SummariesAreTails
  <2> SUFFICES ASSUME TelemetryInv  PROVE SummariesAreTails
    OBVIOUS
  <2>1. ASSUME NEW r \in Runs, NEW summary \in Answers(r), summary # NoSummary
        PROVE  IsSuffix(summary.events, Summaries(happened[r]))
    <3>1. Summaries(happened[r]) \in Summarized /\ kept[r] \in Summarized
      <4>1. happened[r] \in Seq(Kinds) /\ kept[r] \in Summarized
        BY DEF TelemetryInv
      <4>2. \E f \in [0..Len(happened[r]) -> Summarized] : Summaries(happened[r]) = f[Len(happened[r])]
        BY <4>1, SummaryIs
      <4> QED  BY <4>1, <4>2
    <3>2. CASE summary = SummarizeRun(kept[r])
      <4>1. summary.events = kept[r]
        BY <3>2 DEF SummarizeRun
      <4>2. EndOf(kept[r], Summaries(happened[r]))
        BY DEF TelemetryInv
      <4> QED  BY <3>1, <4>1, <4>2, EndIsSuffix DEF Summarized
    <3>3. CASE summary = SummarizeRun(Summaries(happened[r]))
      <4>1. summary.events = Summaries(happened[r])
        BY <3>3 DEF SummarizeRun
      <4>2. EndOf(Summaries(happened[r]), Summaries(happened[r]))
        BY <3>1 DEF EndOf, Summarized
      <4> QED  BY <3>1, <4>1, <4>2, EndIsSuffix DEF Summarized
    <3> QED  BY <2>1, <3>2, <3>3 DEF Answers, Persisted
  <2>2. latest # NoRun => NoSummary \notin Answers(latest)
    <3>1. latest # NoRun => Answers(latest) = {SummarizeRun(kept[latest])} /\ kept[latest] # <<>>
      BY DEF TelemetryInv, Answers
    <3>2. \A heard : SummarizeRun(heard) = NoSummary => heard = <<>>
      <4> SUFFICES ASSUME NEW heard, SummarizeRun(heard) = NoSummary  PROVE heard = <<>>
        OBVIOUS
      <4>1. SummarizeRun(heard).events = heard /\ NoSummary.events = <<>>
        BY DEF SummarizeRun, NoSummary
      <4> QED  BY <4>1
    <3> QED  BY <3>1, <3>2
  <2> QED  BY <2>1, <2>2 DEF SummariesAreTails
<1> QED  BY <1>1, TelemetryAlways, PTL

-----------------------------------------------------------------------------
(* Web research.  Contexts are packed and queries planned by recursive       *)
(* functions: every step of PutBest keeps the tokens within the budget and    *)
(* the sources apart, so the result does.  The share of an iteration is the   *)
(* quotient rounded up (Ceiling), and the end of an iteration the multiple of *)
(* it that was reached (Multiple), so the last iteration ends the plan.       *)
(* Freshness goes with every cached entry: none expires later than its ttl    *)
(* after it was retrieved.                                                    *)

LEMMA TimesGrows == ASSUME NEW P \in Nat, NEW a \in Int, NEW b \in Int, a <= b PROVE P * a <= P * b
<1>1. P * (b - a) >= 0
  <2>1. b - a \in Nat
   OBVIOUS
  <2> QED BY <2>1
<1>2. P * (b - a) = P * b - P * a
  OBVIOUS
<1> QED BY <1>1, <1>2
LEMMA Division ==
  ASSUME NEW a \in Nat, NEW m \in Nat \ {0}
  PROVE  a \div m \in Int /\ a % m \in 0..(m - 1) /\ a = m * (a \div m) + (a % m)
<1>1. a \div m \in Int
  OBVIOUS
<1>2. a % m \in 0..(m - 1)
  OBVIOUS
<1>3. a = m * (a \div m) + (a % m)
  OBVIOUS
<1> QED BY <1>1, <1>2, <1>3
LEMMA Multiple ==
  ASSUME NEW n \in Nat, NEW P \in Nat \ {0}, NEW k \in Nat \ {0}, (k - 1) * P < n, n <= k * P
  PROVE  n % P = 0 <=> n = k * P
<1> DEFINE q == n \div P
<1>1. q \in Int /\ n % P \in 0..(P - 1) /\ n = P * q + (n % P)
  BY Division
<1> HIDE DEF q
<1>0. (k - 1) * P = P * k - P /\ k * P = P * k /\ P * (k + 1) = P * k + P /\ P * (k - 1) = P * k - P /\ P * k \in Int
  OBVIOUS
<1>00. P * q \in Int
  BY <1>1
<1>2. q >= k - 1
  <2> SUFFICES ASSUME q + 1 <= k - 1 PROVE FALSE
    BY <1>1
  <2>1. P * (q + 1) <= P * (k - 1)
    BY <1>1, TimesGrows
  <2>2. P * (q + 1) = P * q + P
    BY <1>1
  <2> QED BY <1>0, <1>00, <1>1, <2>1, <2>2
<1>3. q <= k
  <2> SUFFICES ASSUME k + 1 <= q PROVE FALSE
    BY <1>1
  <2>1. P * (k + 1) <= P * q
    BY <1>1, TimesGrows
  <2> QED BY <1>0, <1>00, <1>1, <2>1
<1>4. CASE q = k
  <2>1. n = P * k + (n % P)
    BY <1>1, <1>4
  <2> QED BY <1>0, <1>1, <2>1
<1>5. CASE q = k - 1
  <2>1. n = P * k - P + (n % P)
    BY <1>0, <1>1, <1>5
  <2> QED BY <1>0, <1>1, <2>1
<1> QED BY <1>1, <1>2, <1>3, <1>4, <1>5
LEMMA Ceiling ==
  ASSUME NEW a \in Nat \ {0}, NEW m \in Nat \ {0}
  PROVE  (a + m - 1) \div m \in Nat \ {0} /\ a <= m * ((a + m - 1) \div m)
<1> DEFINE n == a + m - 1
           q == n \div m
<1>1. n \in Nat
  OBVIOUS
<1>2. q \in Int /\ n % m \in 0..(m - 1) /\ n = m * q + (n % m)
  BY <1>1, Division
<1> HIDE DEF q
<1>3. m * q \in Int
  BY <1>2
<1>4. a <= m * q
  BY <1>2, <1>3
<1>5. q >= 1
  <2> SUFFICES ASSUME q <= 0 PROVE FALSE
    BY <1>2
  <2>1. m * q <= m * 0
    BY <1>2, TimesGrows
  <2> QED BY <1>3, <1>4, <2>1
<1> QED BY <1>2, <1>4, <1>5 DEF q

\* Contexts retrieved when, and from where, those of a sequence were.
TimesOf(contexts) ==
  {c \in ResearchContext :
     \E i \in DOMAIN contexts : c.at = contexts[i].at /\ c.fetched = contexts[i].fetched}

IsPacking(contexts, budget, f) ==
  f = [n \in 0..Len(contexts) |->
        IF n = 0 THEN EmptyPack(budget) ELSE PutTrimmed(f[n - 1], contexts[n])]

PacksOf(contexts) == [left: Nat, out: Seq(TimesOf(contexts))]

LEMMA PutTrimmedKeeps ==
  ASSUME NEW contexts \in Seq(ResearchContext), NEW n \in 1..Len(contexts), NEW pack \in PacksOf(contexts)
  PROVE  PutTrimmed(pack, contexts[n]) \in PacksOf(contexts)
<1> DEFINE c == contexts[n]
           d == [c EXCEPT !.tokens = pack.left]
<1>0. n \in DOMAIN contexts /\ contexts[n] \in ResearchContext
  OBVIOUS
<1>1. c \in ResearchContext /\ c \in TimesOf(contexts) /\ c.tokens \in Nat
  BY <1>0 DEF TimesOf, ResearchContext
<1>2. d \in ResearchContext /\ d.at = c.at /\ d.fetched = c.fetched /\ d.tokens = pack.left /\ pack.left \in Nat
  BY <1>1 DEF ResearchContext, PacksOf
<1>3. d \in TimesOf(contexts)
  BY <1>0, <1>2 DEF TimesOf
<1> HIDE DEF c, d
<1>4. ASSUME NEW e \in TimesOf(contexts), e.tokens \in Nat, e.tokens <= pack.left
      PROVE  PutInto(pack, e) \in PacksOf(contexts)
  <2>1. pack.left - e.tokens \in Nat /\ Append(pack.out, e) \in Seq(TimesOf(contexts))
    BY <1>2, <1>4 DEF PacksOf
  <2> QED  BY <2>1 DEF PutInto, PacksOf
<1>5. CASE c.tokens <= pack.left
  <2>1. PutTrimmed(pack, c) = PutInto(pack, c)
    BY <1>5 DEF PutTrimmed
  <2> QED  BY <1>1, <1>4, <1>5, <2>1 DEF c
<1>6. CASE ~(c.tokens <= pack.left) /\ pack.left = 0
  <2>1. PutTrimmed(pack, c) = pack
    BY <1>6 DEF PutTrimmed
  <2> QED  BY <2>1 DEF c
<1>7. CASE ~(c.tokens <= pack.left) /\ pack.left # 0
  <2>1. PutTrimmed(pack, c) = PutInto(pack, d)
    BY <1>7 DEF PutTrimmed, d
  <2>2. PutInto(pack, d) \in PacksOf(contexts)
    BY <1>2, <1>3, <1>4
  <2> QED  BY <2>1, <2>2 DEF c
<1> QED  BY <1>5, <1>6, <1>7

\* What is packed are contexts of the sequence, cut or not.
LEMMA PackedIs ==
  ASSUME NEW contexts \in Seq(ResearchContext), NEW budget \in Nat
  PROVE  Packed(contexts, budget) \in Seq(TimesOf(contexts))
<1> DEFINE N == Len(contexts)
           V == PacksOf(contexts)
           v == EmptyPack(budget)
           step == [p \in (1..N) \X V |-> PutTrimmed(p[2], contexts[p[1]])]
           g == CHOOSE f : IsPacking(contexts, budget, f)
<1>1. N \in Nat /\ v \in V
  BY DEF EmptyPack, PacksOf
<1>2. step \in [(1..N) \X V -> V]
  BY PutTrimmedKeeps
<1>3. \A n \in 1..N : \A w \in V : step[<<n, w>>] = PutTrimmed(w, contexts[n])
  OBVIOUS
<1>4. Packed(contexts, budget) = g[N].out
  BY DEF Packed, IsPacking
<1> HIDE DEF V, v, step, g
<1>5. \E f : IsPacking(contexts, budget, f)
  <2>1. PICK f \in [0..N -> V] : Follows(f, N, v, step)
    BY <1>1, <1>2, RecursionExists
  <2>2. \A n \in 1..N : f[n] = PutTrimmed(f[n - 1], contexts[n])
    <3> SUFFICES ASSUME NEW n \in 1..N  PROVE f[n] = PutTrimmed(f[n - 1], contexts[n])
      OBVIOUS
    <3>1. f[n - 1] \in V
      BY <1>1
    <3> QED  BY <1>3, <2>1, <3>1 DEF Follows
  <2> DEFINE h == [n \in 0..N |-> IF n = 0 THEN v ELSE PutTrimmed(f[n - 1], contexts[n])]
  <2>3. \A n \in 0..N : f[n] = h[n]
    BY <1>1, <2>1, <2>2 DEF Follows
  <2>4. f = h
    <3>1. f = [n \in 0..N |-> f[n]] /\ h = [n \in 0..N |-> h[n]]
      OBVIOUS
    <3> HIDE DEF h
    <3> QED  BY <2>3, <3>1
  <2> QED  BY <2>4 DEF IsPacking, v
<1>6. IsPacking(contexts, budget, g)
  BY <1>5 DEF g
<1>7. /\ g[0] = v
      /\ \A n \in 1..N : g[n] = PutTrimmed(g[n - 1], contexts[n])
  BY <1>1, <1>6 DEF IsPacking, v
<1>8. \A n \in 0..N : g[n] \in V
  <2>1. \A n \in 1..N : g[n - 1] \in V => g[n] \in V
    BY <1>7, PutTrimmedKeeps DEF V
  <2> HIDE DEF N
  <2> QED  BY <1>1, <1>7, <2>1, StaysIn
<1>9. g[N] \in V
  BY <1>1, <1>8
<1> QED  BY <1>4, <1>9 DEF V, PacksOf

-----------------------------------------------------------------------------
IsPlan(asked, f) ==
  f = [n \in 0..Len(Queries) |->
        IF n = 0 THEN <<>>
        ELSE IF Queries[n] \in asked THEN Append(f[n - 1], Queries[n]) ELSE f[n - 1]]

AddQuery(asked, plan, query) == IF query \in asked THEN Append(plan, query) ELSE plan

\* The plan has queries, and the request among them.
LEMMA PlannedIs ==
  ASSUME NEW asked, Queries[1] \in asked
  PROVE  Planned(asked) \in Seq(Range(Queries)) /\ Planned(asked) # <<>>
<1> DEFINE N == Len(Queries)
           V == Seq(Range(Queries))
           step == [p \in (1..N) \X V |-> AddQuery(asked, p[2], Queries[p[1]])]
           g == CHOOSE f : IsPlan(asked, f)
<1>1. N \in Nat \ {0} /\ <<>> \in V /\ \A n \in 1..N : Queries[n] \in Range(Queries)
  <2>1. Queries \in Seq(Range(Queries)) /\ Queries # <<>>
    BY ResearchAssumption
  <2>2. N \in Nat /\ N # 0
    BY <2>1, EmptySeq
  <2> QED  BY <2>1, <2>2
<1>2. ASSUME NEW plan \in V, NEW n \in 1..N
      PROVE  AddQuery(asked, plan, Queries[n]) \in V
  BY <1>1, <1>2 DEF AddQuery
<1>3. step \in [(1..N) \X V -> V]
  BY <1>2
<1>4. \A n \in 1..N : \A w \in V : step[<<n, w>>] = AddQuery(asked, w, Queries[n])
  OBVIOUS
<1>5. Planned(asked) = g[N]
  BY DEF Planned, IsPlan
<1> HIDE DEF V, step, g
<1>6. \E f : IsPlan(asked, f)
  <2>1. PICK f \in [0..N -> V] : Follows(f, N, <<>>, step)
    <3> HIDE DEF N
    <3> QED  BY <1>1, <1>3, RecursionExists
  <2>2. \A n \in 1..N : f[n] = AddQuery(asked, f[n - 1], Queries[n])
    <3> SUFFICES ASSUME NEW n \in 1..N  PROVE f[n] = AddQuery(asked, f[n - 1], Queries[n])
      OBVIOUS
    <3>1. f[n - 1] \in V
      BY <1>1
    <3> QED  BY <1>4, <2>1, <3>1 DEF Follows
  <2> DEFINE h == [n \in 0..N |-> IF n = 0 THEN <<>> ELSE AddQuery(asked, f[n - 1], Queries[n])]
  <2>3. \A n \in 0..N : f[n] = h[n]
    BY <1>1, <2>1, <2>2 DEF Follows
  <2>4. f = h
    <3>1. f = [n \in 0..N |-> f[n]] /\ h = [n \in 0..N |-> h[n]]
      OBVIOUS
    <3> HIDE DEF h
    <3> QED  BY <2>3, <3>1
  <2> QED  BY <2>4 DEF IsPlan, AddQuery
<1>7. IsPlan(asked, g)
  BY <1>6 DEF g
<1>8. g[0] = <<>> /\ \A n \in 1..N : g[n] = AddQuery(asked, g[n - 1], Queries[n])
  <2>1. g = [n \in 0..N |-> IF n = 0 THEN <<>> ELSE AddQuery(asked, g[n - 1], Queries[n])]
    BY <1>7 DEF IsPlan, AddQuery
  <2> HIDE DEF N
  <2> QED  BY <1>1, <2>1
<1> HIDE DEF N
<1>9. \A n \in 0..N : g[n] \in V
  <2>1. \A n \in 1..N : g[n - 1] \in V => g[n] \in V
    BY <1>2, <1>8
  <2> QED  BY <1>1, <1>8, <2>1, StaysIn
<1>10. \A n \in Nat : n + 1 <= N => g[n + 1] # <<>>
  <2> DEFINE S == {n \in Nat : n + 1 <= N => g[n + 1] # <<>>}
  <2>0. \A s \in V : \A q \in Range(Queries) : Append(s, q) # <<>>
    <3>1. \A s \in V : \A q \in Range(Queries) : Len(Append(s, q)) = Len(s) + 1 /\ Len(s) \in Nat
      BY DEF V
    <3>2. Len(<<>>) = 0
      OBVIOUS
    <3> QED  BY <3>1, <3>2
  <2>1. 0 \in S
    <3>1. g[1] = AddQuery(asked, g[0], Queries[1])
      BY <1>1, <1>8
    <3>2. AddQuery(asked, <<>>, Queries[1]) = Append(<<>>, Queries[1])
      BY DEF AddQuery
    <3>3. Append(<<>>, Queries[1]) # <<>>
      BY <1>1, <2>0
    <3>4. g[1] # <<>>
      BY <1>8, <3>1, <3>2, <3>3
    <3> QED  BY <3>4
  <2>2. \A n \in Nat : n \in S => n + 1 \in S
    <3> SUFFICES ASSUME NEW n \in Nat, (n + 1) + 1 <= N, g[n + 1] # <<>>  PROVE g[(n + 1) + 1] # <<>>
      BY <1>1
    <3> DEFINE m == (n + 1) + 1
    <3>1. m \in 1..N /\ m - 1 = n + 1 /\ n + 1 \in 0..N
      BY <1>1
    <3> HIDE DEF m
    <3>2. g[m] = AddQuery(asked, g[n + 1], Queries[m]) /\ g[n + 1] \in V
      BY <1>8, <1>9, <3>1
    <3>3. g[m] # <<>>
      BY <1>1, <2>0, <3>1, <3>2 DEF AddQuery
    <3> QED  BY <3>3 DEF m
  <2>3. Nat \subseteq S
    <3> HIDE DEF S
    <3> QED  BY <2>1, <2>2, SetInduction
  <2> QED  BY <2>3
<1>11. g[N] # <<>> /\ g[N] \in V
  <2> DEFINE k == N - 1
  <2>1. k \in Nat /\ k + 1 = N
    BY <1>1
  <2>2. g[k + 1] # <<>>
    <3> HIDE DEF k
    <3> QED  BY <1>10, <2>1
  <2> QED  BY <1>1, <1>9, <2>1, <2>2
<1> QED  BY <1>5, <1>11 DEF V

-----------------------------------------------------------------------------
IsTotal(contexts, f) ==
  f = [n \in 0..Len(contexts) |-> IF n = 0 THEN 0 ELSE f[n - 1] + contexts[n].tokens]

LEMMA TokensOfIs ==
  ASSUME NEW contexts \in Seq(ResearchContext)
  PROVE  \E f \in [0..Len(contexts) -> Nat] :
           /\ f[0] = 0 /\ \A n \in 1..Len(contexts) : f[n] = f[n - 1] + contexts[n].tokens
           /\ TokensOf(contexts) = f[Len(contexts)]
<1> DEFINE N == Len(contexts)
           step == [p \in (1..N) \X Nat |-> p[2] + contexts[p[1]].tokens]
           g == CHOOSE f : IsTotal(contexts, f)
<1>1. N \in Nat /\ \A n \in 1..N : contexts[n].tokens \in Nat
  <2>1. \A n \in 1..N : contexts[n] \in ResearchContext
    OBVIOUS
  <2> QED  BY <2>1 DEF ResearchContext
<1>2. step \in [(1..N) \X Nat -> Nat]
  BY <1>1
<1>3. \A n \in 1..N : \A w \in Nat : step[<<n, w>>] = w + contexts[n].tokens
  OBVIOUS
<1>4. TokensOf(contexts) = g[N]
  BY DEF TokensOf, IsTotal
<1> HIDE DEF step, g
<1>5. PICK f \in [0..N -> Nat] : Follows(f, N, 0, step)
  <2> HIDE DEF N
  <2> QED  BY <1>1, <1>2, RecursionExists
<1>6. f[0] = 0 /\ \A n \in 1..N : f[n] = f[n - 1] + contexts[n].tokens
  <2> SUFFICES ASSUME NEW n \in 1..N  PROVE f[n] = f[n - 1] + contexts[n].tokens
    BY <1>5 DEF Follows
  <2>1. f[n - 1] \in Nat
    <3> HIDE DEF N
    <3> QED  BY <1>1
  <2> QED  BY <1>3, <1>5, <2>1 DEF Follows
<1>7. IsTotal(contexts, f)
  <2> DEFINE h == [n \in 0..N |-> IF n = 0 THEN 0 ELSE f[n - 1] + contexts[n].tokens]
  <2>1. \A n \in 0..N : f[n] = h[n]
    BY <1>1, <1>6
  <2>2. f = h
    <3>1. f = [n \in 0..N |-> f[n]] /\ h = [n \in 0..N |-> h[n]]
      OBVIOUS
    <3> HIDE DEF h
    <3> QED  BY <2>1, <3>1
  <2> QED  BY <2>2 DEF IsTotal
<1>8. IsTotal(contexts, g)
  BY <1>7 DEF g
<1>9. g[0] = 0 /\ \A n \in 1..N : g[n] = g[n - 1] + contexts[n].tokens
  BY <1>1, <1>8 DEF IsTotal
<1>10. g[N] = f[N]
  <2> HIDE DEF N
  <2>1. \A n \in 1..N : g[n - 1] = f[n - 1] => g[n] = f[n]
    BY <1>6, <1>9
  <2>2. g[0] = f[0]
    BY <1>6, <1>9
  <2>3. \A n \in 0..N : g[n] = f[n]
    <3>1. InStep(g, f, N)
      BY <2>1, <2>2 DEF InStep
    <3> QED  BY <1>1, <3>1, StepwiseSame
  <2> QED  BY <1>1, <2>3
<1> QED  BY <1>4, <1>5, <1>6, <1>10

LEMMA TokensAppend ==
  ASSUME NEW contexts \in Seq(ResearchContext), NEW c \in ResearchContext
  PROVE  /\ TokensOf(contexts) \in Nat /\ c.tokens \in Nat
         /\ TokensOf(Append(contexts, c)) = TokensOf(contexts) + c.tokens
<1> DEFINE N == Len(contexts)
           more == Append(contexts, c)
<1>1. /\ N \in Nat /\ more \in Seq(ResearchContext) /\ Len(more) = N + 1 /\ more[N + 1] = c
      /\ \A n \in 1..N : more[n] = contexts[n]
  OBVIOUS
<1>2. PICK f \in [0..N -> Nat] :
        /\ f[0] = 0 /\ \A n \in 1..N : f[n] = f[n - 1] + contexts[n].tokens
        /\ TokensOf(contexts) = f[N]
  BY TokensOfIs
<1> HIDE DEF more, N
<1>3. PICK g \in [0..(N + 1) -> Nat] :
        /\ g[0] = 0 /\ \A n \in 1..(N + 1) : g[n] = g[n - 1] + more[n].tokens
        /\ TokensOf(more) = g[N + 1]
  BY <1>1, TokensOfIs
<1>4. g[N] = f[N]
  <2>1. \A n \in 1..N : g[n - 1] = f[n - 1] => g[n] = f[n]
    <3> SUFFICES ASSUME NEW n \in 1..N, g[n - 1] = f[n - 1]  PROVE g[n] = f[n]
      OBVIOUS
    <3>1. n \in 1..(N + 1)
      BY <1>1
    <3> QED  BY <1>1, <1>2, <1>3, <3>1
  <2>2. g[0] = f[0]
    BY <1>2, <1>3
  <2>3. \A n \in 0..N : g[n] = f[n]
    <3>1. InStep(g, f, N)
      BY <2>1, <2>2 DEF InStep
    <3>2. N \in Nat
      BY <1>1
    <3> QED  BY ONLY <3>1, <3>2, StepwiseSame
  <2> QED  BY <1>1, <2>3
<1>5. g[N + 1] = g[N] + c.tokens
  <2> DEFINE m == N + 1
  <2>1. m \in 1..(N + 1) /\ m - 1 = N
    BY <1>1
  <2>2. more[m] = c
    BY <1>1
  <2> HIDE DEF m
  <2>3. g[m] = g[N] + c.tokens
    BY <1>3, <2>1, <2>2
  <2> QED  BY <2>3 DEF m
<1> QED  BY <1>1, <1>2, <1>3, <1>4, <1>5 DEF N, more, ResearchContext

LEMMA NoTokens == TokensOf(<<>>) = 0
<1>1. <<>> \in Seq(ResearchContext) /\ Len(<<>>) = 0
  OBVIOUS
<1>2. PICK f \in [0..Len(<<>>) -> Nat] : f[0] = 0 /\ TokensOf(<<>>) = f[Len(<<>>)]
  BY <1>1, TokensOfIs
<1> QED  BY <1>1, <1>2

-----------------------------------------------------------------------------
LEMMA BestIs ==
  ASSUME NEW contexts \in Seq(ResearchContext), NEW rest \in SUBSET DOMAIN contexts, rest # {}
  PROVE  Best(contexts, rest) \in rest
<1>1. \A i \in rest : i \in Nat /\ contexts[i].rank \in Nat
  <2>1. \A i \in DOMAIN contexts : i \in Nat /\ contexts[i] \in ResearchContext
    OBVIOUS
  <2> QED  BY <2>1 DEF ResearchContext
<1>2. PICK k \in {contexts[i].rank : i \in rest} : \A m \in {contexts[i].rank : i \in rest} : k <= m
  <2>1. {contexts[i].rank : i \in rest} \subseteq Nat /\ {contexts[i].rank : i \in rest} # {}
    BY <1>1
  <2> QED  BY <2>1, LeastNatural
<1>3. PICK b \in {i \in rest : contexts[i].rank = k} : \A m \in {i \in rest : contexts[i].rank = k} : b <= m
  <2>1. {i \in rest : contexts[i].rank = k} \subseteq Nat /\ {i \in rest : contexts[i].rank = k} # {}
    BY <1>1, <1>2
  <2> QED  BY <2>1, LeastNatural
<1>4. \A j \in rest : \/ contexts[b].rank < contexts[j].rank
                      \/ contexts[b].rank = contexts[j].rank /\ b <= j
  <2> SUFFICES ASSUME NEW j \in rest
               PROVE  \/ contexts[b].rank < contexts[j].rank
                      \/ contexts[b].rank = contexts[j].rank /\ b <= j
    OBVIOUS
  <2>1. k <= contexts[j].rank /\ contexts[b].rank = k /\ k \in Nat /\ contexts[j].rank \in Nat
    BY <1>1, <1>2, <1>3
  <2>2. CASE contexts[j].rank = k
    BY <1>3, <2>1, <2>2
  <2>3. CASE contexts[j].rank # k
    BY <2>1, <2>3
  <2> QED  BY <2>2, <2>3
<1> QED  BY <1>3, <1>4 DEF Best

DistinctSources(contexts) ==
  \A i \in DOMAIN contexts : \A j \in DOMAIN contexts : contexts[i].source = contexts[j].source => i = j

Within(budget, pack) ==
  /\ pack \in [left: Nat, out: Seq(ResearchContext)]
  /\ TokensOf(pack.out) + pack.left = budget
  /\ DistinctSources(pack.out)

Apart(contexts, state) ==
  \A i \in state.rest : \A k \in DOMAIN state.pack.out : state.pack.out[k].source # contexts[i].source

UniqueStates(contexts, budget) ==
  {s \in [rest: SUBSET DOMAIN contexts, pack: [left: Nat, out: Seq(ResearchContext)]] :
     Within(budget, s.pack) /\ Apart(contexts, s)}

LEMMA PutBestKeeps ==
  ASSUME NEW contexts \in Seq(ResearchContext), NEW budget \in Nat,
         NEW state \in UniqueStates(contexts, budget)
  PROVE  PutBest(contexts, state) \in UniqueStates(contexts, budget)
<1>1. CASE state.rest = {}
  BY <1>1 DEF PutBest
<1>2. CASE state.rest # {}
  <2> DEFINE b == Best(contexts, state.rest)
             c == contexts[b]
             pack == state.pack
             out == pack.out
             rest == {i \in state.rest : contexts[i].source # c.source}
  <2>1. /\ state.rest \subseteq DOMAIN contexts /\ pack \in [left: Nat, out: Seq(ResearchContext)]
        /\ Within(budget, pack) /\ Apart(contexts, state)
    BY DEF UniqueStates
  <2>2. b \in state.rest
    BY <1>2, <2>1, BestIs
  <2>3. c \in ResearchContext /\ c.tokens \in Nat
    <3>1. b \in DOMAIN contexts
      BY <2>1, <2>2
    <3>2. c \in ResearchContext
      BY <3>1
    <3> QED  BY <3>2 DEF ResearchContext
  <2>4. \A k \in DOMAIN out : out[k].source # c.source
    BY <2>1, <2>2 DEF Apart
  <2>5. rest \in SUBSET DOMAIN contexts
    BY <2>1
  <2>6. CASE ~(c.tokens <= pack.left)
    <3>1. PutBest(contexts, state) = [rest |-> rest, pack |-> pack]
      BY <1>2, <2>6 DEF PutBest
    <3> DEFINE new == [rest |-> rest, pack |-> pack]
    <3>2. Apart(contexts, new)
      BY <2>1 DEF Apart
    <3>3. new \in [rest: SUBSET DOMAIN contexts, pack: [left: Nat, out: Seq(ResearchContext)]]
      BY <2>1, <2>5
    <3> QED  BY <2>1, <3>1, <3>2, <3>3 DEF UniqueStates
  <2>7. CASE c.tokens <= pack.left
    <3> DEFINE more == Append(out, c)
               put == [left |-> pack.left - c.tokens, out |-> more]
               new == [rest |-> rest, pack |-> put]
    <3>1. PutBest(contexts, state) = new
      <4>1. PutInto(pack, c) = put
        <5>1. pack = [left |-> pack.left, out |-> out]
          BY <2>1
        <5> HIDE DEF pack, c
        <5>2. PutInto(pack, c) = [pack EXCEPT !.left = pack.left - c.tokens, !.out = Append(pack.out, c)]
          BY DEF PutInto
        <5> QED  BY <5>1, <5>2
      <4>2. PutBest(contexts, state) = [rest |-> rest, pack |-> PutInto(pack, c)]
        BY <1>2, <2>7 DEF PutBest
      <4> QED  BY <4>1, <4>2
    <3>2. out \in Seq(ResearchContext) /\ pack.left \in Nat /\ TokensOf(out) + pack.left = budget
          /\ DistinctSources(out)
      BY <2>1 DEF Within
    <3> HIDE DEF c, out, rest, b
    <3>3. /\ more \in Seq(ResearchContext) /\ Len(more) = Len(out) + 1 /\ more[Len(out) + 1] = c
          /\ \A k \in 1..Len(out) : more[k] = out[k]
          /\ Len(out) \in Nat
      BY <2>3, <3>2
    <3>4. TokensOf(more) = TokensOf(out) + c.tokens /\ TokensOf(out) \in Nat
      BY <2>3, <3>2, TokensAppend
    <3> HIDE DEF more
    <3>5. put \in [left: Nat, out: Seq(ResearchContext)] /\ TokensOf(put.out) + put.left = budget
      BY <2>3, <2>7, <3>2, <3>3, <3>4
    <3>6. DistinctSources(more)
      <4> SUFFICES ASSUME NEW i \in 1..(Len(out) + 1), NEW j \in 1..(Len(out) + 1),
                          more[i].source = more[j].source
                   PROVE  i = j
        BY <3>3 DEF DistinctSources
      <4>0. DOMAIN out = 1..Len(out)
        BY <3>2
      <4>1. CASE i \in 1..Len(out) /\ j \in 1..Len(out)
        <5>1. out[i].source = out[j].source
          BY <3>3, <4>1
        <5> QED  BY <3>2, <4>0, <4>1, <5>1 DEF DistinctSources
      <4>2. CASE i = Len(out) + 1 /\ j \in 1..Len(out)
        BY <2>4, <3>3, <4>0, <4>2
      <4>3. CASE j = Len(out) + 1 /\ i \in 1..Len(out)
        BY <2>4, <3>3, <4>0, <4>3
      <4>4. CASE i = Len(out) + 1 /\ j = Len(out) + 1
        BY <4>4
      <4> QED  BY <3>3, <4>1, <4>2, <4>3, <4>4
    <3>7. Apart(contexts, new)
      <4> SUFFICES ASSUME NEW i \in rest, NEW k \in 1..(Len(out) + 1)
                   PROVE  more[k].source # contexts[i].source
        BY <3>3 DEF Apart
      <4>0. DOMAIN out = 1..Len(out)
        BY <3>2
      <4>1. i \in state.rest /\ contexts[i].source # c.source
        BY DEF rest
      <4>2. CASE k \in 1..Len(out)
        <5>1. more[k] = out[k]
          BY <3>3, <4>2
        <5>2. out[k].source # contexts[i].source
          BY <2>1, <4>0, <4>1, <4>2 DEF Apart, out
        <5> QED  BY <5>1, <5>2
      <4>3. CASE k = Len(out) + 1
        BY <3>3, <4>1, <4>3
      <4> QED  BY <3>3, <4>2, <4>3
    <3>8. Within(budget, put)
      BY <3>5, <3>6 DEF Within
    <3> HIDE DEF put
    <3>9. new \in [rest: SUBSET DOMAIN contexts, pack: [left: Nat, out: Seq(ResearchContext)]]
      BY <2>5, <3>8 DEF Within
    <3>10. new.pack = put
      OBVIOUS
    <3> QED  BY <3>1, <3>7, <3>8, <3>9, <3>10 DEF UniqueStates
  <2> QED  BY <2>6, <2>7
<1> QED  BY <1>1, <1>2

IsChoice(contexts, budget, f) ==
  f = [n \in 0..Len(contexts) |->
        IF n = 0 THEN [rest |-> DOMAIN contexts, pack |-> EmptyPack(budget)]
        ELSE PutBest(contexts, f[n - 1])]

LEMMA PackedUniqueIs ==
  ASSUME NEW contexts \in Seq(ResearchContext), NEW budget \in Nat
  PROVE  /\ PackedUnique(contexts, budget) \in Seq(ResearchContext)
         /\ TokensOf(PackedUnique(contexts, budget)) <= budget
         /\ DistinctSources(PackedUnique(contexts, budget))
<1> DEFINE N == Len(contexts)
           V == UniqueStates(contexts, budget)
           v == [rest |-> DOMAIN contexts, pack |-> EmptyPack(budget)]
           step == [p \in (1..N) \X V |-> PutBest(contexts, p[2])]
           g == CHOOSE f : IsChoice(contexts, budget, f)
<1>1. N \in Nat /\ v \in V
  <2>1. EmptyPack(budget) \in [left: Nat, out: Seq(ResearchContext)]
    BY DEF EmptyPack
  <2>2. Within(budget, EmptyPack(budget))
    BY <2>1, NoTokens DEF EmptyPack, Within, DistinctSources
  <2>3. v \in [rest: SUBSET DOMAIN contexts, pack: [left: Nat, out: Seq(ResearchContext)]]
    BY <2>1
  <2>4. Apart(contexts, v)
    BY DEF Apart, EmptyPack
  <2> QED  BY <2>2, <2>3, <2>4 DEF UniqueStates
<1>2. step \in [(1..N) \X V -> V]
  BY PutBestKeeps
<1>3. \A n \in 1..N : \A w \in V : step[<<n, w>>] = PutBest(contexts, w)
  OBVIOUS
<1>4. PackedUnique(contexts, budget) = g[N].pack.out
  BY DEF PackedUnique, IsChoice
<1> HIDE DEF V, v, step, g
<1>5. \E f : IsChoice(contexts, budget, f)
  <2>1. PICK f \in [0..N -> V] : Follows(f, N, v, step)
    BY <1>1, <1>2, RecursionExists
  <2>2. \A n \in 1..N : f[n] = PutBest(contexts, f[n - 1])
    <3> SUFFICES ASSUME NEW n \in 1..N  PROVE f[n] = PutBest(contexts, f[n - 1])
      OBVIOUS
    <3>1. f[n - 1] \in V
      BY <1>1
    <3> QED  BY <1>3, <2>1, <3>1 DEF Follows
  <2> DEFINE h == [n \in 0..N |-> IF n = 0 THEN v ELSE PutBest(contexts, f[n - 1])]
  <2>3. \A n \in 0..N : f[n] = h[n]
    BY <1>1, <2>1, <2>2 DEF Follows
  <2>4. f = h
    <3>1. f = [n \in 0..N |-> f[n]] /\ h = [n \in 0..N |-> h[n]]
      OBVIOUS
    <3> HIDE DEF h
    <3> QED  BY <2>3, <3>1
  <2> QED  BY <2>4 DEF IsChoice, v
<1>6. IsChoice(contexts, budget, g)
  BY <1>5 DEF g
<1>7. /\ g[0] = v
      /\ \A n \in 1..N : g[n] = PutBest(contexts, g[n - 1])
  <2>1. g = [n \in 0..N |-> IF n = 0 THEN v ELSE PutBest(contexts, g[n - 1])]
    BY <1>6 DEF IsChoice, v
  <2> HIDE DEF N
  <2> QED  BY <1>1, <2>1
<1>8. \A n \in 0..N : g[n] \in V
  <2>1. \A n \in 1..N : g[n - 1] \in V => g[n] \in V
    BY <1>7, PutBestKeeps DEF V
  <2> HIDE DEF N
  <2> QED  BY <1>1, <1>7, <2>1, StaysIn
<1>9. g[N] \in V
  BY <1>1, <1>8
<1>10. Within(budget, g[N].pack)
  BY <1>9 DEF V, UniqueStates
<1>11. ASSUME NEW pack, Within(budget, pack)
       PROVE  pack.out \in Seq(ResearchContext) /\ TokensOf(pack.out) <= budget /\ DistinctSources(pack.out)
  <2>1. pack.out \in Seq(ResearchContext) /\ pack.left \in Nat /\ TokensOf(pack.out) + pack.left = budget
        /\ DistinctSources(pack.out)
    BY <1>11 DEF Within
  <2>2. TokensOf(pack.out) \in Nat
    <3>1. \E f \in [0..Len(pack.out) -> Nat] : TokensOf(pack.out) = f[Len(pack.out)]
      BY <2>1, TokensOfIs
    <3>2. Len(pack.out) \in 0..Len(pack.out)
      BY <2>1
    <3> QED  BY <3>1, <3>2
  <2> QED  BY <2>1, <2>2
<1> QED  BY <1>4, <1>10, <1>11

LEMMA DistinctCount ==
  ASSUME NEW contexts \in Seq(ResearchContext), DistinctSources(contexts)
  PROVE  Cardinality(SourcesOf(contexts)) = Len(contexts)
<1> DEFINE f == [i \in 1..Len(contexts) |-> contexts[i].source]
<1>1. DOMAIN contexts = 1..Len(contexts) /\ Len(contexts) \in Nat
  OBVIOUS
<1>2. f \in Bijection(1..Len(contexts), SourcesOf(contexts))
  <2>1. f \in [1..Len(contexts) -> SourcesOf(contexts)]
    BY <1>1 DEF SourcesOf
  <2>2. \A i, j \in 1..Len(contexts) : f[i] = f[j] => i = j
    BY <1>1 DEF DistinctSources
  <2>3. \A s \in SourcesOf(contexts) : \E i \in 1..Len(contexts) : f[i] = s
    BY <1>1 DEF SourcesOf
  <2> HIDE DEF f
  <2> QED  BY <2>1, <2>2, <2>3 DEF Bijection, Injection, Surjection, IsInjective
<1>3. IsFiniteSet(1..Len(contexts)) /\ Cardinality(1..Len(contexts)) = Len(contexts)
  BY <1>1, FS_Interval
<1> QED  BY <1>2, <1>3, FS_Bijection DEF ExistsBijection

-----------------------------------------------------------------------------
ResearchPage == [tokens: Nat, at: Nat, expires: Nat]
ResearchRun ==
  [pc: {"idle", "search", "fetch", "pack", "ended"}, settings: Settings, plan: Seq(Range(Queries)),
   at: Nat, iterations: Nat, found: Seq(ResearchContext), contexts: Seq(ResearchContext),
   attempted: Nat, failures: Nat, started: Nat, enough: BOOLEAN, result: Seq(ResearchContext),
   pages: [Sources -> ResearchPage]]

\* No entry outlives its time.
PageHolds(page, now) == page.at <= now /\ page.expires <= page.at + PageTtl
SearchHolds(entry, now) ==
  \A i \in DOMAIN entry.contexts :
    /\ entry.contexts[i].rank >= 1 /\ ~entry.contexts[i].fetched
    /\ entry.contexts[i].at <= now /\ entry.expires <= entry.contexts[i].at + SearchTtl

AsAsked(x, c) ==
  \/ c.at >= x.started
  \/ ~x.settings.fresh /\ c.at + TtlOf(c) > x.started

\* The iteration that the next query of the plan is in.
InIteration(x) ==
  /\ x.at < Len(x.plan) /\ x.iterations \in 1..x.settings.maxIterations
  /\ (x.iterations - 1) * PerIteration(x.plan, x.settings) <= x.at
  /\ x.at < x.iterations * PerIteration(x.plan, x.settings)

Ended(x) ==
  /\ x.enough \/ x.at = Len(x.plan)
  /\ TokensOf(x.result) <= x.settings.maxTokens
  /\ DistinctSources(x.result)

RunHolds(x, now) ==
  /\ x.started <= now
  /\ \A s \in Sources : PageHolds(x.pages[s], now)
  /\ \A i \in DOMAIN x.found : AsAsked(x, x.found[i])
  /\ \A i \in DOMAIN x.contexts : AsAsked(x, x.contexts[i])
  /\ x.pc = "fetch" => \A i \in DOMAIN x.found : x.found[i].rank >= 1
  /\ x.attempted <= x.settings.maxFetches
  /\ x.iterations <= x.settings.maxIterations
  /\ x.pc \in {"search", "fetch", "pack"} => InIteration(x)
  /\ x.pc = "ended" => Ended(x)

ResearchInv ==
  /\ clock \in 0..MaxTime
  /\ run \in [ResearchRuns -> ResearchRun]
  /\ searches \in [Range(Queries) -> [contexts: Seq(ResearchContext), expires: Nat]]
  /\ pages \in [Sources -> ResearchPage]
  /\ \A r \in ResearchRuns : RunHolds(run[r], clock)
  /\ \A q \in Range(Queries) : SearchHolds(searches[q], clock)
  /\ \A s \in Sources : PageHolds(pages[s], clock)

LEMMA SettingsAre ==
  ASSUME NEW s \in Settings
  PROVE  /\ s.deep \in BOOLEAN /\ s.complex \in BOOLEAN /\ s.fresh \in BOOLEAN
         /\ s.maxQueries \in Nat \ {0} /\ s.maxIterations \in Nat \ {0} /\ s.minSources \in Nat \ {0}
         /\ s.maxTokens \in Nat \ {0} /\ s.maxFetches \in Nat
BY ResearchAssumption

LEMMA TimesAre == SearchTtl \in Nat /\ PageTtl \in Nat /\ MaxTime \in Nat /\ PageSizes \subseteq Nat
BY ResearchAssumption

LEMMA SizeIs == \A size \in PageSizes \cup {0} : size \in Nat
BY TimesAre

\* Each iteration has a query, and they have room for the plan.
LEMMA ShareIs ==
  ASSUME NEW plan, Len(plan) \in Nat \ {0}, NEW s \in Settings
  PROVE  PerIteration(plan, s) \in Nat \ {0} /\ Len(plan) <= s.maxIterations * PerIteration(plan, s)
<1>1. s.maxIterations \in Nat \ {0} /\ s.deep \in BOOLEAN
  BY SettingsAre
<1>2. CASE s.deep
  BY <1>1, <1>2, Ceiling DEF PerIteration
<1>3. CASE ~s.deep
  <2>1. PerIteration(plan, s) = Len(plan)
    BY <1>3 DEF PerIteration
  <2>2. Len(plan) * 1 <= Len(plan) * s.maxIterations
    BY <1>1, TimesGrows
  <2> QED  BY <1>1, <2>1, <2>2
<1> QED  BY <1>1, <1>2, <1>3

LEMMA NotStartedIs == NotStarted \in ResearchRun /\ \A now \in Nat : RunHolds(NotStarted, now)
<1>1. (CHOOSE s \in Settings : TRUE) \in Settings
  BY ResearchAssumption
<1>2. NoPage \in ResearchPage
  BY DEF NoPage, ResearchPage
<1>3. NotStarted \in ResearchRun
  BY <1>1, <1>2 DEF NotStarted, ResearchRun
<1>4. \A now \in Nat : PageHolds(NoPage, now)
  BY TimesAre DEF PageHolds, NoPage
<1>5. /\ NotStarted.settings \in Settings /\ NotStarted.pc = "idle" /\ NotStarted.started = 0
      /\ NotStarted.found = <<>> /\ NotStarted.contexts = <<>> /\ NotStarted.attempted = 0
      /\ NotStarted.iterations = 0 /\ NotStarted.pages = [s \in Sources |-> NoPage]
  BY <1>1 DEF NotStarted
<1>6. NotStarted.settings.maxFetches \in Nat /\ NotStarted.settings.maxIterations \in Nat
  BY <1>5, SettingsAre
<1> QED  BY <1>3, <1>4, <1>5, <1>6 DEF RunHolds

LEMMA ResearchInitially == ResearchInit => ResearchInv
<1> SUFFICES ASSUME ResearchInit  PROVE ResearchInv
  OBVIOUS
<1>1. clock = 0 /\ clock \in 0..MaxTime
  BY TimesAre DEF ResearchInit
<1>2. run \in [ResearchRuns -> ResearchRun] /\ \A r \in ResearchRuns : RunHolds(run[r], clock)
  BY <1>1, NotStartedIs DEF ResearchInit
<1>3. searches \in [Range(Queries) -> [contexts: Seq(ResearchContext), expires: Nat]]
      /\ \A q \in Range(Queries) : SearchHolds(searches[q], clock)
  BY DEF ResearchInit, NoEntry, SearchHolds
<1>4. pages \in [Sources -> ResearchPage] /\ \A s \in Sources : PageHolds(pages[s], clock)
  BY <1>1, TimesAre DEF ResearchInit, NoPage, ResearchPage, PageHolds
<1> QED  BY <1>1, <1>2, <1>3, <1>4 DEF ResearchInv

\* A step that changes one run, to one that holds.
LEMMA RunStep ==
  ASSUME ResearchInv, NEW r \in ResearchRuns, NEW x \in ResearchRun, RunHolds(x, clock),
         run' = [run EXCEPT ![r] = x], clock' = clock
  PROVE  run' \in [ResearchRuns -> ResearchRun] /\ \A q \in ResearchRuns : RunHolds(run'[q], clock')
BY DEF ResearchInv

LEMMA BeginHolds == ASSUME ResearchInv, NEW r \in ResearchRuns, BeginResearch(r)  PROVE ResearchInv'
<1>1. PICK asked \in Settings, variants \in SUBSET (Range(Queries) \ DeepQueries) :
        run' = [run EXCEPT ![r] = [NotStarted EXCEPT
          !.pc = "search", !.settings = asked, !.plan = Plan(variants, asked),
          !.iterations = 1, !.started = clock]]
  BY DEF BeginResearch
<1> DEFINE plan == Plan(variants, asked)
           x == [NotStarted EXCEPT !.pc = "search", !.settings = asked, !.plan = plan,
                   !.iterations = 1, !.started = clock]
<1>2. plan \in Seq(Range(Queries)) /\ Len(plan) \in Nat \ {0}
  <2> DEFINE planned == Planned({Queries[1]} \cup variants \cup (IF asked.deep THEN DeepQueries ELSE {}))
             k == IF Len(planned) < asked.maxQueries THEN Len(planned) ELSE asked.maxQueries
  <2>1. planned \in Seq(Range(Queries)) /\ planned # <<>>
    BY PlannedIs
  <2>2. plan = SubSeq(planned, 1, k)
    BY DEF Plan
  <2> HIDE DEF planned, plan
  <2>3. Len(planned) \in Nat \ {0}
    BY <2>1, EmptySeq
  <2>4. k \in 1..Len(planned)
    BY <2>3, SettingsAre
  <2> HIDE DEF k
  <2>5. SubSeq(planned, 1, k) \in Seq(Range(Queries)) /\ Len(SubSeq(planned, 1, k)) = k
    BY <2>1, <2>3, <2>4
  <2> QED  BY <2>2, <2>4, <2>5
<1> HIDE DEF plan
<1>3. clock \in Nat
  BY TimesAre DEF ResearchInv
<1>4. NotStarted \in ResearchRun /\ RunHolds(NotStarted, clock)
  BY <1>3, NotStartedIs
<1>5. x \in ResearchRun
  BY <1>2, <1>3, <1>4 DEF ResearchRun
<1>6. /\ x.pc = "search" /\ x.settings = asked /\ x.plan = plan /\ x.iterations = 1 /\ x.started = clock
      /\ x.at = 0 /\ x.found = <<>> /\ x.contexts = <<>> /\ x.attempted = 0 /\ x.pages = NotStarted.pages
  BY <1>4 DEF NotStarted
<1>7. RunHolds(x, clock)
  <2> HIDE DEF x
  <2>1. asked.maxIterations \in Nat \ {0} /\ asked.maxFetches \in Nat
    BY SettingsAre
  <2>2. PerIteration(plan, asked) \in Nat \ {0}
    BY <1>2, ShareIs
  <2>3. InIteration(x)
    BY <1>2, <1>6, <2>1, <2>2 DEF InIteration
  <2>4. \A s \in Sources : PageHolds(x.pages[s], clock)
    BY <1>4, <1>6 DEF RunHolds
  <2> QED  BY <1>3, <1>6, <2>1, <2>3, <2>4 DEF RunHolds
<1>8. run' = [run EXCEPT ![r] = x]
  BY <1>1 DEF plan
<1> HIDE DEF x
<1>9. clock' = clock /\ searches' = searches /\ pages' = pages
  BY DEF BeginResearch
<1> QED  BY <1>5, <1>7, <1>8, <1>9, RunStep DEF ResearchInv

\* What a search finds is as fresh as asked.
LEMMA FindsHolds ==
  ASSUME ResearchInv, NEW r \in ResearchRuns, run[r].pc = "search", clock' = clock,
         NEW contexts \in Seq(ResearchContext), NEW failures \in Nat, Finds(r, contexts, failures),
         \A i \in DOMAIN contexts : contexts[i].rank >= 1 /\ AsAsked(run[r], contexts[i])
  PROVE  run' \in [ResearchRuns -> ResearchRun] /\ \A q \in ResearchRuns : RunHolds(run'[q], clock)
<1> DEFINE old == run[r]
           failed == old.failures + failures
           x == [old EXCEPT !.pc = "fetch", !.failures = failed, !.found = contexts]
<1>1. old \in ResearchRun /\ RunHolds(old, clock)
  BY DEF ResearchInv
<1>2. run' = [run EXCEPT ![r] = x]
  BY DEF Finds, ResearchInv
<1> HIDE DEF old
<1>0. failed \in Nat
  BY <1>1 DEF ResearchRun
<1> HIDE DEF failed
<1>3. x \in ResearchRun
  BY <1>0, <1>1 DEF ResearchRun
<1>4. /\ x.pc = "fetch" /\ x.found = contexts
      /\ x.settings = old.settings /\ x.plan = old.plan /\ x.at = old.at /\ x.iterations = old.iterations
      /\ x.contexts = old.contexts /\ x.attempted = old.attempted /\ x.started = old.started
      /\ x.pages = old.pages
  BY <1>1 DEF ResearchRun
<1>5. old.pc = "search"
  BY DEF old
<1>6. \A i \in DOMAIN contexts : contexts[i].rank >= 1 /\ AsAsked(old, contexts[i])
  BY DEF old
<1> HIDE DEF x
<1>7. RunHolds(x, clock)
  BY <1>1, <1>4, <1>5, <1>6 DEF RunHolds, InIteration, AsAsked
<1> QED  BY <1>2, <1>3, <1>7, RunStep

LEMMA SearchKeeps == ASSUME ResearchInv, NEW r \in ResearchRuns, Search(r)  PROVE ResearchInv'
<1> DEFINE query == run[r].plan[run[r].at + 1]
           asked == run[r].settings
<1>1. /\ run[r].pc = "search" /\ clock' = clock /\ pages' = pages /\ clock \in Nat
      /\ run[r] \in ResearchRun /\ RunHolds(run[r], clock)
  BY TimesAre DEF Search, ResearchInv
<1>2. query \in Range(Queries)
  <2>1. run[r].plan \in Seq(Range(Queries)) /\ run[r].at \in Nat /\ run[r].at < Len(run[r].plan)
    BY <1>1 DEF ResearchRun, RunHolds, InIteration
  <2> QED  BY <2>1
<1>3. /\ searches[query] \in [contexts: Seq(ResearchContext), expires: Nat]
      /\ SearchHolds(searches[query], clock) /\ asked \in Settings
  BY <1>1, <1>2 DEF ResearchInv, ResearchRun
<1>4. CASE Usable(asked, searches[query])
  <2>1. Finds(r, searches[query].contexts, 0) /\ searches' = searches
    BY <1>4 DEF Search
  <2>2. ASSUME NEW i \in DOMAIN searches[query].contexts
        PROVE  searches[query].contexts[i].rank >= 1 /\ AsAsked(run[r], searches[query].contexts[i])
    <3>1. ~asked.fresh /\ searches[query].expires > clock
      BY <1>4 DEF Usable
    <3>2. run[r].started <= clock /\ run[r].started \in Nat
      BY <1>1 DEF RunHolds, ResearchRun
    <3>3. searches[query].contexts[i] \in ResearchContext
      BY <1>3
    <3> DEFINE c == searches[query].contexts[i]
    <3>4. c.at \in Nat /\ c.rank >= 1 /\ ~c.fetched /\ searches[query].expires <= c.at + SearchTtl
      <4>1. c.at \in Nat
        BY <3>3, TimesAre DEF ResearchContext
      <4>2. c.rank >= 1 /\ ~c.fetched /\ searches[query].expires <= c.at + SearchTtl
        <5> HIDE DEF query
        <5> QED  BY <1>3 DEF SearchHolds
      <4> QED  BY <4>1, <4>2
    <3> HIDE DEF c
    <3>5. c.at + SearchTtl > run[r].started
      <4>1. searches[query].expires \in Nat /\ clock \in Nat /\ SearchTtl \in Nat
        BY <1>1, <1>3, TimesAre
      <4> QED  BY <3>1, <3>2, <3>4, <4>1
    <3> QED  BY <3>1, <3>4, <3>5 DEF AsAsked, TtlOf, c
  <2>3. searches[query].contexts \in Seq(ResearchContext)
    BY <1>3
  <2>4. run' \in [ResearchRuns -> ResearchRun] /\ \A q \in ResearchRuns : RunHolds(run'[q], clock)
    BY <1>1, <2>1, <2>2, <2>3, FindsHolds
  <2> QED  BY <1>1, <2>1, <2>4 DEF ResearchInv
<1>5. CASE ~Usable(asked, searches[query]) /\ Finds(r, <<>>, 1) /\ UNCHANGED searches
  <2>1. run' \in [ResearchRuns -> ResearchRun] /\ \A q \in ResearchRuns : RunHolds(run'[q], clock)
    <3> DEFINE none == <<>>
    <3>1. none \in Seq(ResearchContext) /\ DOMAIN none = {} /\ Finds(r, none, 1)
      BY <1>5
    <3> HIDE DEF none
    <3> QED  BY <1>1, <3>1, FindsHolds
  <2> QED  BY <1>1, <1>5, <2>1 DEF ResearchInv
<1>6. ASSUME NEW sources \in Results, NEW size \in PageSizes, NEW contexts,
             contexts = [i \in DOMAIN sources |->
               [source |-> sources[i], rank |-> i, tokens |-> size, fetched |-> FALSE, at |-> clock]],
             Finds(r, contexts, 0),
             searches' = [searches EXCEPT ![query] =
               [contexts |-> contexts, expires |-> Expires(asked, SearchTtl)]]
      PROVE  ResearchInv'
  <2>1. sources \in Seq(Sources) /\ size \in Nat /\ clock \in 0..MaxTime
    BY TimesAre, ResearchAssumption DEF ResearchInv
  <2>2. /\ contexts \in Seq(ResearchContext)
        /\ \A i \in DOMAIN contexts :
             contexts[i].rank = i /\ ~contexts[i].fetched /\ contexts[i].at = clock /\ i \in Nat \ {0}
    <3>1. \A i \in 1..Len(sources) :
            [source |-> sources[i], rank |-> i, tokens |-> size, fetched |-> FALSE, at |-> clock] \in ResearchContext
      BY <2>1 DEF ResearchContext
    <3>2. contexts = [i \in 1..Len(sources) |->
            [source |-> sources[i], rank |-> i, tokens |-> size, fetched |-> FALSE, at |-> clock]]
      BY <1>6, <2>1
    <3>3. contexts \in [1..Len(sources) -> ResearchContext] /\ Len(sources) \in Nat
      BY <2>1, <3>1, <3>2
    <3> QED  BY <3>2, <3>3
  <2>3. Expires(asked, SearchTtl) \in Nat /\ Expires(asked, SearchTtl) <= clock + SearchTtl
    BY <1>1, TimesAre DEF Expires
  <2>4. ASSUME NEW i \in DOMAIN contexts  PROVE contexts[i].rank >= 1 /\ AsAsked(run[r], contexts[i])
    <3>1. contexts[i].rank >= 1 /\ contexts[i].at = clock
      BY <2>2
    <3>2. run[r].started <= clock
      BY <1>1 DEF RunHolds
    <3>3. run[r].started \in Nat
      BY <1>1 DEF ResearchRun
    <3> QED  BY <1>1, <3>1, <3>2, <3>3 DEF AsAsked
  <2>5. run' \in [ResearchRuns -> ResearchRun] /\ \A q \in ResearchRuns : RunHolds(run'[q], clock)
    BY <1>1, <1>6, <2>2, <2>4, FindsHolds
  <2> DEFINE entry == [contexts |-> contexts, expires |-> Expires(asked, SearchTtl)]
  <2>6. entry \in [contexts: Seq(ResearchContext), expires: Nat]
    BY <2>2, <2>3
  <2>7. SearchHolds(entry, clock)
    BY <1>1, <2>2, <2>3 DEF SearchHolds
  <2>8. searches' = [searches EXCEPT ![query] = entry]
    BY <1>6
  <2> HIDE DEF entry
  <2>9. /\ searches' \in [Range(Queries) -> [contexts: Seq(ResearchContext), expires: Nat]]
        /\ \A q \in Range(Queries) : SearchHolds(searches'[q], clock)
    BY <1>2, <2>6, <2>7, <2>8 DEF ResearchInv
  <2> QED  BY <1>1, <2>5, <2>9 DEF ResearchInv
<1>7. CASE ~Usable(asked, searches[query])
  <2>1. \/ \E sources \in Results, size \in PageSizes :
             LET contexts == [i \in DOMAIN sources |->
                   [source |-> sources[i], rank |-> i, tokens |-> size, fetched |-> FALSE, at |-> clock]]
             IN  /\ Finds(r, contexts, 0)
                 /\ searches' = [searches EXCEPT ![query] =
                      [contexts |-> contexts, expires |-> Expires(asked, SearchTtl)]]
        \/ Finds(r, <<>>, 1) /\ UNCHANGED searches
    BY <1>7 DEF Search
  <2> HIDE DEF query, asked
  <2> QED  BY <1>5, <1>6, <1>7, <2>1
<1> QED  BY <1>4, <1>7

LEMMA TickKeeps == ASSUME ResearchInv, Tick  PROVE ResearchInv'
<1>1. clock' = clock + 1 /\ clock' \in 0..MaxTime /\ clock \in Nat /\ UNCHANGED <<run, searches, pages>>
  BY TimesAre DEF Tick, ResearchInv
<1>2. ASSUME NEW page \in ResearchPage, PageHolds(page, clock)  PROVE PageHolds(page, clock')
  BY <1>1, <1>2 DEF PageHolds, ResearchPage
<1>3. \A s \in Sources : PageHolds(pages[s], clock')
  BY <1>2 DEF ResearchInv
<1>4. ASSUME NEW q \in Range(Queries)  PROVE SearchHolds(searches[q], clock')
  <2>1. searches[q].contexts \in Seq(ResearchContext) /\ SearchHolds(searches[q], clock)
    BY DEF ResearchInv
  <2>2. \A i \in DOMAIN searches[q].contexts : searches[q].contexts[i].at \in Nat
    <3>1. \A i \in DOMAIN searches[q].contexts : searches[q].contexts[i] \in ResearchContext
      BY <2>1
    <3> QED  BY <3>1, TimesAre DEF ResearchContext
  <2> QED  BY <1>1, <2>1, <2>2 DEF SearchHolds
<1>5. ASSUME NEW r \in ResearchRuns  PROVE RunHolds(run[r], clock')
  <2>1. run[r] \in ResearchRun /\ RunHolds(run[r], clock)
    BY DEF ResearchInv
  <2>2. \A s \in Sources : run[r].pages[s] \in ResearchPage
    BY <2>1 DEF ResearchRun
  <2>3. \A s \in Sources : PageHolds(run[r].pages[s], clock')
    BY <1>2, <2>1, <2>2 DEF RunHolds
  <2>4. run[r].started <= clock'
    BY <1>1, <2>1 DEF RunHolds, ResearchRun
  <2> QED  BY <2>1, <2>3, <2>4 DEF RunHolds
<1>6. \A r \in ResearchRuns : RunHolds(run'[r], clock')
  BY <1>1, <1>5
<1>7. \A q \in Range(Queries) : SearchHolds(searches'[q], clock')
  BY <1>1, <1>4
<1>8. \A s \in Sources : PageHolds(pages'[s], clock')
  BY <1>1, <1>3
<1>9. /\ run' \in [ResearchRuns -> ResearchRun] /\ pages' \in [Sources -> ResearchPage]
      /\ searches' \in [Range(Queries) -> [contexts: Seq(ResearchContext), expires: Nat]]
  BY <1>1 DEF ResearchInv
<1> QED  BY <1>1, <1>6, <1>7, <1>8, <1>9 DEF ResearchInv

\* A page that a run may use is as fresh as it asks.
FreshPage(x, page) ==
  \/ page.at >= x.started
  \/ ~x.settings.fresh /\ page.at + PageTtl > x.started

LEMMA WithPageIs ==
  ASSUME NEW x, NEW c \in ResearchContext, c.rank >= 1, AsAsked(x, c),
         NEW page \in ResearchPage, page.at <= MaxTime, FreshPage(x, page)
  PROVE  WithPage(c, page) \in ResearchContext /\ AsAsked(x, WithPage(c, page))
<1>1. CASE page.tokens = 0
  BY <1>1 DEF WithPage
<1>2. CASE page.tokens # 0
  <2> DEFINE d == [c EXCEPT !.tokens = page.tokens, !.fetched = TRUE, !.at = page.at, !.rank = c.rank - 1]
  <2>1. WithPage(c, page) = d
    BY <1>2 DEF WithPage
  <2>2. c.rank - 1 \in Nat /\ page.tokens \in Nat /\ page.at \in 0..MaxTime
    BY TimesAre DEF ResearchContext, ResearchPage
  <2>3. d \in ResearchContext /\ d.at = page.at /\ d.fetched
    BY <2>2 DEF ResearchContext
  <2> HIDE DEF d
  <2>4. AsAsked(x, d)
    BY <2>3 DEF AsAsked, FreshPage, TtlOf
  <2> QED  BY <2>1, <2>3, <2>4
<1> QED  BY <1>1, <1>2

LEMMA PageOfIs ==
  ASSUME ResearchInv, NEW r \in ResearchRuns, NEW s \in Sources
  PROVE  /\ PageOf(r, s) \in ResearchPage /\ PageHolds(PageOf(r, s), clock)
         /\ Usable(run[r].settings, PageOf(r, s)) => FreshPage(run[r], PageOf(r, s))
<1>1. run[r] \in ResearchRun /\ RunHolds(run[r], clock) /\ clock \in Nat
  BY TimesAre DEF ResearchInv
<1>2. PageOf(r, s) \in ResearchPage /\ PageHolds(PageOf(r, s), clock)
  <2>1. run[r].pages[s] \in ResearchPage /\ PageHolds(run[r].pages[s], clock)
    BY <1>1 DEF ResearchRun, RunHolds
  <2>2. pages[s] \in ResearchPage /\ PageHolds(pages[s], clock)
    BY DEF ResearchInv
  <2> QED  BY <2>1, <2>2 DEF PageOf
<1> DEFINE page == PageOf(r, s)
<1>3. page.at \in Nat /\ page.expires \in Nat /\ page.expires <= page.at + PageTtl
  BY <1>2 DEF ResearchPage, PageHolds
<1>4. run[r].started \in Nat /\ run[r].started <= clock
  BY <1>1 DEF ResearchRun, RunHolds
<1> HIDE DEF page
<1>5. ASSUME Usable(run[r].settings, page)  PROVE FreshPage(run[r], page)
  <2>1. ~run[r].settings.fresh /\ page.expires > clock
    BY <1>5 DEF Usable
  <2>2. page.at + PageTtl > run[r].started
    BY <1>1, <1>3, <1>4, <2>1, TimesAre
  <2> QED  BY <2>1, <2>2 DEF FreshPage
<1> QED  BY <1>2, <1>5 DEF page

LEMMA FetchKeeps == ASSUME ResearchInv, NEW r \in ResearchRuns, Fetch(r)  PROVE ResearchInv'
<1> DEFINE old == run[r]
           asked == old.settings
           found == old.found
<1>1. /\ old \in ResearchRun /\ RunHolds(old, clock) /\ old.pc = "fetch"
      /\ clock \in Nat /\ clock <= MaxTime /\ clock' = clock /\ searches' = searches
  BY TimesAre DEF Fetch, ResearchInv
<1>2. PICK fetch \in Fetching(asked), size \in PageSizes \cup {0} :
        LET wanted == IF fetch THEN {i \in DOMAIN found : i <= RemainingFetches(r)} ELSE {}
            cached == {i \in wanted : Usable(asked, PageOf(r, found[i].source))}
            page   == [tokens |-> size, at |-> clock, expires |-> Expires(asked, PageTtl)]
        IN  \E answered \in SUBSET (wanted \ cached) : FetchPages(r, wanted, cached, answered, page)
  BY DEF Fetch
<1>00. size \in Nat
  BY SizeIs
<1> DEFINE wanted == IF fetch THEN {i \in DOMAIN found : i <= RemainingFetches(r)} ELSE {}
           cached == {i \in wanted : Usable(asked, PageOf(r, found[i].source))}
           page   == [tokens |-> size, at |-> clock, expires |-> Expires(asked, PageTtl)]
<1>0. PICK answered \in SUBSET (wanted \ cached) : FetchPages(r, wanted, cached, answered, page)
  BY <1>2
<1> DEFINE tried == old.attempted + Cardinality(wanted)
           own == [s \in Sources |->
                IF \E i \in answered : found[i].source = s THEN page
                ELSE IF \E i \in cached : found[i].source = s THEN PageOf(r, s) ELSE old.pages[s]]
           full == [i \in DOMAIN found |->
                IF i \in cached THEN WithPage(found[i], PageOf(r, found[i].source))
                ELSE IF i \in answered THEN WithPage(found[i], page) ELSE found[i]]
           x == [old EXCEPT !.pc = "pack", !.attempted = tried, !.pages = own, !.found = full]
<1>3. /\ asked \in Settings /\ found \in Seq(ResearchContext) /\ old.attempted \in Nat
      /\ old.started \in Nat /\ old.started <= clock /\ asked.maxFetches \in Nat
      /\ old.attempted <= asked.maxFetches /\ old.pages \in [Sources -> ResearchPage]
      /\ \A s \in Sources : PageHolds(old.pages[s], clock)
      /\ \A i \in DOMAIN found : found[i].rank >= 1 /\ AsAsked(old, found[i])
  <2>1. asked \in Settings
    BY <1>1 DEF ResearchRun
  <2>2. asked.maxFetches \in Nat
    BY <2>1, SettingsAre
  <2> HIDE DEF old
  <2> QED  BY <1>1, <2>1, <2>2 DEF ResearchRun, RunHolds
<1>4. tried \in Nat /\ tried <= asked.maxFetches
  <2> DEFINE k == RemainingFetches(r)
  <2>1. k \in Nat /\ old.attempted + k <= asked.maxFetches
    BY <1>3 DEF RemainingFetches
  <2> HIDE DEF k, tried
  <2>2. wanted \in SUBSET (1..k)
    BY <1>3 DEF k
  <2> HIDE DEF wanted
  <2>3. IsFiniteSet(1..k) /\ Cardinality(1..k) = k
    BY <2>1, FS_Interval
  <2>4. IsFiniteSet(wanted) /\ Cardinality(wanted) <= k
    BY <2>2, <2>3, FS_Subset
  <2>5. Cardinality(wanted) \in Nat
    BY <2>4, FS_CardinalityType
  <2> QED  BY <1>3, <2>1, <2>4, <2>5 DEF tried
<1>5. page \in ResearchPage /\ PageHolds(page, clock) /\ page.at = clock /\ FreshPage(old, page)
  <2>1. size \in Nat /\ Expires(asked, PageTtl) \in Nat /\ Expires(asked, PageTtl) <= clock + PageTtl
    BY <1>1, <1>00, TimesAre DEF Expires
  <2>2. page \in ResearchPage /\ page.at = clock /\ page.expires = Expires(asked, PageTtl)
    BY <1>1, <2>1 DEF ResearchPage
  <2> HIDE DEF old, page
  <2> QED  BY <1>1, <1>3, <2>1, <2>2 DEF PageHolds, FreshPage
<1>6. own \in [Sources -> ResearchPage] /\ \A s \in Sources : PageHolds(own[s], clock)
  <2> SUFFICES ASSUME NEW s \in Sources
               PROVE  own[s] \in ResearchPage /\ PageHolds(own[s], clock)
    OBVIOUS
  <2>1. PageOf(r, s) \in ResearchPage /\ PageHolds(PageOf(r, s), clock)
    BY PageOfIs
  <2>2. old.pages[s] \in ResearchPage /\ PageHolds(old.pages[s], clock)
    BY <1>3
  <2>3. own[s] \in {page, PageOf(r, s), old.pages[s]}
    <3> HIDE DEF page, cached, found
    <3> QED  OBVIOUS
  <2> HIDE DEF own, page, old
  <2> QED  BY <1>5, <2>1, <2>2, <2>3
<1>7. full \in Seq(ResearchContext) /\ \A i \in DOMAIN full : AsAsked(old, full[i])
  <2>1. ASSUME NEW i \in DOMAIN found
        PROVE  full[i] \in ResearchContext /\ AsAsked(old, full[i])
    <3>1. /\ found[i] \in ResearchContext /\ found[i].source \in Sources
          /\ found[i].rank >= 1 /\ AsAsked(old, found[i])
      <4>1. found[i] \in ResearchContext
        BY <1>3
      <4> QED  BY <1>3, <4>1 DEF ResearchContext
    <3>2. CASE i \in cached
      <4>1. full[i] = WithPage(found[i], PageOf(r, found[i].source))
            /\ Usable(asked, PageOf(r, found[i].source))
        BY <3>2
      <4>2. /\ PageOf(r, found[i].source) \in ResearchPage /\ FreshPage(old, PageOf(r, found[i].source))
            /\ PageHolds(PageOf(r, found[i].source), clock)
        BY <3>1, <4>1, PageOfIs
      <4>3. PageOf(r, found[i].source).at <= MaxTime
        BY <1>1, <4>2, TimesAre DEF PageHolds, ResearchPage
      <4> QED  BY <3>1, <4>1, <4>2, <4>3, WithPageIs
    <3>3. CASE i \notin cached /\ i \in answered
      <4>1. full[i] = WithPage(found[i], page)
        BY <3>3
      <4> QED  BY <1>1, <1>5, <3>1, <4>1, WithPageIs
    <3>4. CASE i \notin cached /\ i \notin answered
      BY <3>1, <3>4
    <3> QED  BY <3>2, <3>3, <3>4
  <2>2. DOMAIN found = 1..Len(found) /\ Len(found) \in Nat /\ DOMAIN full = DOMAIN found
    BY <1>3
  <2>3. full = [i \in DOMAIN found |-> full[i]]
    OBVIOUS
  <2> HIDE DEF full
  <2>4. full \in [1..Len(found) -> ResearchContext]
    BY <2>1, <2>2, <2>3
  <2> QED  BY <2>1, <2>2, <2>4
<1>8. /\ run' = [run EXCEPT ![r] = x]
      /\ pages' = [s \in Sources |-> IF \E i \in answered : found[i].source = s THEN page ELSE pages[s]]
  <2> HIDE DEF wanted, cached, page
  <2> QED  BY <1>0 DEF FetchPages
<1> HIDE DEF tried, own, full
<1>9. /\ x \in ResearchRun /\ x.pc = "pack" /\ x.attempted = tried /\ x.pages = own /\ x.found = full
      /\ x.settings = old.settings /\ x.plan = old.plan /\ x.at = old.at /\ x.iterations = old.iterations
      /\ x.contexts = old.contexts /\ x.started = old.started
  <2> HIDE DEF old
  <2> QED  BY <1>1, <1>4, <1>6, <1>7 DEF ResearchRun
<1>10. RunHolds(x, clock)
  <2> HIDE DEF x, old
  <2>1. InIteration(x)
    BY <1>1, <1>9 DEF RunHolds, InIteration
  <2>2. \A i \in DOMAIN x.found : AsAsked(x, x.found[i])
    BY <1>7, <1>9 DEF AsAsked
  <2>3. \A i \in DOMAIN x.contexts : AsAsked(x, x.contexts[i])
    BY <1>1, <1>9 DEF AsAsked, RunHolds
  <2> QED  BY <1>1, <1>3, <1>4, <1>6, <1>9, <2>1, <2>2, <2>3 DEF RunHolds, asked
<1> HIDE DEF x
<1>11. run' \in [ResearchRuns -> ResearchRun] /\ \A q \in ResearchRuns : RunHolds(run'[q], clock)
  BY <1>1, <1>8, <1>9, <1>10, RunStep
<1>12. pages' \in [Sources -> ResearchPage] /\ \A s \in Sources : PageHolds(pages'[s], clock)
  <2> HIDE DEF page, found
  <2> QED  BY <1>5, <1>8 DEF ResearchInv
<1> QED  BY <1>1, <1>11, <1>12 DEF ResearchInv

LEMMA PackKeeps == ASSUME ResearchInv, NEW r \in ResearchRuns, Pack(r)  PROVE ResearchInv'
<1> DEFINE old == run[r]
           asked == old.settings
           searched == old.at + 1
           share == PerIteration(old.plan, asked)
           packed == Packed(old.found, asked.maxTokens)
           contexts == old.contexts \o packed
           enough == Enough(asked, contexts, searched)
           iterationOver == searched % share = 0
           over == \/ searched = Len(old.plan)
                   \/ enough
                   \/ iterationOver /\ old.iterations = asked.maxIterations
           iterations == IF iterationOver /\ ~over THEN old.iterations + 1 ELSE old.iterations
           result == IF over THEN PackedUnique(contexts, asked.maxTokens) ELSE <<>>
           pc == IF over THEN "ended" ELSE "search"
           x == [old EXCEPT !.pc = pc, !.at = searched, !.found = <<>>, !.contexts = contexts,
                   !.enough = enough, !.iterations = iterations, !.result = result]
<1>1. /\ old \in ResearchRun /\ RunHolds(old, clock) /\ old.pc = "pack"
      /\ clock' = clock /\ searches' = searches /\ pages' = pages
  BY DEF Pack, ResearchInv
<1>2. run' = [run EXCEPT ![r] = x]
  BY DEF Pack
<1>3. asked \in Settings
  BY <1>1 DEF ResearchRun
<1> HIDE DEF old
<1>4. /\ old.at \in Nat /\ old.iterations \in Nat /\ old.plan \in Seq(Range(Queries))
      /\ old.found \in Seq(ResearchContext) /\ old.contexts \in Seq(ResearchContext)
      /\ InIteration(old)
  BY <1>1 DEF ResearchRun, RunHolds
<1>5. /\ asked.maxTokens \in Nat /\ asked.maxIterations \in Nat \ {0}
      /\ asked.deep \in BOOLEAN /\ asked.complex \in BOOLEAN
  BY <1>3, SettingsAre
<1>6. /\ packed \in Seq(ResearchContext)
      /\ \A i \in DOMAIN packed : \E j \in DOMAIN old.found :
           packed[i].at = old.found[j].at /\ packed[i].fetched = old.found[j].fetched
  <2>1. packed \in Seq(TimesOf(old.found))
    BY <1>4, <1>5, PackedIs
  <2> HIDE DEF packed
  <2>2. \A i \in DOMAIN packed : packed[i] \in TimesOf(old.found)
    BY <2>1
  <2>3. \A i \in DOMAIN packed : packed[i] \in ResearchContext
    BY <2>2 DEF TimesOf
  <2>4. packed \in [1..Len(packed) -> ResearchContext] /\ Len(packed) \in Nat
    BY <2>1, <2>3
  <2> QED  BY <2>2, <2>4 DEF TimesOf
<1> HIDE DEF packed
<1>7. contexts \in Seq(ResearchContext) /\ \A i \in DOMAIN contexts : AsAsked(old, contexts[i])
  <2>1. \A i \in DOMAIN packed : AsAsked(old, packed[i])
    BY <1>1, <1>6 DEF RunHolds, AsAsked, TtlOf
  <2>2. /\ contexts \in Seq(ResearchContext)
        /\ Len(contexts) = Len(old.contexts) + Len(packed)
        /\ \A i \in 1..Len(contexts) : contexts[i] =
             IF i <= Len(old.contexts) THEN old.contexts[i] ELSE packed[i - Len(old.contexts)]
    BY <1>4, <1>6
  <2> HIDE DEF contexts
  <2>3. ASSUME NEW i \in DOMAIN contexts  PROVE AsAsked(old, contexts[i])
    <3>1. i \in 1..Len(contexts) /\ Len(old.contexts) \in Nat /\ Len(packed) \in Nat
      BY <1>4, <1>6, <2>2
    <3>2. CASE i <= Len(old.contexts)
      <4>1. i \in DOMAIN old.contexts /\ contexts[i] = old.contexts[i]
        BY <1>4, <2>2, <3>1, <3>2
      <4> QED  BY <1>1, <4>1 DEF RunHolds
    <3>3. CASE ~(i <= Len(old.contexts))
      <4>1. i - Len(old.contexts) \in DOMAIN packed /\ contexts[i] = packed[i - Len(old.contexts)]
        <5>1. i - Len(old.contexts) \in 1..Len(packed)
          BY <2>2, <3>1, <3>3
        <5>2. DOMAIN packed = 1..Len(packed)
          BY <1>6
        <5>3. contexts[i] = packed[i - Len(old.contexts)]
          BY <2>2, <3>1, <3>3
        <5> QED  BY <5>1, <5>2, <5>3
      <4> QED  BY <2>1, <4>1
    <3> QED  BY <3>2, <3>3
  <2> QED  BY <2>2, <2>3
<1> HIDE DEF contexts
<1>8. enough \in BOOLEAN
  BY <1>5 DEF Enough
<1>9. /\ result \in Seq(ResearchContext)
      /\ over => TokensOf(result) <= asked.maxTokens /\ DistinctSources(result)
  <2> HIDE DEF over
  <2>1. CASE over
    <3>1. result = PackedUnique(contexts, asked.maxTokens)
      BY <2>1
    <3> HIDE DEF result
    <3> QED  BY <1>5, <1>7, <3>1, PackedUniqueIs
  <2>2. CASE ~over
    BY <2>2
  <2> QED  BY <2>1, <2>2
<1> HIDE DEF enough
<1>10. /\ Len(old.plan) \in Nat \ {0} /\ share \in Nat \ {0}
       /\ Len(old.plan) <= asked.maxIterations * share
  <2>1. Len(old.plan) \in Nat \ {0}
    BY <1>4 DEF InIteration
  <2> QED  BY <1>3, <2>1, ShareIs
<1>11. /\ searched \in Nat /\ searched <= Len(old.plan)
       /\ old.iterations \in 1..asked.maxIterations
       /\ (old.iterations - 1) * share < searched /\ searched <= old.iterations * share
       /\ old.iterations * share \in Nat /\ (old.iterations - 1) * share \in Int
  <2>1. /\ old.at < Len(old.plan) /\ old.iterations \in 1..asked.maxIterations
        /\ (old.iterations - 1) * share <= old.at /\ old.at < old.iterations * share
    BY <1>4 DEF InIteration
  <2> HIDE DEF share
  <2>2. old.iterations * share \in Nat /\ (old.iterations - 1) * share \in Int
    BY <1>4, <1>10
  <2> DEFINE a == (old.iterations - 1) * share
             b == old.iterations * share
  <2>3. a <= old.at /\ old.at < b
    BY <2>1 DEF share
  <2> HIDE DEF a, b
  <2>4. a < searched /\ searched <= b /\ searched \in Nat /\ searched <= Len(old.plan)
    <3>1. old.at \in Nat /\ a \in Int /\ b \in Nat /\ Len(old.plan) \in Nat
      BY <1>4, <1>10, <2>2 DEF a, b
    <3> QED  BY <2>1, <2>3, <3>1
  <2> QED  BY <2>1, <2>2, <2>4 DEF a, b
<1>12. iterationOver <=> searched = old.iterations * share
  <2> HIDE DEF searched, share
  <2>1. searched % share = 0 <=> searched = old.iterations * share
    <3>1. old.iterations \in Nat \ {0}
      BY <1>5, <1>11
    <3> QED  BY <1>10, <1>11, <3>1, Multiple
  <2> QED  BY <2>1
<1> HIDE DEF searched, iterationOver, share
<1>13. over => enough \/ searched = Len(old.plan)
  BY <1>10, <1>11, <1>12
<1>14. /\ iterations \in Nat /\ iterations <= asked.maxIterations
       /\ ~over => /\ searched < Len(old.plan) /\ iterations \in 1..asked.maxIterations
                   /\ (iterations - 1) * share <= searched /\ searched < iterations * share
  <2>1. (old.iterations + 1) * share = old.iterations * share + share /\ (old.iterations + 1) - 1 = old.iterations
    BY <1>4, <1>10
  <2>2. CASE iterationOver /\ ~over
    <3>1. iterations = old.iterations + 1
      BY <2>2
    <3>2. old.iterations # asked.maxIterations /\ searched # Len(old.plan)
      BY <2>2
    <3>3. iterations \in 1..asked.maxIterations
      BY <1>5, <1>11, <3>1, <3>2
    <3>4. (iterations - 1) * share = searched
      BY <1>12, <2>1, <2>2, <3>1
    <3>5. searched < iterations * share
      BY <1>10, <1>11, <1>12, <2>1, <2>2, <3>1
    <3> HIDE DEF over, iterations
    <3> QED  BY <1>5, <1>10, <1>11, <3>2, <3>3, <3>4, <3>5
  <2>3. CASE ~iterationOver /\ ~over
    <3>1. iterations = old.iterations
      BY <2>3
    <3>2. searched # Len(old.plan)
      BY <2>3
    <3> HIDE DEF over, iterations
    <3> QED  BY <1>5, <1>10, <1>11, <1>12, <2>3, <3>1, <3>2
  <2>4. CASE over
    <3>1. iterations = old.iterations
      BY <2>4
    <3> HIDE DEF over, iterations
    <3> QED  BY <1>4, <1>5, <1>11, <2>4, <3>1
  <2> QED  BY <2>2, <2>3, <2>4
<1> HIDE DEF over, result, iterations
<1>15. pc \in {"ended", "search"} /\ (pc = "ended" <=> over)
  OBVIOUS
<1> HIDE DEF pc
<1>16. /\ x \in ResearchRun /\ x.pc = pc /\ x.at = searched /\ x.found = <<>> /\ x.contexts = contexts
       /\ x.enough = enough /\ x.iterations = iterations /\ x.result = result
       /\ x.settings = asked /\ x.plan = old.plan /\ x.attempted = old.attempted
       /\ x.started = old.started /\ x.pages = old.pages
  <2> HIDE DEF asked
  <2>1. pc \in {"idle", "search", "fetch", "pack", "ended"} /\ <<>> \in Seq(ResearchContext)
    BY <1>15
  <2>2. x \in ResearchRun
    BY <1>1, <1>7, <1>8, <1>9, <1>11, <1>14, <2>1 DEF ResearchRun
  <2>3. /\ x.pc = pc /\ x.at = searched /\ x.found = <<>> /\ x.contexts = contexts
        /\ x.enough = enough /\ x.iterations = iterations /\ x.result = result
        /\ x.settings = old.settings /\ x.plan = old.plan /\ x.attempted = old.attempted
        /\ x.started = old.started /\ x.pages = old.pages
    BY <1>1 DEF ResearchRun
  <2> QED  BY <2>2, <2>3 DEF asked
<1> HIDE DEF x
<1>17. ~over => InIteration(x)
  BY <1>14, <1>16 DEF InIteration, share
<1>18. over => Ended(x)
  BY <1>9, <1>13, <1>16 DEF Ended
<1>19. RunHolds(x, clock)
  <2>1. \A i \in DOMAIN x.contexts : AsAsked(x, x.contexts[i])
    BY <1>7, <1>16 DEF AsAsked
  <2>2. \A i \in DOMAIN x.found : AsAsked(x, x.found[i])
    BY <1>16
  <2> QED  BY <1>1, <1>14, <1>15, <1>16, <1>17, <1>18, <2>1, <2>2 DEF RunHolds
<1>20. run' \in [ResearchRuns -> ResearchRun] /\ \A q \in ResearchRuns : RunHolds(run'[q], clock)
  BY <1>1, <1>2, <1>16, <1>19, RunStep
<1> QED  BY <1>1, <1>20 DEF ResearchInv

LEMMA ResearchAlways == ResearchSpec => []ResearchInv
<1>1. ResearchInv /\ [ResearchNext]_researchVars => ResearchInv'
  <2> SUFFICES ASSUME ResearchInv, [ResearchNext]_researchVars  PROVE ResearchInv'
    OBVIOUS
  <2>1. CASE \E r \in ResearchRuns : BeginResearch(r)
    BY <2>1, BeginHolds
  <2>2. CASE \E r \in ResearchRuns : Search(r)
    BY <2>2, SearchKeeps
  <2>3. CASE \E r \in ResearchRuns : Fetch(r)
    BY <2>3, FetchKeeps
  <2>4. CASE \E r \in ResearchRuns : Pack(r)
    BY <2>4, PackKeeps
  <2>5. CASE Tick
    BY <2>5, TickKeeps
  <2>6. CASE UNCHANGED researchVars
    <3>1. clock' = clock /\ run' = run /\ searches' = searches /\ pages' = pages
      BY <2>6 DEF researchVars
    <3> QED  BY <3>1 DEF ResearchInv
  <2> QED  BY <2>1, <2>2, <2>3, <2>4, <2>5, <2>6 DEF ResearchNext
<1> QED  BY <1>1, ResearchInitially, PTL DEF ResearchSpec

\* A run of research keeps to its budgets, and ends with evidence enough or its whole plan run.
THEOREM ResearchBounds == ResearchSpec => []ResearchIsBounded
<1>1. ResearchInv => ResearchIsBounded
  <2> SUFFICES ASSUME ResearchInv, NEW r \in ResearchRuns
               PROVE  /\ run[r].attempted <= run[r].settings.maxFetches
                      /\ run[r].iterations <= run[r].settings.maxIterations
                      /\ run[r].pc = "ended" =>
                           /\ run[r].enough \/ run[r].at = Len(run[r].plan)
                           /\ TokensOf(run[r].result) <= run[r].settings.maxTokens
                           /\ Cardinality(SourcesOf(run[r].result)) = Len(run[r].result)
    BY DEF ResearchIsBounded
  <2>1. RunHolds(run[r], clock) /\ run[r].result \in Seq(ResearchContext)
    BY DEF ResearchInv, ResearchRun
  <2>2. DistinctSources(run[r].result) => Cardinality(SourcesOf(run[r].result)) = Len(run[r].result)
    BY <2>1, DistinctCount
  <2> QED  BY <2>1, <2>2 DEF RunHolds, Ended
<1> QED  BY <1>1, ResearchAlways, PTL

\* What a run gathers is as fresh as the run was asked to be.
THEOREM ResearchIsFresh == ResearchSpec => []AsFreshAsAsked
<1>1. ResearchInv => AsFreshAsAsked
  BY DEF ResearchInv, RunHolds, AsAsked, AsFreshAsAsked
<1> QED  BY <1>1, ResearchAlways, PTL

-----------------------------------------------------------------------------
(* The budget of a session.  Entries form a tree in the order they were       *)
(* stored, and what a path, or a context, is follows from what that of the    *)
(* parent is.                                                                 *)

EntryKinds == [type: {"user", "assistant", "compaction"}, parent: Int, size: Nat, usage: Nat, firstKept: Int]

Tree(es) ==
  /\ es \in Seq(EntryKinds)
  /\ \A i \in 1..Len(es) : /\ es[i].parent \in {Absent} \cup 0..(i - 1)
                           /\ es[i].firstKept \in {Absent} \cup 0..(i - 1)

\* What each entry up to N has from its parent.
Grown(f, N, es, lost, next) ==
  f[0] = <<>> /\ f[Absent] = lost /\ \A i \in 1..N : f[i] = next[<<i, f[es[i].parent]>>]

Grows(N, es, lost, next, V) == \E f \in [{Absent} \cup 0..N -> V] : Grown(f, N, es, lost, next)

LEMMA GrowthExists ==
  ASSUME NEW N \in Nat, NEW es, \A i \in 1..N : es[i].parent \in {Absent} \cup 0..(i - 1),
         NEW V, <<>> \in V, NEW lost \in V, NEW next \in [(1..N) \X V -> V]
  PROVE  Grows(N, es, lost, next, V)
<1> DEFINE S == {k \in Nat : k <= N => Grows(k, es, lost, next, V)}
<1>1. 0 \in S
  <2> DEFINE f == [n \in {Absent} \cup 0..0 |-> IF n = 0 THEN <<>> ELSE lost]
  <2>1. f \in [{Absent} \cup 0..0 -> V] /\ f[0] = <<>> /\ f[Absent] = lost
    BY DEF Absent
  <2> HIDE DEF f
  <2>2. \A i \in 1..0 : FALSE
    OBVIOUS
  <2> QED  BY <2>1, <2>2 DEF Grows, Grown
<1>2. \A k \in Nat : k \in S => k + 1 \in S
  <2> SUFFICES ASSUME NEW k \in Nat, k + 1 <= N, Grows(k, es, lost, next, V)
               PROVE  Grows(k + 1, es, lost, next, V)
    OBVIOUS
  <2>0. PICK f \in [{Absent} \cup 0..k -> V] : Grown(f, k, es, lost, next)
    BY DEF Grows
  <2> DEFINE w == next[<<k + 1, f[es[k + 1].parent]>>]
             g == [n \in {Absent} \cup 0..(k + 1) |-> IF n <= k THEN f[n] ELSE w]
  <2>1. w \in V
    <3>1. k + 1 \in 1..N /\ es[k + 1].parent \in {Absent} \cup 0..((k + 1) - 1) /\ (k + 1) - 1 = k
      OBVIOUS
    <3>2. <<k + 1, f[es[k + 1].parent]>> \in (1..N) \X V
      BY <3>1
    <3> QED  BY <3>2
  <2>2. /\ g \in [{Absent} \cup 0..(k + 1) -> V] /\ g[k + 1] = w
        /\ \A n \in {Absent} \cup 0..k : g[n] = f[n]
    <3> HIDE DEF w
    <3> QED  BY <2>1 DEF Absent
  <2> HIDE DEF g
  <2>3. ASSUME NEW n \in 1..(k + 1)  PROVE g[n] = next[<<n, g[es[n].parent]>>]
    <3>1. es[n].parent \in {Absent} \cup 0..k /\ g[es[n].parent] = f[es[n].parent]
      <4>1. n \in 1..N /\ n - 1 \in 0..k
        OBVIOUS
      <4>2. es[n].parent \in {Absent} \cup 0..(n - 1)
        BY <4>1
      <4>3. es[n].parent \in {Absent} \cup 0..k
        BY <4>1, <4>2
      <4> QED  BY <2>2, <4>3
    <3>2. CASE n = k + 1
      BY <2>2, <3>1, <3>2
    <3>3. CASE n # k + 1
      <4>1. n \in 1..k /\ n \in 0..k
        BY <3>3
      <4> QED  BY <2>0, <2>2, <3>1, <4>1 DEF Grown
    <3> QED  BY <3>2, <3>3
  <2>4. g[0] = <<>> /\ g[Absent] = lost
    BY <2>0, <2>2 DEF Grown
  <2> QED  BY <2>2, <2>3, <2>4 DEF Grows, Grown
<1>3. Nat \subseteq S
  <2> HIDE DEF S
  <2> QED  BY <1>1, <1>2, SetInduction
<1>4. N \in S
  BY <1>3
<1> QED  BY <1>4

\* What is true of the root and goes from a parent to its child is true of all.
LEMMA GrowsTo ==
  ASSUME NEW N \in Nat, NEW es, \A i \in 1..N : es[i].parent \in {Absent} \cup 0..(i - 1),
         NEW G, 0 \in G, Absent \in G, \A i \in 1..N : es[i].parent \in G => i \in G
  PROVE  {Absent} \cup 0..N \subseteq G
<1> DEFINE S == {k \in Nat : k <= N => 0..k \subseteq G}
<1>1. 0 \in S
  OBVIOUS
<1>2. \A k \in Nat : k \in S => k + 1 \in S
  <2> SUFFICES ASSUME NEW k \in Nat, k + 1 <= N, 0..k \subseteq G  PROVE 0..(k + 1) \subseteq G
    OBVIOUS
  <2> DEFINE m == k + 1
  <2>1. m \in 1..N /\ es[m].parent \in {Absent} \cup 0..k /\ 0..m = (0..k) \cup {m}
    OBVIOUS
  <2> HIDE DEF m
  <2>2. m \in G
    BY <2>1
  <2> QED  BY <2>1, <2>2 DEF m
<1>3. Nat \subseteq S
  <2> HIDE DEF S
  <2> QED  BY <1>1, <1>2, SetInduction
<1> QED  BY <1>3

\* The last compaction of a path.
Compactions(p, es) == {k \in 1..Len(p) : es[p[k]].type = "compaction"}
LastOf(p, es) == SelectLastInSeq(p, LAMBDA i : es[i].type = "compaction")

LEMMA GreatestIs ==
  ASSUME NEW n \in Nat, NEW S, S \subseteq 1..n, S # {}
  PROVE  Max(S) \in S /\ \A k \in S : k <= Max(S)
<1> DEFINE T == {k \in Nat : k <= n /\ n - k \in S}
<1>1. T \subseteq Nat /\ T # {}
  <2>1. PICK k \in S : TRUE
    OBVIOUS
  <2>2. k \in Nat /\ k <= n /\ n - k \in Nat /\ n - k <= n /\ n - (n - k) = k
    BY <2>1
  <2>3. n - k \in T
    BY <2>1, <2>2
  <2> QED  BY <2>3
<1>2. PICK k \in T : \A m \in T : k <= m
  <2> HIDE DEF T
  <2> QED  BY <1>1, LeastNatural
<1>3. ASSUME NEW m \in S  PROVE n - k >= m
  <2>1. m \in Nat /\ m <= n /\ n - m \in Nat /\ n - m <= n /\ n - (n - m) = m
    BY <1>3
  <2>2. n - m \in T
    BY <1>3, <2>1
  <2>3. k <= n - m
    BY <1>2, <2>2
  <2> QED  BY <2>1, <2>3
<1>4. n - k \in S
  OBVIOUS
<1> HIDE DEF T
<1> QED  BY <1>3, <1>4 DEF Max

LEMMA SmallestIs ==
  ASSUME NEW S, S \subseteq Nat, S # {}
  PROVE  Min(S) \in S /\ \A k \in S : Min(S) <= k
BY LeastNatural DEF Min

LEMMA FirstIs ==
  ASSUME NEW U, NEW s \in Seq(U), NEW v
  PROVE  /\ FirstOf(s, v) \in 0..Len(s)
         /\ FirstOf(s, v) = 0 => \A k \in 1..Len(s) : s[k] # v
         /\ FirstOf(s, v) # 0 => s[FirstOf(s, v)] = v /\ \A k \in 1..Len(s) : s[k] = v => FirstOf(s, v) <= k
<1> DEFINE I == {k \in 1..Len(s) : s[k] = v}
<1>1. FirstOf(s, v) = IF I # {} THEN Min(I) ELSE 0
  BY DEF FirstOf, SelectInSeq
<1>2. I # {} => Min(I) \in I /\ \A k \in I : Min(I) <= k
  <2>1. I \subseteq Nat
    OBVIOUS
  <2> HIDE DEF I
  <2> QED  BY <2>1, SmallestIs
<1>3. CASE I = {}
  BY <1>1, <1>3
<1>4. CASE I # {}
  <2> DEFINE m == Min(I)
  <2>1. FirstOf(s, v) = m /\ m \in I /\ \A k \in I : m <= k
    BY <1>1, <1>2, <1>4
  <2> HIDE DEF m
  <2> QED  BY <2>1
<1> QED  BY <1>3, <1>4

LEMMA LastIs ==
  ASSUME NEW es, NEW U, NEW p \in Seq(U)
  PROVE  /\ LastOf(p, es) \in 0..Len(p)
         /\ LastOf(p, es) # 0 => es[p[LastOf(p, es)]].type = "compaction"
         /\ \A k \in (LastOf(p, es) + 1)..Len(p) : es[p[k]].type # "compaction"
<1> DEFINE I == Compactions(p, es)
<1>1. LastOf(p, es) = IF I # {} THEN Max(I) ELSE 0
  BY DEF LastOf, SelectLastInSeq, Compactions
<1>2. I \subseteq 1..Len(p) /\ Len(p) \in Nat
  BY DEF Compactions
<1>3. I # {} => Max(I) \in I /\ \A k \in I : k <= Max(I)
  <2> HIDE DEF I
  <2> QED  BY <1>2, GreatestIs
<1>4. \A k \in 1..Len(p) : k \in I <=> es[p[k]].type = "compaction"
  BY DEF Compactions
<1> DEFINE m == IF I # {} THEN Max(I) ELSE 0
<1>5. m \in 0..Len(p) /\ (m # 0 => m \in I) /\ \A k \in (m + 1)..Len(p) : k \notin I
  <2>1. CASE I = {}
    BY <2>1, <1>2
  <2>2. CASE I # {}
    <3> DEFINE g == Max(I)
    <3>1. m = g /\ g \in I /\ \A k \in I : k <= g
      BY <1>3, <2>2
    <3> HIDE DEF g, I
    <3> QED  BY <1>2, <3>1
  <2> QED  BY <2>1, <2>2
<1> HIDE DEF I
<1>6. LastOf(p, es) = m
  BY <1>1
<1> HIDE DEF m
<1>7. m # 0 => m \in 1..Len(p)
  BY <1>2, <1>5
<1>8. \A k \in (m + 1)..Len(p) : k \in 1..Len(p)
  BY <1>2, <1>5
<1> QED  BY <1>4, <1>5, <1>6, <1>7, <1>8

\* It is found when it is known to be the last.
LEMMA LastFound ==
  ASSUME NEW es, NEW U, NEW p \in Seq(U), NEW m \in 0..Len(p), m # 0 => es[p[m]].type = "compaction",
         \A k \in (m + 1)..Len(p) : es[p[k]].type # "compaction"
  PROVE  LastOf(p, es) = m
<1> DEFINE g == LastOf(p, es)
<1>1. g \in 0..Len(p) /\ (g # 0 => es[p[g]].type = "compaction") /\ \A k \in (g + 1)..Len(p) : es[p[k]].type # "compaction"
  BY LastIs
<1> HIDE DEF g
<1>2. CASE g < m
  <2>1. m \in (g + 1)..Len(p) /\ m # 0
    BY <1>1, <1>2
  <2> QED  BY <1>1, <2>1
<1>3. CASE m < g
  <2>1. g \in (m + 1)..Len(p) /\ g # 0
    BY <1>1, <1>3
  <2> QED  BY <1>1, <2>1
<1>4. CASE g = m
  BY <1>4 DEF g
<1>5. g < m \/ m < g \/ g = m
  BY <1>1
<1> QED  BY <1>2, <1>3, <1>4, <1>5

\* Paths and contexts, as the model has them.
Nodes(es) == {Absent} \cup 0..Len(es)

IsPath(P, es) ==
  P = [i \in Nodes(es) |->
         IF i = None THEN <<>> ELSE IF i = Absent THEN <<Absent>> ELSE Append(P[es[i].parent], i)]

KeptFirst(before, v) ==
  LET first == FirstOf(before, v) IN IF first = 0 THEN <<>> ELSE SubSeq(before, first, Len(before))

IsContext(C, es) ==
  C = [i \in Nodes(es) |->
         IF i \in {None, Absent} THEN <<>>
         ELSE IF es[i].type # "compaction" THEN Append(C[es[i].parent], i)
         ELSE <<i>> \o KeptFirst(C[es[i].parent], es[i].firstKept)]

LEMMA KeptFirstIs ==
  ASSUME NEW U, NEW s \in Seq(U), NEW v
  PROVE  KeptFirst(s, v) \in Seq(U)
<1> DEFINE first == FirstOf(s, v)
<1>1. first \in 0..Len(s)
  BY FirstIs
<1> HIDE DEF first
<1>2. CASE first = 0
  BY <1>2 DEF KeptFirst, first
<1>3. CASE first # 0
  <2>1. first \in 1..Len(s)
    BY <1>1, <1>3
  <2>2. SubSeq(s, first, Len(s)) \in Seq(U)
    BY <2>1, SubSeqProperties
  <2> QED  BY <1>3, <2>2 DEF KeptFirst, first
<1> QED  BY <1>2, <1>3

LEMMA PathExists ==
  ASSUME NEW es, Tree(es)
  PROVE  \E P : IsPath(P, es)
<1> DEFINE N == Len(es)
           V == Seq(Int)
           next == [z \in (1..N) \X V |-> Append(z[2], z[1])]
<1>1. N \in Nat /\ \A i \in 1..N : es[i].parent \in {Absent} \cup 0..(i - 1)
  BY DEF Tree
<1>2. next \in [(1..N) \X V -> V]
  <2>1. ASSUME NEW z \in (1..N) \X V  PROVE Append(z[2], z[1]) \in V
    <3>1. z[2] \in V /\ z[1] \in Int
      OBVIOUS
    <3> QED  BY <3>1
  <2> QED  BY <2>1
<1>3. <<>> \in V /\ <<Absent>> \in V
  BY DEF Absent
<1>4. \A i \in 1..N : \A v \in V : next[<<i, v>>] = Append(v, i)
  <2> SUFFICES ASSUME NEW i \in 1..N, NEW v \in V  PROVE next[<<i, v>>] = Append(v, i)
    OBVIOUS
  <2> DEFINE z == <<i, v>>
  <2>1. z \in (1..N) \X V /\ z[1] = i /\ z[2] = v
    OBVIOUS
  <2> HIDE DEF z
  <2> QED  BY <2>1 DEF z
<1> HIDE DEF N, next, V
<1>5. PICK f \in [{Absent} \cup 0..N -> V] : Grown(f, N, es, <<Absent>>, next)
  <2>1. Grows(N, es, <<Absent>>, next, V)
    BY <1>1, <1>2, <1>3, GrowthExists
  <2> QED  BY <2>1 DEF Grows
<1>6. ASSUME NEW i \in {Absent} \cup 0..N
      PROVE  f[i] = IF i = None THEN <<>> ELSE IF i = Absent THEN <<Absent>> ELSE Append(f[es[i].parent], i)
  <2>1. CASE i \in {None, Absent}
    BY <1>5, <2>1 DEF Grown, None, Absent
  <2>2. CASE i \in 1..N
    <3>1. f[i] = next[<<i, f[es[i].parent]>>]
      BY <1>5, <2>2 DEF Grown
    <3>2. es[i].parent \in {Absent} \cup 0..N
      <4>1. es[i].parent \in {Absent} \cup 0..(i - 1)
        BY <1>1, <2>2
      <4> QED  BY <1>1, <2>2, <4>1
    <3>3. f[i] = Append(f[es[i].parent], i)
      BY <1>4, <1>5, <2>2, <3>1, <3>2
    <3>4. i # None /\ i # Absent
      BY <2>2 DEF None, Absent
    <3> QED  BY <3>3, <3>4
  <2>3. i \in {None, Absent} \/ i \in 1..N
    BY <1>1 DEF None, Absent
  <2> QED  BY <2>1, <2>2, <2>3
<1>7. IsPath(f, es)
  BY <1>5, <1>6 DEF IsPath, Nodes, N
<1> QED  BY <1>7

LEMMA ContextExists ==
  ASSUME NEW es, Tree(es)
  PROVE  \E C : IsContext(C, es)
<1> DEFINE N == Len(es)
           V == Seq(Int)
           Step(i, v) == IF es[i].type # "compaction" THEN Append(v, i) ELSE <<i>> \o KeptFirst(v, es[i].firstKept)
           next == [z \in (1..N) \X V |-> Step(z[1], z[2])]
<1>1. N \in Nat /\ \A i \in 1..N : es[i].parent \in {Absent} \cup 0..(i - 1)
  BY DEF Tree
<1>2. ASSUME NEW i \in 1..N, NEW v \in V  PROVE Step(i, v) \in V
  <2> DEFINE keep == KeptFirst(v, es[i].firstKept)
  <2>1. keep \in V
    BY KeptFirstIs
  <2>2. i \in Int /\ <<i>> \in Seq(Int)
    OBVIOUS
  <2> HIDE DEF keep
  <2>3. Append(v, i) \in V /\ <<i>> \o keep \in V
    BY <2>1, <2>2
  <2> QED  BY <2>3 DEF keep
<1>3. <<>> \in V
  OBVIOUS
<1>4. next \in [(1..N) \X V -> V] /\ \A i \in 1..N : \A v \in V : next[<<i, v>>] = Step(i, v)
  <2> HIDE DEF Step, V, N
  <2>1. ASSUME NEW z \in (1..N) \X V  PROVE Step(z[1], z[2]) \in V
    BY <1>2
  <2>2. ASSUME NEW i \in 1..N, NEW v \in V  PROVE next[<<i, v>>] = Step(i, v)
    <3> DEFINE z == <<i, v>>
    <3>1. z \in (1..N) \X V /\ z[1] = i /\ z[2] = v
      OBVIOUS
    <3> HIDE DEF z
    <3> QED  BY <3>1 DEF z
  <2> QED  BY <2>1, <2>2
<1> HIDE DEF N, next, V, Step
<1>5. PICK f \in [{Absent} \cup 0..N -> V] : Grown(f, N, es, <<>>, next)
  <2>1. Grows(N, es, <<>>, next, V)
    BY <1>1, <1>3, <1>4, GrowthExists
  <2> QED  BY <2>1 DEF Grows
<1>6. ASSUME NEW i \in {Absent} \cup 0..N
      PROVE  f[i] = IF i \in {None, Absent} THEN <<>> ELSE Step(i, f[es[i].parent])
  <2>1. CASE i \in {None, Absent}
    BY <1>5, <2>1 DEF Grown, None, Absent
  <2>2. CASE i \in 1..N
    <3>1. f[i] = next[<<i, f[es[i].parent]>>]
      BY <1>5, <2>2 DEF Grown
    <3>2. es[i].parent \in {Absent} \cup 0..N
      <4>1. es[i].parent \in {Absent} \cup 0..(i - 1)
        BY <1>1, <2>2
      <4> QED  BY <1>1, <2>2, <4>1
    <3>3. f[i] = Step(i, f[es[i].parent])
      BY <1>4, <1>5, <2>2, <3>1, <3>2
    <3>4. i \notin {None, Absent}
      BY <2>2 DEF None, Absent
    <3> QED  BY <3>3, <3>4
  <2>3. i \in {None, Absent} \/ i \in 1..N
    BY <1>1 DEF None, Absent
  <2> QED  BY <2>1, <2>2, <2>3
<1>7. IsContext(f, es)
  BY <1>5, <1>6 DEF IsContext, Nodes, N, Step
<1> QED  BY <1>7

LEMMA PathIs ==
  ASSUME Tree(entries)
  PROVE  IsPath(Path, entries) /\ IsContext(Context, entries)
<1>1. IsPath(Path, entries)
  BY PathExists DEF IsPath, Path, Parents, Nodes
<1>2. IsContext(Context, entries)
  BY ContextExists DEF IsContext, Context, Parents, Nodes, KeptFirst, IsCompaction
<1> QED  BY <1>1, <1>2

LEMMA PathIsNext ==
  ASSUME Tree(entries')
  PROVE  IsPath(Path', entries') /\ IsContext(Context', entries')
<1>1. IsPath(Path', entries')
  BY PathExists DEF IsPath, Path, Parents, Nodes
<1>2. IsContext(Context', entries')
  BY ContextExists DEF IsContext, Context, Parents, Nodes, KeptFirst, IsCompaction
<1> QED  BY <1>1, <1>2

\* Of each entry, from its parent.
LEMMA PathSteps ==
  ASSUME NEW es, Tree(es), NEW P, IsPath(P, es)
  PROVE  /\ P[0] = <<>> /\ P[Absent] = <<Absent>>
         /\ \A i \in 1..Len(es) : P[i] = Append(P[es[i].parent], i)
         /\ \A i \in Nodes(es) : P[i] \in Seq(Int) /\ (i # 0 => Len(P[i]) >= 1)
<1>1. Len(es) \in Nat /\ \A i \in 1..Len(es) : es[i].parent \in {Absent} \cup 0..(i - 1)
  BY DEF Tree
<1>2. P[0] = <<>> /\ P[Absent] = <<Absent>>
  BY <1>1 DEF IsPath, Nodes, None, Absent
<1>3. ASSUME NEW i \in 1..Len(es)  PROVE P[i] = Append(P[es[i].parent], i)
  <2>1. i \in Nodes(es) /\ i # None /\ i # Absent
    BY <1>1 DEF Nodes, None, Absent
  <2> QED  BY <2>1 DEF IsPath
<1>4. Nodes(es) \subseteq {i \in Int : P[i] \in Seq(Int) /\ (i # 0 => Len(P[i]) >= 1)}
  <2> DEFINE G == {i \in Int : P[i] \in Seq(Int) /\ (i # 0 => Len(P[i]) >= 1)}
  <2>0. Absent \in Int
    BY DEF Absent
  <2>4. P[0] \in Seq(Int) /\ P[Absent] \in Seq(Int) /\ Len(P[Absent]) >= 1
    BY <1>2, <2>0
  <2>1. 0 \in G /\ Absent \in G
    <3>1. 0 \in G
      BY <2>4
    <3>2. Absent \in G
      BY <2>0, <2>4
    <3> QED  BY <3>1, <3>2
  <2>2. ASSUME NEW i \in 1..Len(es), es[i].parent \in G  PROVE i \in G
    <3> DEFINE p == P[es[i].parent]
    <3>1. p \in Seq(Int) /\ i \in Int
      BY <2>2
    <3> HIDE DEF p
    <3>2. Append(p, i) \in Seq(Int) /\ Len(Append(p, i)) = Len(p) + 1 /\ Len(p) \in Nat
      BY <3>1
    <3>3. P[i] = Append(p, i)
      BY <1>3 DEF p
    <3>4. P[i] \in Seq(Int) /\ Len(P[i]) >= 1
      BY <3>2, <3>3
    <3> QED  BY <3>1, <3>4
  <2>3. Nodes(es) \subseteq G
    <3> HIDE DEF G
    <3> QED  BY <1>1, <2>1, <2>2, GrowsTo DEF Nodes
  <2> QED  BY <2>3
<1> QED  BY <1>2, <1>3, <1>4

LEMMA ContextSteps ==
  ASSUME NEW es, Tree(es), NEW C, IsContext(C, es)
  PROVE  /\ C[0] = <<>> /\ C[Absent] = <<>>
         /\ \A i \in 1..Len(es) :
              C[i] = IF es[i].type # "compaction" THEN Append(C[es[i].parent], i)
                     ELSE <<i>> \o KeptFirst(C[es[i].parent], es[i].firstKept)
         /\ \A i \in Nodes(es) : C[i] \in Seq(1..Len(es))
<1>1. Len(es) \in Nat /\ \A i \in 1..Len(es) : es[i].parent \in {Absent} \cup 0..(i - 1)
  BY DEF Tree
<1>2. C[0] = <<>> /\ C[Absent] = <<>>
  BY <1>1 DEF IsContext, Nodes, None, Absent
<1>3. ASSUME NEW i \in 1..Len(es)
      PROVE  C[i] = IF es[i].type # "compaction" THEN Append(C[es[i].parent], i)
                    ELSE <<i>> \o KeptFirst(C[es[i].parent], es[i].firstKept)
  <2>1. i \in Nodes(es) /\ i \notin {None, Absent}
    BY <1>1 DEF Nodes, None, Absent
  <2> QED  BY <2>1 DEF IsContext
<1>4. Nodes(es) \subseteq {i \in Int : C[i] \in Seq(1..Len(es))}
  <2> DEFINE G == {i \in Int : C[i] \in Seq(1..Len(es))}
  <2>0. Absent \in Int
    BY DEF Absent
  <2>4. C[0] \in Seq(1..Len(es)) /\ C[Absent] \in Seq(1..Len(es))
    BY <1>2
  <2>1. 0 \in G /\ Absent \in G
    <3>1. \A n \in Int : C[n] \in Seq(1..Len(es)) => n \in G
      OBVIOUS
    <3> HIDE DEF G
    <3> QED  BY <2>0, <2>4, <3>1
  <2>2. ASSUME NEW i \in 1..Len(es), es[i].parent \in G  PROVE i \in G
    <3> DEFINE x == C[es[i].parent]
               keep == KeptFirst(x, es[i].firstKept)
    <3>1. x \in Seq(1..Len(es)) /\ i \in 1..Len(es) /\ i \in Int
      BY <2>2
    <3>2. keep \in Seq(1..Len(es))
      <4> HIDE DEF x
      <4> QED  BY <3>1, KeptFirstIs
    <3>3. C[i] = IF es[i].type # "compaction" THEN Append(x, i) ELSE <<i>> \o keep
      BY <1>3
    <3> HIDE DEF x, keep
    <3>4. Append(x, i) \in Seq(1..Len(es)) /\ <<i>> \o keep \in Seq(1..Len(es))
      <4>1. <<i>> \in Seq(1..Len(es))
        BY <3>1
      <4> QED  BY <3>1, <3>2, <4>1
    <3> QED  BY <3>1, <3>3, <3>4
  <2>3. Nodes(es) \subseteq G
    <3> HIDE DEF G
    <3> QED  BY <1>1, <2>1, <2>2, GrowsTo DEF Nodes
  <2> QED  BY <2>3
<1> QED  BY <1>2, <1>3, <1>4

\* A path that begins at the root rises.
Rooted(P, i) == i = 0 \/ (i # Absent /\ P[i][1] # Absent)

Straight(p, i) == p \in Seq(1..i) /\ \A j, k \in 1..Len(p) : j < k => p[j] < p[k]

LEMMA RootedParent ==
  ASSUME NEW es, Tree(es), NEW P, IsPath(P, es), NEW i \in 1..Len(es), Rooted(P, i)
  PROVE  es[i].parent \in 0..(i - 1) /\ Rooted(P, es[i].parent) /\ es[i].parent \in Nodes(es)
<1> DEFINE q == es[i].parent
           p == P[q]
<1>1. q \in {Absent} \cup 0..(i - 1) /\ i \in Nat /\ i <= Len(es) /\ Len(es) \in Nat
  BY DEF Tree
<1>2. q \in Nodes(es)
  BY <1>1 DEF Nodes
<1>3. /\ P[i] = Append(p, i) /\ p \in Seq(Int) /\ (q # 0 => Len(p) >= 1)
      /\ (q = Absent => p = <<Absent>>) /\ P[i][1] # Absent
  BY <1>1, <1>2, PathSteps DEF Rooted
<1> HIDE DEF p, q
<1>4. q # 0 => Append(p, i)[1] = p[1]
  BY <1>3
<1>5. q # Absent
  <2> SUFFICES ASSUME q = Absent  PROVE FALSE
    OBVIOUS
  <2>1. q # 0 /\ p[1] = Absent
    BY <1>3 DEF Absent
  <2> QED  BY <1>3, <1>4, <2>1
<1>6. Rooted(P, q)
  BY <1>3, <1>4, <1>5 DEF Rooted, p
<1>7. q \in 0..(i - 1)
  BY <1>1, <1>5
<1> QED  BY <1>2, <1>6, <1>7 DEF q

LEMMA RootedStraight ==
  ASSUME NEW es, Tree(es), NEW P, IsPath(P, es)
  PROVE  \A i \in 0..Len(es) : Rooted(P, i) => Straight(P[i], i)
<1>1. Len(es) \in Nat /\ \A i \in 1..Len(es) : es[i].parent \in {Absent} \cup 0..(i - 1)
  BY DEF Tree
<1> DEFINE G == {i \in Int : i # Absent /\ Rooted(P, i) => Straight(P[i], i)}
<1>2. 0 \in G /\ Absent \in G
  <2>1. P[0] = <<>>
    BY PathSteps
  <2>2. Straight(<<>>, 0)
    BY DEF Straight
  <2> QED  BY <2>1, <2>2 DEF Absent
<1>3. ASSUME NEW i \in 1..Len(es), es[i].parent \in G  PROVE i \in G
  <2> SUFFICES ASSUME Rooted(P, i)  PROVE Straight(P[i], i)
    BY <1>1
  <2> DEFINE q == es[i].parent
             p == P[q]
  <2>1. q \in 0..(i - 1) /\ Rooted(P, q) /\ q # Absent /\ i \in Nat
    <3>1. q \in 0..(i - 1) /\ Rooted(P, q)
      BY RootedParent
    <3> QED  BY <1>1, <3>1 DEF Absent
  <2>2. Straight(p, q)
    BY <1>3, <2>1
  <2>3. P[i] = Append(p, i)
    BY PathSteps
  <2> HIDE DEF p, q
  <2>4. Straight(Append(p, i), i)
    <3>1. p \in Seq(1..q) /\ Len(p) \in Nat /\ q <= i - 1 /\ q \in Nat
      BY <2>1, <2>2 DEF Straight
    <3>2. \A k \in 1..Len(p) : p[k] \in 1..q /\ p[k] \in 1..i /\ p[k] < i
      BY <2>1, <3>1
    <3>4. p \in Seq(1..i) /\ i \in 1..i
      <4>1. p = [k \in 1..Len(p) |-> p[k]]
        BY <3>1
      <4> QED  BY <2>1, <3>1, <3>2, <4>1
    <3> DEFINE s == Append(p, i)
    <3>3. /\ Len(s) = Len(p) + 1 /\ s[Len(p) + 1] = i /\ \A k \in 1..Len(p) : s[k] = p[k]
          /\ s \in Seq(1..i)
      BY <3>4
    <3> HIDE DEF s
    <3>6. ASSUME NEW j \in 1..Len(s), NEW k \in 1..Len(s), j < k  PROVE s[j] < s[k]
      <4>1. j \in 1..Len(p) /\ (k \in 1..Len(p) \/ k = Len(p) + 1)
        <5>1. Len(s) = Len(p) + 1 /\ Len(p) \in Nat
          BY <3>1, <3>3
        <5> QED  BY <3>6, <5>1
      <4>2. CASE k \in 1..Len(p)
        <5>1. p[j] < p[k]
          BY <2>2, <3>6, <4>1, <4>2 DEF Straight
        <5> QED  BY <3>3, <4>1, <4>2, <5>1
      <4>3. CASE k = Len(p) + 1
        BY <3>2, <3>3, <4>1, <4>3
      <4> QED  BY <4>1, <4>2, <4>3
    <3> QED  BY <3>3, <3>6 DEF Straight, s
  <2> QED  BY <2>3, <2>4
<1>4. Nodes(es) \subseteq G
  <2> HIDE DEF G
  <2> QED  BY <1>1, <1>2, <1>3, GrowsTo DEF Nodes
<1>5. \A i \in 0..Len(es) : i \in Nodes(es) /\ i # Absent
  BY <1>1 DEF Nodes, Absent
<1> QED  BY <1>4, <1>5

-----------------------------------------------------------------------------
(* Of sequences: their ends, and what is kept from an element on.              *)

\* Part of a sequence, position by position.
LEMMA PartIs ==
  ASSUME NEW U, NEW s \in Seq(U), NEW m \in 1..(Len(s) + 1), NEW n \in (m - 1)..Len(s)
  PROVE  /\ SubSeq(s, m, n) \in Seq(U) /\ Len(SubSeq(s, m, n)) = n - m + 1
         /\ \A k \in 1..(n - m + 1) : SubSeq(s, m, n)[k] = s[m + k - 1]
<1>1. m \in Int /\ n \in Int /\ \A k \in m..n : s[k] \in U
  OBVIOUS
<1>2. /\ SubSeq(s, m, n) \in Seq(U) /\ Len(SubSeq(s, m, n)) = IF m <= n THEN n - m + 1 ELSE 0
      /\ \A k \in 1..(n - m + 1) : SubSeq(s, m, n)[k] = s[m + k - 1]
  BY <1>1, SubSeqProperties
<1> QED  BY <1>1, <1>2

LEMMA PartOfLonger ==
  ASSUME NEW U, NEW s \in Seq(U), NEW e \in U, NEW m \in 1..(Len(s) + 1), NEW n \in (m - 1)..Len(s)
  PROVE  SubSeq(Append(s, e), m, n) = SubSeq(s, m, n)
<1> DEFINE t == Append(s, e)
           a == SubSeq(t, m, n)
           b == SubSeq(s, m, n)
<1>1. t \in Seq(U) /\ Len(t) = Len(s) + 1 /\ \A k \in 1..Len(s) : t[k] = s[k]
  OBVIOUS
<1>2. b \in Seq(U) /\ Len(b) = n - m + 1 /\ \A k \in 1..(n - m + 1) : b[k] = s[m + k - 1]
  BY PartIs
<1> HIDE DEF t, b
<1>3. m \in 1..(Len(t) + 1) /\ n \in (m - 1)..Len(t) /\ \A k \in 1..(n - m + 1) : m + k - 1 \in 1..Len(s)
  BY <1>1
<1>4. a \in Seq(U) /\ Len(a) = n - m + 1 /\ \A k \in 1..(n - m + 1) : a[k] = t[m + k - 1]
  BY <1>1, <1>3, PartIs
<1> HIDE DEF a
<1>5. \A k \in 1..Len(a) : a[k] = b[k]
  BY <1>1, <1>2, <1>3, <1>4
<1>6. a = b
  BY <1>2, <1>4, <1>5, SeqEqual
<1> QED  BY <1>6 DEF a, b, t

LEMMA EndOfLonger ==
  ASSUME NEW U, NEW s \in Seq(U), NEW e \in U, NEW m \in 1..(Len(s) + 1)
  PROVE  SubSeq(Append(s, e), m, Len(s) + 1) = Append(SubSeq(s, m, Len(s)), e)
<1> DEFINE t == Append(s, e)
           l == Len(s)
           a == SubSeq(t, m, l + 1)
           b == SubSeq(s, m, l)
           c == Append(b, e)
<1>1. t \in Seq(U) /\ Len(t) = l + 1 /\ t[l + 1] = e /\ \A k \in 1..l : t[k] = s[k]
  OBVIOUS
<1>2. l \in Nat /\ m \in Nat /\ 1 <= m /\ m <= l + 1
  OBVIOUS
<1>3. b \in Seq(U) /\ Len(b) = l - m + 1 /\ \A k \in 1..(l - m + 1) : b[k] = s[m + k - 1]
  <2>1. l \in (m - 1)..Len(s)
    BY <1>2
  <2> QED  BY <2>1, PartIs
<1>4. a \in Seq(U) /\ Len(a) = l + 1 - m + 1 /\ \A k \in 1..(l + 1 - m + 1) : a[k] = t[m + k - 1]
  <2> HIDE DEF t
  <2>1. m \in 1..(Len(t) + 1) /\ l + 1 \in (m - 1)..Len(t)
    BY <1>1, <1>2
  <2> QED  BY <1>1, <2>1, PartIs
<1> HIDE DEF t, b, a
<1>5. c \in Seq(U) /\ Len(c) = Len(b) + 1 /\ c[Len(b) + 1] = e /\ \A k \in 1..Len(b) : c[k] = b[k]
  BY <1>3
<1> HIDE DEF c, l
<1>6. ASSUME NEW k \in 1..Len(a)  PROVE a[k] = c[k]
  <2>1. CASE k \in 1..(l - m + 1)
    <3>1. m + k - 1 \in 1..l /\ k \in 1..Len(b) /\ k \in 1..(l + 1 - m + 1)
      BY <1>2, <1>3, <2>1
    <3> QED  BY <1>1, <1>3, <1>4, <1>5, <2>1, <3>1
  <2>2. CASE k = l + 1 - m + 1
    <3>1. m + k - 1 = l + 1 /\ k = Len(b) + 1 /\ k \in 1..(l + 1 - m + 1)
      BY <1>2, <1>3, <2>2
    <3> QED  BY <1>1, <1>4, <1>5, <3>1
  <2>3. k \in 1..(l - m + 1) \/ k = l + 1 - m + 1
    BY <1>2, <1>4
  <2> QED  BY <2>1, <2>2, <2>3
<1>7. Len(a) = Len(c)
  BY <1>2, <1>3, <1>4, <1>5
<1>8. a = c
  BY <1>4, <1>5, <1>6, <1>7, SeqEqual
<1> QED  BY <1>8 DEF a, c, t, b, l

EndsAlike(s, t, e) == Append(s \o t, e) = s \o Append(t, e)

LEMMA EndOfJoined ==
  ASSUME NEW U, NEW s \in Seq(U), NEW t \in Seq(U), NEW e \in U
  PROVE  EndsAlike(s, t, e)
BY DEF EndsAlike

-----------------------------------------------------------------------------
(* Totals of tokens.                                                           *)

\* The fold that Total is: over sets of positions, the greatest first.
Summed(f, s) ==
  f = [T \in SUBSET (DOMAIN s) |-> IF T = {} THEN 0 ELSE f[T \ {Max(T)}] + s[Max(T)]]

LEMMA TotalIs ==
  ASSUME NEW s
  PROVE  Total(s) = (CHOOSE f : Summed(f, s))[DOMAIN s]
BY DEF Total, FoldLeft, MapThenFoldSet, Summed

\* The sum up to each position.
Running(f, s) == f[0] = 0 /\ \A k \in 1..Len(s) : f[k] = f[k - 1] + s[k]

SummedTo(f, k, s) ==
  \A T \in SUBSET (1..k) : f[T] = IF T = {} THEN 0 ELSE f[T \ {Max(T)}] + s[Max(T)]

SumsTo(k, s) == \E f \in [SUBSET (1..k) -> Nat] : SummedTo(f, k, s)

\* With the last position, the fold takes it first.
LEMMA GreatestOfLonger ==
  ASSUME NEW k \in Nat, NEW T \in SUBSET (1..(k + 1))
  PROVE  /\ k + 1 \in T => T # {} /\ Max(T) = k + 1 /\ T \ {Max(T)} \in SUBSET (1..k)
         /\ k + 1 \notin T => T \in SUBSET (1..k)
         /\ k + 1 \notin T /\ T # {} => Max(T) \in T /\ T \ {Max(T)} \in SUBSET (1..k)
<1> DEFINE m == Max(T)
<1>0. k + 1 \in Nat
  OBVIOUS
<1>1. T # {} => m \in T /\ \A j \in T : j <= m
  BY <1>0, GreatestIs
<1> HIDE DEF m
<1>2. \A j \in T : j \in 1..(k + 1)
  OBVIOUS
<1>3. ASSUME k + 1 \in T  PROVE m = k + 1
  <2>1. m \in T /\ k + 1 <= m /\ m \in 1..(k + 1)
    BY <1>1, <1>2, <1>3
  <2> QED  BY <2>1
<1>4. \A j \in T : j # k + 1 => j \in 1..k
  BY <1>2
<1>5. T \ {k + 1} \in SUBSET (1..k)
  BY <1>4
<1>6. k + 1 \notin T => T \in SUBSET (1..k)
  BY <1>4
<1>7. k + 1 \in T => T # {} /\ m = k + 1 /\ T \ {m} \in SUBSET (1..k)
  BY <1>3, <1>5
<1>8. k + 1 \notin T /\ T # {} => m \in T /\ T \ {m} \in SUBSET (1..k)
  BY <1>1, <1>6
<1> QED  BY <1>6, <1>7, <1>8 DEF m

LEMMA SumsExist ==
  ASSUME NEW s \in Seq(Nat)
  PROVE  SumsTo(Len(s), s)
<1> DEFINE S == {k \in Nat : k <= Len(s) => SumsTo(k, s)}
<1>1. 0 \in S
  <2> DEFINE f == [T \in SUBSET (1..0) |-> 0]
  <2>1. f \in [SUBSET (1..0) -> Nat] /\ \A T \in SUBSET (1..0) : f[T] = 0 /\ T = {}
    OBVIOUS
  <2> HIDE DEF f
  <2> QED  BY <2>1 DEF SumsTo, SummedTo
<1>2. \A k \in Nat : k \in S => k + 1 \in S
  <2> SUFFICES ASSUME NEW k \in Nat, k + 1 <= Len(s), SumsTo(k, s)  PROVE SumsTo(k + 1, s)
    OBVIOUS
  <2>0. PICK f \in [SUBSET (1..k) -> Nat] : SummedTo(f, k, s)
    BY DEF SumsTo
  <2>1. s[k + 1] \in Nat
    <3>1. k + 1 \in 1..Len(s)
      OBVIOUS
    <3> QED  BY <3>1
  <2> DEFINE e == s[k + 1]
             g == [T \in SUBSET (1..(k + 1)) |-> IF k + 1 \in T THEN f[T \ {Max(T)}] + e ELSE f[T]]
  <2>2. g \in [SUBSET (1..(k + 1)) -> Nat]
    <3>1. ASSUME NEW T \in SUBSET (1..(k + 1))
          PROVE  (IF k + 1 \in T THEN f[T \ {Max(T)}] + e ELSE f[T]) \in Nat
      <4>1. CASE k + 1 \in T
        <5>1. T \ {Max(T)} \in SUBSET (1..k)
          BY <4>1, GreatestOfLonger
        <5>2. f[T \ {Max(T)}] \in Nat
          BY <5>1
        <5> HIDE DEF e
        <5> QED  BY <2>1, <4>1, <5>2 DEF e
      <4>2. CASE k + 1 \notin T
        <5>1. T \in SUBSET (1..k)
          BY <4>2, GreatestOfLonger
        <5> QED  BY <4>2, <5>1
      <4> QED  BY <4>1, <4>2
    <3> QED  BY <3>1
  <2>3. \A T \in SUBSET (1..(k + 1)) : g[T] = IF k + 1 \in T THEN f[T \ {Max(T)}] + e ELSE f[T]
    OBVIOUS
  <2> HIDE DEF g
  <2>4. ASSUME NEW T \in SUBSET (1..k)  PROVE g[T] = f[T]
    <3>1. T \in SUBSET (1..(k + 1)) /\ k + 1 \notin T
      <4>1. \A j \in T : j \in 1..k
        OBVIOUS
      <4>2. \A j \in T : j \in 1..(k + 1) /\ j # k + 1
        BY <4>1
      <4> QED  BY <4>2
    <3> QED  BY <2>3, <3>1
  <2>5. ASSUME NEW T \in SUBSET (1..(k + 1))
        PROVE  g[T] = IF T = {} THEN 0 ELSE g[T \ {Max(T)}] + s[Max(T)]
    <3>1. CASE k + 1 \in T
      <4>1. T # {} /\ Max(T) = k + 1 /\ T \ {Max(T)} \in SUBSET (1..k)
        BY <3>1, GreatestOfLonger
      <4>2. g[T \ {Max(T)}] = f[T \ {Max(T)}] /\ s[Max(T)] = e
        BY <2>4, <4>1
      <4> QED  BY <2>3, <3>1, <4>1, <4>2
    <3>2. CASE k + 1 \notin T /\ T # {}
      <4>1. T \in SUBSET (1..k) /\ T \ {Max(T)} \in SUBSET (1..k)
        BY <3>2, GreatestOfLonger
      <4>2. g[T] = f[T] /\ g[T \ {Max(T)}] = f[T \ {Max(T)}]
        BY <2>4, <4>1
      <4>3. f[T] = f[T \ {Max(T)}] + s[Max(T)]
        BY <2>0, <3>2, <4>1 DEF SummedTo
      <4> QED  BY <3>2, <4>2, <4>3
    <3>3. CASE T = {}
      <4>1. T \in SUBSET (1..k) /\ f[T] = 0
        BY <2>0, <3>3 DEF SummedTo
      <4> QED  BY <2>4, <3>3, <4>1
    <3> QED  BY <3>1, <3>2, <3>3
  <2> QED  BY <2>2, <2>5 DEF SumsTo, SummedTo
<1>3. Nat \subseteq S
  <2> HIDE DEF S
  <2> QED  BY <1>1, <1>2, SetInduction
<1>4. Len(s) \in S
  BY <1>3
<1> QED  BY <1>4

\* A total is what runs up position by position.
LEMMA TotalRuns ==
  ASSUME NEW s \in Seq(Nat)
  PROVE  \E f \in [0..Len(s) -> Nat] : Running(f, s) /\ Total(s) = f[Len(s)]
<1> DEFINE F == CHOOSE f : Summed(f, s)
<1>1. \E f : Summed(f, s)
  <2>1. PICK f \in [SUBSET (1..Len(s)) -> Nat] : SummedTo(f, Len(s), s)
    BY SumsExist DEF SumsTo
  <2>2. DOMAIN s = 1..Len(s)
    OBVIOUS
  <2>3. Summed(f, s)
    BY <2>1, <2>2 DEF Summed, SummedTo
  <2> QED  BY <2>3
<1>2. Summed(F, s)
  BY <1>1
<1>3. Total(s) = F[1..Len(s)] /\ DOMAIN s = 1..Len(s)
  BY TotalIs
<1> HIDE DEF F
<1>4. SummedTo(F, Len(s), s)
  BY <1>2, <1>3 DEF Summed, SummedTo
<1> DEFINE f == [k \in 0..Len(s) |-> F[1..k]]
<1>5. \A k \in 0..Len(s) : f[k] = F[1..k]
  OBVIOUS
<1>6. f[0] = 0
  <2>1. 1..0 = {} /\ 0 \in 0..Len(s) /\ 1..0 \in SUBSET (1..Len(s))
    OBVIOUS
  <2> HIDE DEF f
  <2> QED  BY <1>4, <1>5, <2>1 DEF SummedTo
<1>7. ASSUME NEW k \in 1..Len(s)  PROVE f[k] = f[k - 1] + s[k]
  <2> DEFINE T == 1..k
             m == k - 1
  <2>1. k \in T /\ T \in SUBSET (1..Len(s)) /\ m \in Nat /\ k = m + 1 /\ k \in 0..Len(s) /\ m \in 0..Len(s)
    OBVIOUS
  <2>2. T \ {k} = 1..m
    OBVIOUS
  <2>3. T \in SUBSET (1..(m + 1))
    BY <2>1
  <2> HIDE DEF T, m
  <2>4. T # {} /\ Max(T) = k
    BY <2>1, <2>3, GreatestOfLonger
  <2>5. F[T] = F[T \ {k}] + s[k]
    BY <1>4, <2>1, <2>4 DEF SummedTo
  <2> HIDE DEF f
  <2> QED  BY <1>5, <2>1, <2>2, <2>5 DEF T, m
<1> HIDE DEF f
<1>8. \A k \in 0..Len(s) : f[k] \in Nat
  <2> DEFINE S == {k \in Nat : k <= Len(s) => f[k] \in Nat}
  <2>1. 0 \in S
    BY <1>6
  <2>2. \A k \in Nat : k \in S => k + 1 \in S
    <3> SUFFICES ASSUME NEW k \in Nat, k + 1 <= Len(s), f[k] \in Nat  PROVE f[k + 1] \in Nat
      OBVIOUS
    <3> DEFINE n == k + 1
    <3>1. n \in 1..Len(s) /\ n - 1 = k /\ s[n] \in Nat
      OBVIOUS
    <3> HIDE DEF n
    <3>2. f[n] = f[k] + s[n]
      BY <1>7, <3>1
    <3>3. f[n] \in Nat
      BY <3>1, <3>2
    <3> QED  BY <3>3 DEF n
  <2>3. Nat \subseteq S
    <3> HIDE DEF S
    <3> QED  BY <2>1, <2>2, SetInduction
  <2> QED  BY <2>3
<1>9. f \in [0..Len(s) -> Nat] /\ f[Len(s)] = F[1..Len(s)]
  BY <1>5, <1>8 DEF f
<1> QED  BY <1>3, <1>6, <1>7, <1>9 DEF Running

LEMMA TotalJoin ==
  ASSUME NEW s \in Seq(Nat), NEW t \in Seq(Nat)
  PROVE  Total(s) \in Nat /\ Total(t) \in Nat /\ Total(s \o t) = Total(s) + Total(t)
<1> DEFINE u == s \o t
           a == Len(s)
           b == Len(t)
<1>1. /\ u \in Seq(Nat) /\ Len(u) = a + b /\ a \in Nat /\ b \in Nat
      /\ \A k \in 1..(a + b) : u[k] = IF k <= a THEN s[k] ELSE t[k - a]
  BY ConcatProperties
<1>2. PICK f \in [0..Len(s) -> Nat] : Running(f, s) /\ Total(s) = f[Len(s)]
  BY TotalRuns
<1>3. PICK h \in [0..Len(t) -> Nat] : Running(h, t) /\ Total(t) = h[Len(t)]
  BY TotalRuns
<1>4. PICK g \in [0..Len(u) -> Nat] : Running(g, u) /\ Total(u) = g[Len(u)]
  <2> HIDE DEF u
  <2> QED  BY <1>1, TotalRuns
<1> HIDE DEF u
<1>8. f[a] \in Nat /\ h[b] \in Nat
  <2>1. a \in 0..Len(s) /\ b \in 0..Len(t)
    OBVIOUS
  <2>2. \A k \in 0..Len(s) : f[k] \in Nat
    OBVIOUS
  <2>3. \A k \in 0..Len(t) : h[k] \in Nat
    OBVIOUS
  <2> QED  BY <2>1, <2>2, <2>3
<1>5. \A k \in 0..a : g[k] = f[k]
  <2> DEFINE S == {k \in Nat : k <= a => g[k] = f[k]}
  <2>1. 0 \in S
    BY <1>2, <1>4 DEF Running
  <2>2. \A k \in Nat : k \in S => k + 1 \in S
    <3> SUFFICES ASSUME NEW k \in Nat, k + 1 <= a, g[k] = f[k]  PROVE g[k + 1] = f[k + 1]
      OBVIOUS
    <3> DEFINE n == k + 1
    <3>1. n \in 1..Len(s) /\ n \in 1..(a + b) /\ n \in 1..Len(u) /\ n - 1 = k /\ n <= a
      BY <1>1
    <3> HIDE DEF n, a
    <3>2. g[n] = g[k] + u[n] /\ f[n] = f[k] + s[n] /\ u[n] = s[n]
      BY <1>1, <1>2, <1>4, <3>1 DEF Running
    <3> QED  BY <3>2 DEF n
  <2>3. Nat \subseteq S
    <3> HIDE DEF S
    <3> QED  BY <2>1, <2>2, SetInduction
  <2> QED  BY <2>3
<1>6. \A k \in 0..b : g[a + k] = f[a] + h[k]
  <2> DEFINE Same(k) == g[a + k] = f[a] + h[k]
             S == {k \in Nat : k <= b => Same(k)}
  <2>0. f[a] \in Nat
    BY <1>8
  <2>1. 0 \in S
    <3>1. g[a] = f[a] /\ h[0] = 0 /\ a + 0 = a
      BY <1>1, <1>3, <1>5 DEF Running
    <3> QED  BY <2>0, <3>1
  <2>2. \A k \in Nat : k \in S => k + 1 \in S
    <3> SUFFICES ASSUME NEW k \in Nat, Same(k), k + 1 <= b  PROVE Same(k + 1)
      <4> HIDE DEF Same
      <4> QED  OBVIOUS
    <3>0. g[a + k] = f[a] + h[k]
      OBVIOUS
    <3> DEFINE n == k + 1
               m == a + n
    <3>1. /\ n \in 1..Len(t) /\ n - 1 = k /\ m \in 1..Len(u) /\ m \in 1..(a + b) /\ m - 1 = a + k
          /\ ~(m <= a) /\ m - a = n /\ k \in 0..Len(t) /\ t[n] \in Nat
      BY <1>1
    <3> HIDE DEF n, m, a, b
    <3>2. g[m] = g[a + k] + u[m] /\ h[n] = h[k] + t[n] /\ u[m] = t[n]
      BY <1>1, <1>3, <1>4, <3>1 DEF Running
    <3>3. h[k] \in Nat
      BY <1>3, <3>1
    <3>4. g[m] = f[a] + h[n]
      BY <2>0, <3>0, <3>1, <3>2, <3>3
    <3> QED  BY <3>4 DEF n, m
  <2>3. Nat \subseteq S
    <3> HIDE DEF S
    <3> QED  BY <2>1, <2>2, SetInduction
  <2> QED  BY <2>3
<1>7. Total(u) = f[a] + h[b]
  BY <1>1, <1>4, <1>6
<1> QED  BY <1>2, <1>3, <1>7, <1>8 DEF u

LEMMA TotalOne ==
  ASSUME NEW n \in Nat
  PROVE  Total(<<n>>) = n /\ Total(<<>>) = 0
<1> DEFINE s == <<n>>
           z == <<>>
<1>1. s \in Seq(Nat) /\ Len(s) = 1 /\ s[1] = n /\ z \in Seq(Nat) /\ Len(z) = 0
  OBVIOUS
<1> HIDE DEF s, z
<1>2. PICK f \in [0..Len(s) -> Nat] : Running(f, s) /\ Total(s) = f[Len(s)]
  BY <1>1, TotalRuns
<1>3. PICK g \in [0..Len(z) -> Nat] : Running(g, z) /\ Total(z) = g[Len(z)]
  BY <1>1, TotalRuns
<1>4. f[1] = f[0] + n /\ f[0] = 0 /\ g[0] = 0
  BY <1>1, <1>2, <1>3 DEF Running
<1> QED  BY <1>1, <1>2, <1>3, <1>4 DEF s, z

\* The tokens of the texts of entries.
SizesOf(s, es) == [k \in DOMAIN s |-> es[s[k]].size]
SumOf(s, es)   == Total(SizesOf(s, es))

LEMMA SumIs ==
  ASSUME NEW es, Tree(es)
  PROVE  /\ \A s \in Seq(1..Len(es)) : SizesOf(s, es) \in Seq(Nat) /\ SumOf(s, es) \in Nat
         /\ \A s, t \in Seq(1..Len(es)) : SumOf(s \o t, es) = SumOf(s, es) + SumOf(t, es)
         /\ \A i \in 1..Len(es) : SumOf(<<i>>, es) = es[i].size /\ es[i].size \in Nat
         /\ SumOf(<<>>, es) = 0
<1>1. \A i \in 1..Len(es) : es[i].size \in Nat
  <2>1. \A i \in 1..Len(es) : es[i] \in EntryKinds
    BY DEF Tree
  <2> QED  BY <2>1 DEF EntryKinds
<1>2. ASSUME NEW s \in Seq(1..Len(es))
      PROVE  /\ SizesOf(s, es) \in Seq(Nat) /\ Len(SizesOf(s, es)) = Len(s)
             /\ \A k \in 1..Len(s) : SizesOf(s, es)[k] = es[s[k]].size
  <2>1. \A k \in 1..Len(s) : s[k] \in 1..Len(es)
    OBVIOUS
  <2>2. DOMAIN s = 1..Len(s) /\ Len(s) \in Nat
    OBVIOUS
  <2>3. \A k \in 1..Len(s) : es[s[k]].size \in Nat
    BY <1>1, <2>1
  <2> QED  BY <2>2, <2>3 DEF SizesOf
<1>3. ASSUME NEW s \in Seq(1..Len(es))  PROVE SumOf(s, es) \in Nat
  BY <1>2, TotalJoin DEF SumOf
<1>4. ASSUME NEW s \in Seq(1..Len(es)), NEW t \in Seq(1..Len(es))
      PROVE  SumOf(s \o t, es) = SumOf(s, es) + SumOf(t, es)
  <2> DEFINE a == SizesOf(s, es)
             b == SizesOf(t, es)
             u == s \o t
             c == SizesOf(u, es)
  <2>1. a \in Seq(Nat) /\ Len(a) = Len(s) /\ \A k \in 1..Len(s) : a[k] = es[s[k]].size
    BY <1>2
  <2>2. b \in Seq(Nat) /\ Len(b) = Len(t) /\ \A k \in 1..Len(t) : b[k] = es[t[k]].size
    BY <1>2
  <2>3. /\ u \in Seq(1..Len(es)) /\ Len(u) = Len(s) + Len(t)
        /\ \A k \in 1..(Len(s) + Len(t)) : u[k] = IF k <= Len(s) THEN s[k] ELSE t[k - Len(s)]
    BY ConcatProperties
  <2> HIDE DEF u
  <2>4. c \in Seq(Nat) /\ Len(c) = Len(u) /\ \A k \in 1..Len(u) : c[k] = es[u[k]].size
    BY <1>2, <2>3
  <2> HIDE DEF a, b, c
  <2> DEFINE d == a \o b
  <2>5. /\ d \in Seq(Nat) /\ Len(d) = Len(a) + Len(b)
        /\ \A k \in 1..(Len(a) + Len(b)) : d[k] = IF k <= Len(a) THEN a[k] ELSE b[k - Len(a)]
    <3>1. a \in Seq(Nat) /\ b \in Seq(Nat)
      BY <2>1, <2>2
    <3> QED  BY <3>1, ConcatProperties
  <2> HIDE DEF d
  <2>6. ASSUME NEW k \in 1..Len(c)  PROVE c[k] = d[k]
    <3>0. Len(s) \in Nat /\ Len(t) \in Nat /\ k \in 1..(Len(s) + Len(t))
      BY <2>3, <2>4
    <3>1. CASE k <= Len(s)
      <4>1. k \in 1..Len(s)
        BY <3>0, <3>1
      <4> QED  BY <2>1, <2>2, <2>3, <2>4, <2>5, <3>0, <3>1, <4>1
    <3>2. CASE ~(k <= Len(s))
      <4>1. k - Len(s) \in 1..Len(t)
        BY <3>0, <3>2
      <4> QED  BY <2>1, <2>2, <2>3, <2>4, <2>5, <3>0, <3>2, <4>1
    <3> QED  BY <3>1, <3>2
  <2>7. c = d
    BY <2>1, <2>2, <2>3, <2>4, <2>5, <2>6, SeqEqual
  <2>8. Total(d) = Total(a) + Total(b)
    BY <2>1, <2>2, TotalJoin DEF d
  <2> QED  BY <2>7, <2>8 DEF SumOf, a, b, c, u
<1>5. ASSUME NEW i \in 1..Len(es)  PROVE SumOf(<<i>>, es) = es[i].size
  <2> DEFINE s == <<i>>
             n == es[i].size
             a == SizesOf(s, es)
  <2>1. s \in Seq(1..Len(es)) /\ Len(s) = 1 /\ s[1] = i
    OBVIOUS
  <2> HIDE DEF s
  <2>2. a \in Seq(Nat) /\ Len(a) = 1 /\ a[1] = n
    BY <1>2, <2>1
  <2> DEFINE b == <<n>>
  <2>3. n \in Nat
    BY <1>1
  <2> HIDE DEF a, n
  <2>4. b \in Seq(Nat) /\ Len(b) = 1 /\ b[1] = n
    BY <2>3
  <2> HIDE DEF b
  <2>5. a = b
    BY <2>2, <2>4, SeqEqual
  <2>6. Total(b) = n
    BY <2>3, TotalOne DEF b
  <2> QED  BY <2>5, <2>6 DEF SumOf, a, n, s
<1>6. SumOf(<<>>, es) = 0
  <2>1. SizesOf(<<>>, es) = <<>>
    BY DEF SizesOf
  <2>2. Total(<<>>) = 0
    BY TotalOne
  <2> QED  BY <2>1, <2>2 DEF SumOf
<1> QED  BY <1>1, <1>2, <1>3, <1>4, <1>5, <1>6

-----------------------------------------------------------------------------
(* A context is the head of a path, which is its latest compaction and what    *)
(* that kept, and what followed it on the path.                                *)

LEMMA FirstFound ==
  ASSUME NEW U, NEW s \in Seq(U), NEW v, NEW k \in 1..Len(s), s[k] = v, \A j \in 1..(k - 1) : s[j] # v
  PROVE  FirstOf(s, v) = k
<1> DEFINE f == FirstOf(s, v)
<1>1. f \in 0..Len(s) /\ (f = 0 => \A j \in 1..Len(s) : s[j] # v)
      /\ (f # 0 => s[f] = v /\ \A j \in 1..Len(s) : s[j] = v => f <= j)
  BY FirstIs
<1> HIDE DEF f
<1>2. f # 0 /\ f <= k
  BY <1>1
<1>3. ~(f \in 1..(k - 1))
  BY <1>1, <1>2
<1>4. f = k
  BY <1>1, <1>2, <1>3
<1> QED  BY <1>4 DEF f

LEMMA FirstOfLonger ==
  ASSUME NEW U, NEW s \in Seq(U), NEW e \in U, NEW v, e # v
  PROVE  FirstOf(Append(s, e), v) = FirstOf(s, v)
<1> DEFINE t == Append(s, e)
           f == FirstOf(s, v)
           g == FirstOf(t, v)
<1>1. t \in Seq(U) /\ Len(t) = Len(s) + 1 /\ t[Len(s) + 1] = e /\ \A k \in 1..Len(s) : t[k] = s[k]
  OBVIOUS
<1>2. f \in 0..Len(s) /\ (f = 0 => \A j \in 1..Len(s) : s[j] # v)
      /\ (f # 0 => s[f] = v /\ \A j \in 1..Len(s) : s[j] = v => f <= j)
  BY FirstIs
<1> HIDE DEF t
<1>3. g \in 0..Len(t) /\ (g = 0 => \A j \in 1..Len(t) : t[j] # v)
      /\ (g # 0 => t[g] = v /\ \A j \in 1..Len(t) : t[j] = v => g <= j)
  BY <1>1, FirstIs
<1> HIDE DEF f, g
<1>4. CASE f = 0
  <2>1. \A j \in 1..Len(t) : t[j] # v
    <3> SUFFICES ASSUME NEW j \in 1..Len(t)  PROVE t[j] # v
      OBVIOUS
    <3>1. j \in 1..Len(s) \/ j = Len(s) + 1
      BY <1>1
    <3> QED  BY <1>1, <1>2, <1>4, <3>1
  <2>2. g = 0
    <3> SUFFICES ASSUME g # 0  PROVE FALSE
      OBVIOUS
    <3>1. g \in 1..Len(t)
      BY <1>1, <1>3
    <3> QED  BY <1>3, <2>1, <3>1
  <2> QED  BY <1>4, <2>2 DEF f, g, t
<1>5. CASE f # 0
  <2>1. f \in 1..Len(s) /\ f \in 1..Len(t) /\ t[f] = v
    BY <1>1, <1>2, <1>5
  <2>2. g # 0 /\ g <= f /\ g \in 1..Len(s)
    BY <1>1, <1>3, <2>1
  <2>3. f <= g
    BY <1>1, <1>2, <1>3, <1>5, <2>2
  <2>4. f = g
    BY <2>1, <2>2, <2>3
  <2> QED  BY <2>4 DEF f, g, t
<1> QED  BY <1>4, <1>5

\* What is kept from an element on that is found behind the head.
LEMMA KeptSuffix ==
  ASSUME NEW U, NEW h \in Seq(U), NEW p \in Seq(U), \A j, m \in 1..Len(p) : j < m => p[j] # p[m],
         NEW l \in 0..Len(p), NEW k \in (l + 1)..Len(p), \A j \in 1..Len(h) : h[j] # p[k]
  PROVE  KeptFirst(h \o SubSeq(p, l + 1, Len(p)), p[k]) = SubSeq(p, k, Len(p))
<1> DEFINE n == Len(p)
           t == SubSeq(p, l + 1, n)
           x == h \o t
           a == Len(h) + k - l
           y == SubSeq(x, a, Len(x))
           z == SubSeq(p, k, n)
<1>0. n \in Nat /\ l \in Nat /\ k \in Nat /\ l < k /\ k <= n /\ Len(h) \in Nat /\ k \in 1..n
  OBVIOUS
<1>1. t \in Seq(U) /\ Len(t) = n - l /\ \A j \in 1..(n - l) : t[j] = p[l + j]
  <2>1. l + 1 \in 1..(Len(p) + 1) /\ n \in ((l + 1) - 1)..Len(p)
    BY <1>0
  <2>2. t \in Seq(U) /\ Len(t) = n - (l + 1) + 1 /\ \A j \in 1..(n - (l + 1) + 1) : t[j] = p[(l + 1) + j - 1]
    BY <2>1, PartIs
  <2>3. n - (l + 1) + 1 = n - l /\ \A j \in 1..(n - l) : (l + 1) + j - 1 = l + j
    BY <1>0
  <2> HIDE DEF t, n
  <2> QED  BY <2>2, <2>3
<1>2. z \in Seq(U) /\ Len(z) = n - k + 1 /\ \A j \in 1..(n - k + 1) : z[j] = p[k + j - 1]
  <2>1. k \in 1..(Len(p) + 1) /\ n \in (k - 1)..Len(p)
    BY <1>0
  <2> QED  BY <2>1, PartIs
<1> HIDE DEF t, z
<1>3. /\ x \in Seq(U) /\ Len(x) = Len(h) + Len(t)
      /\ \A j \in 1..(Len(h) + Len(t)) : x[j] = IF j <= Len(h) THEN h[j] ELSE t[j - Len(h)]
  BY <1>1, ConcatProperties
<1> HIDE DEF x
<1>4. a \in 1..Len(x) /\ x[a] = p[k]
  <2>1. a \in 1..Len(x) /\ ~(a <= Len(h)) /\ a - Len(h) = k - l /\ k - l \in 1..(n - l) /\ l + (k - l) = k
    BY <1>0, <1>1, <1>3
  <2> QED  BY <1>1, <1>3, <2>1
<1>5. ASSUME NEW j \in 1..(a - 1)  PROVE x[j] # p[k]
  <2>1. CASE j <= Len(h)
    <3>1. j \in 1..Len(h) /\ j \in 1..(Len(h) + Len(t))
      BY <1>0, <1>1, <2>1
    <3> QED  BY <1>3, <2>1, <3>1
  <2>2. CASE ~(j <= Len(h))
    <3> DEFINE m == j - Len(h)
    <3>1. m \in 1..(n - l) /\ l + m \in 1..n /\ l + m < k /\ j \in 1..(Len(h) + Len(t))
      BY <1>0, <1>1, <2>2
    <3>2. x[j] = t[m]
      BY <1>3, <2>2, <3>1
    <3> HIDE DEF m, n, a
    <3>3. x[j] = p[l + m]
      BY <1>1, <3>1, <3>2
    <3>4. p[l + m] # p[k]
      <4> DEFINE w == l + m
      <4>1. w \in 1..Len(p) /\ k \in 1..Len(p) /\ w < k
        BY <1>0, <3>1 DEF n
      <4> HIDE DEF w
      <4>2. p[w] # p[k]
        BY <4>1
      <4> QED  BY <4>2 DEF w
    <3> QED  BY <3>3, <3>4
  <2> QED  BY <2>1, <2>2
<1>6. FirstOf(x, p[k]) = a
  <2> HIDE DEF a
  <2> QED  BY <1>3, <1>4, <1>5, FirstFound
<1>7. a # 0
  BY <1>0
<1>8. KeptFirst(x, p[k]) = y
  BY <1>6, <1>7 DEF KeptFirst
<1>9. /\ y \in Seq(U) /\ Len(y) = Len(x) - a + 1
      /\ \A j \in 1..(Len(x) - a + 1) : y[j] = x[a + j - 1]
  <2>1. a \in 1..(Len(x) + 1) /\ Len(x) \in (a - 1)..Len(x)
    BY <1>4
  <2> HIDE DEF a
  <2> QED  BY <1>3, <2>1, PartIs
<1>10. Len(x) - a + 1 = n - k + 1
  BY <1>0, <1>1, <1>3
<1> HIDE DEF y
<1>11. ASSUME NEW j \in 1..Len(y)  PROVE y[j] = z[j]
  <2> DEFINE b == a + j - 1
             m == k - l + j - 1
  <2>1. /\ j \in 1..(n - k + 1) /\ b \in 1..(Len(h) + Len(t)) /\ ~(b <= Len(h)) /\ b - Len(h) = m
        /\ m \in 1..(n - l) /\ l + m = k + j - 1
    BY <1>0, <1>1, <1>3, <1>9, <1>10
  <2>2. y[j] = x[b]
    BY <1>9, <1>10, <2>1
  <2>3. z[j] = p[k + j - 1]
    BY <1>2, <2>1
  <2> HIDE DEF b, m, a, n
  <2>4. x[b] = t[m]
    BY <1>3, <2>1
  <2>5. t[m] = p[l + m]
    BY <1>1, <2>1
  <2> QED  BY <2>1, <2>2, <2>3, <2>4, <2>5
<1>12. Len(y) = Len(z)
  BY <1>2, <1>9, <1>10
<1>13. y = z
  BY <1>2, <1>9, <1>11, <1>12, SeqEqual
<1> QED  BY <1>8, <1>13 DEF x, t, z

\* The latest compaction of a path, and the entries before it that it kept.
KeptBy(p, es) ==
  LET cut  == LastOf(p, es)
      keep == FirstOf(p, es[p[cut]].firstKept)
  IN  SubSeq(p, IF keep > 0 THEN keep ELSE cut, cut - 1)

HeadOf(p, es) == IF LastOf(p, es) = 0 THEN <<>> ELSE <<p[LastOf(p, es)]>> \o KeptBy(p, es)

Following(p, es) == SubSeq(p, LastOf(p, es) + 1, Len(p))

\* A path of entries that were stored in its order.
LEMMA OfStraight ==
  ASSUME NEW es, Tree(es), NEW i \in 0..Len(es), NEW p, Straight(p, i)
  PROVE  /\ p \in Seq(1..Len(es)) /\ Len(p) \in Nat /\ Len(es) \in Nat
         /\ \A k \in 1..Len(p) : p[k] \in 1..i /\ p[k] \in 1..Len(es)
         /\ \A j, k \in 1..Len(p) : j < k => p[j] < p[k]
         /\ \A j, k \in 1..Len(p) : j < k => p[j] # p[k]
<1>1. p \in Seq(1..i) /\ Len(es) \in Nat /\ Len(p) \in Nat
  BY DEF Straight, Tree
<1>2. \A k \in 1..Len(p) : p[k] \in 1..i /\ p[k] \in 1..Len(es)
  <2>1. \A k \in 1..Len(p) : p[k] \in 1..i
    BY <1>1
  <2> QED  BY <1>1, <2>1
<1>3. p \in Seq(1..Len(es))
  <2>1. p = [k \in 1..Len(p) |-> p[k]]
    BY <1>1
  <2> QED  BY <1>1, <1>2, <2>1
<1>4. \A j, k \in 1..Len(p) : j < k => p[j] < p[k]
  BY DEF Straight
<1>5. \A j, k \in 1..Len(p) : j < k => p[j] # p[k]
  BY <1>2, <1>4
<1> QED  BY <1>1, <1>2, <1>3, <1>4, <1>5

\* What is kept of a path comes before the compaction that kept it.
LEMMA KeptBefore ==
  ASSUME NEW es, Tree(es), NEW i \in 0..Len(es), NEW p, Straight(p, i), LastOf(p, es) # 0
  PROVE  /\ LastOf(p, es) \in 1..Len(p)
         /\ FirstOf(p, es[p[LastOf(p, es)]].firstKept) \in 0..(LastOf(p, es) - 1)
<1> DEFINE l == LastOf(p, es)
           v == es[p[l]].firstKept
           f == FirstOf(p, v)
<1>1. /\ p \in Seq(1..Len(es)) /\ Len(p) \in Nat /\ \A k \in 1..Len(p) : p[k] \in 1..Len(es)
      /\ \A j, k \in 1..Len(p) : j < k => p[j] < p[k]
  BY OfStraight
<1>2. l \in 1..Len(p)
  <2>1. l \in 0..Len(p)
    BY <1>1, LastIs
  <2> QED  BY <2>1
<1> HIDE DEF l
<1>3. p[l] \in 1..Len(es) /\ p[l] \in Nat /\ v \in {Absent} \cup 0..(p[l] - 1)
  <2>1. p[l] \in 1..Len(es)
    BY <1>1, <1>2
  <2>2. v \in {Absent} \cup 0..(p[l] - 1)
    BY <2>1 DEF Tree
  <2> QED  BY <2>1, <2>2
<1> HIDE DEF v
<1>4. f \in 0..Len(p) /\ (f # 0 => p[f] = v)
  BY <1>1, FirstIs
<1> HIDE DEF f
<1>5. CASE f # 0
  <2>1. f \in 1..Len(p) /\ p[f] = v /\ p[f] \in Nat
    BY <1>1, <1>4, <1>5
  <2>2. v < p[l]
    BY <1>3, <2>1 DEF Absent
  <2>3. ~(l < f)
    <3> SUFFICES ASSUME l < f  PROVE FALSE
      OBVIOUS
    <3>1. p[l] < p[f]
      BY <1>1, <1>2, <2>1
    <3> QED  BY <1>3, <2>1, <2>2, <3>1
  <2>4. l # f
    BY <1>3, <2>1, <2>2
  <2>5. f \in 0..(l - 1)
    BY <1>2, <2>1, <2>3, <2>4
  <2> QED  BY <1>2, <2>5 DEF f, v, l
<1>6. CASE f = 0
  <2>1. 0 \in 0..(l - 1)
    BY <1>2
  <2> QED  BY <1>2, <1>6, <2>1 DEF f, v, l
<1> QED  BY <1>5, <1>6

LEMMA HeadIs ==
  ASSUME NEW es, Tree(es), NEW i \in 0..Len(es), NEW p, Straight(p, i)
  PROVE  /\ HeadOf(p, es) \in Seq(1..Len(es))
         /\ LastOf(p, es) \in 0..Len(p)
         /\ \A m \in 1..Len(HeadOf(p, es)) : \E k \in 1..LastOf(p, es) : HeadOf(p, es)[m] = p[k]
<1> DEFINE l == LastOf(p, es)
           f == FirstOf(p, es[p[l]].firstKept)
           a == IF f > 0 THEN f ELSE l
           b == SubSeq(p, a, l - 1)
           e == <<p[l]>>
           h == e \o b
<1>1. p \in Seq(1..Len(es)) /\ Len(p) \in Nat /\ \A k \in 1..Len(p) : p[k] \in 1..Len(es)
  BY OfStraight
<1>2. CASE l = 0
  <2>1. HeadOf(p, es) = <<>>
    BY <1>2 DEF HeadOf
  <2> QED  BY <1>1, <1>2, <2>1
<1>3. CASE l # 0
  <2>1. l \in 1..Len(p) /\ f \in 0..(l - 1)
    BY <1>3, KeptBefore
  <2>2. HeadOf(p, es) = h /\ KeptBy(p, es) = b
    BY <1>3 DEF HeadOf, KeptBy
  <2> HIDE DEF l, f
  <2>3. a \in 1..l /\ a \in 1..(Len(p) + 1) /\ l - 1 \in (a - 1)..Len(p) /\ l \in Nat
    BY <1>1, <2>1
  <2> HIDE DEF a
  <2>4. /\ b \in Seq(1..Len(es)) /\ Len(b) = l - 1 - a + 1
        /\ \A k \in 1..(l - 1 - a + 1) : b[k] = p[a + k - 1]
    BY <1>1, <2>3, PartIs
  <2>5. e \in Seq(1..Len(es)) /\ Len(e) = 1 /\ e[1] = p[l]
    BY <1>1, <2>1
  <2> HIDE DEF b, e
  <2>6. /\ h \in Seq(1..Len(es)) /\ Len(h) = Len(e) + Len(b)
        /\ \A k \in 1..(Len(e) + Len(b)) : h[k] = IF k <= Len(e) THEN e[k] ELSE b[k - Len(e)]
    BY <2>4, <2>5, ConcatProperties
  <2> HIDE DEF h
  <2>7. ASSUME NEW m \in 1..Len(h)  PROVE \E k \in 1..l : h[m] = p[k]
    <3>1. CASE m = 1
      <4>1. h[m] = p[l] /\ l \in 1..l
        BY <2>3, <2>4, <2>5, <2>6, <3>1
      <4> QED  BY <4>1
    <3>2. CASE m # 1
      <4> DEFINE j == m - 1
                 w == a + j - 1
      <4>1. j \in 1..(l - 1 - a + 1) /\ w \in 1..l /\ m \in 1..(Len(e) + Len(b)) /\ ~(m <= Len(e)) /\ m - Len(e) = j
        BY <2>3, <2>4, <2>5, <2>6, <3>2
      <4> HIDE DEF j
      <4>2. h[m] = p[w]
        BY <2>4, <2>6, <4>1
      <4> QED  BY <4>1, <4>2
    <3> QED  BY <3>1, <3>2
  <2>8. l \in 0..Len(p)
    BY <2>1
  <2> QED  BY <2>2, <2>4, <2>6, <2>7, <2>8 DEF l
<1> QED  BY <1>2, <1>3

\* An entry that is no compaction leaves the head as it is.
LEMMA HeadOfLonger ==
  ASSUME NEW es, Tree(es), NEW q \in 0..Len(es), NEW p, Straight(p, q),
         NEW i \in 1..Len(es), q < i, es[i].type # "compaction"
  PROVE  LastOf(Append(p, i), es) = LastOf(p, es) /\ HeadOf(Append(p, i), es) = HeadOf(p, es)
<1> DEFINE t == Append(p, i)
           l == LastOf(p, es)
           v == es[p[l]].firstKept
<1>1. /\ p \in Seq(1..Len(es)) /\ Len(p) \in Nat /\ \A k \in 1..Len(p) : p[k] \in 1..Len(es) /\ p[k] \in 1..q
      /\ \A j, k \in 1..Len(p) : j < k => p[j] < p[k]
  BY OfStraight
<1>2. t \in Seq(1..Len(es)) /\ Len(t) = Len(p) + 1 /\ t[Len(p) + 1] = i /\ \A k \in 1..Len(p) : t[k] = p[k]
  BY <1>1
<1>3. /\ l \in 0..Len(p) /\ (l # 0 => es[p[l]].type = "compaction")
      /\ \A k \in (l + 1)..Len(p) : es[p[k]].type # "compaction"
  BY <1>1, LastIs
<1> HIDE DEF t, l
<1>4. LastOf(t, es) = l
  <2>1. l # 0 => l \in 1..Len(p) /\ es[t[l]].type = "compaction"
    <3>1. l # 0 => l \in 1..Len(p)
      BY <1>1, <1>3
    <3> QED  BY <1>2, <1>3, <3>1
  <2>2. ASSUME NEW k \in (l + 1)..Len(t)  PROVE es[t[k]].type # "compaction"
    <3>1. (k \in (l + 1)..Len(p) /\ k \in 1..Len(p)) \/ k = Len(p) + 1
      BY <1>1, <1>2, <1>3
    <3> QED  BY <1>2, <1>3, <3>1
  <2>3. l \in 0..Len(t)
    BY <1>1, <1>2, <1>3
  <2>4. t \in Seq(1..Len(es)) /\ (l # 0 => es[t[l]].type = "compaction")
    BY <1>2, <2>1
  <2> QED  BY <2>2, <2>3, <2>4, LastFound
<1>5. CASE l = 0
  <2>1. HeadOf(t, es) = <<>> /\ HeadOf(p, es) = <<>>
    BY <1>4, <1>5 DEF HeadOf, l
  <2> QED  BY <1>4, <2>1 DEF t, l
<1>6. CASE l # 0
  <2> DEFINE f == FirstOf(p, v)
             a == IF f > 0 THEN f ELSE l
  <2>1. l \in 1..Len(p) /\ f \in 0..(l - 1)
    BY <1>6, KeptBefore DEF l
  <2>2. t[l] = p[l]
    BY <1>2, <2>1
  <2>3. v # i
    <3> DEFINE w == p[l]
    <3>1. w \in 1..Len(es) /\ w \in 1..q
      BY <1>1, <2>1
    <3> HIDE DEF w
    <3>2. es[w].firstKept \in {Absent} \cup 0..(w - 1)
      BY <3>1 DEF Tree
    <3>3. es[w].firstKept # i
      BY <3>1, <3>2 DEF Absent
    <3> QED  BY <3>3 DEF w
  <2> HIDE DEF v
  <2>4. FirstOf(t, v) = f
    BY <1>1, <2>3, FirstOfLonger DEF t
  <2> HIDE DEF f
  <2>5. a \in 1..(Len(p) + 1) /\ l - 1 \in (a - 1)..Len(p)
    BY <1>1, <2>1
  <2> HIDE DEF a
  <2>6. SubSeq(t, a, l - 1) = SubSeq(p, a, l - 1)
    BY <1>1, <2>5, PartOfLonger DEF t
  <2>7. HeadOf(p, es) = <<p[l]>> \o SubSeq(p, a, l - 1)
    BY <1>6 DEF HeadOf, KeptBy, a, f, v, l
  <2>8. KeptBy(t, es) = SubSeq(t, a, l - 1)
    BY <1>4, <2>2, <2>4 DEF KeptBy, a, v
  <2>9. HeadOf(t, es) = <<t[l]>> \o KeptBy(t, es)
    BY <1>4, <1>6 DEF HeadOf
  <2> QED  BY <1>4, <2>2, <2>6, <2>7, <2>8, <2>9 DEF t, l
<1> QED  BY <1>5, <1>6

\* A compaction is the head from then on.
LEMMA HeadAtCompaction ==
  ASSUME NEW es, Tree(es), NEW q \in 0..Len(es), NEW p, Straight(p, q),
         NEW i \in 1..Len(es), q < i, es[i].type = "compaction"
  PROVE  /\ LastOf(Append(p, i), es) = Len(p) + 1
         /\ LET keep == FirstOf(p, es[i].firstKept)
            IN  /\ keep \in 0..Len(p)
                /\ KeptBy(Append(p, i), es) = IF keep > 0 THEN SubSeq(p, keep, Len(p)) ELSE <<>>
         /\ HeadOf(Append(p, i), es) = <<i>> \o KeptBy(Append(p, i), es)
<1> DEFINE t == Append(p, i)
           n == Len(p) + 1
           v == es[i].firstKept
           f == FirstOf(p, v)
<1>1. /\ p \in Seq(1..Len(es)) /\ Len(p) \in Nat
  BY OfStraight
<1>2. t \in Seq(1..Len(es)) /\ Len(t) = n /\ t[n] = i /\ n \in Nat /\ n # 0 /\ n - 1 = Len(p)
  BY <1>1
<1>3. LastOf(t, es) = n
  <2> HIDE DEF t
  <2>1. n \in 0..Len(t) /\ \A k \in (n + 1)..Len(t) : FALSE
    BY <1>2
  <2> HIDE DEF n
  <2> QED  BY <1>2, <2>1, LastFound
<1>4. v # i
  <2>1. v \in {Absent} \cup 0..(i - 1)
    BY DEF Tree
  <2> QED  BY <2>1 DEF Absent
<1> HIDE DEF v
<1>5. FirstOf(t, v) = f /\ f \in 0..Len(p)
  BY <1>1, <1>4, FirstOfLonger, FirstIs
<1> HIDE DEF f, t
<1>6. KeptBy(t, es) = SubSeq(t, IF f > 0 THEN f ELSE n, n - 1)
  BY <1>2, <1>3, <1>5 DEF KeptBy, v
<1>7. ASSUME f > 0  PROVE KeptBy(t, es) = SubSeq(p, f, Len(p))
  <2>1. f \in 1..(Len(p) + 1) /\ Len(p) \in (f - 1)..Len(p)
    BY <1>1, <1>5, <1>7
  <2>2. SubSeq(t, f, Len(p)) = SubSeq(p, f, Len(p))
    BY <1>1, <2>1, PartOfLonger DEF t
  <2> QED  BY <1>2, <1>5, <1>6, <1>7, <2>2
<1>8. ASSUME ~(f > 0)  PROVE KeptBy(t, es) = <<>>
  <2>1. n \in 1..(Len(t) + 1) /\ n - 1 \in (n - 1)..Len(t)
    BY <1>1, <1>2
  <2>2. SubSeq(t, n, n - 1) \in Seq(1..Len(es)) /\ Len(SubSeq(t, n, n - 1)) = 0
    <3> HIDE DEF n
    <3>1. n - 1 - n + 1 = 0
      BY <1>2
    <3> QED  BY <1>2, <2>1, <3>1, PartIs
  <2>3. SubSeq(t, n, n - 1) = <<>>
    <3> DEFINE z == SubSeq(t, n, n - 1)
    <3>1. z \in Seq(1..Len(es)) /\ Len(z) = 0
      BY <2>2
    <3> HIDE DEF z
    <3>2. z = <<>>
      BY <3>1
    <3> QED  BY <3>2 DEF z
  <2> QED  BY <1>6, <1>8, <2>3
<1>9. HeadOf(t, es) = <<t[n]>> \o KeptBy(t, es)
  BY <1>2, <1>3 DEF HeadOf
<1>10. KeptBy(t, es) = IF f > 0 THEN SubSeq(p, f, Len(p)) ELSE <<>>
  BY <1>7, <1>8
<1> QED  BY <1>2, <1>3, <1>5, <1>9, <1>10 DEF t, v, f

\* A compaction keeps what the path holds since the compaction before, or nothing.
KeepsSince(p, es, i) ==
  es[i].firstKept = Absent \/ \E k \in (LastOf(p, es) + 1)..Len(p) : es[i].firstKept = p[k]

KeptSince(P, es) ==
  \A i \in 1..Len(es) : es[i].type = "compaction" /\ Rooted(P, i) => KeepsSince(P[es[i].parent], es, i)

Shaped(p, C, es, i) ==
  /\ C[i] = HeadOf(p, es) \o Following(p, es)
  /\ \A j \in (LastOf(p, es) + 1)..Len(p) : C[p[j]] = HeadOf(p, es) \o SubSeq(p, LastOf(p, es) + 1, j)

LEMMA ShapedLonger ==
  ASSUME NEW es, Tree(es), NEW q \in 0..Len(es), NEW p, Straight(p, q),
         NEW i \in 1..Len(es), q < i, es[i].type # "compaction",
         NEW C, C[i] = Append(C[q], i), Shaped(p, C, es, q)
  PROVE  Shaped(Append(p, i), C, es, i)
<1> DEFINE t == Append(p, i)
           l == LastOf(p, es)
           h == HeadOf(p, es)
           U == 1..Len(es)
<1>1. p \in Seq(U) /\ Len(p) \in Nat
  BY OfStraight
<1>2. h \in Seq(U) /\ l \in 0..Len(p)
  BY HeadIs
<1>3. LastOf(t, es) = l /\ HeadOf(t, es) = h
  BY HeadOfLonger
<1>4. t \in Seq(U) /\ Len(t) = Len(p) + 1 /\ t[Len(p) + 1] = i /\ \A k \in 1..Len(p) : t[k] = p[k]
  BY <1>1
<1>5. C[q] = h \o SubSeq(p, l + 1, Len(p)) /\ \A j \in (l + 1)..Len(p) : C[p[j]] = h \o SubSeq(p, l + 1, j)
  BY DEF Shaped, Following
<1>6. i \in U
  OBVIOUS
<1> HIDE DEF h, l, U
<1> DEFINE b == SubSeq(p, l + 1, Len(p))
<1>7. l + 1 \in 1..(Len(p) + 1) /\ Len(p) \in ((l + 1) - 1)..Len(p)
  BY <1>1, <1>2
<1>8. SubSeq(t, l + 1, Len(p) + 1) = Append(b, i)
  BY <1>1, <1>6, <1>7, EndOfLonger DEF t
<1>9. b \in Seq(U)
  BY <1>1, <1>7, PartIs
<1> HIDE DEF b
<1>10. Append(h \o b, i) = h \o Append(b, i)
  <2>1. h \in Seq(U) /\ b \in Seq(U) /\ i \in U
    BY <1>2, <1>6, <1>9
  <2>2. EndsAlike(h, b, i)
    BY <2>1, EndOfJoined
  <2> QED  BY <2>2 DEF EndsAlike
<1>11. C[i] = h \o SubSeq(t, l + 1, Len(t))
  BY <1>4, <1>5, <1>8, <1>10 DEF b
<1>12. ASSUME NEW j \in (l + 1)..Len(t)  PROVE C[t[j]] = h \o SubSeq(t, l + 1, j)
  <2>1. CASE j = Len(p) + 1
    BY <1>4, <1>11, <2>1
  <2>2. CASE j # Len(p) + 1
    <3>1. j \in (l + 1)..Len(p) /\ j \in 1..Len(p) /\ j \in ((l + 1) - 1)..Len(p)
      BY <1>1, <1>2, <1>4, <2>2
    <3>2. SubSeq(t, l + 1, j) = SubSeq(p, l + 1, j)
      BY <1>1, <1>6, <1>7, <3>1, PartOfLonger DEF t
    <3> QED  BY <1>4, <1>5, <3>1, <3>2
  <2> QED  BY <2>1, <2>2
<1> HIDE DEF t
<1> QED  BY <1>3, <1>11, <1>12 DEF Shaped, Following, t, h, l

LEMMA ShapedAtCompaction ==
  ASSUME NEW es, Tree(es), NEW q \in 0..Len(es), NEW p, Straight(p, q),
         NEW i \in 1..Len(es), q < i, es[i].type = "compaction", KeepsSince(p, es, i),
         NEW C, C[i] = <<i>> \o KeptFirst(C[q], es[i].firstKept), Shaped(p, C, es, q)
  PROVE  Shaped(Append(p, i), C, es, i)
<1> DEFINE t == Append(p, i)
           l == LastOf(p, es)
           h == HeadOf(p, es)
           U == 1..Len(es)
           v == es[i].firstKept
           f == FirstOf(p, v)
           b == SubSeq(p, l + 1, Len(p))
           n == Len(p) + 1
<1>1. /\ p \in Seq(U) /\ Len(p) \in Nat
      /\ \A j, k \in 1..Len(p) : j < k => p[j] # p[k]
      /\ \A k \in 1..Len(p) : p[k] \in 1..Len(es)
  BY OfStraight
<1>2. h \in Seq(U) /\ l \in 0..Len(p) /\ \A m \in 1..Len(h) : \E k \in 1..l : h[m] = p[k]
  BY HeadIs
<1>3. /\ LastOf(t, es) = n /\ f \in 0..Len(p)
      /\ KeptBy(t, es) = IF f > 0 THEN SubSeq(p, f, Len(p)) ELSE <<>>
      /\ HeadOf(t, es) = <<i>> \o KeptBy(t, es)
  BY HeadAtCompaction
<1>4. C[q] = h \o b
  BY DEF Shaped, Following
<1>5. v = Absent \/ \E k \in (l + 1)..Len(p) : v = p[k]
  BY DEF KeepsSince
<1>6. t \in Seq(U) /\ Len(t) = n /\ n \in Nat
  BY <1>1
<1>7. l + 1 \in 1..(Len(p) + 1) /\ Len(p) \in ((l + 1) - 1)..Len(p)
  BY <1>1, <1>2
<1>8. b \in Seq(U)
  BY <1>1, <1>7, PartIs
<1> HIDE DEF h, l, t, v, f, n
<1>9. KeptFirst(C[q], v) = KeptBy(t, es)
  <2>1. CASE v = Absent
    <3> DEFINE x == h \o b
    <3>1. x \in Seq(U)
      BY <1>2, <1>8
    <3> HIDE DEF x, b
    <3>2. \A k \in 1..Len(x) : x[k] # v
      BY <2>1, <3>1 DEF Absent
    <3>3. FirstOf(x, v) = 0
      <4>1. FirstOf(x, v) \in 0..Len(x) /\ (FirstOf(x, v) # 0 => x[FirstOf(x, v)] = v)
        BY <3>1, FirstIs
      <4> DEFINE g == FirstOf(x, v)
      <4>2. g \in 0..Len(x) /\ (g # 0 => x[g] = v)
        BY <4>1
      <4> HIDE DEF g
      <4>3. g = 0
        BY <3>2, <4>2
      <4> QED  BY <4>3 DEF g
    <3>4. f = 0
      <4>1. \A k \in 1..Len(p) : p[k] # v
        BY <1>1, <2>1 DEF Absent
      <4>2. f # 0 => p[f] = v
        BY <1>1, FirstIs DEF f
      <4> QED  BY <1>1, <1>3, <4>1, <4>2
    <3>5. KeptFirst(x, v) = <<>>
      BY <3>3 DEF KeptFirst
    <3> QED  BY <1>3, <1>4, <3>4, <3>5 DEF x
  <2>2. ASSUME NEW k \in (l + 1)..Len(p), v = p[k]  PROVE KeptFirst(C[q], v) = KeptBy(t, es)
    <3>1. k \in 1..Len(p) /\ k \in Nat
      BY <1>1, <1>2
    <3>2. \A j \in 1..(k - 1) : j \in 1..Len(p) /\ j < k
      BY <1>1, <3>1
    <3>3. \A j \in 1..(k - 1) : p[j] # p[k]
      BY <1>1, <3>1, <3>2
    <3>4. f = k
      BY <1>1, <2>2, <3>1, <3>3, FirstFound DEF f
    <3>5. \A m \in 1..l : m \in 1..Len(p) /\ m < k
      <4>1. l \in Nat /\ Len(p) \in Nat /\ l + 1 <= k /\ k <= Len(p) /\ k \in Nat
        BY <1>1, <1>2, <3>1
      <4> QED  BY <4>1
    <3>6. \A m \in 1..Len(h) : h[m] # p[k]
      BY <1>1, <1>2, <3>1, <3>5
    <3>7. KeptFirst(h \o b, p[k]) = SubSeq(p, k, Len(p))
      <4>1. \A j, m \in 1..Len(p) : j < m => p[j] # p[m]
        BY <1>1
      <4> QED  BY <1>1, <1>2, <3>6, <4>1, KeptSuffix
    <3>8. f > 0
      BY <3>1, <3>4
    <3> QED  BY <1>3, <1>4, <2>2, <3>4, <3>7, <3>8
  <2> QED  BY <1>5, <2>1, <2>2
<1>10. C[i] = HeadOf(t, es)
  BY <1>3, <1>9 DEF v
<1> DEFINE z == SubSeq(t, n + 1, n)
<1>11. z = <<>>
  <2>1. n + 1 \in 1..(Len(t) + 1) /\ n \in ((n + 1) - 1)..Len(t) /\ n - (n + 1) + 1 = 0
    BY <1>6
  <2>2. z \in Seq(U) /\ Len(z) = 0
    BY <1>6, <2>1, PartIs
  <2> HIDE DEF z
  <2> QED  BY <2>2
<1> HIDE DEF z
<1>12. HeadOf(t, es) \in Seq(U)
  <2>1. IF f > 0 THEN KeptBy(t, es) = SubSeq(p, f, Len(p)) ELSE KeptBy(t, es) = <<>>
    BY <1>3
  <2>2. f > 0 => SubSeq(p, f, Len(p)) \in Seq(U)
    <3>1. f > 0 => f \in 1..(Len(p) + 1) /\ Len(p) \in (f - 1)..Len(p)
      BY <1>1, <1>3
    <3> QED  BY <1>1, <3>1, PartIs
  <2> DEFINE y == KeptBy(t, es)
             e == <<i>>
  <2>4. e \in Seq(U)
    OBVIOUS
  <2>5. <<>> \in Seq(U)
    OBVIOUS
  <2>6. y \in Seq(U)
    <3> HIDE DEF y, U, b
    <3> QED  BY <2>1, <2>2, <2>5 DEF y
  <2> HIDE DEF y, e
  <2>3. e \o y \in Seq(U)
    BY <2>4, <2>6
  <2> QED  BY <1>3, <2>3 DEF e, y
<1>13. HeadOf(t, es) \o <<>> = HeadOf(t, es)
  BY <1>12
<1>14. Following(t, es) = z
  BY <1>3, <1>6 DEF Following, z
<1>15. \A j \in (n + 1)..Len(t) : FALSE
  BY <1>6
<1> QED  BY <1>3, <1>10, <1>11, <1>13, <1>14, <1>15 DEF Shaped, t

LEMMA AllShaped ==
  ASSUME NEW es, Tree(es), NEW P, IsPath(P, es), NEW C, IsContext(C, es), KeptSince(P, es)
  PROVE  \A i \in 0..Len(es) : Rooted(P, i) => Straight(P[i], i) /\ Shaped(P[i], C, es, i)
<1>0. \A i \in 0..Len(es) : Rooted(P, i) => Straight(P[i], i)
  BY RootedStraight
<1>1. Len(es) \in Nat /\ \A i \in 1..Len(es) : es[i].parent \in {Absent} \cup 0..(i - 1)
  BY DEF Tree
<1> DEFINE G == {i \in Int : i # Absent /\ Rooted(P, i) => Shaped(P[i], C, es, i)}
<1>2. 0 \in G /\ Absent \in G
  <2>1. Shaped(<<>>, C, es, 0)
    <3> DEFINE z == <<>>
    <3>1. z \in Seq(1..Len(es)) /\ Len(z) = 0 /\ Len(z) + 1 = 1
      OBVIOUS
    <3>2. C[0] = <<>>
      BY ContextSteps
    <3>3. LastOf(z, es) = 0
      <4> HIDE DEF z
      <4>1. z \in Seq(1..Len(es))
        BY <3>1
      <4>2. LastOf(z, es) \in 0..Len(z)
        BY <4>1, LastIs
      <4> QED  BY <3>1, <4>2
    <3>4. HeadOf(z, es) = <<>>
      BY <3>3 DEF HeadOf
    <3>5. Following(z, es) = <<>>
      <4>1. SubSeq(<<>>, 1, 0) = <<>>
        OBVIOUS
      <4> QED  BY <3>3, <4>1 DEF Following
    <3>6. \A j \in 1..0 : FALSE
      OBVIOUS
    <3>7. <<>> \o <<>> = <<>>
      OBVIOUS
    <3> HIDE DEF z
    <3>8. Shaped(z, C, es, 0)
      BY <3>1, <3>2, <3>3, <3>4, <3>5, <3>6, <3>7 DEF Shaped
    <3> QED  BY <3>8 DEF z
  <2>2. P[0] = <<>>
    BY PathSteps
  <2>3. Shaped(P[0], C, es, 0)
    BY <2>1, <2>2
  <2>4. 0 \in G
    BY <2>3
  <2>5. Absent \in G
    BY DEF Absent
  <2> QED  BY <2>4, <2>5
<1>3. ASSUME NEW i \in 1..Len(es), es[i].parent \in G  PROVE i \in G
  <2> SUFFICES ASSUME Rooted(P, i)  PROVE Shaped(P[i], C, es, i)
    BY <1>1
  <2> DEFINE q == es[i].parent
             p == P[q]
  <2>1. q \in 0..(i - 1) /\ Rooted(P, q)
    BY RootedParent
  <2>2. q \in 0..Len(es) /\ q < i /\ q # Absent
    BY <1>1, <2>1 DEF Absent
  <2>3. Straight(p, q)
    BY <1>0, <2>1, <2>2
  <2>4. Shaped(p, C, es, q)
    BY <1>3, <2>1, <2>2
  <2>5. P[i] = Append(p, i)
    BY PathSteps
  <2>6. C[i] = IF es[i].type # "compaction" THEN Append(C[q], i)
               ELSE <<i>> \o KeptFirst(C[q], es[i].firstKept)
    BY ContextSteps
  <2>7. es[i].type = "compaction" => KeepsSince(p, es, i)
    BY DEF KeptSince
  <2> HIDE DEF p, q
  <2>8. CASE es[i].type # "compaction"
    <3>1. C[i] = Append(C[q], i)
      BY <2>6, <2>8
    <3> QED  BY <2>2, <2>3, <2>4, <2>5, <2>8, <3>1, ShapedLonger
  <2>9. CASE es[i].type = "compaction"
    <3>1. C[i] = <<i>> \o KeptFirst(C[q], es[i].firstKept)
      BY <2>6, <2>9
    <3> QED  BY <2>2, <2>3, <2>4, <2>5, <2>7, <2>9, <3>1, ShapedAtCompaction
  <2> QED  BY <2>8, <2>9
<1>4. Nodes(es) \subseteq G
  <2> HIDE DEF G
  <2> QED  BY <1>1, <1>2, <1>3, GrowsTo DEF Nodes
<1>5. \A i \in 0..Len(es) : i \in Nodes(es) /\ i # Absent
  BY <1>1 DEF Nodes, Absent
<1> QED  BY <1>0, <1>4, <1>5

-----------------------------------------------------------------------------
(* The estimate: of the entries of a context, those of use are what followed.  *)

Marks(es) == [entry: 1..Len(es), useProviderUsage: BOOLEAN]

\* Marked entries m are those of x, of use only behind the first n.
MarksOf(m, x, n, es) ==
  /\ m \in Seq(Marks(es)) /\ x \in Seq(1..Len(es)) /\ Len(m) = Len(x)
  /\ \A k \in 1..Len(x) : m[k].entry = x[k] /\ (m[k].useProviderUsage => k > n)

LEMMA MarkedIs ==
  ASSUME NEW es, NEW s \in Seq(1..Len(es)), NEW usable \in BOOLEAN
  PROVE  /\ Marked(s, usable) \in Seq(Marks(es)) /\ Len(Marked(s, usable)) = Len(s)
         /\ \A k \in 1..Len(s) : Marked(s, usable)[k] = [entry |-> s[k], useProviderUsage |-> usable]
<1>1. DOMAIN s = 1..Len(s) /\ Len(s) \in Nat /\ \A k \in 1..Len(s) : s[k] \in 1..Len(es)
  OBVIOUS
<1>2. \A k \in 1..Len(s) : [entry |-> s[k], useProviderUsage |-> usable] \in Marks(es)
  BY <1>1 DEF Marks
<1> QED  BY <1>1, <1>2 DEF Marked

LEMMA MarkedParts ==
  ASSUME NEW es, NEW h \in Seq(1..Len(es)), NEW t \in Seq(1..Len(es))
  PROVE  MarksOf(Marked(h, FALSE) \o Marked(t, TRUE), h \o t, Len(h), es)
<1> DEFINE a == Marked(h, FALSE)
           b == Marked(t, TRUE)
           m == a \o b
           x == h \o t
<1>1. /\ a \in Seq(Marks(es)) /\ Len(a) = Len(h)
      /\ \A k \in 1..Len(h) : a[k] = [entry |-> h[k], useProviderUsage |-> FALSE]
  BY MarkedIs
<1>2. /\ b \in Seq(Marks(es)) /\ Len(b) = Len(t)
      /\ \A k \in 1..Len(t) : b[k] = [entry |-> t[k], useProviderUsage |-> TRUE]
  BY MarkedIs
<1> HIDE DEF a, b
<1>3. /\ m \in Seq(Marks(es)) /\ Len(m) = Len(a) + Len(b)
      /\ \A k \in 1..(Len(a) + Len(b)) : m[k] = IF k <= Len(a) THEN a[k] ELSE b[k - Len(a)]
  <2>1. a \in Seq(Marks(es)) /\ b \in Seq(Marks(es))
    BY <1>1, <1>2
  <2> QED  BY <2>1, ConcatProperties
<1>4. /\ x \in Seq(1..Len(es)) /\ Len(x) = Len(h) + Len(t)
      /\ \A k \in 1..(Len(h) + Len(t)) : x[k] = IF k <= Len(h) THEN h[k] ELSE t[k - Len(h)]
  BY ConcatProperties
<1> HIDE DEF m, x
<1>5. Len(h) \in Nat /\ Len(t) \in Nat
  OBVIOUS
<1>6. ASSUME NEW k \in 1..Len(x)  PROVE m[k].entry = x[k] /\ (m[k].useProviderUsage => k > Len(h))
  <2>1. CASE k <= Len(h)
    <3>1. k \in 1..Len(h) /\ k \in 1..(Len(h) + Len(t)) /\ k \in 1..(Len(a) + Len(b)) /\ k <= Len(a) /\ ~(k > Len(h))
      BY <1>1, <1>2, <1>4, <1>5, <2>1
    <3>2. m[k] = [entry |-> h[k], useProviderUsage |-> FALSE] /\ x[k] = h[k]
      BY <1>1, <1>3, <1>4, <2>1, <3>1
    <3> QED  BY <3>1, <3>2
  <2>2. CASE ~(k <= Len(h))
    <3> DEFINE j == k - Len(h)
    <3>1. /\ j \in 1..Len(t) /\ k \in 1..(Len(h) + Len(t)) /\ k \in 1..(Len(a) + Len(b)) /\ ~(k <= Len(a))
          /\ k - Len(a) = j /\ k > Len(h)
      BY <1>1, <1>2, <1>4, <1>5, <2>2
    <3>2. x[k] = t[j]
      BY <1>4, <2>2, <3>1
    <3> HIDE DEF j
    <3>3. m[k] = [entry |-> t[j], useProviderUsage |-> TRUE]
      BY <1>2, <1>3, <3>1
    <3> QED  BY <3>1, <3>2, <3>3
  <2> QED  BY <2>1, <2>2
<1>7. Len(m) = Len(x)
  BY <1>1, <1>2, <1>3, <1>4
<1> QED  BY <1>3, <1>4, <1>6, <1>7 DEF MarksOf, m, x, a, b

\* A concatenation may be marked part by part.
LEMMA MarkedJoin ==
  ASSUME NEW es, NEW s \in Seq(1..Len(es)), NEW t \in Seq(1..Len(es)), NEW usable \in BOOLEAN
  PROVE  Marked(s, usable) \o Marked(t, usable) = Marked(s \o t, usable)
<1> DEFINE a == Marked(s, usable)
           b == Marked(t, usable)
           m == a \o b
           x == s \o t
           c == Marked(x, usable)
<1>1. /\ a \in Seq(Marks(es)) /\ Len(a) = Len(s)
      /\ \A k \in 1..Len(s) : a[k] = [entry |-> s[k], useProviderUsage |-> usable]
  BY MarkedIs
<1>2. /\ b \in Seq(Marks(es)) /\ Len(b) = Len(t)
      /\ \A k \in 1..Len(t) : b[k] = [entry |-> t[k], useProviderUsage |-> usable]
  BY MarkedIs
<1> HIDE DEF a, b
<1>3. /\ m \in Seq(Marks(es)) /\ Len(m) = Len(a) + Len(b)
      /\ \A k \in 1..(Len(a) + Len(b)) : m[k] = IF k <= Len(a) THEN a[k] ELSE b[k - Len(a)]
  <2>1. a \in Seq(Marks(es)) /\ b \in Seq(Marks(es))
    BY <1>1, <1>2
  <2> QED  BY <2>1, ConcatProperties
<1>4. /\ x \in Seq(1..Len(es)) /\ Len(x) = Len(s) + Len(t)
      /\ \A k \in 1..(Len(s) + Len(t)) : x[k] = IF k <= Len(s) THEN s[k] ELSE t[k - Len(s)]
  BY ConcatProperties
<1> HIDE DEF m, x
<1>5. /\ c \in Seq(Marks(es)) /\ Len(c) = Len(x)
      /\ \A k \in 1..Len(x) : c[k] = [entry |-> x[k], useProviderUsage |-> usable]
  BY <1>4, MarkedIs
<1> HIDE DEF c
<1>6. ASSUME NEW k \in 1..Len(c)  PROVE m[k] = c[k]
  <2>0. Len(s) \in Nat /\ Len(t) \in Nat /\ k \in 1..(Len(s) + Len(t)) /\ k \in 1..Len(x)
    BY <1>4, <1>5
  <2>1. CASE k <= Len(s)
    <3>1. k \in 1..Len(s) /\ k \in 1..(Len(a) + Len(b)) /\ k <= Len(a)
      BY <1>1, <1>2, <2>0, <2>1
    <3> QED  BY <1>1, <1>3, <1>4, <1>5, <2>0, <2>1, <3>1
  <2>2. CASE ~(k <= Len(s))
    <3>1. k - Len(s) \in 1..Len(t) /\ k \in 1..(Len(a) + Len(b)) /\ ~(k <= Len(a)) /\ k - Len(a) = k - Len(s)
      BY <1>1, <1>2, <2>0, <2>2
    <3> QED  BY <1>2, <1>3, <1>4, <1>5, <2>0, <2>2, <3>1
  <2> QED  BY <2>1, <2>2
<1>7. Len(m) = Len(c)
  BY <1>1, <1>2, <1>3, <1>4, <1>5
<1>8. m = c
  BY <1>3, <1>5, <1>6, <1>7, SeqEqual
<1> QED  BY <1>8 DEF m, c, a, b, x

LEMMA FollowingIs ==
  ASSUME NEW es, Tree(es), NEW i \in 0..Len(es), NEW p, Straight(p, i)
  PROVE  /\ Following(p, es) \in Seq(1..Len(es)) /\ Len(Following(p, es)) = Len(p) - LastOf(p, es)
         /\ \A k \in 1..(Len(p) - LastOf(p, es)) : Following(p, es)[k] = p[LastOf(p, es) + k]
<1> DEFINE l == LastOf(p, es)
           t == SubSeq(p, l + 1, Len(p))
<1>1. p \in Seq(1..Len(es)) /\ Len(p) \in Nat
  BY OfStraight
<1>2. l \in 0..Len(p)
  BY HeadIs
<1> HIDE DEF l
<1>3. /\ l + 1 \in 1..(Len(p) + 1) /\ Len(p) \in ((l + 1) - 1)..Len(p) /\ Len(p) - (l + 1) + 1 = Len(p) - l
      /\ \A k \in 1..(Len(p) - l) : (l + 1) + k - 1 = l + k
  BY <1>1, <1>2
<1>4. /\ t \in Seq(1..Len(es)) /\ Len(t) = Len(p) - (l + 1) + 1
      /\ \A k \in 1..(Len(p) - (l + 1) + 1) : t[k] = p[(l + 1) + k - 1]
  <2> DEFINE a == l + 1
  <2>1. a \in 1..(Len(p) + 1) /\ Len(p) \in (a - 1)..Len(p)
    BY <1>3
  <2> HIDE DEF a
  <2>2. /\ SubSeq(p, a, Len(p)) \in Seq(1..Len(es)) /\ Len(SubSeq(p, a, Len(p))) = Len(p) - a + 1
        /\ \A k \in 1..(Len(p) - a + 1) : SubSeq(p, a, Len(p))[k] = p[a + k - 1]
    BY <1>1, <2>1, PartIs
  <2> QED  BY <2>2 DEF a
<1> HIDE DEF t
<1>5. Len(t) = Len(p) - l /\ \A k \in 1..(Len(p) - l) : t[k] = p[l + k]
  <2>1. Len(t) = Len(p) - l
    BY <1>3, <1>4
  <2>2. \A k \in 1..(Len(p) - l) : t[k] = p[(l + 1) + k - 1]
    BY <1>3, <1>4
  <2>3. \A k \in 1..(Len(p) - l) : (l + 1) + k - 1 = l + k
    BY <1>3
  <2>4. ASSUME NEW k \in 1..(Len(p) - l)  PROVE t[k] = p[l + k]
    <3> DEFINE m == (l + 1) + k - 1
    <3>1. t[k] = p[m] /\ m = l + k
      BY <2>2, <2>3
    <3> HIDE DEF m
    <3> QED  BY <3>1
  <2> QED  BY <2>1, <2>4
<1> QED  BY <1>4, <1>5 DEF Following, t, l

\* The entries of a path's context: the provider's count is of use only for what followed.
LEMMA EntriesMarked ==
  ASSUME Tree(entries), NEW i \in 0..Len(entries), NEW p, Straight(p, i)
  PROVE  MarksOf(ContextEntries(p), HeadOf(p, entries) \o Following(p, entries), Len(HeadOf(p, entries)), entries)
<1> DEFINE es == entries
           l == LastOf(p, es)
           h == HeadOf(p, es)
           t == Following(p, es)
           b == KeptBy(p, es)
           e == <<p[l]>>
<1>1. p \in Seq(1..Len(es)) /\ Len(p) \in Nat /\ \A k \in 1..Len(p) : p[k] \in 1..Len(es)
  BY OfStraight
<1>2. h \in Seq(1..Len(es)) /\ l \in 0..Len(p)
  BY HeadIs
<1>3. t \in Seq(1..Len(es))
  BY FollowingIs
<1>4. MarksOf(Marked(h, FALSE) \o Marked(t, TRUE), h \o t, Len(h), es)
  <2> HIDE DEF h, t, es
  <2> QED  BY <1>2, <1>3, MarkedParts
<1>5. CASE l = 0
  <2>1. ContextEntries(p) = Marked(p, TRUE)
    BY <1>5 DEF ContextEntries, LastOf, IsCompaction
  <2>2. h = <<>>
    BY <1>5 DEF HeadOf
  <2>3. t = p
    <3>1. t = SubSeq(p, 1, Len(p))
      BY <1>5 DEF Following
    <3> QED  BY <1>1, <3>1
  <2>4. Marked(<<>>, FALSE) = <<>>
    BY DEF Marked
  <2>5. Marked(p, TRUE) \in Seq(Marks(es))
    <3> HIDE DEF es
    <3> QED  BY <1>1, MarkedIs
  <2>6. <<>> \o Marked(p, TRUE) = Marked(p, TRUE)
    BY <2>5
  <2> QED  BY <1>4, <2>1, <2>2, <2>3, <2>4, <2>6
<1>6. CASE l # 0
  <2>1. l \in 1..Len(p) /\ FirstOf(p, es[p[l]].firstKept) \in 0..(l - 1)
    BY <1>6, KeptBefore
  <2>2. h = e \o b
    BY <1>6 DEF HeadOf
  <2>3. b \in Seq(1..Len(es)) /\ e \in Seq(1..Len(es))
    <3> DEFINE f == FirstOf(p, es[p[l]].firstKept)
               a == IF f > 0 THEN f ELSE l
    <3>1. b = SubSeq(p, a, l - 1)
      BY DEF KeptBy
    <3>2. p[l] \in 1..Len(es)
      BY <1>1, <2>1
    <3> HIDE DEF f, l, es
    <3>3. a \in 1..(Len(p) + 1) /\ l - 1 \in (a - 1)..Len(p)
      BY <1>1, <2>1 DEF f
    <3> HIDE DEF a
    <3>4. SubSeq(p, a, l - 1) \in Seq(1..Len(es))
      BY <1>1, <3>3, PartIs
    <3> QED  BY <3>1, <3>2, <3>4
  <2>4. ContextEntries(p) = Marked(e, FALSE) \o Marked(b, FALSE) \o Marked(t, TRUE)
    BY <1>6 DEF ContextEntries, LastOf, IsCompaction, KeptBy, Following
  <2>5. Marked(e, FALSE) \o Marked(b, FALSE) = Marked(e \o b, FALSE)
    <3> HIDE DEF e, b, es
    <3> QED  BY <2>3, MarkedJoin
  <2> HIDE DEF h, b, e, t
  <2>6. ContextEntries(p) = Marked(h, FALSE) \o Marked(t, TRUE)
    BY <2>2, <2>4, <2>5
  <2> QED  BY <1>4, <2>6 DEF h, t
<1> QED  BY <1>5, <1>6

\* What the provider counted for a reply is the request it answered, and the reply.
UsageHolds(es, C) ==
  \A u \in 1..Len(es) : es[u].type = "assistant" /\ es[u].usage > 0 =>
    es[u].usage = Overhead + SumOf(C[es[u].parent], es) + es[u].size

LEMMA SplitPart ==
  ASSUME NEW U, NEW p \in Seq(U), NEW m \in 1..(Len(p) + 1), NEW j \in (m - 1)..Len(p)
  PROVE  /\ SubSeq(p, m, Len(p)) = SubSeq(p, m, j) \o SubSeq(p, j + 1, Len(p))
         /\ SubSeq(p, m, j) \in Seq(U) /\ SubSeq(p, j + 1, Len(p)) \in Seq(U)
<1> DEFINE n == Len(p)
           r == j + 1
           a == SubSeq(p, m, j)
           b == SubSeq(p, r, n)
           c == SubSeq(p, m, n)
           d == a \o b
<1>0. n \in Nat /\ m \in Nat /\ j \in Nat /\ 1 <= m /\ m - 1 <= j /\ j <= n /\ r = j + 1
  OBVIOUS
<1>1. a \in Seq(U) /\ Len(a) = j - m + 1 /\ \A k \in 1..(j - m + 1) : a[k] = p[m + k - 1]
  BY PartIs
<1> HIDE DEF r
<1>2. b \in Seq(U) /\ Len(b) = n - r + 1 /\ \A k \in 1..(n - r + 1) : b[k] = p[r + k - 1]
  <2>1. r \in 1..(Len(p) + 1) /\ n \in (r - 1)..Len(p)
    BY <1>0
  <2> HIDE DEF n
  <2> QED  BY <2>1, PartIs
<1>3. c \in Seq(U) /\ Len(c) = n - m + 1 /\ \A k \in 1..(n - m + 1) : c[k] = p[m + k - 1]
  <2>1. n \in (m - 1)..Len(p)
    BY <1>0
  <2> HIDE DEF n
  <2> QED  BY <2>1, PartIs
<1> HIDE DEF a, b, c
<1>4. /\ d \in Seq(U) /\ Len(d) = Len(a) + Len(b)
      /\ \A k \in 1..(Len(a) + Len(b)) : d[k] = IF k <= Len(a) THEN a[k] ELSE b[k - Len(a)]
  <2>1. a \in Seq(U) /\ b \in Seq(U)
    BY <1>1, <1>2
  <2> QED  BY <2>1, ConcatProperties
<1> HIDE DEF d, n
<1>5. Len(c) = Len(d)
  BY <1>0, <1>1, <1>2, <1>3, <1>4
<1>6. ASSUME NEW k \in 1..Len(c)  PROVE c[k] = d[k]
  <2>0. k \in 1..(n - m + 1) /\ k \in 1..(Len(a) + Len(b)) /\ c[k] = p[m + k - 1]
    BY <1>3, <1>4, <1>5
  <2>1. CASE k <= Len(a)
    <3>1. k \in 1..(j - m + 1)
      BY <1>0, <1>1, <2>0, <2>1
    <3> QED  BY <1>1, <1>4, <2>0, <2>1, <3>1
  <2>2. CASE ~(k <= Len(a))
    <3> DEFINE w == k - Len(a)
    <3>1. w \in 1..(n - r + 1) /\ r + w - 1 = m + k - 1
      BY <1>0, <1>1, <2>0, <2>2
    <3>2. d[k] = b[w]
      BY <1>4, <2>0, <2>2
    <3> HIDE DEF w
    <3>3. b[w] = p[r + w - 1]
      BY <1>2, <3>1
    <3> QED  BY <2>0, <3>1, <3>2, <3>3
  <2> QED  BY <2>1, <2>2
<1>7. c = d
  BY <1>3, <1>4, <1>5, <1>6, SeqEqual
<1> QED  BY <1>1, <1>2, <1>7 DEF a, b, c, d, n, r

\* What was counted and what followed since make up the context.
LEMMA CountedIs ==
  ASSUME NEW es, Tree(es), NEW C, IsContext(C, es), UsageHolds(es, C),
         NEW i \in 0..Len(es), NEW p, Straight(p, i), Shaped(p, C, es, i),
         NEW j \in (LastOf(p, es) + 1)..Len(p), es[p[j]].type = "assistant", es[p[j]].usage > 0
  PROVE  es[p[j]].usage + SumOf(SubSeq(p, j + 1, Len(p)), es) = Overhead + SumOf(C[i], es)
<1> DEFINE l == LastOf(p, es)
           h == HeadOf(p, es)
           u == p[j]
           q == es[u].parent
           a == SubSeq(p, l + 1, j)
           b == SubSeq(p, j + 1, Len(p))
<1>1. p \in Seq(1..Len(es)) /\ Len(p) \in Nat /\ \A k \in 1..Len(p) : p[k] \in 1..Len(es)
  BY OfStraight
<1>2. h \in Seq(1..Len(es)) /\ l \in 0..Len(p)
  BY HeadIs
<1>3. C[u] = h \o a /\ C[i] = h \o Following(p, es)
  BY DEF Shaped
<1> HIDE DEF l, h
<1>4. j \in 1..Len(p) /\ u \in 1..Len(es)
  <2>1. j \in (l + 1)..Len(p)
    BY DEF l
  <2>2. j \in 1..Len(p)
    BY <1>1, <1>2, <2>1
  <2> QED  BY <1>1, <2>2
<1>5. /\ Following(p, es) = a \o b /\ a \in Seq(1..Len(es)) /\ b \in Seq(1..Len(es))
  <2> DEFINE m == l + 1
  <2>1. m \in 1..(Len(p) + 1) /\ j \in (m - 1)..Len(p)
    <3>1. j \in (l + 1)..Len(p)
      BY DEF l
    <3> QED  BY <1>1, <1>2, <3>1
  <2> HIDE DEF m
  <2>2. /\ SubSeq(p, m, Len(p)) = SubSeq(p, m, j) \o SubSeq(p, j + 1, Len(p))
        /\ SubSeq(p, m, j) \in Seq(1..Len(es)) /\ SubSeq(p, j + 1, Len(p)) \in Seq(1..Len(es))
    BY <1>1, <2>1, SplitPart
  <2> QED  BY <2>2 DEF Following, m, l
<1> HIDE DEF a, b
<1>6. q \in Nodes(es) /\ C[q] \in Seq(1..Len(es))
  <2>1. q \in {Absent} \cup 0..(u - 1)
    BY <1>4 DEF Tree
  <2>2. q \in Nodes(es)
    BY <1>4, <2>1 DEF Nodes
  <2> QED  BY <2>2, ContextSteps
<1>7. C[u] = Append(C[q], u)
  BY <1>4, ContextSteps
<1> DEFINE x == C[q]
<1>8. C[u] = x \o <<u>>
  <2>1. x \in Seq(1..Len(es))
    BY <1>6
  <2> HIDE DEF x, u
  <2>2. Append(x, u) = x \o <<u>>
    BY <2>1
  <2> QED  BY <1>7, <2>2 DEF x, u
<1>9. es[u].usage = Overhead + SumOf(x, es) + es[u].size
  BY <1>4 DEF UsageHolds
<1> HIDE DEF x, u, q
<1>10. SumOf(C[u], es) = SumOf(x, es) + es[u].size /\ SumOf(x, es) \in Nat /\ es[u].size \in Nat
  <2>1. x \in Seq(1..Len(es)) /\ <<u>> \in Seq(1..Len(es))
    BY <1>4, <1>6 DEF x
  <2>2. SumOf(x \o <<u>>, es) = SumOf(x, es) + SumOf(<<u>>, es)
    BY <2>1, SumIs
  <2>3. SumOf(<<u>>, es) = es[u].size /\ es[u].size \in Nat /\ SumOf(x, es) \in Nat
    BY <1>4, <2>1, SumIs
  <2> QED  BY <1>8, <2>2, <2>3
<1>11. SumOf(C[u], es) = SumOf(h, es) + SumOf(a, es)
  BY <1>2, <1>3, <1>5, SumIs DEF u
<1>12. SumOf(C[i], es) = SumOf(h, es) + (SumOf(a, es) + SumOf(b, es))
  <2>1. a \o b \in Seq(1..Len(es))
    BY <1>5
  <2>2. SumOf(a \o b, es) = SumOf(a, es) + SumOf(b, es)
    BY <1>5, SumIs
  <2>3. SumOf(h \o (a \o b), es) = SumOf(h, es) + SumOf(a \o b, es)
    BY <1>2, <2>1, SumIs
  <2> QED  BY <1>3, <1>5, <2>2, <2>3
<1>13. SumOf(h, es) \in Nat /\ SumOf(a, es) \in Nat /\ SumOf(b, es) \in Nat
  BY <1>2, <1>5, SumIs
<1>14. es[u].usage + SumOf(b, es) = Overhead + SumOf(C[i], es)
  <2>1. Overhead \in Nat
    BY ContextBudgetAssumption
  <2> DEFINE H == SumOf(h, es)
             A == SumOf(a, es)
             B == SumOf(b, es)
             X == SumOf(x, es)
             S == es[u].size
  <2>2. es[u].usage = Overhead + X + S /\ X + S = H + A /\ SumOf(C[i], es) = H + (A + B)
    BY <1>9, <1>10, <1>11, <1>12
  <2>3. H \in Nat /\ A \in Nat /\ B \in Nat /\ X \in Nat /\ S \in Nat
    BY <1>10, <1>13
  <2> HIDE DEF H, A, B, X, S
  <2>4. es[u].usage + B = Overhead + SumOf(C[i], es)
    BY <2>1, <2>2, <2>3
  <2> QED  BY <2>4 DEF B
<1> QED  BY <1>14 DEF u, b

OfUse(e) == e.useProviderUsage /\ IsAssistant(e.entry) /\ entries[e.entry].usage > 0

LEMMA LastUsableIs ==
  ASSUME NEW U, NEW m \in Seq(U)
  PROVE  LET usage == SelectLastInSeq(m, LAMBDA e : /\ e.useProviderUsage
                                                    /\ IsAssistant(e.entry)
                                                    /\ entries[e.entry].usage > 0)
         IN  usage \in 0..Len(m) /\ (usage # 0 => OfUse(m[usage]))
<1> DEFINE I == {k \in 1..Len(m) : OfUse(m[k])}
           usage == SelectLastInSeq(m, LAMBDA e : /\ e.useProviderUsage
                                                  /\ IsAssistant(e.entry)
                                                  /\ entries[e.entry].usage > 0)
<1>1. usage = IF I # {} THEN Max(I) ELSE 0
  BY DEF SelectLastInSeq, OfUse
<1>2. I \subseteq 1..Len(m) /\ Len(m) \in Nat /\ \A k \in I : OfUse(m[k])
  OBVIOUS
<1> HIDE DEF I, usage
<1>3. CASE I = {}
  BY <1>1, <1>2, <1>3 DEF usage
<1>4. CASE I # {}
  <2>1. Max(I) \in I
    BY <1>2, <1>4, GreatestIs
  <2>2. usage \in 1..Len(m) /\ OfUse(m[usage])
    BY <1>1, <1>2, <1>4, <2>1
  <2>3. usage \in 0..Len(m)
    BY <1>2, <2>2
  <2> QED  BY <2>2, <2>3 DEF usage
<1> QED  BY <1>3, <1>4

LEMMA MarkedSum ==
  ASSUME NEW es, NEW m \in Seq(Marks(es)), NEW x \in Seq(1..Len(es)), Len(m) = Len(x),
         \A k \in 1..Len(x) : m[k].entry = x[k]
  PROVE  Total([k \in DOMAIN m |-> es[m[k].entry].size]) = SumOf(x, es)
<1>1. DOMAIN m = 1..Len(x) /\ DOMAIN x = 1..Len(x)
  OBVIOUS
<1>2. [k \in DOMAIN m |-> es[m[k].entry].size] = SizesOf(x, es)
  BY <1>1 DEF SizesOf
<1> QED  BY <1>2 DEF SumOf

\* The estimate is the size of the context, or that and what no entry of it holds.
LEMMA EstimateIs ==
  ASSUME Tree(entries), NEW C, IsContext(C, entries), UsageHolds(entries, C),
         NEW i \in 0..Len(entries), NEW p, Straight(p, i), Shaped(p, C, entries, i)
  PROVE  EstimateTokens(ContextEntries(p)) \in {SumOf(C[i], entries), Overhead + SumOf(C[i], entries)}
<1> DEFINE es == entries
           l == LastOf(p, es)
           h == HeadOf(p, es)
           t == Following(p, es)
           x == h \o t
           m == ContextEntries(p)
           cut == SelectLastInSeq(m, LAMBDA e : IsCompaction(e.entry))
           usage  == SelectLastInSeq(m, LAMBDA e : /\ e.useProviderUsage
                                                   /\ IsAssistant(e.entry)
                                                   /\ entries[e.entry].usage > 0)
           counted == IF usage > cut THEN usage ELSE 0
           Sum(s) == Total([k \in DOMAIN s |-> es[s[k].entry].size])
           rest == SubSeq(m, counted + 1, Len(m))
<1>1. EstimateTokens(m) = IF counted = 0 THEN Sum(m) ELSE es[m[counted].entry].usage + Sum(rest)
  BY DEF EstimateTokens
<1>2. /\ m \in Seq(Marks(es)) /\ x \in Seq(1..Len(es)) /\ Len(m) = Len(x)
      /\ \A k \in 1..Len(x) : m[k].entry = x[k] /\ (m[k].useProviderUsage => k > Len(h))
  BY EntriesMarked DEF MarksOf
<1>3. C[i] = x
  BY DEF Shaped
<1>4. p \in Seq(1..Len(es)) /\ Len(p) \in Nat /\ \A k \in 1..Len(p) : p[k] \in 1..Len(es)
  BY OfStraight
<1>5. h \in Seq(1..Len(es)) /\ l \in 0..Len(p)
  BY HeadIs
<1>6. t \in Seq(1..Len(es)) /\ Len(t) = Len(p) - l /\ \A k \in 1..(Len(p) - l) : t[k] = p[l + k]
  BY FollowingIs
<1> HIDE DEF es, m
<1>7. usage \in 0..Len(m) /\ (usage # 0 => OfUse(m[usage]))
  BY <1>2, LastUsableIs
<1>8. Sum(m) = SumOf(x, es)
  BY <1>2, MarkedSum
<1> HIDE DEF cut, usage, l, h, t
<1>9. /\ Len(x) = Len(h) + Len(t)
      /\ \A k \in 1..(Len(h) + Len(t)) : x[k] = IF k <= Len(h) THEN h[k] ELSE t[k - Len(h)]
  BY <1>5, <1>6, ConcatProperties
<1> HIDE DEF x
<1>12. /\ Len(m) = Len(h) + Len(t) /\ Len(x) = Len(h) + Len(t) /\ Len(t) = Len(p) - l
       /\ Len(h) \in Nat /\ Len(t) \in Nat /\ Len(p) \in Nat /\ l \in Nat /\ l <= Len(p)
  BY <1>2, <1>4, <1>5, <1>6, <1>9
<1>10. CASE counted = 0
  <2>1. EstimateTokens(m) = SumOf(C[i], es)
    BY <1>1, <1>3, <1>8, <1>10
  <2> QED  BY <2>1 DEF es, m
<1>11. CASE counted # 0
  <2> DEFINE c == counted
             j == l + (c - Len(h))
             b == SubSeq(p, j + 1, Len(p))
  <2>1. c \in 1..Len(m) /\ OfUse(m[c])
    BY <1>2, <1>7, <1>11
  <2> HIDE DEF counted
  <2>2. m[c].useProviderUsage /\ es[m[c].entry].type = "assistant" /\ es[m[c].entry].usage > 0
    BY <2>1 DEF OfUse, IsAssistant, es
  <2>3. c \in 1..Len(x) /\ m[c].entry = x[c] /\ c > Len(h) /\ Len(h) \in Nat /\ Len(t) \in Nat /\ c \in Nat
    BY <1>2, <1>5, <1>6, <2>1, <2>2
  <2>4. /\ j \in (l + 1)..Len(p) /\ c - Len(h) \in 1..(Len(p) - l) /\ j \in 1..Len(p) /\ ~(c <= Len(h))
        /\ c \in 1..(Len(h) + Len(t)) /\ Len(p) - j = Len(m) - c
    <3>1. c \in Nat /\ c > Len(h) /\ c <= Len(x)
      BY <1>12, <2>3
    <3> HIDE DEF c
    <3> QED  BY <1>12, <3>1
  <2>5. x[c] = p[j]
    <3> DEFINE w == c - Len(h)
    <3>1. x[c] = t[w]
      BY <1>9, <2>4
    <3>2. w \in 1..(Len(p) - l)
      BY <2>4
    <3> HIDE DEF w
    <3>3. t[w] = p[l + w]
      BY <1>6, <3>2
    <3> QED  BY <3>1, <3>3 DEF w
  <2>6. es[p[j]].type = "assistant" /\ es[p[j]].usage > 0 /\ es[m[c].entry] = es[p[j]]
    BY <2>2, <2>3, <2>5
  <2>7. es[p[j]].usage + SumOf(b, es) = Overhead + SumOf(C[i], es)
    <3>1. j \in (LastOf(p, es) + 1)..Len(p)
      BY <2>4 DEF l
    <3> HIDE DEF j
    <3> QED  BY <2>6, <3>1, CountedIs DEF es
  <2>8. Sum(rest) = SumOf(b, es)
    <3>1. /\ rest \in Seq(Marks(es)) /\ Len(rest) = Len(m) - c
          /\ \A k \in 1..(Len(m) - c) : rest[k] = m[c + k]
      <4> DEFINE a == c + 1
      <4>1. a \in 1..(Len(m) + 1) /\ Len(m) \in (a - 1)..Len(m) /\ Len(m) - a + 1 = Len(m) - c
        BY <1>2, <2>1
      <4>2. \A k \in 1..(Len(m) - c) : a + k - 1 = c + k
        BY <1>2, <2>1
      <4> HIDE DEF a
      <4> DEFINE y == SubSeq(m, a, Len(m))
      <4>3. /\ y \in Seq(Marks(es)) /\ Len(y) = Len(m) - a + 1
            /\ \A k \in 1..(Len(m) - a + 1) : y[k] = m[a + k - 1]
        BY <1>2, <4>1, PartIs
      <4> HIDE DEF y
      <4>4. ASSUME NEW k \in 1..(Len(m) - c)  PROVE y[k] = m[c + k]
        <5>1. y[k] = m[a + k - 1] /\ a + k - 1 = c + k
          BY <4>1, <4>2, <4>3
        <5> QED  BY <5>1
      <4>5. rest = y
        BY DEF y, a
      <4> QED  BY <4>1, <4>3, <4>4, <4>5
    <3>2. /\ b \in Seq(1..Len(es)) /\ Len(b) = Len(p) - j
          /\ \A k \in 1..(Len(p) - j) : b[k] = p[j + k]
      <4> HIDE DEF j
      <4> DEFINE a == j + 1
      <4>1. a \in 1..(Len(p) + 1) /\ Len(p) \in (a - 1)..Len(p) /\ Len(p) - a + 1 = Len(p) - j
        BY <1>4, <2>4
      <4>2. \A k \in 1..(Len(p) - j) : a + k - 1 = j + k
        BY <1>4, <2>4
      <4> HIDE DEF a
      <4> DEFINE y == SubSeq(p, a, Len(p))
      <4>3. /\ y \in Seq(1..Len(es)) /\ Len(y) = Len(p) - a + 1
            /\ \A k \in 1..(Len(p) - a + 1) : y[k] = p[a + k - 1]
        BY <1>4, <4>1, PartIs
      <4> HIDE DEF y
      <4>4. ASSUME NEW k \in 1..(Len(p) - j)  PROVE y[k] = p[j + k]
        <5>1. y[k] = p[a + k - 1] /\ a + k - 1 = j + k
          BY <4>1, <4>2, <4>3
        <5> QED  BY <5>1
      <4>5. b = y
        BY DEF y, a
      <4> QED  BY <4>1, <4>3, <4>4, <4>5
    <3> HIDE DEF rest, b, c
    <3>3. ASSUME NEW k \in 1..Len(b)  PROVE rest[k].entry = b[k]
      <4> DEFINE w == c + k - Len(h)
                 v == c + k
      <4>1. /\ k \in 1..(Len(m) - c) /\ k \in 1..(Len(p) - j) /\ v \in 1..Len(x) /\ ~(v <= Len(h))
            /\ v \in 1..(Len(h) + Len(t)) /\ v - Len(h) = w /\ w \in 1..(Len(p) - l) /\ l + w = j + k
        <5>1. c \in Nat /\ c > Len(h) /\ c <= Len(x) /\ k \in Nat /\ 1 <= k /\ k <= Len(p) - j
          BY <1>12, <2>3, <2>4, <3>2
        <5> QED  BY <1>12, <5>1
      <4>2. rest[k] = m[v] /\ b[k] = p[j + k]
        BY <3>1, <3>2, <4>1
      <4> HIDE DEF v, w
      <4>3. m[v].entry = x[v] /\ x[v] = t[w] /\ t[w] = p[l + w]
        BY <1>2, <1>6, <1>9, <4>1
      <4> QED  BY <4>1, <4>2, <4>3
    <3>4. Len(rest) = Len(b)
      BY <2>4, <3>1, <3>2
    <3> QED  BY <3>1, <3>2, <3>3, <3>4, MarkedSum
  <2>9. EstimateTokens(m) = Overhead + SumOf(C[i], es)
    BY <1>1, <1>11, <2>6, <2>7, <2>8
  <2> QED  BY <2>9 DEF es, m
<1> QED  BY <1>10, <1>11

-----------------------------------------------------------------------------
(* What is stored leaves the tree, and the paths and contexts in it, as they    *)
(* were.                                                                       *)

LEMMA TreeGrows ==
  ASSUME NEW es, Tree(es), NEW e \in EntryKinds,
         e.parent \in {Absent} \cup 0..Len(es), e.firstKept \in {Absent} \cup 0..Len(es)
  PROVE  Tree(Append(es, e))
<1> DEFINE t == Append(es, e)
<1>1. es \in Seq(EntryKinds) /\ Len(es) \in Nat
  BY DEF Tree
<1>2. t \in Seq(EntryKinds) /\ Len(t) = Len(es) + 1 /\ t[Len(es) + 1] = e /\ \A i \in 1..Len(es) : t[i] = es[i]
  BY <1>1
<1> HIDE DEF t
<1>3. ASSUME NEW i \in 1..Len(t)
      PROVE  t[i].parent \in {Absent} \cup 0..(i - 1) /\ t[i].firstKept \in {Absent} \cup 0..(i - 1)
  <2>1. CASE i \in 1..Len(es)
    <3>1. es[i].parent \in {Absent} \cup 0..(i - 1) /\ es[i].firstKept \in {Absent} \cup 0..(i - 1)
      BY <2>1 DEF Tree
    <3>2. t[i] = es[i]
      BY <1>2, <2>1
    <3> QED  BY <3>1, <3>2
  <2>2. CASE i = Len(es) + 1
    <3>1. i - 1 = Len(es)
      BY <1>1, <2>2
    <3> QED  BY <1>2, <2>2, <3>1
  <2>3. i \in 1..Len(es) \/ i = Len(es) + 1
    BY <1>1, <1>2
  <2> QED  BY <2>1, <2>2, <2>3
<1> QED  BY <1>2, <1>3 DEF Tree, t

\* A path holds entries; it may begin with what is absent.
LEMMA PathWithin ==
  ASSUME NEW es, Tree(es), NEW P, IsPath(P, es)
  PROVE  \A i \in Nodes(es) : P[i] \in Seq({Absent} \cup 1..Len(es))
<1>1. Len(es) \in Nat /\ \A i \in 1..Len(es) : es[i].parent \in {Absent} \cup 0..(i - 1)
  BY DEF Tree
<1> DEFINE V == {Absent} \cup 1..Len(es)
           G == {i \in Int : P[i] \in Seq(V)}
<1>2. 0 \in G /\ Absent \in G
  <2>1. P[0] = <<>> /\ P[Absent] = <<Absent>>
    BY PathSteps
  <2>2. <<>> \in Seq(V) /\ <<Absent>> \in Seq(V)
    OBVIOUS
  <2>3. Absent \in Int
    BY DEF Absent
  <2> HIDE DEF V
  <2>4. P[0] \in Seq(V) /\ P[Absent] \in Seq(V)
    BY <2>1, <2>2
  <2>5. \A n \in Int : P[n] \in Seq(V) => n \in G
    OBVIOUS
  <2> HIDE DEF G
  <2> QED  BY <2>3, <2>4, <2>5
<1>3. ASSUME NEW i \in 1..Len(es), es[i].parent \in G  PROVE i \in G
  <2>1. P[i] = Append(P[es[i].parent], i)
    BY PathSteps
  <2>2. i \in V /\ i \in Int /\ P[es[i].parent] \in Seq(V)
    BY <1>1, <1>3
  <2> HIDE DEF V
  <2>3. P[i] \in Seq(V)
    BY <2>1, <2>2
  <2> QED  BY <2>2, <2>3
<1>4. Nodes(es) \subseteq G
  <2> HIDE DEF G
  <2> QED  BY <1>1, <1>2, <1>3, GrowsTo DEF Nodes
<1> QED  BY <1>4

\* One more entry: the tree it makes, and the paths and contexts of both.
OneMore(es, e, P, C, Q, D) ==
  /\ Tree(es) /\ Tree(Append(es, e)) /\ e \in EntryKinds
  /\ IsPath(P, es) /\ IsContext(C, es) /\ IsPath(Q, Append(es, e)) /\ IsContext(D, Append(es, e))

LEMMA OfOneMore ==
  ASSUME NEW es, Tree(es), NEW e \in EntryKinds
  PROVE  /\ Len(es) \in Nat /\ Len(Append(es, e)) = Len(es) + 1 /\ Append(es, e)[Len(es) + 1] = e
         /\ \A i \in 1..Len(es) : Append(es, e)[i] = es[i] /\ i \in 1..Len(Append(es, e))
BY DEF Tree

LEMMA PathsStay ==
  ASSUME NEW es, NEW e, NEW P, NEW C, NEW Q, NEW D, OneMore(es, e, P, C, Q, D)
  PROVE  \A i \in Nodes(es) : Q[i] = P[i] /\ D[i] = C[i]
<1> DEFINE t == Append(es, e)
           G == {i \in Int : Q[i] = P[i] /\ D[i] = C[i]}
<1>1. Len(es) \in Nat /\ \A i \in 1..Len(es) : es[i].parent \in {Absent} \cup 0..(i - 1)
  BY DEF Tree, OneMore
<1>2. \A i \in 1..Len(es) : t[i] = es[i] /\ i \in 1..Len(t)
  BY OfOneMore DEF OneMore
<1>3. Tree(es) /\ Tree(t) /\ IsPath(P, es) /\ IsContext(C, es) /\ IsPath(Q, t) /\ IsContext(D, t)
  BY DEF OneMore
<1> HIDE DEF t
<1>4. 0 \in G /\ Absent \in G
  <2>1. P[0] = <<>> /\ P[Absent] = <<Absent>> /\ Q[0] = <<>> /\ Q[Absent] = <<Absent>>
    BY <1>3, PathSteps
  <2>2. C[0] = <<>> /\ C[Absent] = <<>> /\ D[0] = <<>> /\ D[Absent] = <<>>
    BY <1>3, ContextSteps
  <2>3. Absent \in Int
    BY DEF Absent
  <2> QED  BY <2>1, <2>2, <2>3
<1>5. ASSUME NEW i \in 1..Len(es), es[i].parent \in G  PROVE i \in G
  <2>0. t[i] = es[i] /\ i \in 1..Len(t)
    BY <1>2
  <2> DEFINE q == es[i].parent
  <2>1. P[i] = Append(P[q], i) /\ Q[i] = Append(Q[q], i)
    BY <1>3, <2>0, PathSteps
  <2>2. /\ C[i] = IF es[i].type # "compaction" THEN Append(C[q], i) ELSE <<i>> \o KeptFirst(C[q], es[i].firstKept)
        /\ D[i] = IF es[i].type # "compaction" THEN Append(D[q], i) ELSE <<i>> \o KeptFirst(D[q], es[i].firstKept)
    BY <1>3, <2>0, ContextSteps
  <2>3. Q[q] = P[q] /\ D[q] = C[q]
    BY <1>5
  <2> HIDE DEF q
  <2>4. Q[i] = P[i] /\ D[i] = C[i]
    BY <2>1, <2>2, <2>3
  <2> QED  BY <2>4
<1>6. Nodes(es) \subseteq G
  <2> HIDE DEF G
  <2> QED  BY <1>1, <1>4, <1>5, GrowsTo DEF Nodes
<1> QED  BY <1>6

\* Of entries that were stored, their latest compaction and their total.
LEMMA LastStays ==
  ASSUME NEW es, Tree(es), NEW e \in EntryKinds, NEW s \in Seq(1..Len(es))
  PROVE  LastOf(s, Append(es, e)) = LastOf(s, es) /\ SumOf(s, Append(es, e)) = SumOf(s, es)
<1> DEFINE t == Append(es, e)
           l == LastOf(s, es)
<1>1. \A i \in 1..Len(es) : t[i] = es[i]
  BY OfOneMore
<1> HIDE DEF t
<1>2. Len(s) \in Nat /\ \A k \in 1..Len(s) : s[k] \in 1..Len(es) /\ t[s[k]] = es[s[k]]
  BY <1>1
<1>3. /\ l \in 0..Len(s) /\ (l # 0 => es[s[l]].type = "compaction")
      /\ \A k \in (l + 1)..Len(s) : es[s[k]].type # "compaction"
  BY LastIs
<1> HIDE DEF l
<1>4. l # 0 => t[s[l]].type = "compaction"
  <2>1. l # 0 => l \in 1..Len(s)
    BY <1>2, <1>3
  <2> QED  BY <1>2, <1>3, <2>1
<1>5. \A k \in (l + 1)..Len(s) : t[s[k]].type # "compaction"
  <2>1. \A k \in (l + 1)..Len(s) : k \in 1..Len(s)
    BY <1>2, <1>3
  <2> QED  BY <1>2, <1>3, <2>1
<1>6. LastOf(s, t) = l
  BY <1>3, <1>4, <1>5, LastFound
<1>7. SizesOf(s, t) = SizesOf(s, es)
  <2>1. DOMAIN s = 1..Len(s)
    OBVIOUS
  <2> QED  BY <1>2, <2>1 DEF SizesOf
<1> QED  BY <1>6, <1>7 DEF SumOf, t, l

\* An entry to store: a compaction keeps what follows the latest one, and a count is that of the
\* request to which the reply is.
Fits(es, e, P, C) ==
  /\ e.parent \in 0..Len(es)
  /\ (e.type = "compaction" /\ Rooted(P, e.parent)) =>
       \/ e.firstKept = Absent
       \/ \E k \in (LastOf(P[e.parent], es) + 1)..Len(P[e.parent]) : e.firstKept = P[e.parent][k]
  /\ (e.type = "assistant" /\ e.usage > 0) => e.usage = Overhead + SumOf(C[e.parent], es) + e.size

LEMMA KeptGrows ==
  ASSUME NEW es, NEW e, NEW P, NEW C, NEW Q, NEW D, OneMore(es, e, P, C, Q, D),
         KeptSince(P, es), Fits(es, e, P, C)
  PROVE  KeptSince(Q, Append(es, e))
<1> DEFINE t == Append(es, e)
           n == Len(es) + 1
<1>1. Tree(es) /\ Tree(t) /\ e \in EntryKinds /\ IsPath(P, es) /\ IsPath(Q, t)
  BY DEF OneMore
<1>2. /\ Len(es) \in Nat /\ Len(t) = n /\ t[n] = e
      /\ \A i \in 1..Len(es) : t[i] = es[i] /\ i \in 1..Len(t)
  BY <1>1, OfOneMore
<1>3. \A i \in Nodes(es) : Q[i] = P[i]
  BY PathsStay
<1>4. \A q \in 0..Len(es) : q \in Nodes(es) /\ (Rooted(Q, q) <=> Rooted(P, q))
  <2>1. \A q \in 0..Len(es) : q \in Nodes(es)
    BY DEF Nodes
  <2> QED  BY <1>3, <2>1 DEF Rooted
<1>5. ASSUME NEW q \in 0..Len(es), Rooted(P, q)
      PROVE  LastOf(P[q], t) = LastOf(P[q], es)
  <2>1. Straight(P[q], q)
    BY <1>1, <1>5, RootedStraight
  <2>2. P[q] \in Seq(1..Len(es))
    BY <1>1, <2>1, OfStraight
  <2> QED  BY <1>1, <2>2, LastStays
<1> SUFFICES ASSUME NEW i \in 1..Len(t), t[i].type = "compaction", Rooted(Q, i)
             PROVE  KeepsSince(Q[t[i].parent], t, i)
  BY DEF KeptSince
<1>6. t[i].parent \in 0..(i - 1) /\ Rooted(Q, t[i].parent)
  <2> HIDE DEF t
  <2> QED  BY <1>1, RootedParent
<1> HIDE DEF t
<1>7. CASE i \in 1..Len(es)
  <2> DEFINE q == es[i].parent
  <2>1. t[i] = es[i]
    BY <1>2, <1>7
  <2>2. q \in 0..Len(es) /\ i \in 0..Len(es)
    BY <1>2, <1>6, <1>7, <2>1
  <2>3. Rooted(P, i) /\ Rooted(P, q) /\ Q[q] = P[q]
    BY <1>3, <1>4, <1>6, <2>1, <2>2
  <2>4. KeepsSince(P[q], es, i)
    BY <1>7, <2>1, <2>3 DEF KeptSince
  <2>5. LastOf(P[q], t) = LastOf(P[q], es)
    BY <1>5, <2>2, <2>3
  <2> HIDE DEF q
  <2> QED  BY <2>1, <2>3, <2>4, <2>5 DEF KeepsSince, q
<1>8. CASE i = n
  <2> DEFINE q == e.parent
  <2>1. t[i] = e
    BY <1>2, <1>8
  <2>2. q \in 0..Len(es)
    BY DEF Fits
  <2>3. Rooted(P, q) /\ Q[q] = P[q]
    BY <1>3, <1>4, <1>6, <2>1, <2>2
  <2>4. e.firstKept = Absent \/ \E k \in (LastOf(P[q], es) + 1)..Len(P[q]) : e.firstKept = P[q][k]
    BY <2>1, <2>3 DEF Fits
  <2>5. LastOf(P[q], t) = LastOf(P[q], es)
    BY <1>5, <2>2, <2>3
  <2> HIDE DEF q
  <2> QED  BY <2>1, <2>3, <2>4, <2>5 DEF KeepsSince, q
<1>9. i \in 1..Len(es) \/ i = n
  BY <1>2
<1> QED  BY <1>7, <1>8, <1>9

LEMMA UsageGrows ==
  ASSUME NEW es, NEW e, NEW P, NEW C, NEW Q, NEW D, OneMore(es, e, P, C, Q, D),
         UsageHolds(es, C), Fits(es, e, P, C)
  PROVE  UsageHolds(Append(es, e), D)
<1> DEFINE t == Append(es, e)
           n == Len(es) + 1
<1>1. Tree(es) /\ Tree(t) /\ e \in EntryKinds /\ IsContext(C, es)
  BY DEF OneMore
<1>2. /\ Len(es) \in Nat /\ Len(t) = n /\ t[n] = e
      /\ \A i \in 1..Len(es) : t[i] = es[i] /\ i \in 1..Len(t)
  BY <1>1, OfOneMore
<1>3. ASSUME NEW q \in Nodes(es)  PROVE D[q] = C[q] /\ SumOf(D[q], t) = SumOf(C[q], es)
  <2>1. D[q] = C[q]
    BY PathsStay
  <2>2. C[q] \in Seq(1..Len(es))
    BY <1>1, ContextSteps
  <2> QED  BY <1>1, <2>1, <2>2, LastStays
<1> SUFFICES ASSUME NEW u \in 1..Len(t), t[u].type = "assistant", t[u].usage > 0
             PROVE  t[u].usage = Overhead + SumOf(D[t[u].parent], t) + t[u].size
  BY DEF UsageHolds
<1> HIDE DEF t
<1>7. CASE u \in 1..Len(es)
  <2> DEFINE q == es[u].parent
  <2>1. t[u] = es[u]
    BY <1>2, <1>7
  <2>2. q \in Nodes(es)
    <3>1. q \in {Absent} \cup 0..(u - 1)
      BY <1>1, <1>7 DEF Tree
    <3> QED  BY <1>2, <1>7, <3>1 DEF Nodes
  <2>3. SumOf(D[q], t) = SumOf(C[q], es)
    BY <1>3, <2>2
  <2>4. es[u].usage = Overhead + SumOf(C[q], es) + es[u].size
    BY <1>7, <2>1 DEF UsageHolds
  <2> QED  BY <2>1, <2>3, <2>4
<1>8. CASE u = n
  <2> DEFINE q == e.parent
  <2>1. t[u] = e
    BY <1>2, <1>8
  <2>2. q \in Nodes(es)
    BY DEF Fits, Nodes
  <2>3. SumOf(D[q], t) = SumOf(C[q], es)
    BY <1>3, <2>2
  <2>4. e.usage = Overhead + SumOf(C[q], es) + e.size
    BY <2>1 DEF Fits
  <2> QED  BY <2>1, <2>3, <2>4
<1>9. u \in 1..Len(es) \/ u = n
  BY <1>2
<1> QED  BY <1>7, <1>8, <1>9

-----------------------------------------------------------------------------
(* The invariant: compactions keep what follows the one before, and counts     *)
(* that the provider gave are of the contexts they were given for.             *)

BudgetInv ==
  /\ Tree(entries)
  /\ leaf \in 0..Len(entries)
  /\ KeptSince(Path, entries)
  /\ UsageHolds(entries, Context)

LEMMA LongestText == Max(Sizes) \in Nat
<1>1. PICK longest \in Sizes : \A size \in Sizes : size <= longest
  BY ContextBudgetAssumption
<1>2. Sizes \subseteq Nat
  BY ContextBudgetAssumption
<1>3. longest \in Sizes /\ \A size \in Sizes : longest >= size
  BY <1>1, <1>2
<1>4. Max(Sizes) \in Sizes
  BY <1>3 DEF Max
<1> QED  BY <1>2, <1>4

LEMMA BudgetStarts ==
  ASSUME BudgetInit
  PROVE  BudgetInv
<1>1. CASE entries = <<>> /\ leaf = None
  <2>1. entries \in Seq(EntryKinds) /\ Len(entries) = 0 /\ \A i \in 1..Len(entries) : FALSE
    BY <1>1
  <2>2. Tree(entries) /\ leaf \in 0..Len(entries)
    BY <1>1, <2>1 DEF Tree, None
  <2> QED  BY <2>1, <2>2 DEF BudgetInv, KeptSince, UsageHolds
<1>2. CASE /\ entries = <<[type |-> "user", parent |-> Absent, size |-> Max(Sizes), usage |-> 0,
                           firstKept |-> None]>>
           /\ leaf = 1
  <2> DEFINE e == [type |-> "user", parent |-> Absent, size |-> Max(Sizes), usage |-> 0, firstKept |-> None]
  <2>1. e \in EntryKinds /\ e.type = "user" /\ e.parent = Absent /\ e.firstKept = 0
    BY LongestText DEF EntryKinds, Absent, None
  <2>2. entries = <<e>>
    BY <1>2
  <2> HIDE DEF e
  <2>3. entries \in Seq(EntryKinds) /\ Len(entries) = 1 /\ \A i \in 1..Len(entries) : i = 1 /\ entries[i] = e
    BY <2>1, <2>2
  <2>4. \A i \in 1..Len(entries) : entries[i].type = "user"
    BY <2>1, <2>3
  <2>5. Tree(entries)
    BY <2>1, <2>3 DEF Tree
  <2>6. leaf \in 0..Len(entries)
    BY <1>2, <2>3
  <2> QED  BY <2>4, <2>5, <2>6 DEF BudgetInv, KeptSince, UsageHolds
<1> QED  BY <1>1, <1>2 DEF BudgetInit

LEMMA StoreSteps ==
  ASSUME BudgetInv, NEW type \in {"user", "assistant", "compaction"}, NEW size \in Nat, NEW usage \in Nat,
         NEW firstKept \in {Absent} \cup 0..Len(entries), Store(type, size, usage, firstKept),
         (type = "compaction" /\ Rooted(Path, leaf)) =>
            \/ firstKept = Absent
            \/ \E k \in (LastOf(Path[leaf], entries) + 1)..Len(Path[leaf]) : firstKept = Path[leaf][k],
         (type = "assistant" /\ usage > 0) => usage = Overhead + SumOf(Context[leaf], entries) + size
  PROVE  BudgetInv'
<1> DEFINE e == [type |-> type, parent |-> leaf, size |-> size, usage |-> usage, firstKept |-> firstKept]
<1>1. Tree(entries) /\ leaf \in 0..Len(entries) /\ KeptSince(Path, entries) /\ UsageHolds(entries, Context)
  BY DEF BudgetInv
<1>2. Len(entries) \in Nat
  BY <1>1 DEF Tree
<1>3. e.type = type /\ e.parent = leaf /\ e.size = size /\ e.usage = usage /\ e.firstKept = firstKept
  OBVIOUS
<1>4. e \in EntryKinds
  <2>1. leaf \in Int /\ firstKept \in Int
    BY <1>1, <1>2 DEF Absent
  <2> QED  BY <2>1 DEF EntryKinds
<1>5. entries' = Append(entries, e) /\ leaf' = Len(entries) + 1
  BY DEF Store
<1> HIDE DEF e
<1>6. e.parent \in {Absent} \cup 0..Len(entries) /\ e.firstKept \in {Absent} \cup 0..Len(entries)
  BY <1>1, <1>3
<1>7. Tree(entries')
  BY <1>1, <1>4, <1>5, <1>6, TreeGrows
<1>8. OneMore(entries, e, Path, Context, Path', Context')
  BY <1>1, <1>4, <1>5, <1>7, PathIs, PathIsNext DEF OneMore
<1>9. Fits(entries, e, Path, Context)
  BY <1>1, <1>3 DEF Fits
<1>10. KeptSince(Path', entries') /\ UsageHolds(entries', Context')
  BY <1>1, <1>5, <1>8, <1>9, KeptGrows, UsageGrows
<1>11. leaf' \in 0..Len(entries')
  <2>1. Len(entries') = Len(entries) + 1
    BY <1>1, <1>4, <1>5, OfOneMore
  <2> QED  BY <1>2, <1>5, <2>1
<1> QED  BY <1>7, <1>10, <1>11 DEF BudgetInv

LEMMA EntriesStay ==
  ASSUME BudgetInv, UNCHANGED entries, leaf' \in 0..Len(entries)
  PROVE  BudgetInv'
<1>1. IsPath(Path, entries) /\ IsContext(Context, entries)
  BY PathIs DEF BudgetInv
<1>2. Path' = Path
  BY DEF Path, Parents
<1>3. Context' = Context
  BY DEF Context, Parents, IsCompaction
<1> QED  BY <1>2, <1>3 DEF BudgetInv

LEMMA SizeOfContext ==
  ASSUME BudgetInv
  PROVE  ContextSize(leaf) = SumOf(Context[leaf], entries) /\ ContextSize(leaf) \in Nat
<1>1. ContextSize(leaf) = SumOf(Context[leaf], entries)
  BY DEF ContextSize, SumOf, SizesOf
<1>2. leaf \in Nodes(entries) /\ Tree(entries) /\ IsContext(Context, entries)
  BY PathIs DEF BudgetInv, Nodes
<1>3. Context[leaf] \in Seq(1..Len(entries))
  BY <1>2, ContextSteps
<1>4. SumOf(Context[leaf], entries) \in Nat
  BY <1>2, <1>3, SumIs
<1> QED  BY <1>1, <1>4

LEMMA CompactKeeps ==
  ASSUME BudgetInv, Rooted(Path, leaf)
  PROVE  SelectLastInSeq(Path[leaf], LAMBDA i : i # Absent /\ IsCompaction(i)) = LastOf(Path[leaf], entries)
<1> DEFINE p == Path[leaf]
<1>1. Straight(p, leaf) /\ Tree(entries) /\ leaf \in 0..Len(entries)
  BY PathIs, RootedStraight DEF BudgetInv
<1> HIDE DEF p
<1>2. \A k \in 1..Len(p) : p[k] \in 1..Len(entries)
  BY <1>1, OfStraight
<1>3. \A k \in 1..Len(p) : p[k] # Absent
  BY <1>2 DEF Absent
<1>4. {k \in 1..Len(p) : p[k] # Absent /\ entries[p[k]].type = "compaction"}
        = {k \in 1..Len(p) : entries[p[k]].type = "compaction"}
  BY <1>3
<1>5. SelectLastInSeq(p, LAMBDA i : i # Absent /\ IsCompaction(i)) = LastOf(p, entries)
  BY <1>4 DEF SelectLastInSeq, LastOf, IsCompaction
<1> QED  BY <1>5 DEF p

LEMMA BudgetSteps ==
  ASSUME BudgetInv, [BudgetNext]_budgetVars
  PROVE  BudgetInv'
<1>0. /\ Tree(entries) /\ leaf \in 0..Len(entries) /\ Len(entries) \in Nat
      /\ Sizes \subseteq Nat /\ Overhead \in Nat
  BY ContextBudgetAssumption DEF BudgetInv, Tree
<1>1. CASE Ask
  <2>1. PICK size \in Sizes : Store("user", size, 0, None)
    BY <1>1 DEF Ask
  <2>2. size \in Nat /\ None \in {Absent} \cup 0..Len(entries) /\ 0 \in Nat
    BY <1>0 DEF None
  <2>3. "user" # "compaction" /\ "user" # "assistant"
    OBVIOUS
  <2> QED  BY <2>1, <2>2, <2>3, StoreSteps
<1>2. ASSUME NEW m \in Models, Reply(m)  PROVE BudgetInv'
  <2>1. PICK size \in Sizes, counted \in BOOLEAN :
          Store("assistant", size, IF counted THEN UsageTokens(size) ELSE 0, None)
    BY <1>2 DEF Reply
  <2> DEFINE usage == IF counted THEN UsageTokens(size) ELSE 0
  <2>2. size \in Nat /\ None \in {Absent} \cup 0..Len(entries)
    BY <1>0 DEF None
  <2>3. UsageTokens(size) = Overhead + SumOf(Context[leaf], entries) + size
    BY SizeOfContext DEF UsageTokens
  <2>4. UsageTokens(size) \in Nat
    <3> DEFINE s == ContextSize(leaf)
    <3>1. s \in Nat
      BY SizeOfContext
    <3> HIDE DEF s
    <3>2. Overhead + s + size \in Nat
      BY <1>0, <2>2, <3>1
    <3> QED  BY <3>2 DEF UsageTokens, s
  <2>5. usage \in Nat /\ (usage > 0 => usage = Overhead + SumOf(Context[leaf], entries) + size)
    BY <2>3, <2>4
  <2>6. Store("assistant", size, usage, None)
    BY <2>1
  <2>7. "assistant" # "compaction"
    OBVIOUS
  <2> HIDE DEF usage
  <2> QED  BY <2>2, <2>5, <2>6, <2>7, StoreSteps
<1>3. CASE Compact
  <2> DEFINE path == Path[leaf]
             since == SelectLastInSeq(path, LAMBDA i : i # Absent /\ IsCompaction(i)) + 1
  <2>1. PICK size \in Sizes, keep \in {path[k] : k \in since..Len(path)} \cup {Absent} :
          (keep = Absent \/ keep > 0) /\ Store("compaction", size, 0, keep)
    BY <1>3 DEF Compact
  <2>2. size \in Nat /\ 0 \in Nat
    BY <1>0
  <2>3. Rooted(Path, leaf) =>
          \/ keep = Absent
          \/ \E k \in (LastOf(path, entries) + 1)..Len(path) : keep = path[k]
    <3> SUFFICES ASSUME Rooted(Path, leaf), keep # Absent
                 PROVE  \E k \in (LastOf(path, entries) + 1)..Len(path) : keep = path[k]
      OBVIOUS
    <3>1. since = LastOf(path, entries) + 1
      BY CompactKeeps
    <3> HIDE DEF since, path
    <3> QED  BY <2>1, <3>1
  <2>4. keep \in {Absent} \cup 0..Len(entries)
    <3> SUFFICES ASSUME keep # Absent  PROVE keep \in 1..Len(entries)
      BY <1>0
    <3>1. path \in Seq({Absent} \cup 1..Len(entries))
      <4>1. leaf \in Nodes(entries)
        BY <1>0 DEF Nodes
      <4> QED  BY <1>0, <4>1, PathIs, PathWithin
    <3>2. since \in Nat /\ since >= 1
      <4> DEFINE IsOne(i) == i # Absent /\ IsCompaction(i)
                 I == {k \in 1..Len(path) : IsOne(path[k])}
                 last == SelectLastInSeq(path, LAMBDA i : i # Absent /\ IsCompaction(i))
      <4>1. last = IF I # {} THEN Max(I) ELSE 0
        BY DEF SelectLastInSeq
      <4>2. I \subseteq 1..Len(path) /\ Len(path) \in Nat
        BY <3>1
      <4> HIDE DEF I, path, last
      <4>3. I # {} => Max(I) \in 1..Len(path)
        BY <4>2, GreatestIs
      <4>4. last \in Nat
        BY <4>1, <4>2, <4>3
      <4> QED  BY <4>4 DEF last
    <3> HIDE DEF since, path
    <3>3. PICK k \in since..Len(path) : keep = path[k]
      BY <2>1
    <3>4. k \in 1..Len(path)
      BY <3>1, <3>2, <3>3
    <3>5. path[k] \in {Absent} \cup 1..Len(entries)
      BY <3>1, <3>4
    <3> QED  BY <3>3, <3>5
  <2>5. Store("compaction", size, 0, keep) /\ "compaction" # "assistant"
    BY <2>1
  <2> QED  BY <2>2, <2>3, <2>4, <2>5, StoreSteps
<1>4. CASE Continue
  <2>1. PICK i \in DOMAIN entries : leaf' = i /\ UNCHANGED entries
    BY <1>4 DEF Continue
  <2>2. DOMAIN entries = 1..Len(entries)
    BY <1>0 DEF Tree
  <2>3. leaf' \in 0..Len(entries)
    BY <1>0, <2>1, <2>2
  <2> QED  BY <2>1, <2>3, EntriesStay
<1>5. CASE RestartLedger \/ UNCHANGED budgetVars
  <2>1. UNCHANGED entries /\ leaf' \in 0..Len(entries)
    BY <1>0, <1>5 DEF RestartLedger, budgetVars
  <2> QED  BY <2>1, EntriesStay
<1> QED  BY <1>1, <1>2, <1>3, <1>4, <1>5 DEF BudgetNext

LEMMA HardStopIs ==
  Budget.hardStop \in Nat /\ Budget.compaction \in Int /\ Budget.compaction <= Budget.hardStop
<1>0. Window \in Nat /\ MaxOutput \in Nat
  BY ContextBudgetAssumption
<1> DEFINE quarter == Window \div 4
           reserve == Least(MaxOutput, quarter)
           usable  == Greatest(0, Window - reserve)
           compact == (usable * 85) \div 100
           warn    == (usable * 7) \div 10
<1>1. Budget = [reserve |-> reserve, hardStop |-> usable, warning |-> warn, compaction |-> compact]
  BY DEF Budget
<1>2. usable \in Nat
  <2>1. quarter \in Int
    BY <1>0
  <2> HIDE DEF quarter
  <2>2. reserve \in Int
    BY <1>0, <2>1 DEF Least
  <2> HIDE DEF reserve
  <2> QED  BY <1>0, <2>2 DEF Greatest
<1> HIDE DEF quarter, reserve, usable
<1>3. compact \in Int /\ compact <= usable
  BY <1>2
<1> HIDE DEF compact, warn
<1>4. Budget.hardStop = usable /\ Budget.compaction = compact
  BY <1>1
<1> QED  BY <1>2, <1>3, <1>4

LEMMA Thresholds ==
  ASSUME NEW used \in Nat, used > Budget.hardStop
  PROVE  Status(used) = "stop" /\ ShouldCompact(used)
<1>1. ~(Budget.hardStop >= used) /\ ~(Budget.compaction > used)
  BY HardStopIs
<1>2. Status(used) = "stop"
  BY <1>1 DEF Status
<1> QED  BY <1>2 DEF ShouldCompact

LEMMA ReportIs ==
  ASSUME BudgetInv
  PROVE  ReportFollowsContext
<1> SUFFICES ASSUME leaf # None, Head(Path[leaf]) # Absent, NEW prompt \in Sizes
             PROVE  LET report == Report(Derived, prompt)
                        needed == ContextSize(leaf) + prompt
                    IN  /\ report.used \in needed..(needed + Overhead)
                        /\ needed > Budget.hardStop => report.status = "stop" /\ report.shouldCompact
  BY DEF ReportFollowsContext
<1> DEFINE p == Path[leaf]
           tokens == EstimateTokens(ContextEntries(p))
           used == tokens + prompt
           needed == ContextSize(leaf) + prompt
<1>1. /\ Tree(entries) /\ leaf \in 0..Len(entries) /\ IsPath(Path, entries) /\ IsContext(Context, entries)
      /\ KeptSince(Path, entries) /\ UsageHolds(entries, Context)
  BY PathIs DEF BudgetInv
<1>2. leaf \in 1..Len(entries) /\ leaf # Absent
  <2>1. Len(entries) \in Nat
    BY <1>1 DEF Tree
  <2> QED  BY <1>1, <2>1 DEF None, Absent
<1>3. Rooted(Path, leaf)
  BY <1>2 DEF Rooted
<1>4. Straight(p, leaf) /\ Shaped(p, Context, entries, leaf)
  BY <1>1, <1>3, AllShaped
<1>5. tokens \in {SumOf(Context[leaf], entries), Overhead + SumOf(Context[leaf], entries)}
  <2> HIDE DEF p
  <2> QED  BY <1>1, <1>4, EstimateIs
<1>6. Derived.tokens = tokens
  <2>1. ActivePath = p
    BY DEF ActivePath
  <2> QED  BY <2>1 DEF Derived
<1>7. /\ Report(Derived, prompt).used = used /\ Report(Derived, prompt).status = Status(used)
      /\ Report(Derived, prompt).shouldCompact = ShouldCompact(used)
  BY <1>6 DEF Report
<1> DEFINE size == ContextSize(leaf)
<1>8. size = SumOf(Context[leaf], entries) /\ size \in Nat
  BY SizeOfContext
<1>9. prompt \in Nat /\ Overhead \in Nat
  BY ContextBudgetAssumption
<1> HIDE DEF tokens, size
<1>10. tokens = size \/ tokens = Overhead + size
  BY <1>5, <1>8
<1>11. used \in Nat /\ used \in needed..(needed + Overhead) /\ used >= needed /\ needed \in Nat
  BY <1>8, <1>9, <1>10 DEF size
<1> HIDE DEF used, needed
<1>12. ASSUME needed > Budget.hardStop  PROVE Status(used) = "stop" /\ ShouldCompact(used)
  <2>1. Budget.hardStop \in Nat
    BY HardStopIs
  <2>2. used > Budget.hardStop
    BY <1>11, <1>12, <2>1
  <2> QED  BY <1>11, <2>2, Thresholds
<1> QED  BY <1>7, <1>11, <1>12 DEF needed

\* What is compacted, replied to or left on another branch never makes the report (session-budget.ts)
\* less than what the model will read, nor more than that and what no entry of it holds; and a prompt
\* that would not fit is told to stop.
THEOREM ReportsFollow == BudgetSpec => []ReportFollowsContext
<1>1. BudgetInit => BudgetInv
  BY BudgetStarts
<1>2. BudgetInv /\ [BudgetNext]_budgetVars => BudgetInv'
  BY BudgetSteps
<1>3. BudgetInv => ReportFollowsContext
  BY ReportIs
<1> QED  BY <1>1, <1>2, <1>3, PTL DEF BudgetSpec

=============================================================================
