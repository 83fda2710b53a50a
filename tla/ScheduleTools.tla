----------------------------- MODULE ScheduleTools -----------------------------
(***************************************************************************)
(* Who may do what to a schedule: the tools of the orchestrator, whose     *)
(* scope is the actor of the event, those of the coding worker, whose      *)
(* scope is the project, and the routes of the operator.  The slug alone   *)
(* names a row of the store.  The manager behind it, with its jobs and     *)
(* gates, is in ScheduleManager.                                           *)
(***************************************************************************)
EXTENDS Naturals, FiniteSets

CONSTANTS
  Slugs,
  Actors,     \* scopes of the orchestrator's tools
  Projects,   \* scopes of the coding worker's tools
  NoProject,  \* the worker was given no project
  Admin,      \* ADMIN_OWNER_SCOPE
  MaxFired     \* bound on the runs there are at once

VARIABLES
  schedules,  \* the rows, each with who wrote its prompt last (history)
  runs        \* the runs of the rows, each with its row's owner and author when it fired (history)

scheduleToolsVars == <<schedules, runs>>

Owners == Actors \cup Projects \cup {Admin}

ScheduleToolsTypeOK ==
  /\ schedules \subseteq [slug: Slugs, owner: Owners, author: Owners, enabled: BOOLEAN]
  /\ \A s, t \in schedules : s.slug = t.slug => s = t
  /\ runs \subseteq [slug: Slugs, owner: Owners, author: Owners, number: 1..MaxFired]
  /\ \A r \in runs : \E s \in schedules : s.slug = r.slug

ScheduleToolsInit == schedules = {} /\ runs = {}

-----------------------------------------------------------------------------
\* The store.

BySlug(slug) == {s \in schedules : s.slug = slug}

ListForOwner(scope) == {s \in schedules : s.owner = scope}

\* A row with the slug is merged into, and keeps its runs.
Upsert(slug, scope, enabled) ==
  /\ schedules' = (schedules \ BySlug(slug))
                    \cup {[slug |-> slug, owner |-> scope, author |-> scope, enabled |-> enabled]}
  /\ UNCHANGED runs

SetEnabled(rows, enabled) ==
  /\ schedules' = (schedules \ rows) \cup {[s EXCEPT !.enabled = enabled] : s \in rows}
  /\ UNCHANGED runs

\* Each field that is given; one of them is the prompt.
UpdateFields(rows, scope) ==
  /\ \E rewritten, enabled \in BOOLEAN :
       schedules' = (schedules \ rows)
         \cup {[s EXCEPT !.author = IF rewritten THEN scope ELSE @, !.enabled = enabled] : s \in rows}
  /\ UNCHANGED runs

\* The runs go with their row.
DeleteRows(rows) ==
  /\ schedules' = schedules \ rows
  /\ runs' = {r \in runs : \A s \in rows : r.slug # s.slug}

Fires(rows) ==
  /\ Cardinality(runs) < MaxFired
  /\ \E number \in 1..MaxFired :
       /\ \A r \in runs : r.number # number
       /\ runs' = runs \cup {[slug |-> s.slug, owner |-> s.owner, author |-> s.author,
                              number |-> number] : s \in rows}
  /\ UNCHANGED schedules

-----------------------------------------------------------------------------
\* The orchestrator's tools.

\* Mutant: any row of the slug will do.
AnyRow(scope, slug) == BySlug(slug)

\* loadOwnedSchedule: the row of the slug if it belongs to the scope.
OwnedRows(scope, slug) == BySlug(slug) \cap ListForOwner(scope)

Create(scope, slug) == Upsert(slug, scope, TRUE)

Pause(scope, slug) ==
  OwnedRows(scope, slug) # {} /\ SetEnabled(OwnedRows(scope, slug), FALSE)

Resume(scope, slug) ==
  OwnedRows(scope, slug) # {} /\ SetEnabled(OwnedRows(scope, slug), TRUE)

Update(scope, slug) ==
  OwnedRows(scope, slug) # {} /\ UpdateFields(OwnedRows(scope, slug), scope)

Delete(scope, slug) ==
  OwnedRows(scope, slug) # {} /\ DeleteRows(OwnedRows(scope, slug))

\* One that is paused runs as well.
RunNow(scope, slug) ==
  OwnedRows(scope, slug) # {} /\ Fires(OwnedRows(scope, slug))

-----------------------------------------------------------------------------
\* The coding worker's tools, each of which throws without a project.

TrustedProject(project) == project # NoProject

CodingCreate(project, slug) == TrustedProject(project) /\ Create(project, slug)
CodingPause(project, slug)  == TrustedProject(project) /\ Pause(project, slug)
CodingResume(project, slug) == TrustedProject(project) /\ Resume(project, slug)
CodingUpdate(project, slug) == TrustedProject(project) /\ Update(project, slug)
CodingDelete(project, slug) == TrustedProject(project) /\ Delete(project, slug)
CodingRunNow(project, slug) == TrustedProject(project) /\ RunNow(project, slug)

-----------------------------------------------------------------------------
\* The operator's routes, which ask for no owner.

Post(slug)        == \E enabled \in BOOLEAN : Upsert(slug, Admin, enabled)
Patch(slug)       == BySlug(slug) # {} /\ UpdateFields(BySlug(slug), Admin)
PauseRoute(slug)  == BySlug(slug) # {} /\ SetEnabled(BySlug(slug), FALSE)
ResumeRoute(slug) == BySlug(slug) # {} /\ SetEnabled(BySlug(slug), TRUE)
DeleteRoute(slug) == BySlug(slug) # {} /\ DeleteRows(BySlug(slug))
RunRoute(slug)    == BySlug(slug) # {} /\ Fires(BySlug(slug))

\* The cron job of a schedule that is enabled.
CronFire(slug) ==
  \E s \in BySlug(slug) : s.enabled /\ Fires({s})

ScheduleToolsNext ==
  \E slug \in Slugs :
    \/ Post(slug) \/ Patch(slug) \/ PauseRoute(slug) \/ ResumeRoute(slug)
    \/ DeleteRoute(slug) \/ RunRoute(slug) \/ CronFire(slug)
    \/ \E actor \in Actors :
         \/ Create(actor, slug) \/ Pause(actor, slug) \/ Resume(actor, slug)
         \/ Update(actor, slug) \/ Delete(actor, slug) \/ RunNow(actor, slug)
    \/ \E project \in Projects \cup {NoProject} :
         \/ CodingCreate(project, slug) \/ CodingPause(project, slug)
         \/ CodingResume(project, slug) \/ CodingUpdate(project, slug)
         \/ CodingDelete(project, slug) \/ CodingRunNow(project, slug)

ScheduleToolsSpec == ScheduleToolsInit /\ [][ScheduleToolsNext]_scheduleToolsVars

-----------------------------------------------------------------------------
\* What a scope is listed as its own has a prompt that it wrote, or the operator, and so
\* has every run that fired: however creates over a slug in use, updates, pauses and
\* deletions of several scopes follow each other, nobody's words run in the name of
\* another (schedule-ownership.ts; a create that meets the slug of another takes the
\* row over as a whole, the owner with the prompt).
WrittenByOwner ==
  /\ \A scope \in Owners : \A s \in ListForOwner(scope) : s.author \in {scope, Admin}
  /\ \A r \in runs : r.author \in {r.owner, Admin}

=============================================================================
