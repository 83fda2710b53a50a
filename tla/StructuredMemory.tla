-------------------------- MODULE StructuredMemory --------------------------
(***************************************************************************)
(* Structured memory: checklists, todos and session notes.  A record is in *)
(* the store of the WASM module (crates/gorombo-memory), in the cache that *)
(* the TypeScript engine keeps beside it (rust-memory-engine.ts), in       *)
(* SQLite (structured-memory-database.ts) and, a note, in the vector       *)
(* collection of notes (structured-memory-note-index.ts).  A call of the   *)
(* PersistingMemoryEngine (structured-memory-runtime.ts) visits them one   *)
(* after the other.                                                        *)
(*                                                                         *)
(* Between the stores of one call lie microtasks, which Node runs first in *)
(* first out: `ticks` is that queue, and a call may begin between any two  *)
(* of them.  Embedding and the vector store are awaited outside of it.     *)
(***************************************************************************)
EXTENDS Integers, Sequences, FiniteSets

CONSTANTS
  Ids,          \* record ids (ulid: an id is created once)
  Items,        \* ids of checklist items
  ChecklistSlugs, Texts, \* slugs of checklists; titles and contents
  Blank,        \* texts one of which is the empty string, which the schema of a row refuses
  Scopes,       \* the scopes callers come with: sets of <<key, value>>, or {"global"}
  MemoryCalls,        \* calls that may be in progress at once
  Top,          \* the parent of a top-level item
  MaxDepth,     \* memory.maxChecklistDepth of the configuration
  MaxStarts     \* bound on the calls made

ASSUME MemoryAssumption ==
  /\ IsFiniteSet(Items) /\ Top \notin Items
  /\ ChecklistSlugs # {} /\ Texts # {} /\ Blank \notin Texts
  /\ MaxDepth \in Nat \ {0} /\ MaxStarts \in Nat

VARIABLES
  phase,      \* the process: down, or up with the runtime created
  wasm,       \* by_id of the module's index
  cache,      \* cache of RustMemoryEngine
  db,         \* structured_memory_records
  vectors,    \* texts stored under each id in structured_memory_notes
  limit,      \* max_checklist_depth of the module
  calls,      \* at which await each call is, and the record it carries
  snapshot,   \* the records a rollback has read
  ticks,      \* the microtask queue
  starts,     \* calls made so far
  disturbed,  \* ids whose stores a failure or a racing deletion set apart (history)
  blurred     \* ids whose vectors a failure or a race made uncertain (history)

memoryVars == <<phase, wasm, cache, db, vectors, limit, calls, snapshot, ticks, starts,
          disturbed, blurred>>
memory  == <<wasm, cache, limit>>
history == <<disturbed, blurred>>

Forest == UNION {[S -> S \cup {Top}] : S \in SUBSET Items}
AllTexts == Texts \cup {Blank}
MemoryRecord == [kind: {"checklist", "todo", "session_note"}, scope: Scopes, slug: ChecklistSlugs,
           items: Forest, status: {"active", "completed", "archived"},
           archivedAt: BOOLEAN, text: AllTexts]
NoRecord == [kind |-> "none"]
Stores == [Ids -> MemoryRecord \cup {NoRecord}]

InMemory == {"cache", "persist", "forget", "uncache", "restore", "drop"}
Indexing == {"embed", "clear", "add", "unindex"}
IdleCall == [pc |-> "idle", id |-> "none", record |-> NoRecord]

MemoryTypeOK ==
  /\ phase \in {"down", "up"}
  /\ {wasm, cache, db} \subseteq Stores
  /\ vectors \in [Ids -> SUBSET AllTexts]
  /\ limit \in Nat \ {0}
  /\ calls \in [MemoryCalls -> [pc: {"idle"} \cup InMemory \cup Indexing,
                          id: Ids \cup {"none"}, record: MemoryRecord \cup {NoRecord}]]
  /\ snapshot \in [MemoryCalls -> Stores]
  /\ ticks \in Seq(MemoryCalls)
  /\ \A t \in MemoryCalls : calls[t].pc \in InMemory <=> \E i \in DOMAIN ticks : ticks[i] = t
  /\ starts \in 0..MaxStarts
  /\ disturbed \subseteq Ids
  /\ blurred \subseteq Ids

Nothing == [id \in Ids |-> NoRecord]

MemoryInit ==
  /\ phase = "down"
  /\ wasm = Nothing
  /\ cache = Nothing
  /\ db = Nothing
  /\ vectors = [id \in Ids |-> {}]
  /\ limit = MaxDepth
  /\ calls = [t \in MemoryCalls |-> IdleCall]
  /\ snapshot = [t \in MemoryCalls |-> Nothing]
  /\ ticks = <<>>
  /\ starts = 0
  /\ disturbed = {}
  /\ blurred = {}

-----------------------------------------------------------------------------
\* What the module accepts (validate.rs, lib.rs).

\* parseRecord: a row with an empty string in it is stored, and cannot be read again.
Parsed(record) == IF record # NoRecord /\ record.text = Blank THEN NoRecord ELSE record

\* loadAllRecords leaves out, silently, the rows that do not parse.
Loaded(store) == [id \in Ids |-> Parsed(store[id])]

\* The DEFAULT_MAX_CHECKLIST_DEPTH that a reconcile without a depth sets.
DefaultDepth == 5

\* The record is visible to the query: everything it carries, the query carries.
Matches(scope, query) == scope = {"global"} \/ (scope # {} /\ scope \ {"global"} \subseteq query)

\* The walk from an item to the top: element n is its n-th ancestor.  A parent that
\* is missing ends the walk as the top does.
Walk(items, i) ==
  LET walk[n \in 0..Cardinality(DOMAIN items)] ==
        IF n = 0 THEN i
        ELSE IF walk[n - 1] \in DOMAIN items THEN items[walk[n - 1]] ELSE Top
  IN  walk

CreatesCycle(items, i) ==
  \E n \in DOMAIN Walk(items, i) \ {0} : Walk(items, i)[n] = i

ItemDepth(items, i) == Cardinality({n \in DOMAIN Walk(items, i) : Walk(items, i)[n] # Top})

\* Mutant: a new parent is looked up, its own ancestors are not walked.
ItemsUnwalked(items) == \A i \in DOMAIN items : items[i] = Top \/ items[i] \in DOMAIN items \ {i}

ItemsAccepted(items) ==
  \A i \in DOMAIN items :
    /\ items[i] # Top => items[i] \in DOMAIN items /\ ~CreatesCycle(items, i)
    /\ ItemDepth(items, i) <= limit

SlugFree(id, record) ==
  \A other \in Ids \ {id} :
    wasm[other].kind = "checklist" /\ wasm[other].slug = record.slug
      => ~Matches(wasm[other].scope, record.scope) /\ ~Matches(record.scope, wasm[other].scope)

Accepted(id, record) ==
  /\ record.scope # {}
  /\ record.kind = "checklist" => SlugFree(id, record) /\ ItemsAccepted(record.items)

-----------------------------------------------------------------------------
\* Beginning a call: everything up to the first await.

MayBegin(t) == phase = "up" /\ calls[t].pc = "idle" /\ starts < MaxStarts
InFlight(id, pcs) == \E u \in MemoryCalls : calls[u].pc \in pcs /\ calls[u].id = id
Turn(t, pc) == calls[t].pc = pc /\ ticks # <<>> /\ Head(ticks) = t

\* The record goes into the module's index and the call waits for its turn.
BeginCall(t, id, record) ==
  /\ Accepted(id, record)
  /\ wasm' = [wasm EXCEPT ![id] = record]
  /\ calls' = [calls EXCEPT ![t] = [pc |-> "cache", id |-> id, record |-> record]]
  /\ ticks' = Append(ticks, t)
  /\ starts' = starts + 1
  /\ disturbed' = IF InFlight(id, {"forget", "uncache"}) THEN disturbed \cup {id} ELSE disturbed
  /\ UNCHANGED <<phase, cache, db, vectors, limit, snapshot, blurred>>

\* An id that no record has had so far.
FreshId(id) ==
  /\ {wasm[id], cache[id], db[id]} = {NoRecord} /\ ~InFlight(id, InMemory \cup Indexing)
  /\ id \notin disturbed \cup blurred /\ vectors[id] = {}

Plain(kind, scope) ==
  [kind |-> kind, scope |-> scope, slug |-> CHOOSE s \in ChecklistSlugs : TRUE,
   items |-> [i \in {} |-> Top], status |-> "active", archivedAt |-> FALSE, text |-> CHOOSE x \in Texts : TRUE]

\* The ids of the first items are made by the engine, so none of them can name another
\* as its parent.  The tools take an empty description or due date, here and below.
CreateChecklist(t, id) ==
  /\ MayBegin(t) /\ FreshId(id)
  /\ \E scope \in Scopes, slug \in ChecklistSlugs, items \in SUBSET Items, text \in AllTexts :
       BeginCall(t, id, [Plain("checklist", scope) EXCEPT !.slug = slug, !.text = text,
                                                          !.items = [i \in items |-> Top]])

CreateTodo(t, id) ==
  /\ MayBegin(t) /\ FreshId(id)
  /\ \E scope \in Scopes, text \in AllTexts : BeginCall(t, id, [Plain("todo", scope) EXCEPT !.text = text])

CreateSessionNote(t, id) ==
  /\ MayBegin(t) /\ FreshId(id)
  /\ \E scope \in Scopes, text \in Texts :
       BeginCall(t, id, [Plain("session_note", scope) EXCEPT !.text = text])

\* The coding worker's tools work in the scope of their project, or not at all.
TrustedScope(scope) == scope # {}

\* coding_task_handoff_plan_to_checklist: the items of the plan of a run, under a slug
\* made from its task.  A task handed off twice in one project is refused by SlugFree.
HandOffPlan(t, id) ==
  /\ MayBegin(t) /\ FreshId(id)
  /\ \E scope \in {s \in Scopes : TrustedScope(s)}, task \in ChecklistSlugs, plan \in SUBSET Items :
       BeginCall(t, id, [Plain("checklist", scope) EXCEPT !.slug = task, !.items = [i \in plan |-> Top]])

\* The engine's own check before a change: the cache has the record, and the scope
\* that the tool trusts sees it.
Known(id, kind, expected) == cache[id].kind = kind /\ Matches(cache[id].scope, expected)

\* updateChecklist: every field that is not given, the items among them, is the cache's.
UpdateChecklist(t, id) ==
  /\ MayBegin(t)
  /\ \E expected \in Scopes : Known(id, "checklist", expected)
  /\ wasm[id].kind = "checklist"
  /\ \E slug \in ChecklistSlugs, text \in AllTexts, status \in {"active", "archived"} :
       BeginCall(t, id, [cache[id] EXCEPT !.slug = slug, !.text = text, !.status = status])

\* The item at its parent, beside the others.
Put(items, item, parent) == [i \in DOMAIN items \cup {item} |-> IF i = item THEN parent ELSE items[i]]

\* addChecklistItem, with an item id of its own: the items are those of the module.
AddItem(t, id, item) ==
  /\ MayBegin(t)
  /\ \E expected \in Scopes : Known(id, "checklist", expected)
  /\ wasm[id].kind = "checklist"
  /\ item \notin DOMAIN wasm[id].items \cup DOMAIN cache[id].items
  /\ \E parent \in Items \cup {Top}, text \in {wasm[id].text, Blank} :
       BeginCall(t, id, [wasm[id] EXCEPT !.text = text, !.items = Put(wasm[id].items, item, parent)])

\* updateChecklistItem and the move tool: the item is the cache's with the fields that
\* are given, put into the items of the module (which appends what it does not find).
\* A parent that is not given stays, and an empty one counts as not given.
UpdateItem(t, id, item) ==
  /\ MayBegin(t)
  /\ \E expected \in Scopes : Known(id, "checklist", expected)
  /\ item \in DOMAIN cache[id].items
  /\ wasm[id].kind = "checklist"
  /\ \E parent \in Items \cup {cache[id].items[item]}, text \in AllTexts :
       BeginCall(t, id, [wasm[id] EXCEPT !.text = text, !.items = Put(wasm[id].items, item, parent)])

UpdateTodo(t, id) ==
  /\ MayBegin(t)
  /\ \E expected \in Scopes : Known(id, "todo", expected)
  /\ wasm[id].kind = "todo"
  /\ \E text \in AllTexts, status \in {"active", "completed"} :
       BeginCall(t, id, [cache[id] EXCEPT !.text = text, !.status = status])

\* updateSessionNote: the tools give the caller's scope as the new scope of the note, and
\* take an empty content, which the creation refuses.
UpdateNote(t, id) ==
  /\ MayBegin(t)
  /\ cache[id].kind = "session_note" /\ wasm[id].kind = "session_note"
  /\ \E scope \in Scopes, text \in AllTexts, status \in {"active", "archived"} :
       BeginCall(t, id, [cache[id] EXCEPT !.scope = scope, !.text = text, !.status = status])

\* coding_task_archive_note: in the scope the worker trusts, which the note keeps.
ArchiveNote(t, id) ==
  /\ MayBegin(t)
  /\ \E expected \in {s \in Scopes : TrustedScope(s)} : Known(id, "session_note", expected)
  /\ wasm[id].kind = "session_note"
  /\ BeginCall(t, id, [cache[id] EXCEPT !.status = "archived"])

\* delete: the row goes first.  When SQLite refuses nothing else happens.
DeleteRecord(t, id) ==
  /\ MayBegin(t)
  /\ db' = [db EXCEPT ![id] = NoRecord]
  /\ calls' = [calls EXCEPT ![t] = [pc |-> "forget", id |-> id, record |-> NoRecord]]
  /\ ticks' = Append(ticks, t)
  /\ starts' = starts + 1
  /\ disturbed' = IF InFlight(id, InMemory) THEN disturbed \cup {id} ELSE disturbed
  /\ UNCHANGED <<phase, wasm, cache, vectors, limit, snapshot, blurred>>

-----------------------------------------------------------------------------
\* The microtasks of a call.

GoOn(t, pc) ==
  /\ calls' = [calls EXCEPT ![t].pc = pc]
  /\ ticks' = IF pc \in InMemory THEN Append(Tail(ticks), t) ELSE Tail(ticks)
  /\ UNCHANGED <<phase, starts>>

End(t) ==
  /\ calls' = [calls EXCEPT ![t] = IdleCall]
  /\ ticks' = Tail(ticks)
  /\ UNCHANGED <<phase, starts>>

\* Two calls that work on the vectors of one note at once.
Blurring(id) == IF InFlight(id, Indexing) THEN blurred \cup {id} ELSE blurred

SetCache(t) ==
  /\ Turn(t, "cache")
  /\ cache' = [cache EXCEPT ![calls[t].id] = calls[t].record]
  /\ GoOn(t, "persist")
  /\ UNCHANGED <<wasm, db, vectors, limit, snapshot, history>>

\* Mutant: an archived note is embedded like any other.
PersistThenEmbed(t) ==
  LET id == calls[t].id  record == calls[t].record IN
  /\ Turn(t, "persist")
  /\ db' = [db EXCEPT ![id] = record]
  /\ IF record.kind # "session_note" THEN End(t) /\ blurred' = blurred
     ELSE GoOn(t, "embed") /\ blurred' = Blurring(id)
  /\ UNCHANGED <<memory, vectors, snapshot, disturbed>>

\* persist(): the row is written; a note goes on to the vectors.
Persist(t) ==
  LET id == calls[t].id  record == calls[t].record IN
  /\ Turn(t, "persist")
  /\ db' = [db EXCEPT ![id] = record]
  /\ IF record.kind # "session_note" THEN End(t) /\ blurred' = blurred
     ELSE /\ GoOn(t, IF record.status = "archived" THEN "unindex" ELSE "embed")
          /\ blurred' = Blurring(id)
  /\ UNCHANGED <<memory, vectors, snapshot, disturbed>>

\* Ids of calls whose record is in the module and not yet in the database.
Unsaved(t) == {calls[u].id : u \in {v \in MemoryCalls \ {t} : calls[v].pc \in {"cache", "persist"}}}

\* Mutant: the rollback leaves the module as it is and reloads the cache only.
RollBackCacheOnly(t) ==
  /\ Turn(t, "persist")
  /\ snapshot' = [snapshot EXCEPT ![t] = Loaded(db)]
  /\ disturbed' = disturbed \cup Unsaved(t)
  /\ GoOn(t, "restore")
  /\ UNCHANGED <<wasm, limit, cache, db, vectors, blurred>>

\* persist() when SQLite refuses the row: the module is rebuilt from the rows that parse,
\* with no depth, and the cache a microtask later.  The other rows stay in the database.
RollBack(t) ==
  /\ Turn(t, "persist")
  /\ wasm' = Loaded(db)
  /\ limit' = DefaultDepth
  /\ snapshot' = [snapshot EXCEPT ![t] = Loaded(db)]
  /\ disturbed' = disturbed \cup Unsaved(t)
  /\ GoOn(t, "restore")
  /\ UNCHANGED <<cache, db, vectors, blurred>>

Restore(t) ==
  /\ Turn(t, "restore")
  /\ cache' = snapshot[t]
  /\ snapshot' = [snapshot EXCEPT ![t] = Nothing]
  /\ End(t)
  /\ UNCHANGED <<wasm, db, vectors, limit, history>>

\* ... and when it refuses to be read too, the record leaves the memory.
RollBackFails(t) ==
  /\ Turn(t, "persist")
  /\ wasm' = [wasm EXCEPT ![calls[t].id] = NoRecord]
  /\ disturbed' = disturbed \cup {calls[t].id}
  /\ GoOn(t, "drop")
  /\ UNCHANGED <<cache, db, vectors, limit, snapshot, blurred>>

DropFromCache(t) ==
  /\ Turn(t, "drop")
  /\ cache' = [cache EXCEPT ![calls[t].id] = NoRecord]
  /\ End(t)
  /\ UNCHANGED <<wasm, db, vectors, limit, snapshot, history>>

Forget(t) ==
  /\ Turn(t, "forget")
  /\ wasm' = [wasm EXCEPT ![calls[t].id] = NoRecord]
  /\ GoOn(t, "uncache")
  /\ UNCHANGED <<cache, db, vectors, limit, snapshot, history>>

Uncache(t) ==
  /\ Turn(t, "uncache")
  /\ cache' = [cache EXCEPT ![calls[t].id] = NoRecord]
  /\ blurred' = Blurring(calls[t].id)
  /\ GoOn(t, "unindex")
  /\ UNCHANGED <<wasm, db, vectors, limit, snapshot, disturbed>>

-----------------------------------------------------------------------------
\* The vectors of a note.  Failures are logged and the call succeeds.

Indexed(t, pc, stored) ==
  /\ vectors' = [vectors EXCEPT ![calls[t].id] = stored]
  /\ calls' = [calls EXCEPT ![t] = IF pc = "idle" THEN IdleCall ELSE [@ EXCEPT !.pc = pc]]
  /\ UNCHANGED <<phase, memory, db, snapshot, ticks, starts, history>>

EmbedNote(t) == calls[t].pc = "embed" /\ Indexed(t, "clear", vectors[calls[t].id])
Clear(t) == calls[t].pc = "clear" /\ Indexed(t, "add", {})
AddVector(t)   == calls[t].pc = "add"
            /\ Indexed(t, "idle", vectors[calls[t].id] \cup {calls[t].record.text})
Unindex(t) == calls[t].pc = "unindex" /\ Indexed(t, "idle", {})

IndexFails(t) ==
  /\ calls[t].pc \in Indexing
  /\ calls' = [calls EXCEPT ![t] = IdleCall]
  /\ blurred' = blurred \cup {calls[t].id}
  /\ UNCHANGED <<phase, memory, db, vectors, snapshot, ticks, starts, disturbed>>

-----------------------------------------------------------------------------
\* The process.

ActiveNotes(records) ==
  {id \in Ids : records[id].kind = "session_note" /\ records[id].status = "active"}

\* createStructuredMemoryRuntime: cleanupExpired, reconcile with the rows that parse, and
\* the vectors of every active note among them again, then without those of other ids: a
\* note whose row does not parse loses its vector.  Vector failures are logged.
Boot ==
  /\ phase = "down"
  /\ phase' = "up"
  /\ \E swept, removed \in SUBSET Ids, failed \in SUBSET Ids, pruned \in BOOLEAN :
       /\ \A id \in swept : db[id].kind = "todo" /\ db[id].status = "completed" /\ ~db[id].archivedAt
       /\ \A id \in removed : db[id] # NoRecord /\ db[id].archivedAt
       /\ db' = [id \in Ids |-> IF id \in removed THEN NoRecord
                                ELSE IF id \in swept THEN [db[id] EXCEPT !.archivedAt = TRUE]
                                ELSE db[id]]
       /\ failed \subseteq ActiveNotes(Loaded(db))
       /\ vectors' = [id \in Ids |->
                        IF id \in ActiveNotes(Loaded(db)) \ failed THEN {db[id].text}
                        ELSE IF id \notin ActiveNotes(Loaded(db)) /\ pruned THEN {} ELSE vectors[id]]
       /\ blurred' = failed \cup {id \in Ids \ ActiveNotes(Loaded(db)) : ~pruned /\ vectors[id] # {}}
  /\ wasm' = Loaded(db')
  /\ cache' = Loaded(db')
  /\ limit' = MaxDepth
  /\ disturbed' = {}
  /\ UNCHANGED <<calls, snapshot, ticks, starts>>

Crash ==
  /\ phase = "up"
  /\ phase' = "down"
  /\ wasm' = Nothing
  /\ cache' = Nothing
  /\ calls' = [t \in MemoryCalls |-> IdleCall]
  /\ snapshot' = [t \in MemoryCalls |-> Nothing]
  /\ ticks' = <<>>
  /\ UNCHANGED <<db, vectors, limit, starts, history>>

MemoryNext ==
  \/ \E t \in MemoryCalls, id \in Ids :
       \/ CreateChecklist(t, id) \/ CreateTodo(t, id) \/ CreateSessionNote(t, id)
       \/ HandOffPlan(t, id) \/ ArchiveNote(t, id)
       \/ UpdateChecklist(t, id) \/ UpdateTodo(t, id) \/ UpdateNote(t, id) \/ DeleteRecord(t, id)
       \/ \E item \in Items : AddItem(t, id, item) \/ UpdateItem(t, id, item)
  \/ \E t \in MemoryCalls :
       \/ SetCache(t) \/ Persist(t) \/ RollBack(t) \/ Restore(t)
       \/ RollBackFails(t) \/ DropFromCache(t) \/ Forget(t) \/ Uncache(t)
       \/ EmbedNote(t) \/ Clear(t) \/ AddVector(t) \/ Unindex(t) \/ IndexFails(t)
  \/ Boot
  \/ Crash

MemorySpec == MemoryInit /\ [][MemoryNext]_memoryVars

-----------------------------------------------------------------------------
\* Properties.

Quiet == phase = "up" /\ \A t \in MemoryCalls : calls[t].pc \notin InMemory

\* When no call is between two stores, module and cache hold the same under every id, and
\* it is the record of the database, also after rolled back writes, restarts and
\* overlapping updates; of a row that does not parse they may hold nothing, for a restart
\* or another's rollback leaves it out.  Left out are ids with a write in flight when
\* another's rollback reloads the module, with a deletion and a write in flight at once, or
\* with a rollback that could not read.
StoresAgree ==
  Quiet => \A id \in Ids \ disturbed :
             cache[id] = wasm[id] /\ wasm[id] \in {db[id], Parsed(db[id])}

\* No set of items of a stored checklist hangs from itself, whatever two calls made of
\* it, one with the items of the cache and one with those of the module.
Rooted(items) == \A S \in SUBSET DOMAIN items : S # {} => \E i \in S : items[i] \notin S
ItemsRooted ==
  \A store \in {wasm, cache, db}, id \in Ids :
    store[id].kind = "checklist" =>
      Rooted(store[id].items) /\ \A i \in DOMAIN store[id].items :
                                   store[id].items[i] \in DOMAIN store[id].items \cup {Top}

\* When nothing is in progress the collection has the present text of every active note
\* and nothing of the others, where no two calls worked on the vectors of a note at once
\* and no call of the vector store failed.  A note whose row does not parse may have none,
\* once a restart has left it out.
VectorsFollowNotes ==
  (Quiet /\ \A t \in MemoryCalls : calls[t].pc = "idle") =>
    \A id \in Ids \ (disturbed \cup blurred) :
      \/ vectors[id] = IF id \in ActiveNotes(db) THEN {db[id].text} ELSE {}
      \/ vectors[id] = {} /\ Parsed(db[id]) = NoRecord

=============================================================================
