---------------------------- MODULE SessionIndex ----------------------------
(***************************************************************************)
(* The sidecar index of agent sessions: GoromboLogicalSessionStore         *)
(* (session-persistence.ts), which wraps Flue's session store, and the     *)
(* tables and the queue of storage operations of GoromboSessionDatabase    *)
(* (session-database.ts), with the vectors of the session memory.          *)
(*                                                                         *)
(* The keys are the storage keys of ONE logical session (one harness and   *)
(* session name, several instances), none of them a direct agent session.  *)
(* A storage key names its instance, so the row of flue_instance_sessions  *)
(* of a key is there exactly when its row of flue_session_index is, and    *)
(* always points at the key itself; one function models both.              *)
(* A block of statements without an await is one step: node:sqlite is      *)
(* synchronous.                                                            *)
(***************************************************************************)
EXTENDS Integers, Sequences

CONSTANTS
  Keys,      \* storage keys
  Entries,   \* entries of a session that make a memory chunk
  Deleters,  \* calls of delete() that may be in progress at once
  Nobody,    \* the absence of a key
  MaxClock,  \* bound on data.updatedAt
  MaxSaves   \* bound on calls of save()

ASSUME SessionIndexAssumption ==
  /\ Nobody \notin Keys
  /\ MaxClock \in Nat \ {0}
  /\ MaxSaves \in Nat

VARIABLES
  clock,      \* the last updatedAt that was given
  saves,      \* number of calls of save()
  store,      \* Flue's session store: the SessionData of each key
  writer,     \* the data of a save that is stored and not yet queued
  rows,       \* flue_session_index: updated_at of each key, 0 when there is no row
  latest,     \* the row of flue_logical_sessions, of key Nobody when there is none
  chunks,     \* session_memory_chunks of each key
  vectors,    \* ids in the vector collection, by key
  queue,      \* pendingStorageOps: what each key's chain of promises has left
  upserting,  \* the head of the chain has written its rows and awaits its vectors
  calls,      \* the calls of delete()
  behind,     \* keys whose index missed its last save or deletion (history)
  missed,     \* ids whose last upsert failed (history)
  lost,       \* ids whose deletion failed or was forgotten by a crash (history)
  torn        \* the pointer that a crash left at a session just deleted (history)

vars == <<clock, saves, store, writer, rows, latest, chunks, vectors, queue,
          upserting, calls, behind, missed, lost, torn>>

tables  == <<rows, latest, chunks>>
history == <<behind, missed, lost, torn>>

Stamps  == 0..MaxClock
Data    == [entries: SUBSET Entries, stamp: Stamps]
Absent  == [entries |-> {}, stamp |-> 0]
Stored(k) == store[k] # Absent

\* An operation of the chain: a recordFlueSession, or a deletion of vectors.
Op      == [kind: {"record", "delete"}, entries: SUBSET Entries, stamp: Stamps]
Record(d)    == [kind |-> "record", entries |-> d.entries, stamp |-> d.stamp]
DeleteIds(e) == [kind |-> "delete", entries |-> e, stamp |-> 0]

\* A call of delete(key): at which await it is, what it deletes at present, and
\* how many operations of the chain of target were before it.
Call == [pc: {"idle", "drop", "unindex", "wait"}, key: Keys \cup {Nobody},
         target: Keys \cup {Nobody}, exact: BOOLEAN, ahead: Nat]
Idle == [pc |-> "idle", key |-> Nobody, target |-> Nobody, exact |-> FALSE, ahead |-> 0]

NoLatest == [key |-> Nobody, stamp |-> 0]

TypeOK ==
  /\ clock \in Stamps
  /\ saves \in 0..MaxSaves
  /\ store \in [Keys -> Data]
  /\ writer \in [Keys -> Data]
  /\ rows \in [Keys -> Stamps]
  /\ latest \in [key: Keys \cup {Nobody}, stamp: Stamps]
  /\ chunks \in [Keys -> SUBSET Entries]
  /\ vectors \in [Keys -> SUBSET Entries]
  /\ queue \in [Keys -> Seq(Op)]
  /\ upserting \in [Keys -> BOOLEAN]
  /\ calls \in [Deleters -> Call]
  /\ behind \subseteq Keys
  /\ missed \in [Keys -> SUBSET Entries]
  /\ lost \in [Keys -> SUBSET Entries]
  /\ torn \in [key: Keys \cup {Nobody}, stamp: Stamps]

Init ==
  /\ clock = 0
  /\ saves = 0
  /\ store = [k \in Keys |-> Absent]
  /\ writer = [k \in Keys |-> Absent]
  /\ rows = [k \in Keys |-> 0]
  /\ latest = NoLatest
  /\ chunks = [k \in Keys |-> {}]
  /\ vectors = [k \in Keys |-> {}]
  /\ queue = [k \in Keys |-> <<>>]
  /\ upserting = [k \in Keys |-> FALSE]
  /\ calls = [d \in Deleters |-> Idle]
  /\ behind = {}
  /\ missed = [k \in Keys |-> {}]
  /\ lost = [k \in Keys |-> {}]
  /\ torn = NoLatest

-----------------------------------------------------------------------------
\* The chain of a key.

\* Mutant: the new operation goes before those that wait.
Pushed(k, op) == [queue EXCEPT ![k] = IF upserting[k]
                                     THEN <<Head(queue[k]), op>> \o Tail(queue[k])
                                     ELSE <<op>> \o queue[k]]

\* enqueueStorageOp.
Enqueued(k, op) == [queue EXCEPT ![k] = Append(queue[k], op)]

\* Mutant: the rows go, and nobody tells the vector store.
ForgotIds(k) == queue

\* deleteSessionMemoryByStorageKey and deleteSessionMemoryVectors: the ids of the
\* rows that go are queued for deletion, if there are any.
DeletedIds(k) == IF chunks[k] = {} THEN queue ELSE Enqueued(k, DeleteIds(chunks[k]))

\* The calls that await the chain of k see the end of its head.
Notice(k) == [d \in Deleters |-> IF calls[d].target = k /\ calls[d].ahead > 0
                                 THEN [calls[d] EXCEPT !.ahead = @ - 1]
                                 ELSE calls[d]]

HeadEnds(k) ==
  /\ queue' = [queue EXCEPT ![k] = Tail(queue[k])]
  /\ calls' = Notice(k)

HeadIs(k, kind) == queue[k] # <<>> /\ Head(queue[k]).kind = kind

\* Mutant: the last operation to run names the latest session.
AlwaysPointed(k, t) == [key |-> k, stamp |-> t]

\* INSERT ... ON CONFLICT ... WHERE excluded.updated_at >= ...updated_at.
Pointed(k, t) == IF latest.key # Nobody /\ t < latest.stamp THEN latest
                 ELSE [key |-> k, stamp |-> t]

-----------------------------------------------------------------------------
\* save().

\* Flue's own store first. A session's entries grow; updatedAt is the time of the
\* save, and two saves may have the same.
Save(k) ==
  /\ saves < MaxSaves
  /\ writer[k] = Absent
  /\ \E e \in SUBSET Entries, t \in 1..MaxClock :
       /\ t \in {clock, clock + 1}
       /\ store[k].entries \subseteq e
       /\ store' = [store EXCEPT ![k] = [entries |-> e, stamp |-> t]]
       /\ writer' = [writer EXCEPT ![k] = [entries |-> e, stamp |-> t]]
       /\ clock' = t
  /\ saves' = saves + 1
  /\ behind' = behind \ {k}
  /\ UNCHANGED <<tables, vectors, queue, upserting, calls, missed, lost, torn>>

\* Then the indexing is queued, and save() returns.
Queue(k) ==
  /\ writer[k] # Absent
  /\ queue' = Enqueued(k, Record(writer[k]))
  /\ writer' = [writer EXCEPT ![k] = Absent]
  /\ UNCHANGED <<clock, saves, store, tables, vectors, upserting, calls, history>>

\* recordFlueSession up to the embedding of the chunks: the rows of the key are
\* replaced, and the ids of the old ones queued for deletion. With no chunk there
\* is nothing to embed and the operation ends.
RunRecord(k) ==
  /\ HeadIs(k, "record") /\ ~upserting[k]
  /\ LET d == Head(queue[k]) IN
     /\ rows' = [rows EXCEPT ![k] = d.stamp]
     /\ latest' = Pointed(k, d.stamp)
     /\ chunks' = [chunks EXCEPT ![k] = d.entries]
     /\ IF d.entries = {}
        THEN /\ queue' = [DeletedIds(k) EXCEPT ![k] = Tail(@)]
             /\ calls' = Notice(k)
             /\ UNCHANGED upserting
        ELSE /\ queue' = DeletedIds(k)
             /\ upserting' = [upserting EXCEPT ![k] = TRUE]
             /\ UNCHANGED calls
  /\ UNCHANGED <<clock, saves, store, writer, vectors, history>>

\* indexSessionMemoryVectors: the vectors, or zero vectors, are stored under the
\* ids of the chunks. The store deletes the ids and then adds them; when both
\* attempts fail the ids may be as they were, or gone.
FinishUpsert(k) ==
  /\ upserting[k]
  /\ LET e == Head(queue[k]).entries IN
     \/ /\ vectors' = [vectors EXCEPT ![k] = @ \cup e]
        /\ missed' = [missed EXCEPT ![k] = @ \ e]
     \/ /\ \E v \in {vectors[k], vectors[k] \ e} : vectors' = [vectors EXCEPT ![k] = v]
        /\ missed' = [missed EXCEPT ![k] = @ \cup e]
  /\ upserting' = [upserting EXCEPT ![k] = FALSE]
  /\ HeadEnds(k)
  /\ UNCHANGED <<clock, saves, store, writer, tables, behind, lost, torn>>

\* The queued vectorStore.delete; a failure is logged.
RunDelete(k) ==
  /\ HeadIs(k, "delete")
  /\ LET e == Head(queue[k]).entries IN
     \/ /\ vectors' = [vectors EXCEPT ![k] = @ \ e]
        /\ UNCHANGED lost
     \/ /\ lost' = [lost EXCEPT ![k] = @ \cup (vectors[k] \cap e)]
        /\ UNCHANGED vectors
  /\ HeadEnds(k)
  /\ UNCHANGED <<clock, saves, store, writer, tables, upserting, behind, missed, torn>>

-----------------------------------------------------------------------------
\* delete().

\* Flue's store is asked whether it has the session, whatever it answers.
Delete(d, k) ==
  /\ calls[d].pc = "idle"
  /\ calls' = [calls EXCEPT ![d] = [pc |-> "drop", key |-> k, target |-> k,
                                    exact |-> Stored(k), ahead |-> 0]]
  /\ UNCHANGED <<clock, saves, store, writer, tables, vectors, queue, upserting, history>>

\* flueSessions.delete.
Drop(d) ==
  /\ calls[d].pc = "drop"
  /\ store' = [store EXCEPT ![calls[d].target] = Absent]
  /\ calls' = [calls EXCEPT ![d].pc = "unindex"]
  /\ UNCHANGED <<clock, saves, writer, tables, vectors, queue, upserting, history>>

\* deleteFlueSession up to its await: the rows go, the vectors are queued, and the
\* call waits for all the chain has at this moment.
Unindex(d) ==
  /\ calls[d].pc = "unindex"
  /\ LET k == calls[d].target IN
     /\ rows' = [rows EXCEPT ![k] = 0]
     /\ chunks' = [chunks EXCEPT ![k] = {}]
     /\ queue' = DeletedIds(k)
     /\ calls' = [calls EXCEPT ![d].pc = "wait", ![d].ahead = Len(queue'[k])]
     /\ behind' = IF Stored(k) THEN behind \cup {k} ELSE behind
  /\ UNCHANGED <<clock, saves, store, writer, latest, vectors, upserting, missed, lost, torn>>

\* What flue_logical_sessions may become: the newest indexed session takes the
\* place of the deleted one. Ties are broken by columns the model has not.
Repointed(k) ==
  IF latest.key # k THEN {latest}
  ELSE IF \A j \in Keys : rows[j] = 0 THEN {NoLatest}
  ELSE {[key |-> j, stamp |-> rows[j]] :
          j \in {i \in Keys : rows[i] # 0 /\ \A j \in Keys : rows[j] <= rows[i]}}

\* The rest of deleteFlueSession. delete() returns if Flue had the session; if
\* not, it goes on to delete the latest of the logical session.
Settle(d) ==
  /\ calls[d].pc = "wait" /\ calls[d].ahead = 0
  /\ latest' \in Repointed(calls[d].target)
  /\ calls' = [calls EXCEPT ![d] =
       IF calls[d].exact \/ calls[d].target # calls[d].key
          \/ latest'.key \in {Nobody, calls[d].key}
       THEN Idle
       ELSE [calls[d] EXCEPT !.pc = "drop", !.target = latest'.key]]
  /\ UNCHANGED <<clock, saves, store, writer, rows, chunks, vectors, queue, upserting, history>>

-----------------------------------------------------------------------------

\* The pointer names a session by its row.
Intact(p) == p.key # Nobody => rows[p.key] = p.stamp

InIndex(k) == [entries |-> chunks[k], stamp |-> rows[k]]

\* The process dies and starts again: the two databases and the vectors are what
\* is left.
Crash ==
  /\ writer' = [k \in Keys |-> Absent]
  /\ queue' = [k \in Keys |-> <<>>]
  /\ upserting' = [k \in Keys |-> FALSE]
  /\ calls' = [d \in Deleters |-> Idle]
  /\ behind' = {k \in Keys : store[k] # InIndex(k)}
  /\ missed' = [k \in Keys |-> chunks[k] \ vectors[k]]
  /\ lost' = [k \in Keys |-> vectors[k] \ chunks[k]]
  /\ torn' = IF Intact(latest) THEN torn ELSE latest
  /\ UNCHANGED <<clock, saves, store, tables, vectors>>

Next ==
  \/ \E k \in Keys : \/ Save(k) \/ Queue(k)
                     \/ RunRecord(k) \/ FinishUpsert(k) \/ RunDelete(k)
  \/ \E d \in Deleters : \/ \E k \in Keys : Delete(d, k)
                         \/ Drop(d) \/ Unindex(d) \/ Settle(d)
  \/ Crash

Spec == Init /\ [][Next]_vars

-----------------------------------------------------------------------------
\* Properties.

\* No save of k waits to be indexed.
Settled(k) == queue[k] = <<>> /\ writer[k] = Absent

\* Once a key is settled its rows are those of its last save: the chain runs the
\* saves in their order, whatever deletions come between. Not claimed of a key
\* that a crash left behind, or that was saved between the two deletions of a call.
IndexFollowsStore ==
  \A k \in Keys : Settled(k) /\ Stored(k) /\ k \notin behind => InIndex(k) = store[k]

\* Once a key's chain is empty no vector is left of an entry that is no longer
\* indexed, so a search does not answer with memory that was deleted; but for
\* ids whose deletion failed or was forgotten by a crash.
NoForgottenVectors ==
  \A k \in Keys : queue[k] = <<>> => vectors[k] \subseteq chunks[k] \cup lost[k]

\* The logical session points at the newest session that is indexed, or at one
\* whose row a call of delete() removed and is about to repoint; a crash of such
\* a call leaves the pointer as it was.
PointerIsNewest ==
  \/ latest = torn /\ torn # NoLatest
  \/ \E d \in Deleters : calls[d].pc = "wait" /\ calls[d].target = latest.key
  \/ /\ Intact(latest)
     /\ \A k \in Keys : rows[k] <= latest.stamp

\* Each indexed entry of a settled session has its vector, but for those whose upsert
\* failed or was cut off by a crash.
IndexedIsSearchable ==
  \A k \in Keys : Settled(k) => chunks[k] \subseteq vectors[k] \cup missed[k]

=============================================================================
