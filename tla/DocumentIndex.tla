----------------------------- MODULE DocumentIndex -----------------------------
(***************************************************************************)
(* The indexes of the vector store (lance-db-store.ts) that documents and  *)
(* knowledge are written to: indexing runs, one at startup and one for     *)
(* each POST /api/knowledge/reindex (background-indexer.ts, knowledge.ts), *)
(* and additions of knowledge (knowledge-store.ts).  An upsert deletes the *)
(* rows with its ids and then adds rows; nothing keeps two writers apart.  *)
(*                                                                         *)
(* The id of a row is a hash of its file and content, so a file that       *)
(* changes has rows of another id and the old ones are stale.  One of the  *)
(* two collections of documents is modelled, one chunk for each file.      *)
(***************************************************************************)
EXTENDS Integers, Sequences, FiniteSets, SequencesExt

CONSTANTS
  IndexRuns,       \* indexing runs
  Additions,  \* additions of knowledge
  Files,
  FileVersions,   \* contents of a file
  BatchSize,  \* of the records embedded and stored together
  MaxFaults,  \* bound on restarts, failures and changes of files
  Gone        \* in place of the version: no such file

Writers == IndexRuns \cup Additions
Documents == Files \X FileVersions

\* A run ends, and takes a batch at a time; ids of the rows and of the writers are distinct.
ASSUME IndexAssumption ==
  /\ IsFiniteSet(Files)
  /\ BatchSize \in Nat \ {0}
  /\ IndexRuns \cap Additions = {}
  /\ Documents \cap Additions = {}

VARIABLES
  disk,    \* the files
  table,   \* rows there are of each id
  writer,  \* how far each run or addition is
  faults

indexVars == <<disk, table, writer, faults>>

IdleWriter == [pc |-> "idle", records |-> <<>>, keep |-> {}, stale |-> {}, alone |-> FALSE]

IndexTypeOK ==
  /\ disk \in [Files -> FileVersions \cup {Gone}]
  /\ table \in [Documents \cup Additions -> 0..Cardinality(Writers)]
  /\ \A w \in Writers :
       /\ writer[w].pc \in {"idle", "embed", "open", "delete", "add", "list", "prune", "done", "failed"}
       /\ Range(writer[w].records) \subseteq DOMAIN table
       /\ writer[w].keep \cup writer[w].stale \subseteq Documents
       /\ writer[w].alone \in BOOLEAN
  /\ faults \in 0..MaxFaults

IndexInit ==
  /\ disk \in [Files -> FileVersions \cup {Gone}]
  /\ table = [id \in Documents \cup Additions |-> 0]
  /\ writer = [w \in Writers |-> IdleWriter]
  /\ faults = 0

WriterAt(w, pc) == [writer EXCEPT ![w].pc = pc]

Active(w) == writer[w].pc \notin {"idle", "done", "failed"}

Fault == faults < MaxFaults /\ faults' = faults + 1

\* The first batch of the records that are left.
Batch(w) == {writer[w].records[i] : i \in {i \in DOMAIN writer[w].records : i <= BatchSize}}

Present == {f \in Files : disk[f] # Gone}

\* The files that can be read; one that cannot is left out, and its rows become stale.
BeginRun(r) ==
  /\ ~Active(r)
  /\ \E readable \in SUBSET Present :
       /\ IF readable = Present THEN UNCHANGED faults ELSE Fault
       /\ LET found == {<<f, disk[f]>> : f \in readable}
          IN  writer' = [w \in Writers |->
                IF w = r THEN [pc |-> IF found = {} THEN "list" ELSE "embed", records |-> SetToSeq(found),
                               keep |-> found, stale |-> {},
                               alone |-> \A v \in IndexRuns \ {r} : ~Active(v)]
                ELSE [writer[w] EXCEPT !.alone = FALSE]]
  /\ UNCHANGED <<disk, table>>

\* LanceDbKnowledgeStore.add, with an id of its own.
AddKnowledge(a) ==
  /\ writer[a].pc = "idle"
  /\ writer' = [writer EXCEPT ![a].pc = "embed", ![a].records = <<a>>]
  /\ UNCHANGED <<disk, table, faults>>

\* A failure to embed gives vectors of zeros; a wrong number of vectors ends the run.
EmbedBatch(w) ==
  /\ writer[w].pc = "embed"
  /\ writer' = WriterAt(w, "open")
  /\ UNCHANGED <<disk, table, faults>>

\* openOrCreateTable: a new table is created with the rows.
Open(w) ==
  /\ writer[w].pc = "open"
  /\ table' = IF \A id \in DOMAIN table : (id \in Additions <=> w \in Additions) => table[id] = 0
              THEN [id \in DOMAIN table |-> IF id \in Batch(w) THEN 1 ELSE table[id]] ELSE table
  /\ writer' = WriterAt(w, "delete")
  /\ UNCHANGED <<disk, faults>>

\* Mutant: the rows there are stay.
KeepRows(ids) == UNCHANGED table

RemoveRows(ids) == table' = [id \in DOMAIN table |-> IF id \in ids THEN 0 ELSE table[id]]

DeleteBatch(w) ==
  /\ writer[w].pc = "delete"
  /\ RemoveRows(Batch(w))
  /\ writer' = WriterAt(w, "add")
  /\ UNCHANGED <<disk, faults>>

AddRows(w) ==
  /\ writer[w].pc = "add"
  /\ table' = [id \in DOMAIN table |-> IF id \in Batch(w) THEN table[id] + 1 ELSE table[id]]
  /\ LET left == SubSeq(writer[w].records, BatchSize + 1, Len(writer[w].records))
     IN  writer' = [writer EXCEPT
           ![w].pc = IF w \in Additions THEN "done" ELSE IF left = <<>> THEN "list" ELSE "embed",
           ![w].records = left]
  /\ UNCHANGED <<disk, faults>>

\* listIds, and what of it is not among the records of the run.
List(r) ==
  /\ writer[r].pc = "list"
  /\ writer' = [writer EXCEPT ![r].pc = "prune", ![r].stale = {id \in Documents \ writer[r].keep : table[id] > 0}]
  /\ UNCHANGED <<disk, table, faults>>

Prune(r) ==
  /\ writer[r].pc = "prune"
  /\ RemoveRows(writer[r].stale)
  /\ writer' = WriterAt(r, "done")
  /\ UNCHANGED <<disk, faults>>

-----------------------------------------------------------------------------
\* A failure of the store or of the model ends the run; the rows stay as they are.
Fail(w) ==
  /\ Active(w)
  /\ Fault
  /\ writer' = WriterAt(w, "failed")
  /\ UNCHANGED <<disk, table>>

RestartIndexer ==
  /\ Fault
  /\ writer' = [w \in Writers |-> IF Active(w) THEN [writer[w] EXCEPT !.pc = "failed"] ELSE writer[w]]
  /\ UNCHANGED <<disk, table>>

Change(f) ==
  /\ Fault
  /\ \E v \in FileVersions \cup {Gone} : v # disk[f] /\ disk' = [disk EXCEPT ![f] = v]
  /\ UNCHANGED <<table, writer>>

IndexNext ==
  \/ \E r \in IndexRuns : BeginRun(r) \/ List(r) \/ Prune(r)
  \/ \E a \in Additions : AddKnowledge(a)
  \/ \E w \in Writers : EmbedBatch(w) \/ Open(w) \/ DeleteBatch(w) \/ AddRows(w) \/ Fail(w)
  \/ RestartIndexer
  \/ \E f \in Files : Change(f)

IndexSpec == IndexInit /\ [][IndexNext]_indexVars

-----------------------------------------------------------------------------
\* A run that no other overlapped leaves one row for each document that it read and none
\* else, whatever earlier runs that overlapped, failed or were cut short have left; and an
\* addition that was answered is there.
IndexIsExact ==
  /\ \A r \in IndexRuns :
       writer[r].pc = "done" /\ writer[r].alone =>
         \A id \in Documents : table[id] = IF id \in writer[r].keep THEN 1 ELSE 0
  /\ \A a \in Additions : writer[a].pc = "done" => table[a] > 0

=============================================================================
