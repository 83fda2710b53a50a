--------------------------- MODULE EditTransactions ---------------------------
(***************************************************************************)
(* The editing tools of the coding worker (coding-repo-tools.ts): a        *)
(* transaction of file writes and exact-text patches, which checks         *)
(* everything, applies it file by file and rolls back on a failure, beside *)
(* another call that reads and writes the same files.                      *)
(*                                                                         *)
(* A content is a sequence of pieces of text.  A path is a file and one of *)
(* its spellings ("a.ts", "./a.ts"): normalizeRepoRelativePath maps it to  *)
(* the file.                                                               *)
(***************************************************************************)
EXTENDS Integers, Sequences, FiniteSets, SequencesExt

CONSTANTS
  Originals,     \* file systems to begin with: functions of the files
  Transactions,  \* what transactions ask for: [writes, edits]
  Patches,       \* what the other call asks for: [path, edits]
  Missing,       \* in place of the content: no such file
  Binary         \* a piece of text no tool overwrites

IsList(s) == Len(s) \in Nat /\ DOMAIN s = 1..Len(s)

ASSUME EditAssumption == \A ask \in Transactions : IsList(ask.writes) /\ IsList(ask.edits)

VARIABLES
  files,    \* the contents on disk
  tx,       \* the transaction
  other,    \* the other call: apply_patch or apply_exact_edit
  before,   \* files as the transaction found them (history)
  shared    \* whether the other call wrote since then (history)

editVars == <<files, tx, other, before, shared>>

File(path) == path[1]

\* [path, operation, status] of the operations applied so far.
Result(path, operation) == [path |-> path, operation |-> operation, status |-> "applied"]

Idle == [pc |-> "idle", ask |-> [writes |-> <<>>, edits |-> <<>>], at |-> 1,
         snapshots |-> <<>>, results |-> <<>>, status |-> "pending", failure |-> <<>>]

EditTypeOK ==
  /\ tx.pc \in {"idle", "check writes", "check edits", "write", "patch", "roll back", "ended"}
  /\ tx.status \in {"pending", "applied", "failed"}
  /\ \A i \in DOMAIN tx.results : tx.results[i].status \in {"applied", "rolled_back", "failed"}
  /\ tx.pc = "ended" <=> tx.status # "pending"
  /\ other.pc \in {"idle", "read", "ended"}
  /\ shared \in BOOLEAN

EditInit ==
  /\ files \in Originals
  /\ tx = Idle
  /\ other = [pc |-> "idle", ask |-> <<>>, content |-> <<>>]
  /\ before = files
  /\ shared = FALSE

-----------------------------------------------------------------------------
\* applyExactTextEdits.

Occurrences(content, text) == Cardinality({i \in DOMAIN content : content[i] = text})

\* validateExactTextEdit; 0 expects nothing.
Fits(edit, content) ==
  /\ Occurrences(content, edit.oldText) > 0
  /\ edit.expected \in {0, Occurrences(content, edit.oldText)}

Replaced(content, edit) ==
  [i \in DOMAIN content |-> IF content[i] = edit.oldText THEN edit.newText ELSE content[i]]

\* Each edit is applied to what the ones before it left; Missing if one does not fit.
Edited(original, edits) ==
  FoldLeft(LAMBDA content, edit :
             IF content # Missing /\ Fits(edit, content) THEN Replaced(content, edit) ELSE Missing,
           original, edits)

IsBinary(content) == Binary \in Range(content)

-----------------------------------------------------------------------------
Begin ==
  /\ tx.pc = "idle"
  /\ \E ask \in Transactions : tx' = [Idle EXCEPT !.pc = "check writes", !.ask = ask]
  /\ before' = files
  /\ shared' = FALSE
  /\ UNCHANGED <<files, other>>

\* The first failure, with its path.
Abort(path) == [tx EXCEPT !.pc = "roll back", !.at = 1, !.failure = path]

Snapshots(f) == [g \in {f} \cup DOMAIN tx.snapshots |-> IF g = f THEN files[f] ELSE tx.snapshots[g]]
Snapped(f)   == [tx EXCEPT !.at = @ + 1, !.snapshots = Snapshots(f)]
Written(ask) == {File(ask.writes[i].path) : i \in DOMAIN ask.writes}

CheckWrite ==
  /\ tx.pc = "check writes"
  /\ tx' = IF tx.at > Len(tx.ask.writes) THEN [tx EXCEPT !.pc = "check edits", !.at = 1]
           ELSE LET path == tx.ask.writes[tx.at].path
                    f    == File(path)
                IN  IF f \in DOMAIN tx.snapshots \/ (files[f] # Missing /\ IsBinary(files[f])) THEN Abort(path)
                    ELSE Snapped(f)
  /\ UNCHANGED <<files, other, before, shared>>

CheckEdit ==
  /\ tx.pc = "check edits"
  /\ tx' = IF tx.at > Len(tx.ask.edits) THEN [tx EXCEPT !.pc = "write", !.at = 1]
           ELSE LET edit == tx.ask.edits[tx.at]
                    f    == File(edit.path)
                IN  IF f \in Written(tx.ask) \/ files[f] = Missing THEN Abort(edit.path)
                    ELSE IF IsBinary(files[f]) \/ ~Fits(edit, files[f]) THEN Abort(edit.path) ELSE Snapped(f)
  /\ UNCHANGED <<files, other, before, shared>>

\* A write that fails may have emptied the file.
WriteFails(path) ==
  tx' = Abort(path) /\ files' \in {files, [files EXCEPT ![File(path)] = <<>>]}

WriteFile ==
  /\ tx.pc = "write"
  /\ IF tx.at > Len(tx.ask.writes) THEN tx' = [tx EXCEPT !.pc = "patch", !.at = 1] /\ UNCHANGED files
     ELSE LET w == tx.ask.writes[tx.at]
          IN  \/ WriteFails(w.path)
              \/ /\ files' = [files EXCEPT ![File(w.path)] = w.content]
                 /\ tx' = [tx EXCEPT !.at = @ + 1, !.results = Append(@, Result(w.path, "write"))]
  /\ UNCHANGED <<other, before, shared>>

\* The edits whose path is one of these, in their order.
EditsAt(edits, paths) == SelectSeq(edits, LAMBDA e : e.path \in paths)

\* The path of an edit if no edit before it has it: groupEditsByPath takes them in that order.
NewPath(n) == \A m \in 1..(n - 1) : tx.ask.edits[m].path # tx.ask.edits[n].path

\* One result for each edit of the path; none before its content is written.
Patch ==
  /\ tx.pc = "patch"
  /\ IF tx.at > Len(tx.ask.edits)
     THEN tx' = [tx EXCEPT !.pc = "ended", !.status = "applied"] /\ UNCHANGED files
     ELSE LET path    == tx.ask.edits[tx.at].path
              content == Edited(tx.snapshots[File(path)], EditsAt(tx.ask.edits, {path}))
              those   == {i \in DOMAIN tx.ask.edits : tx.ask.edits[i].path = path}
          IN  IF ~NewPath(tx.at) THEN tx' = [tx EXCEPT !.at = @ + 1] /\ UNCHANGED files
              ELSE IF content = Missing THEN tx' = Abort(path) /\ UNCHANGED files
              ELSE \/ WriteFails(path)
                   \/ /\ files' = [files EXCEPT ![File(path)] = content]
                      /\ tx' = [tx EXCEPT !.at = @ + 1,
                                          !.results = @ \o [i \in 1..Cardinality(those) |-> Result(path, "patch")]]
  /\ UNCHANGED <<other, before, shared>>

\* Mutant: what the transaction created stays.
KeepCreated(f) == IF tx.snapshots[f] = Missing THEN files ELSE [files EXCEPT ![f] = tx.snapshots[f]]

Restored(f) == [files EXCEPT ![f] = tx.snapshots[f]]

\* rollbackCodingEditTransaction: result by result, each restored or marked.
RollBack ==
  /\ tx.pc = "roll back"
  /\ IF tx.at > Len(tx.results)
     THEN tx' = [tx EXCEPT !.pc = "ended", !.status = "failed"] /\ UNCHANGED files
     ELSE LET f == File(tx.results[tx.at].path)
              Marked(status) == [tx EXCEPT !.at = @ + 1, !.results[tx.at].status = status]
          IN  \/ /\ tx.snapshots[f] = Missing => files[f] # Missing
                 /\ files' = Restored(f)
                 /\ tx' = Marked("rolled_back")
              \/ UNCHANGED files /\ tx' = Marked("failed")
  /\ UNCHANGED <<other, before, shared>>

-----------------------------------------------------------------------------
\* The other call: read, compute, write.

ReadOther ==
  /\ other.pc = "idle"
  /\ \E ask \in Patches :
       LET f       == File(ask.path)
           content == IF files[f] = Missing THEN Missing ELSE Edited(files[f], ask.edits)
       IN  other' = [pc |-> IF content = Missing THEN "ended" ELSE "read", ask |-> ask, content |-> content]
  /\ UNCHANGED <<files, tx, before, shared>>

Store ==
  /\ other.pc = "read"
  /\ files' = [files EXCEPT ![File(other.ask.path)] = other.content]
  /\ other' = [other EXCEPT !.pc = "ended"]
  /\ shared' = TRUE
  /\ UNCHANGED <<tx, before>>

EditNext == Begin \/ CheckWrite \/ CheckEdit \/ WriteFile \/ Patch \/ RollBack \/ ReadOther \/ Store

EditSpec == EditInit /\ [][EditNext]_editVars

-----------------------------------------------------------------------------
\* What a transaction is to leave of the files it found: every write, and the edits of each
\* file in turn.
Intended(ask, found, f) ==
  LET paths == {ask.edits[i].path : i \in {i \in DOMAIN ask.edits : File(ask.edits[i].path) = f}}
  IN  IF f \in Written(ask)
      THEN ask.writes[CHOOSE i \in DOMAIN ask.writes : File(ask.writes[i].path) = f].content
      ELSE IF paths # {} THEN Edited(found[f], EditsAt(ask.edits, paths)) ELSE found[f]

OneSpelling(ask) ==
  \A i, j \in DOMAIN ask.edits :
    File(ask.edits[i].path) = File(ask.edits[j].path) => ask.edits[i].path = ask.edits[j].path

\* The files whose restoration failed, and the one whose write did.
Reported(t) ==
  {File(t.failure)} \cup {File(t.results[i].path) : i \in {i \in DOMAIN t.results : t.results[i].status = "failed"}}

\* A transaction that had the files to itself leaves all its writes and edits, or every
\* file as it was, but for those its result names - if it spells each file one way.
AllOrNothing ==
  tx.pc = "ended" /\ ~shared =>
    /\ tx.status = "applied" /\ OneSpelling(tx.ask) => \A f \in DOMAIN files : files[f] = Intended(tx.ask, before, f)
    /\ tx.status = "failed" => \A f \in DOMAIN files \ Reported(tx) : files[f] = before[f]

=============================================================================
