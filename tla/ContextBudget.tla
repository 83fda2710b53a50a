----------------------------- MODULE ContextBudget -----------------------------
(***************************************************************************)
(* How much of the context window a session has used                       *)
(* (src/engine/session/session-budget.ts, compaction-policy.ts and         *)
(* context-budget.ts).  Flue stores a session as a tree of entries with a  *)
(* leaf; the estimate is derived from the path to the leaf, cut at its     *)
(* latest compaction and corrected by the latest count of the provider.    *)
(* A ledger per model, lost on a restart, stands in for missing data.      *)
(* A text is its number of tokens; an entry is named by its position.      *)
(***************************************************************************)
EXTENDS Integers, Sequences, SequencesExt, FiniteSetsExt

CONSTANTS Models,      \* the model cards in use
          Window,      \* the context window a card enforces
          MaxOutput,   \* the most tokens a card puts out
          KeepRecent,  \* the recent tokens that a compaction keeps
          Sizes,       \* the tokens of a text
          Overhead,    \* the tokens of a request that no entry holds: instructions and tools
          MaxEntries   \* bounds the entries of a session

\* Tokens are counted; there is a longest text.
ASSUME ContextBudgetAssumption ==
  /\ Window \in Nat /\ MaxOutput \in Nat /\ KeepRecent \in Nat /\ Overhead \in Nat
  /\ Sizes \subseteq Nat
  /\ \E longest \in Sizes : \A size \in Sizes : size <= longest

VARIABLES entries,  \* the entries of the session, in the order they were stored
          leaf,     \* the entry the session continues from; 0: none
          ledger    \* per model: [tokens, turns, compactions]

budgetVars == <<entries, leaf, ledger>>

Absent == -1   \* the id of an entry that is not stored
None   == 0

Least(a, b)    == IF a < b THEN a ELSE b
Greatest(a, b) == IF a > b THEN a ELSE b
Total(s)       == FoldLeft(+, 0, s)
FirstOf(s, v)  == SelectInSeq(s, LAMBDA k : k = v)

-----------------------------------------------------------------------------
\* The thresholds of a card.
Budget ==
  LET reserve    == Least(MaxOutput, Window \div 4)
      usable     == Greatest(0, Window - reserve)
  IN  [reserve |-> reserve, hardStop |-> usable, warning |-> (usable * 7) \div 10,
       compaction |-> (usable * 85) \div 100]

Status(used) ==
  CASE used > Budget.hardStop                                 -> "stop"
    [] Budget.hardStop >= used /\ used >= Budget.compaction   -> "compact"
    [] Budget.compaction > used /\ used >= Budget.warning     -> "warn"
    [] OTHER                                                  -> "normal"

ShouldCompact(used) == Status(used) \in {"stop", "compact"}

-----------------------------------------------------------------------------
\* What the parent of an entry may be.
Parents == {Absent} \cup 0..Len(entries)

\* The path from the root to an entry; <<Absent>> begins it where a parent is not stored.
Path[i \in Parents] ==
  IF i = None THEN <<>> ELSE IF i = Absent THEN <<Absent>> ELSE Append(Path[entries[i].parent], i)

All == [i \in DOMAIN entries |-> i]

ActivePath == IF leaf # None /\ Head(Path[leaf]) = Absent THEN All ELSE Path[leaf]

IsCompaction(i) == entries[i].type = "compaction"
IsAssistant(i)  == entries[i].type = "assistant"

Marked(s, usable) == [k \in DOMAIN s |-> [entry |-> s[k], useProviderUsage |-> usable]]

\* Mutant: what a compaction keeps is marked as what followed it.
AllUsable(path) ==
  LET latest == SelectLastInSeq(path, IsCompaction)
      kept   == IF latest = 0 THEN 0 ELSE FirstOf(path, entries[path[latest]].firstKept)
  IN  IF latest = 0 THEN Marked(path, TRUE)
      ELSE Marked(<<path[latest]>>, FALSE)
           \o Marked(SubSeq(path, IF kept > 0 THEN kept ELSE latest, latest - 1), TRUE)
           \o Marked(SubSeq(path, latest + 1, Len(path)), TRUE)

\* What the request to come holds of a path: the latest compaction, what it kept, what followed.
\* The provider's count is of use only for what followed.
ContextEntries(path) ==
  LET latest == SelectLastInSeq(path, IsCompaction)
      kept   == IF latest = 0 THEN 0 ELSE FirstOf(path, entries[path[latest]].firstKept)
  IN  IF latest = 0 THEN Marked(path, TRUE)
      ELSE Marked(<<path[latest]>>, FALSE)
           \o Marked(SubSeq(path, IF kept > 0 THEN kept ELSE latest, latest - 1), FALSE)
           \o Marked(SubSeq(path, latest + 1, Len(path)), TRUE)

\* The tokens of entries: the latest usable count of the provider, and the texts since.
EstimateTokens(context) ==
  LET latest  == SelectLastInSeq(context, LAMBDA e : IsCompaction(e.entry))
      usage   == SelectLastInSeq(context, LAMBDA e : /\ e.useProviderUsage
                                                     /\ IsAssistant(e.entry)
                                                     /\ entries[e.entry].usage > 0)
      counted == IF usage > latest THEN usage ELSE 0
      Sum(s)  == Total([k \in DOMAIN s |-> entries[s[k].entry].size])
  IN  IF counted = 0 THEN Sum(context)
      ELSE entries[context[counted].entry].usage + Sum(SubSeq(context, counted + 1, Len(context)))

Derived ==
  [tokens      |-> EstimateTokens(ContextEntries(ActivePath)),
   turns       |-> Len(SelectSeq(ActivePath, IsAssistant)),
   compactions |-> Len(SelectSeq(ActivePath, IsCompaction))]

\* The report for a prompt: from the session's data when it is at hand, else from the ledger.
Report(state, prompt) ==
  [used |-> state.tokens + prompt, status |-> Status(state.tokens + prompt),
   shouldCompact |-> ShouldCompact(state.tokens + prompt)]

-----------------------------------------------------------------------------
\* What the model reads when a session continues from an entry: by the history of the entry.
Context[i \in Parents] ==
  IF i \in {None, Absent} THEN <<>>
  ELSE IF ~IsCompaction(i) THEN Append(Context[entries[i].parent], i)
  ELSE LET before == Context[entries[i].parent]
           first  == FirstOf(before, entries[i].firstKept)
       IN  <<i>> \o (IF first = 0 THEN <<>> ELSE SubSeq(before, first, Len(before)))

ContextSize(i) == Total([k \in DOMAIN Context[i] |-> entries[Context[i][k]].size])

\* The ledger's state of a model is zero until it is saved.
FreshLedger == [tokens |-> 0, turns |-> 0, compactions |-> 0]

\* A session starts empty, or with a message whose parent was not carried over.
BudgetInit ==
  /\ \/ entries = <<>> /\ leaf = None
     \/ /\ entries = <<[type |-> "user", parent |-> Absent, size |-> Max(Sizes), usage |-> 0,
                        firstKept |-> None]>>
        /\ leaf = 1
  /\ ledger = [m \in Models |-> FreshLedger]

Store(type, size, usage, firstKept) ==
  /\ Len(entries) < MaxEntries
  /\ entries' = Append(entries, [type |-> type, parent |-> leaf, size |-> size, usage |-> usage,
                                 firstKept |-> firstKept])
  /\ leaf' = Len(entries) + 1

\* Flue stores a prompt.
Ask == \E size \in Sizes : Store("user", size, 0, None) /\ UNCHANGED ledger

\* What a provider counts for a reply: the request it answers, and the reply.
UsageTokens(size) == Overhead + ContextSize(leaf) + size

RecordPromptUsage(m, prompt, usage, output) ==
  ledger' = [ledger EXCEPT ![m].tokens = Greatest(usage, @ + prompt + output), ![m].turns = @ + 1]

\* Flue stores a reply, of which the provider may count nothing; the prompt's usage is recorded.
Reply(m) ==
  /\ leaf # None
  /\ \E size \in Sizes, counted \in BOOLEAN :
       LET usage  == IF counted THEN UsageTokens(size) ELSE 0
           prompt == IF entries[leaf].type = "user" THEN entries[leaf].size ELSE 0
       IN  /\ Store("assistant", size, usage, None)
           /\ RecordPromptUsage(m, prompt, usage, IF counted THEN size ELSE 0)

RecordManualCompaction(m) ==
  LET allowance == Budget.reserve \div 2
      estimate  == Min({ledger[m].tokens, KeepRecent + allowance, Greatest(0, Budget.compaction - 1)})
  IN  ledger' = [ledger EXCEPT ![m].tokens = estimate, ![m].compactions = @ + 1]

\* Flue compacts: it keeps what is recent of the entries since the compaction before, or nothing.
\* A compaction that a user asks for is recorded; one that Flue starts is not.
Compact ==
  /\ leaf # None
  /\ LET path  == Path[leaf]
         since == SelectLastInSeq(path, LAMBDA i : i # Absent /\ IsCompaction(i)) + 1
     IN  \E size \in Sizes, kept \in {path[k] : k \in since..Len(path)} \cup {Absent} :
           (kept = Absent \/ kept > 0) /\ Store("compaction", size, 0, kept)
  /\ \/ UNCHANGED ledger
     \/ \E m \in Models : RecordManualCompaction(m)

\* The session continues from an earlier entry.
Continue == \E i \in DOMAIN entries \ {leaf} : leaf' = i /\ UNCHANGED <<entries, ledger>>

\* The process restarts: the ledger is lost.
RestartLedger == ledger' = [m \in Models |-> FreshLedger] /\ UNCHANGED <<entries, leaf>>

BudgetNext == Ask \/ (\E m \in Models : Reply(m)) \/ Compact \/ Continue \/ RestartLedger

BudgetSpec == BudgetInit /\ [][BudgetNext]_budgetVars

-----------------------------------------------------------------------------
\* The entries form a tree in the order they were stored.
BudgetTypeOK ==
  /\ \A i \in DOMAIN entries :
       /\ entries[i].type \in {"user", "assistant", "compaction"}
       /\ entries[i].parent \in {Absent} \cup 0..(i - 1)
       /\ entries[i].size \in Sizes /\ entries[i].usage \in Nat
       /\ entries[i].firstKept \in {Absent} \cup 0..(i - 1)
  /\ leaf \in 0..Len(entries)
  /\ ledger \in [Models -> [tokens : Nat, turns : Nat, compactions : Nat]]

\* What the report derives from the session's data is what the model will read: whatever was
\* compacted, replied to or left on another branch before, no count of the provider survives the
\* compaction that made it stale, no text is counted twice or missed, and a prompt that would not
\* fit is told to stop.
ReportFollowsContext ==
  (leaf # None /\ Head(Path[leaf]) # Absent) =>
    \A prompt \in Sizes :
      LET report == Report(Derived, prompt)
          needed == ContextSize(leaf) + prompt
      IN  /\ report.used \in needed..(needed + Overhead)
          /\ needed > Budget.hardStop => report.status = "stop" /\ report.shouldCompact

================================================================================
