---------------------------- MODULE RunTelemetry ----------------------------
(***************************************************************************)
(* The telemetry of Flue's runs (src/core/telemetry/flue-telemetry.ts) and *)
(* the routes that serve it (src/api/routes/telemetry.ts).  The store      *)
(* keeps the newest events of the newest runs in memory; what it no longer *)
(* has, the route reads from the events that Flue persists of a run.       *)
(***************************************************************************)
EXTENDS Integers, Sequences, SequencesExt

CONSTANTS
  Runs,         \* ids of runs
  NoRun,        \* no run at all
  Kinds,        \* kinds of events: "delegation", "search", "error", "plain", "delta"
  MaxRuns,      \* options.maxRuns
  MaxEvents,    \* options.maxEventsPerRun
  MaxUnscoped,  \* options.maxUnscopedEvents
  MaxMutations, \* options.maxMemoryMutations
  MaxTotal      \* bound on the events of all runs

ASSUME TelemetryAssumption ==
  /\ NoRun \notin Runs
  /\ {MaxRuns, MaxEvents} \subseteq Nat \ {0}
  /\ {MaxUnscoped, MaxMutations} \subseteq Nat

VARIABLES
  happened,  \* the events of each run so far, which Flue persists (external)
  kept,      \* eventsByRunId: the events in memory, <<>> for a run without an entry
  order,     \* the keys of eventsByRunId, in the order of their insertion
  unscoped,  \* length of unscopedEvents
  mutations, \* length of memoryMutations
  latest     \* the run whose event was recorded last in this process (history)

telemetryVars == <<happened, kept, order, unscoped, mutations, latest>>

TelemetryTypeOK ==
  /\ happened \in [Runs -> Seq(Kinds)]
  /\ kept \in [Runs -> Seq(Kinds \ {"delta"})]
  /\ order \in Seq(Runs)
  /\ \A r \in Runs : r \in ToSet(order) <=> kept[r] # <<>>
  /\ unscoped \in 0..MaxUnscoped
  /\ mutations \in 0..MaxMutations
  /\ latest \in Runs \cup {NoRun}

TelemetryInit ==
  /\ happened = [r \in Runs |-> <<>>]
  /\ kept = [r \in Runs |-> <<>>]
  /\ order = <<>>
  /\ unscoped = 0
  /\ mutations = 0
  /\ latest = NoRun

-----------------------------------------------------------------------------
\* Deltas and messages are dropped; starts, ends, turns, tools and tasks are kept.
ShouldKeepEvent(kind) == kind # "delta"

\* The summaries of the events that are kept.
Summaries(events) ==
  LET upTo[n \in 0..Len(events)] ==
        IF n = 0 THEN <<>>
        ELSE IF ShouldKeepEvent(events[n]) THEN Append(upTo[n - 1], events[n]) ELSE upTo[n - 1]
  IN  upTo[Len(events)]

\* Mutant: the splice takes from the end of the array.
TrimEnd(values, max) == IF Len(values) > max THEN SubSeq(values, 1, max) ELSE values

TrimArray(values, max) ==
  IF Len(values) > max THEN SubSeq(values, Len(values) - max + 1, Len(values)) ELSE values

\* The oldest entries go until no more than MaxRuns are left.
TrimRuns(keys) == TrimArray(keys, MaxRuns)

TotalEvents == FoldFunction(LAMBDA events, n : n + Len(events), 0, happened)

\* An event of a run reaches the observer.  A run that has no entry gets the last one,
\* also when it had one before, and the oldest entries make room for it.
RecordRun(r, kind) ==
  /\ TotalEvents < MaxTotal
  /\ happened' = [happened EXCEPT ![r] = Append(@, kind)]
  /\ IF ShouldKeepEvent(kind)
     THEN /\ order' = TrimRuns(IF r \in ToSet(order) THEN order ELSE Append(order, r))
          /\ kept' = [q \in Runs |->
                        IF q \notin ToSet(order') THEN <<>>
                        ELSE IF q = r THEN TrimArray(Append(kept[r], kind), MaxEvents)
                        ELSE kept[q]]
          /\ latest' = r
     ELSE UNCHANGED <<order, kept, latest>>
  /\ UNCHANGED <<unscoped, mutations>>

\* An event that belongs to no run.
RecordUnscoped ==
  /\ unscoped' = IF unscoped < MaxUnscoped THEN unscoped + 1 ELSE unscoped
  /\ UNCHANGED <<happened, kept, order, mutations, latest>>

\* A tool of the memory helper tells of its write, when the write has succeeded.
EmitMemoryMutation ==
  /\ mutations' = IF mutations < MaxMutations THEN mutations + 1 ELSE mutations
  /\ UNCHANGED <<happened, kept, order, unscoped, latest>>

\* The process starts again with an empty store and registers its observer.
RestartTelemetry ==
  /\ kept' = [r \in Runs |-> <<>>]
  /\ order' = <<>>
  /\ unscoped' = 0
  /\ mutations' = 0
  /\ latest' = NoRun
  /\ UNCHANGED happened

TelemetryNext ==
  \/ \E r \in Runs, kind \in Kinds : RecordRun(r, kind)
  \/ RecordUnscoped
  \/ EmitMemoryMutation
  \/ RestartTelemetry

TelemetrySpec == TelemetryInit /\ [][TelemetryNext]_telemetryVars

-----------------------------------------------------------------------------
\* What the route answers.

NoSummary == [events |-> <<>>, delegated |-> FALSE, searched |-> FALSE, errors |-> 0]

SummarizeRun(events) ==
  [events    |-> events,
   delegated |-> "delegation" \in ToSet(events),
   searched  |-> "search" \in ToSet(events),
   errors    |-> Len(SelectSeq(events, LAMBDA kind : kind = "error"))]

\* The events that Flue gives of a run, where it gives them.
Persisted(r) == {SummarizeRun(Summaries(happened[r])), NoSummary}

Answers(r) == IF kept[r] # <<>> THEN {SummarizeRun(kept[r])} ELSE Persisted(r)

\* Whatever was trimmed, evicted or lost in a restart in between, a summary tells the
\* newest events of its run, all those since the first it tells, in their order; and the
\* run that was heard of last is always found.  (A head may be missing: then `delegated`
\* and `searched` can be false of a run that did delegate or search.)
SummariesAreTails ==
  /\ \A r \in Runs : \A summary \in Answers(r) :
       summary # NoSummary => IsSuffix(summary.events, Summaries(happened[r]))
  /\ latest # NoRun => NoSummary \notin Answers(latest)

=============================================================================
