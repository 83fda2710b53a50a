------------------------------- MODULE MCWorkers -------------------------------
(***************************************************************************)
(* Small instances, for TLC, of the loop of the coding worker and of the   *)
(* research of the researcher.  A behavior is one of a single component,   *)
(* chosen at the start; the other stays in its initial state.              *)
(***************************************************************************)
EXTENDS CodingLoop, WebResearch, TLC

VARIABLE component

\* Web research: a fresh run of few queries, and a deep one: a page expires before a
\* search does, and both within the time there is.
PlannedQueries == <<"q1", "q2", "q3">>
BothSources    == {<<"a", "b">>}

FreshRun == [deep |-> FALSE, complex |-> TRUE, fresh |-> TRUE, webFetch |-> "auto", maxQueries |-> 2,
             maxFetches |-> 1, maxTokens |-> 3, minSources |-> 2, maxIterations |-> 1]
DeepRun  == [deep |-> TRUE, complex |-> FALSE, fresh |-> FALSE, webFetch |-> "always", maxQueries |-> 3,
             maxFetches |-> 2, maxTokens |-> 3, minSources |-> 2, maxIterations |-> 2]
FreshAndDeep == {FreshRun, DeepRun}

NoTask == [directive |-> FALSE, github |-> FALSE, commands |-> {}, maxTurns |-> 0]

\* Nothing tells the runs of a research apart.
Perms == Permutations(ResearchRuns)

-----------------------------------------------------------------------------
WorkersInit ==
  /\ component \in {"coding", "research"}
  /\ LoopInit /\ (component # "coding" => task = NoTask)
  /\ ResearchInit

WorkersNext ==
  /\ UNCHANGED component
  /\ \/ component = "coding" /\ LoopNext
     \/ component # "coding" /\ UNCHANGED loopVars
  /\ \/ component = "research" /\ ResearchNext
     \/ component # "research" /\ UNCHANGED researchVars

workersVars == <<component, loopVars, researchVars>>

WorkersSpec == WorkersInit /\ [][WorkersNext]_workersVars

=============================================================================
