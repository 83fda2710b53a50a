----------------------------- MODULE WebResearch -----------------------------
(***************************************************************************)
(* Web research (web-research.ts): runs that plan queries, search, fetch   *)
(* some of the pages found, pack what fits the budget and stop when there  *)
(* is evidence enough, through a cache that the runs share                 *)
(* (cached-web-provider.ts, research-cache.ts, retrieval.ts).  The web is  *)
(* external: a search finds some sources or fails, a page has a size.      *)
(*                                                                         *)
(* A context is a source with its rank (the better the lower), the tokens  *)
(* of its text, whether the text is that of the page fetched or of the     *)
(* search, and the time it was retrieved.                                  *)
(***************************************************************************)
EXTENDS Integers, Sequences, FiniteSets, SequencesExt

CONSTANTS
  ResearchRuns,
  Queries,     \* the queries that can be planned, in the order of the plan
  DeepQueries, \* those that only deep runs plan, and always
  Sources,
  PageSizes,       \* tokens of a snippet or a page
  Results,     \* what searches find, within the limit: sequences of sources
  Settings,    \* resolveResearchSettings
  SearchTtl,   \* how long a search stays in the cache
  PageTtl,     \* how long a page does
  MaxTime      \* bound on the clock

\* readPositiveInteger and readNonNegativeInteger: no payload or environment sets another
\* budget.
ASSUME ResearchAssumption ==
  /\ Queries \in Seq(Range(Queries)) \ {<<>>}
  /\ {SearchTtl, PageTtl, MaxTime} \cup PageSizes \subseteq Nat
  /\ Results \subseteq Seq(Sources)
  /\ Settings # {}
  /\ \A s \in Settings :
       /\ {s.deep, s.complex, s.fresh} \subseteq BOOLEAN
       /\ {s.maxQueries, s.maxIterations, s.minSources, s.maxTokens} \subseteq Nat \ {0}
       /\ s.maxFetches \in Nat

VARIABLES
  clock,
  run,       \* the runs, each with the pages of its own cache
  searches,  \* the shared cache: the contexts of each query and when they expire
  pages      \* the same for the page of each source

researchVars == <<clock, run, searches, pages>>

NoEntry == [contexts |-> <<>>, expires |-> 0]
NoPage == [tokens |-> 0, at |-> 0, expires |-> 0]
ResearchContext == [source: Sources, rank: Nat, tokens: Nat, fetched: BOOLEAN, at: 0..MaxTime]

NotStarted == [pc |-> "idle", settings |-> CHOOSE s \in Settings : TRUE, plan |-> <<>>, at |-> 0,
               iterations |-> 0, found |-> <<>>, contexts |-> <<>>, attempted |-> 0, failures |-> 0,
               started |-> 0, enough |-> FALSE, result |-> <<>>,
               pages |-> [s \in Sources |-> NoPage]]

ResearchTypeOK ==
  /\ clock \in 0..MaxTime
  /\ \A r \in ResearchRuns :
       /\ run[r].pc \in {"idle", "search", "fetch", "pack", "ended"}
       /\ run[r].settings \in Settings
       /\ run[r].at \in 0..Len(run[r].plan)
       /\ Range(run[r].contexts) \cup Range(run[r].found) \cup Range(run[r].result) \subseteq ResearchContext
  /\ \A q \in DOMAIN searches : Range(searches[q].contexts) \subseteq ResearchContext
  /\ \A s \in Sources : pages[s].tokens \in Nat /\ pages[s].at \in 0..clock

ResearchInit ==
  /\ clock = 0
  /\ run = [r \in ResearchRuns |-> NotStarted]
  /\ searches = [q \in Range(Queries) |-> NoEntry]
  /\ pages = [s \in Sources |-> NoPage]

-----------------------------------------------------------------------------
\* buildResearchQueryPlan: the request, the variants that its words call for and those of
\* a deep run, up to maxQueries.
Planned(asked) ==
  LET upTo[n \in 0..Len(Queries)] ==
        IF n = 0 THEN <<>>
        ELSE IF Queries[n] \in asked THEN Append(upTo[n - 1], Queries[n]) ELSE upTo[n - 1]
  IN  upTo[Len(Queries)]

Plan(variants, settings) ==
  LET planned == Planned({Queries[1]} \cup variants \cup (IF settings.deep THEN DeepQueries ELSE {}))
  IN  SubSeq(planned, 1, IF Len(planned) < settings.maxQueries THEN Len(planned) ELSE settings.maxQueries)

\* An iteration of a deep run is a share of the plan, that of another all of it.
\* Mutant: the share is rounded down.
ShareBelow(plan, settings) ==
  IF settings.deep THEN IF Len(plan) < settings.maxIterations THEN 1 ELSE Len(plan) \div settings.maxIterations
  ELSE Len(plan)

PerIteration(plan, settings) ==
  IF settings.deep THEN (Len(plan) + settings.maxIterations - 1) \div settings.maxIterations ELSE Len(plan)

BeginResearch(r) ==
  /\ run[r].pc = "idle"
  /\ \E settings \in Settings, variants \in SUBSET (Range(Queries) \ DeepQueries) :
       run' = [run EXCEPT ![r] = [NotStarted EXCEPT
         !.pc = "search", !.settings = settings, !.plan = Plan(variants, settings),
         !.iterations = 1, !.started = clock]]
  /\ UNCHANGED <<clock, searches, pages>>

\* Mutants: a fresh run reads the cache too; what is in the cache stays good.
AnyRun(settings, entry) == entry.expires > clock
NeverExpires(settings, entry) == ~settings.fresh /\ entry.expires > 0

\* An entry of the cache that has not expired, unless the run wants fresh answers.
Usable(settings, entry) == ~settings.fresh /\ entry.expires > clock

\* What a fresh run stores has expired, and takes the place of what had not.
Expires(settings, ttl) == clock + (IF settings.fresh THEN 0 ELSE ttl)

\* RagRouter, to which a failure is no context.
Finds(r, contexts, failures) ==
  run' = [run EXCEPT ![r].pc = "fetch", ![r].failures = @ + failures, ![r].found = contexts]

\* CachedWebSearchProvider.retrieve
Search(r) ==
  LET query    == run[r].plan[run[r].at + 1]
      settings == run[r].settings
  IN  /\ run[r].pc = "search"
      /\ IF Usable(settings, searches[query])
         THEN Finds(r, searches[query].contexts, 0) /\ UNCHANGED searches
         ELSE \/ \E sources \in Results, size \in PageSizes :
                   LET contexts == [i \in DOMAIN sources |->
                         [source |-> sources[i], rank |-> i, tokens |-> size,
                          fetched |-> FALSE, at |-> clock]]
                   IN  /\ Finds(r, contexts, 0)
                       /\ searches' = [searches EXCEPT ![query] =
                            [contexts |-> contexts, expires |-> Expires(settings, SearchTtl)]]
              \/ Finds(r, <<>>, 1) /\ UNCHANGED searches
      /\ UNCHANGED <<clock, pages>>

-----------------------------------------------------------------------------
\* retrieval.ts

RemainingFetches(r) ==
  IF run[r].settings.maxFetches > run[r].attempted THEN run[r].settings.maxFetches - run[r].attempted ELSE 0

\* isSourceBackedPrompt: whether a page is fetched in the mode "auto" is up to the words.
Fetching(settings) ==
  CASE settings.webFetch = "always" -> {TRUE} [] settings.webFetch = "never" -> {FALSE} [] OTHER -> BOOLEAN

\* What has been packed, and what is left of the budget.
EmptyPack(budget) == [left |-> budget, out |-> <<>>]
PutInto(pack, context) == [pack EXCEPT !.left = @ - context.tokens, !.out = Append(@, context)]

\* packContexts: each in turn, cut to what is left when it does not fit, until nothing is.
PutTrimmed(pack, context) ==
  IF context.tokens <= pack.left THEN PutInto(pack, context)
  ELSE IF pack.left = 0 THEN pack
  ELSE PutInto(pack, [context EXCEPT !.tokens = pack.left])

Packed(contexts, budget) ==
  LET upTo[n \in 0..Len(contexts)] ==
        IF n = 0 THEN EmptyPack(budget) ELSE PutTrimmed(upTo[n - 1], contexts[n])
  IN  upTo[Len(contexts)].out

\* packUniqueContexts: the best of each source in turn, left out when it does not fit.
Best(contexts, rest) ==
  CHOOSE i \in rest : \A j \in rest :
    \/ contexts[i].rank < contexts[j].rank
    \/ contexts[i].rank = contexts[j].rank /\ i <= j

PutBest(contexts, state) ==
  LET best == contexts[Best(contexts, state.rest)]
  IN  IF state.rest = {} THEN state
      ELSE [rest |-> {i \in state.rest : contexts[i].source # best.source},
            pack |-> IF best.tokens <= state.pack.left THEN PutInto(state.pack, best) ELSE state.pack]

PackedUnique(contexts, budget) ==
  LET after[n \in 0..Len(contexts)] ==
        IF n = 0 THEN [rest |-> DOMAIN contexts, pack |-> EmptyPack(budget)]
        ELSE PutBest(contexts, after[n - 1])
  IN  after[Len(contexts)].pack.out

SourcesOf(contexts) == {contexts[i].source : i \in DOMAIN contexts}

\* hasEnoughEvidence; isComplexResearchPrompt is part of the settings.
Enough(settings, contexts, searched) ==
  /\ Cardinality(SourcesOf(contexts)) >= settings.minSources
  /\ IF settings.deep THEN searched >= 2 \/ searched >= settings.maxQueries
     ELSE settings.complex => searched >= 2

\* ResearchRunCache.getPage
PageOf(r, s) == IF Usable(run[r].settings, run[r].pages[s]) THEN run[r].pages[s] ELSE pages[s]

\* enrichWebResults: the page in place of the snippet, if there is one that is not empty.
WithPage(context, page) ==
  IF page.tokens = 0 THEN context
  ELSE [context EXCEPT !.tokens = page.tokens, !.fetched = TRUE, !.at = page.at, !.rank = @ - 1]

\* The run and the cache take the pages that the web answered, the contexts theirs.
FetchPages(r, wanted, cached, answered, page) ==
  LET old       == run[r]
      Source(i) == old.found[i].source
      Fetched(s) == \E i \in answered : Source(i) = s
  IN  /\ pages' = [s \in Sources |-> IF Fetched(s) THEN page ELSE pages[s]]
      /\ run' = [run EXCEPT ![r] = [old EXCEPT
           !.pc = "pack",
           !.attempted = old.attempted + Cardinality(wanted),
           !.pages = [s \in Sources |->
              IF Fetched(s) THEN page
              ELSE IF \E i \in cached : Source(i) = s THEN PageOf(r, s) ELSE old.pages[s]],
           !.found = [i \in DOMAIN old.found |->
              IF i \in cached THEN WithPage(old.found[i], PageOf(r, Source(i)))
              ELSE IF i \in answered THEN WithPage(old.found[i], page) ELSE old.found[i]]]]

\* The pages of the first contexts, from the caches or the web, where each can fail.
Fetch(r) ==
  LET settings == run[r].settings
      found    == run[r].found
  IN  /\ run[r].pc = "fetch"
      /\ \E fetch \in Fetching(settings), size \in PageSizes \cup {0} :
           LET wanted == IF fetch THEN {i \in DOMAIN found : i <= RemainingFetches(r)} ELSE {}
               cached == {i \in wanted : Usable(settings, PageOf(r, found[i].source))}
               page   == [tokens |-> size, at |-> clock, expires |-> Expires(settings, PageTtl)]
           IN  \E answered \in SUBSET (wanted \ cached) : FetchPages(r, wanted, cached, answered, page)
      /\ UNCHANGED <<clock, searches>>

\* The contexts of the query are packed, and the run goes on or ends.
Pack(r) ==
  LET old      == run[r]
      settings == old.settings
      searched == old.at + 1
      contexts == old.contexts \o Packed(old.found, settings.maxTokens)
      enough   == Enough(settings, contexts, searched)
      iterationOver == searched % PerIteration(old.plan, settings) = 0
      over     == \/ searched = Len(old.plan)
                  \/ enough
                  \/ iterationOver /\ old.iterations = settings.maxIterations
  IN  /\ old.pc = "pack"
      /\ run' = [run EXCEPT ![r] = [old EXCEPT
           !.pc = IF over THEN "ended" ELSE "search",
           !.at = searched, !.found = <<>>, !.contexts = contexts, !.enough = enough,
           !.iterations = IF iterationOver /\ ~over THEN old.iterations + 1 ELSE old.iterations,
           !.result = IF over THEN PackedUnique(contexts, settings.maxTokens) ELSE <<>>]]
      /\ UNCHANGED <<clock, searches, pages>>

Tick == clock < MaxTime /\ clock' = clock + 1 /\ UNCHANGED <<run, searches, pages>>

ResearchNext == (\E r \in ResearchRuns : BeginResearch(r) \/ Search(r) \/ Fetch(r) \/ Pack(r)) \/ Tick

ResearchSpec == ResearchInit /\ [][ResearchNext]_researchVars

-----------------------------------------------------------------------------
TokensOf(contexts) ==
  LET upTo[n \in 0..Len(contexts)] == IF n = 0 THEN 0 ELSE upTo[n - 1] + contexts[n].tokens
  IN  upTo[Len(contexts)]

\* A run ends with evidence enough or with every query of its plan run, in however many
\* iterations, and within its budgets of pages, queries and tokens, though it shares the
\* cache and each query has budgets of its own.
ResearchIsBounded ==
  \A r \in ResearchRuns :
    /\ run[r].attempted <= run[r].settings.maxFetches
    /\ run[r].iterations <= run[r].settings.maxIterations
    /\ run[r].pc = "ended" =>
         /\ run[r].enough \/ run[r].at = Len(run[r].plan)
         /\ TokensOf(run[r].result) <= run[r].settings.maxTokens
         /\ Cardinality(SourcesOf(run[r].result)) = Len(run[r].result)

TtlOf(context) == IF context.fetched THEN PageTtl ELSE SearchTtl

\* What a fresh run gathers was retrieved after it began; what another gathers is no search
\* that had expired by then, and no page that had, however often both are handed from run to
\* run and to the run's own cache.
AsFreshAsAsked ==
  \A r \in ResearchRuns : \A i \in DOMAIN run[r].contexts :
    LET context == run[r].contexts[i] IN
      \/ context.at >= run[r].started
      \/ /\ ~run[r].settings.fresh
         /\ context.at + TtlOf(context) > run[r].started

=============================================================================
