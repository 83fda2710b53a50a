---------------------------- MODULE ProtocolStore ----------------------------
(***************************************************************************)
(* The table of protocols.  Every provider that is opened - by a gateway   *)
(* as it loads its tools, by the capability manager, by the CLI, which may *)
(* be of another release - first brings the base protocols of its release  *)
(* into the table, statement by statement (sqlite-protocol-provider.ts),   *)
(* while protocol-admin.mjs lets an operator seed, add, remove, enable and *)
(* disable.  A statement is a step; no transaction spans two.              *)
(***************************************************************************)
EXTENDS FiniteSets, Integers

CONSTANTS
  ProtocolIds,
  LookedUp,     \* the events that protocols are loaded for, as far as selectors tell them apart
  BaseTexts,    \* what base protocols say
  UserTexts,    \* what an operator's protocols say
  NoSeed,
  Releases,
  SeedsOf,      \* baseProtocolSeeds of each release
  ScriptSeeds,  \* the seeds of protocol-admin.mjs
  Providers,    \* processes that open a provider
  Admins        \* processes of the script

\* A base protocol: what it says, and the events that its selector matches.
Seeds   == [ProtocolIds -> [text: BaseTexts, events: SUBSET LookedUp] \cup {NoSeed}]
SeedIds(seeds) == {id \in ProtocolIds : seeds[id] # NoSeed}

ASSUME ProtocolAssumption ==
  /\ NoSeed \notin [text: BaseTexts, events: SUBSET LookedUp]
  /\ SeedsOf \in [Releases -> Seeds] /\ ScriptSeeds \in Seeds

VARIABLES
  protocols,  \* the table
  opening,    \* how far each provider is as it is opened: of which release, what it found and has to do
  command,    \* what each process of the script is about to do
  settled,    \* the releases of which one was seeded last, undisturbed; at most one (history)
  withdrawn   \* ids that have no row because a user removed it (history)

protocolVars == <<protocols, opening, command, settled, withdrawn>>

Row(scope, source, enabled, text, matched) ==
  [scope |-> scope, source |-> source, enabled |-> enabled, text |-> text, events |-> matched]

NoRow == Row("none", "none", FALSE, NoSeed, {})

SeedRow(seed)          == Row("base", "seed", TRUE, seed.text, seed.events)
UserRow(text, enabled) == Row("user", "sqlite", enabled, text, LookedUp)
Rows == {NoRow} \cup {SeedRow(s) : s \in [text: BaseTexts, events: SUBSET LookedUp]}
                \cup {UserRow(t, e) : t \in UserTexts, e \in BOOLEAN}

IsSeed(row) == row.scope = "base" /\ row.source = "seed"
IsUser(row) == row.scope = "user"

ProtocolTypeOK ==
  /\ protocols \in [ProtocolIds -> Rows]
  /\ opening \in [Providers -> [seeding: BOOLEAN, release: SUBSET Releases,
                                found: SUBSET ProtocolIds, todo: SUBSET ProtocolIds, alone: BOOLEAN]]
  /\ command \in [Admins -> [op: {"none", "seed", "remove", "enable", "disable"}, ids: SUBSET ProtocolIds]]
  /\ settled \subseteq Releases
  /\ withdrawn \subseteq ProtocolIds

Idle      == [seeding |-> FALSE, release |-> {}, found |-> {}, todo |-> {}, alone |-> FALSE]
NoCommand == [op |-> "none", ids |-> {}]

ProtocolInit ==
  /\ protocols = [id \in ProtocolIds |-> NoRow]
  /\ opening = [p \in Providers |-> Idle]
  /\ command = [a \in Admins |-> NoCommand]
  /\ settled = {}
  /\ withdrawn = {}

Put(id, row) ==
  /\ protocols' = [protocols EXCEPT ![id] = row]
  /\ withdrawn' = IF row = NoRow THEN withdrawn ELSE withdrawn \ {id}

-----------------------------------------------------------------------------
\* Opening a provider: seedBaseProtocols.

\* It reads which rows are seeds.  (From here on the table is that of no release, unless it
\* is its own already; and two releases that are seeded at once disturb each other.)
OpenProvider(p) ==
  /\ ~opening[p].seeding
  /\ \E r \in Releases :
       LET others == {q \in Providers : opening[q].seeding /\ opening[q].release # {r}}
       IN  /\ opening' = [q \in Providers |->
                IF q = p THEN [seeding |-> TRUE, release |-> {r},
                               found |-> {id \in ProtocolIds : protocols[id].source = "seed"},
                               todo |-> SeedIds(SeedsOf[r]), alone |-> others = {}]
                ELSE [opening[q] EXCEPT !.alone = @ /\ q \notin others]]
           /\ settled' = settled \cap {r}
  /\ UNCHANGED <<protocols, command, withdrawn>>

\* Mutant: UPDATE finds its row by the id alone.
ReseededById(row, seed) == SeedRow(seed)

\* Mutant: INSERT OR IGNORE for all, as before releases changed what a base protocol says.
Ignored(row, seed) == IF row = NoRow THEN SeedRow(seed) ELSE row

\* UPDATE ... WHERE scope = 'base' AND source = 'seed'.
Reseeded(row, seed) == IF IsSeed(row) THEN SeedRow(seed) ELSE row

\* INSERT OR IGNORE.
Inserted(row, seed) == IF row = NoRow THEN SeedRow(seed) ELSE row

\* A seed that was found is updated, another inserted.
SeedNext(p) ==
  /\ opening[p].seeding
  /\ \E id \in opening[p].todo, r \in opening[p].release :
       /\ Put(id, IF id \in opening[p].found THEN Reseeded(protocols[id], SeedsOf[r][id])
                  ELSE Inserted(protocols[id], SeedsOf[r][id]))
       /\ opening' = [opening EXCEPT ![p].todo = @ \ {id}]
  /\ UNCHANGED <<command, settled>>

\* What was found and is no seed of the release is deleted.  The provider is open: it looks
\* rows up from now on, and does not write.
DeleteStale(p) ==
  /\ opening[p].seeding /\ opening[p].todo = {}
  /\ protocols' = [id \in ProtocolIds |->
       IF /\ \E r \in opening[p].release : id \in opening[p].found \ SeedIds(SeedsOf[r])
          /\ protocols[id].source = "seed"
       THEN NoRow ELSE protocols[id]]
  /\ opening' = [opening EXCEPT ![p] = Idle]
  /\ settled' = IF opening[p].alone THEN opening[p].release ELSE settled
  /\ UNCHANGED <<command, withdrawn>>

\* The process dies on the way.
DieSeeding(p) ==
  /\ opening[p].seeding
  /\ opening' = [opening EXCEPT ![p] = Idle]
  /\ UNCHANGED <<protocols, command, settled, withdrawn>>

\* loadApplicable, for an event.
Applicable(e) == {id \in ProtocolIds : protocols[id].enabled /\ e \in protocols[id].events}

-----------------------------------------------------------------------------
\* protocol-admin.mjs.

\* add: the row becomes the user's, also that of a base protocol.
AddProtocol(a) ==
  /\ command[a] = NoCommand
  /\ \E id \in ProtocolIds, text \in UserTexts : Put(id, UserRow(text, TRUE))
  /\ UNCHANGED <<opening, command, settled>>

\* remove, enable and disable look at the row first, and refuse if it is a base protocol.
LookAtRow(a) ==
  /\ command[a] = NoCommand
  /\ \E id \in ProtocolIds, op \in {"remove", "enable", "disable"} :
       /\ protocols[id].scope # "base"
       /\ command' = [command EXCEPT ![a] = [op |-> op, ids |-> {id}]]
  /\ UNCHANGED <<protocols, opening, settled, withdrawn>>

\* Then DELETE or UPDATE ... WHERE scope = 'user'.
Apply(a) ==
  /\ command[a].op \in {"remove", "enable", "disable"}
  /\ \E id \in command[a].ids :
       LET row == protocols[id]
       IN  \/ /\ IsUser(row) /\ command[a].op = "remove"
              /\ protocols' = [protocols EXCEPT ![id] = NoRow]
              /\ withdrawn' = withdrawn \cup {id}
           \/ /\ IsUser(row) /\ command[a].op # "remove"
              /\ Put(id, [row EXCEPT !.enabled = (command[a].op = "enable")])
           \/ ~IsUser(row) /\ UNCHANGED <<protocols, withdrawn>>
  /\ command' = [command EXCEPT ![a] = NoCommand]
  /\ UNCHANGED <<opening, settled>>

StartSeeding(a) ==
  /\ command[a] = NoCommand
  /\ command' = [command EXCEPT ![a] = [op |-> "seed", ids |-> SeedIds(ScriptSeeds)]]
  /\ UNCHANGED <<protocols, opening, settled, withdrawn>>

\* seed: INSERT OR IGNORE of each.  (A row that it adds may be of another release.)
SeedByScript(a) ==
  /\ command[a].op = "seed"
  /\ \E id \in command[a].ids :
       /\ Put(id, Inserted(protocols[id], ScriptSeeds[id]))
       /\ command' = [command EXCEPT ![a] =
            IF command[a].ids = {id} THEN NoCommand ELSE [op |-> "seed", ids |-> command[a].ids \ {id}]]
       /\ IF protocols[id] = NoRow
          THEN /\ settled' = {}
               /\ opening' = [q \in Providers |-> [opening[q] EXCEPT !.alone = FALSE]]
          ELSE UNCHANGED <<settled, opening>>

ProtocolNext ==
  \/ \E p \in Providers : OpenProvider(p) \/ SeedNext(p) \/ DeleteStale(p) \/ DieSeeding(p)
  \/ \E a \in Admins : AddProtocol(a) \/ LookAtRow(a) \/ Apply(a) \/ StartSeeding(a) \/ SeedByScript(a)

ProtocolSpec == ProtocolInit /\ [][ProtocolNext]_protocolVars

-----------------------------------------------------------------------------
\* What a user has added or put in place of a base protocol stays until a user changes it:
\* no seeding overwrites or deletes it, even if it was added while the seeding was under way
\* ("preserving any user override row with the same ID",
\* docs/superpowers/plans/cubic-fixes-pr-23-25-26.md); and no command but `add` changes a
\* base protocol.
UserProtocolsKept ==
  [][\A id \in ProtocolIds :
       protocols'[id] # protocols[id] =>
         /\ IsUser(protocols[id]) => \E a \in Admins : AddProtocol(a) \/ Apply(a)
         /\ IsSeed(protocols[id]) => \A a \in Admins : command'[a] = command[a] \/ command[a].op = "seed"]_protocolVars

\* Once a release has been seeded and no other has been since, every event is given each of
\* its base protocols, as this release words it, but for those that a user put something in
\* the place of or then removed; and no base protocol of another release, whatever crashed
\* on the way, ran at the same time or added rows in between.
SeedsInForce ==
  \A r \in settled, id \in ProtocolIds :
    IF id \in SeedIds(SeedsOf[r])
    THEN \/ /\ protocols[id].text = SeedsOf[r][id].text
            /\ \A e \in LookedUp : id \in Applicable(e) <=> e \in SeedsOf[r][id].events
         \/ IsUser(protocols[id])
         \/ id \in withdrawn
    ELSE ~IsSeed(protocols[id])

=============================================================================
