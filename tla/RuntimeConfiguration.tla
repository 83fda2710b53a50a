------------------------- MODULE RuntimeConfiguration -------------------------
(***************************************************************************)
(* The file sim-one.config: how a gateway loads it over the environment it *)
(* inherits (runtime-environment.ts), how the worker tool changes one key  *)
(* of it with an operator's approval (coding-runtime-configuration-        *)
(* tools.ts), and how a script writes it anew from a legacy .env file      *)
(* (migrate-runtime-config.mjs), while its owner edits it.                 *)
(*                                                                         *)
(* A text is what parseEnv reads after the name.  The file is rewritten by *)
(* JSON.stringify unless a text is of safe characters only, and parseEnv   *)
(* takes the quotes off but does not undo the escapes: backslashes double  *)
(* and a quote ends the text.                                              *)
(***************************************************************************)
EXTENDS Integers, FiniteSets

CONSTANTS
  ConfigKeys,    \* canonical names of runtimeEnvironmentDefinitions
  Aliases,       \* deprecated names
  CanonicalOf,   \* the key of each alias
  Strangers,     \* names of no definition
  Words,         \* what texts are, apart from backslashes and quotes
  Strict,        \* keys of a kind that takes no backslash and no quote
  Unfit,         \* pairs of a key and a word that its kind does not take
  ExampleTexts,  \* what sim-one.config.example gives each key
  HandFiles,     \* the files that the owner leaves
  LegacyFiles,   \* the .env files there may be
  Shells,        \* the environments that a gateway may inherit
  ConfigCalls,   \* calls of coding_runtime_config_update
  AskedTexts,    \* values that the user may ask for
  MaxSlashes,    \* bound on the backslashes told apart
  MaxRewrites    \* bound on the edits by hand and the runs of the script

Names == ConfigKeys \cup Aliases \cup Strangers
Texts == [word: Words, slashes: 0..MaxSlashes, quoted: BOOLEAN]

\* Blank: what is not configured.  Absent: a name that the file, or the environment, lacks.
Blank  == [word |-> "", slashes |-> 0, quoted |-> FALSE]
Absent == [word |-> "", slashes |-> 0, quoted |-> TRUE]

ASSUME ConfigAssumption ==
  /\ ConfigKeys \cap Aliases = {} /\ (ConfigKeys \cup Aliases) \cap Strangers = {}
  /\ CanonicalOf \in [Aliases -> ConfigKeys]
  /\ Strict \subseteq ConfigKeys /\ Unfit \subseteq ConfigKeys \X Words
  /\ "" \notin Words /\ MaxSlashes \in Nat \ {0} /\ MaxRewrites \in Nat
  /\ ExampleTexts \in [ConfigKeys -> Texts \cup {Blank}]
  /\ HandFiles \subseteq [owned: BOOLEAN, lines: [Names -> Texts \cup {Blank, Absent}]]
  /\ LegacyFiles \subseteq [Names -> Texts \cup {Blank, Absent}]
  /\ Shells \subseteq [Names -> Texts \cup {Blank, Absent}]
  /\ AskedTexts \subseteq Texts

Lines  == [Names -> Texts \cup {Blank, Absent}]
NoFile == [owned |-> FALSE, lines |-> [n \in Names |-> Absent]]

\* A change: the text to set, or Blank to remove.
ConfigChanges == [key: ConfigKeys, text: AskedTexts \cup {Blank}]

\* What a process is about to rename into place: lines, and the texts they were asked for.
NoDraft == [lines |-> NoFile.lines, asked |-> [k \in {} |-> Blank]]

VARIABLES
  config,       \* sim-one.config; NoFile while there is none
  drafts,       \* what the tool, and the script, has read, checked and put together
  running,      \* whether a gateway runs
  environment,  \* its process.env
  asking,       \* the change that each call of the tool was let through with, if any
  requested,    \* changes that wait for an operator
  approved,     \* changes that one has approved, for good
  rewrites,     \* edits by hand and runs of the script so far
  intended,     \* the text that was last asked for each key (history)
  wanted,       \* intended, when the gateway started (history)
  raced         \* some write fell between the read and the write of another (history)

configVars == <<config, drafts, running, environment, asking, requested, approved, rewrites,
                intended, wanted, raced>>

Writers == {"tool", "script"}

ConfigTypeOK ==
  /\ config \in [owned: BOOLEAN, lines: Lines]
  /\ DOMAIN drafts = Writers
  /\ \A w \in Writers :
       /\ drafts[w].lines \in Lines /\ DOMAIN drafts[w].asked \subseteq ConfigKeys
       /\ \A k \in DOMAIN drafts[w].asked : drafts[w].asked[k] \in Texts \cup {Blank}
  /\ running \in BOOLEAN /\ environment \in Lines
  /\ asking \in [ConfigCalls -> SUBSET ConfigChanges]
  /\ requested \subseteq ConfigChanges /\ approved \subseteq ConfigChanges
  /\ rewrites \in 0..MaxRewrites
  /\ intended \in [ConfigKeys -> Texts \cup {Blank}] /\ wanted \in [ConfigKeys -> Texts \cup {Blank}]
  /\ raced \in BOOLEAN

-----------------------------------------------------------------------------
\* Reading and writing the file.

KeyOf(n) == IF n \in Aliases THEN CanonicalOf[n] ELSE n

Mentioned(lines) == {n \in Names : lines[n] # Absent}

Valid(k, t) ==
  \/ t = Blank
  \/ <<k, t.word>> \notin Unfit /\ (k \in Strict => t.slashes = 0 /\ ~t.quoted)

\* No key is given twice, by its name or an alias, and each text is of its kind.
Consistent(lines, names) ==
  /\ \A m, n \in names : KeyOf(m) = KeyOf(n) => m = n
  /\ \A n \in names : Valid(KeyOf(n), lines[n])

Readable(lines) == Mentioned(lines) \cap Strangers = {} /\ Consistent(lines, Mentioned(lines))

\* The text of k in the lines, under whatever name, or else the given one.
TextOf(lines, k, otherwise) ==
  IF \E n \in Mentioned(lines) : KeyOf(n) = k
  THEN lines[CHOOSE n \in Mentioned(lines) : KeyOf(n) = k] ELSE otherwise

Capped(n) == IF n <= MaxSlashes THEN n ELSE MaxSlashes

\* What parseEnv reads back of a text that serializeEnvironmentValue wrote.
Reread(t) == [word    |-> t.word,
              slashes |-> Capped(IF t.quoted THEN 2 * t.slashes + 1 ELSE 2 * t.slashes),
              quoted  |-> FALSE]

\* Every key gets a line, and nothing else does.
Serialized(texts) == [n \in Names |-> IF n \in ConfigKeys THEN Reread(texts[n]) ELSE Absent]

\* Mutant: only what the file sets replaces what is inherited.
AppliedOver(shell, lines) ==
  [n \in Names |->
     IF n \in ConfigKeys /\ TextOf(lines, n, Blank) # Blank THEN TextOf(lines, n, Blank) ELSE shell[n]]

\* applyRuntimeEnvironmentFile: names of the registry come from the file alone, and blank
\* ones are not set.
Applied(shell, lines) ==
  [n \in Names |->
     IF n \in Strangers THEN shell[n]
     ELSE IF n \in ConfigKeys /\ TextOf(lines, n, Blank) # Blank THEN TextOf(lines, n, Blank) ELSE Absent]

-----------------------------------------------------------------------------
ConfigInit ==
  /\ config = NoFile
  /\ drafts = [w \in Writers |-> NoDraft]
  /\ running = FALSE /\ environment = NoFile.lines
  /\ asking = [c \in ConfigCalls |-> {}]
  /\ requested = {} /\ approved = {}
  /\ rewrites = 0
  /\ intended = [k \in ConfigKeys |-> Blank] /\ wanted = intended
  /\ raced = FALSE

\* initializeRuntimeEnvironment, before anything reads the environment: a file that is
\* missing, not its owner's alone or not readable keeps the gateway from starting.
StartGateway ==
  /\ ~running /\ running' = TRUE
  /\ config.owned /\ Readable(config.lines)
  /\ \E shell \in Shells : environment' = Applied(shell, config.lines)
  /\ wanted' = intended
  /\ UNCHANGED <<config, drafts, asking, requested, approved, rewrites, intended, raced>>

\* The gateway stops, or dies, also in the middle of an update: its file has another name
\* until it is renamed.
StopGateway ==
  /\ running /\ running' = FALSE
  /\ environment' = NoFile.lines
  /\ drafts' = [drafts EXCEPT !["tool"] = NoDraft]
  /\ asking' = [c \in ConfigCalls |-> {}]
  /\ UNCHANGED <<config, requested, approved, rewrites, intended, wanted, raced>>

\* A call is let through if its very change was approved before; otherwise it answers
\* "blocked" and leaves a request.
AskChange(c) ==
  /\ running /\ drafts["tool"] = NoDraft /\ asking[c] = {}
  /\ \E x \in ConfigChanges :
       /\ Valid(x.key, x.text)
       /\ \/ x \in approved /\ asking' = [asking EXCEPT ![c] = {x}] /\ UNCHANGED requested
          \/ x \notin approved /\ requested' = requested \cup {x} /\ UNCHANGED asking
  /\ UNCHANGED <<config, drafts, running, environment, approved, rewrites, intended, wanted, raced>>

\* An operator answers a request; a denial lets the change be asked for again.
DecideChange ==
  /\ \E x \in requested :
       /\ requested' = requested \ {x}
       /\ \/ approved' = approved \cup {x}
          \/ UNCHANGED approved
  /\ UNCHANGED <<config, drafts, running, environment, asking, rewrites, intended, wanted, raced>>

\* updateRuntimeEnvironmentFile does not give way to another call, but to other processes.
\* A file that is not its owner's or not readable ends the call.
ReadConfig(c) ==
  /\ drafts["tool"] = NoDraft
  /\ \E x \in asking[c] :
       IF config.owned /\ Readable(config.lines)
       THEN drafts' = [drafts EXCEPT !["tool"] =
              [lines |-> Serialized([k \in ConfigKeys |->
                           IF k = x.key THEN x.text ELSE TextOf(config.lines, k, Blank)]),
               asked |-> [k \in {x.key} |-> x.text]]]
       ELSE UNCHANGED drafts
  /\ asking' = [asking EXCEPT ![c] = {}]
  /\ UNCHANGED <<config, running, environment, requested, approved, rewrites, intended, wanted, raced>>

\* The script does not read the file it replaces: the keys of the .env file and, for the
\* others, the texts of the example.  It ignores names that it does not know.
ReadLegacy ==
  /\ drafts["script"] = NoDraft
  /\ rewrites < MaxRewrites /\ rewrites' = rewrites + 1
  /\ \E legacy \in LegacyFiles :
       LET texts == [k \in ConfigKeys |-> TextOf(legacy, k, ExampleTexts[k])]
       IN  /\ Consistent(legacy, Mentioned(legacy) \ Strangers)
           /\ drafts' = [drafts EXCEPT !["script"] = [lines |-> Serialized(texts), asked |-> texts]]
  /\ UNCHANGED <<config, running, environment, asking, requested, approved, intended, wanted, raced>>

\* Somebody who writes now makes stale what another has read.
Overlaps(writers) == raced' = (raced \/ \E w \in writers : drafts[w] # NoDraft)

\* The temporary file is renamed into place, readable by its owner alone.
Rename(w) ==
  /\ drafts[w] # NoDraft
  /\ config' = [owned |-> TRUE, lines |-> drafts[w].lines]
  /\ intended' = [k \in ConfigKeys |->
                    IF k \in DOMAIN drafts[w].asked THEN drafts[w].asked[k] ELSE intended[k]]
  /\ Overlaps(Writers \ {w})
  /\ drafts' = [drafts EXCEPT ![w] = NoDraft]
  /\ UNCHANGED <<running, environment, asking, requested, approved, rewrites, wanted>>

EditByHand ==
  /\ rewrites < MaxRewrites /\ rewrites' = rewrites + 1
  /\ \E f \in HandFiles :
       /\ config' = f
       /\ intended' = [k \in ConfigKeys |-> TextOf(f.lines, k, Blank)]
  /\ Overlaps(Writers)
  /\ UNCHANGED <<drafts, running, environment, asking, requested, approved, wanted>>

ConfigNext ==
  \/ StartGateway \/ StopGateway \/ DecideChange \/ ReadLegacy \/ EditByHand
  \/ \E c \in ConfigCalls : AskChange(c) \/ ReadConfig(c)
  \/ \E w \in Writers : Rename(w)

ConfigSpec == ConfigInit /\ [][ConfigNext]_configVars

-----------------------------------------------------------------------------
Plain(t) == t.slashes = 0 /\ ~t.quoted

\* What the environment says of a key that has this text.
Setting(t) == IF t = Blank THEN Absent ELSE t

\* A gateway runs with what was last asked for each key before it started - by the owner,
\* through an approved change or by the script - whatever the other changes, denied ones,
\* crashes and aliases before; and with nothing that it inherited.  This is of plain texts:
\* of others a rewriting for the sake of another key keeps only the word.  And it is of files
\* that nobody wrote while another was about to ("approval-gated update or removal of one
\* registered SIM-ONE runtime configuration key", coding-runtime-configuration-tools.ts).
RunsAsAsked ==
  running /\ ~raced =>
    /\ \A k \in ConfigKeys :
         /\ environment[k].word = Setting(wanted[k]).word
         /\ Plain(wanted[k]) => environment[k] = Setting(wanted[k])
    /\ \A a \in Aliases : environment[a] = Absent

=============================================================================
