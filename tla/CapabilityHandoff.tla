--------------------------- MODULE CapabilityHandoff ---------------------------
(***************************************************************************)
(* How a capability written in the workspace becomes one the runtime       *)
(* loads.  The coding worker scaffolds the package, tests it and hands it  *)
(* off (capability-authoring-tools.ts); the capability manager installs    *)
(* what it was handed (capability-manager-tools.ts) through the lifecycle  *)
(* service, whose operations are single steps here: CapabilityLifecycle    *)
(* takes them apart.  Nothing holds the package still meanwhile: edits and *)
(* commands change it between any two steps and while a test runs.         *)
(***************************************************************************)
CONSTANTS
  HandoffCalls,       \* tool calls
  Contents,    \* contents that keep the contract of their kind
  Template,    \* the content that a scaffold has
  Directives   \* what a bundle of protocols says

VARIABLES
  kind,       \* a skill, or a tool or worker, which are executable
  package,    \* the directory in the workspace
  work,       \* the calls that wait: for an approval, or for a test to end
  attested,   \* testAttestations, in memory
  passed,     \* contents found valid just before a test command that passed (history)
  prepared,   \* digests that are versions of handoffs given out
  named,      \* digests that a caller gave as a version of its own accord (history)
  record,     \* the registry's record: at most one
  installed   \* the directory that the runtime loads

handoffVars == <<kind, package, work, attested, passed, prepared, named, record, installed>>

NoContent   == "absent"
Unpinned == "unpinned"  \* a version that is not sha256:<digest>
Latest   == "latest"    \* the caller of a handoff gives no version, or "latest"
Kept     == "kept"      \* an update that says nothing of the version

\* A package that validateKindContract, or the scan, refuses.
Broken == "broken"

\* The words that stand for no version, or no content, are none.
ASSUME HandoffAssumption ==
  /\ Template \in Contents
  /\ {Unpinned, Latest, Kept, NoContent, Broken} \cap Contents = {}

\* Extras are files under node_modules or .tmp.
Packages == [content: Contents \cup {Broken}, extras: BOOLEAN]
            \cup {[content |-> NoContent, extras |-> FALSE]}
NoPackage == [content |-> NoContent, extras |-> FALSE]

Versions == Contents \cup {Unpinned}
Records == [version: Versions, enabled: BOOLEAN]

IdleTool == [pc |-> "idle"]
Waiting ==
  {IdleTool, [pc |-> "scaffold"]}
  \cup [pc: {"test"}, content: Contents, directives: Directives]
  \cup [pc: {"mutate"}, op: {"add", "update", "enable", "disable", "remove"},
        version: Versions \cup {Kept}, enabled: BOOLEAN]

HandoffTypeOK ==
  /\ kind \in {"skill", "executable"}
  /\ package \in Packages
  /\ work \in [HandoffCalls -> Waiting]
  /\ attested \subseteq Contents \X Directives
  /\ passed \subseteq Contents
  /\ prepared \subseteq Contents
  /\ named \subseteq Contents
  /\ record \subseteq Records /\ \A r, s \in record : r = s
  /\ installed \in Packages

HandoffInit ==
  /\ kind \in {"skill", "executable"}
  /\ package = NoPackage
  /\ work = [c \in HandoffCalls |-> IdleTool]
  /\ attested = {} /\ passed = {} /\ prepared = {} /\ named = {}
  /\ record = {}
  /\ installed = NoPackage

Waits(c, wait) == work' = [work EXCEPT ![c] = wait]
Ends(c) == Waits(c, IdleTool)
Free(c) == work[c] = IdleTool
Runtime == <<record, installed>>

-----------------------------------------------------------------------------
\* The coding worker.

\* The digest of authoring passes over the extras.
Digest(p) == p.content

\* validateCapabilityPackage
Valid(p) == p.content \in Contents

\* An approval is asked for when there is no package yet.
Scaffold(c) ==
  /\ Free(c)
  /\ package = NoPackage
  /\ Waits(c, [pc |-> "scaffold"])
  /\ UNCHANGED <<kind, package, attested, passed, prepared, named, Runtime>>

\* scaffoldCapabilityFiles
Scaffolded == [content |-> Template, extras |-> FALSE]

\* The staged files are renamed into place, which fails if a package came meanwhile.
WriteScaffold(c) ==
  /\ work[c].pc = "scaffold"
  /\ Ends(c)
  /\ \/ package = NoPackage /\ package' = Scaffolded
     \/ UNCHANGED package
  /\ UNCHANGED <<kind, attested, passed, prepared, named, Runtime>>

\* Other tools, and the commands they run, write what they like.
Edit ==
  /\ package' \in Packages \ {package}
  /\ UNCHANGED <<kind, work, attested, passed, prepared, named, Runtime>>

\* The digest is taken before the command runs.
Test(c, directives) ==
  /\ Free(c)
  /\ Valid(package)
  /\ Waits(c, [pc |-> "test", content |-> Digest(package), directives |-> directives])
  /\ UNCHANGED <<kind, package, attested, passed, prepared, named, Runtime>>

\* testAttestationKey
Key(content, directives) == <<content, directives>>

\* Mutant: the content there is when the command has passed.
AttestsPresent(c) == Key(Digest(package), work[c].directives)

Attests(c) == Key(work[c].content, work[c].directives)

TestPasses(c) ==
  /\ work[c].pc = "test"
  /\ Ends(c)
  /\ attested' = attested \cup {Attests(c)}
  /\ passed' = passed \cup {work[c].content}
  /\ UNCHANGED <<kind, package, prepared, named, Runtime>>

TestFails(c) ==
  /\ work[c].pc = "test"
  /\ Ends(c)
  /\ UNCHANGED <<kind, package, attested, passed, prepared, named, Runtime>>

\* The digest that a version is, if it is one.
Pinning(version) == {version} \cap Contents

\* createCapabilityHandoff: the version that the caller asks for, or the digest.
Handoff(p, asked) == IF asked = Latest THEN Digest(p) ELSE asked

PrepareHandoff(directives, asked) ==
  /\ Valid(package)
  /\ Key(Digest(package), directives) \in attested
  /\ prepared' = prepared \cup Pinning(Handoff(package, asked))
  /\ named' = named \cup (Pinning(asked) \ {Digest(package)})
  /\ UNCHANGED <<kind, package, work, attested, passed, Runtime>>

\* The tools live in memory; a handoff is in the conversation.
RestartTools ==
  /\ attested' = {}
  /\ work' = [c \in HandoffCalls |-> IdleTool]
  /\ UNCHANGED <<kind, package, passed, prepared, named, Runtime>>

-----------------------------------------------------------------------------
\* The capability manager.

\* readAddInput: a version that was handed off, or any other, or none.
AddInputs == [pc: {"mutate"}, op: {"add"}, version: Versions, enabled: BOOLEAN]

UpdateInputs == [pc: {"mutate"}, op: {"update"}, version: Versions \cup {Kept}, enabled: {FALSE}]

OtherInputs ==
  [pc: {"mutate"}, op: {"enable", "disable", "remove"}, version: {Kept}, enabled: {FALSE}]

\* The bundle is loaded and the approval asked for.
Propose(c) ==
  /\ Free(c)
  /\ \E input \in AddInputs \cup UpdateInputs \cup OtherInputs :
       /\ Waits(c, input)
       /\ named' = named \cup (Pinning(input.version) \ prepared)
  /\ UNCHANGED <<kind, package, attested, passed, prepared, Runtime>>

\* #stage: the digest of the lifecycle is of every file there is.
Staged(version) ==
  /\ Valid(package)
  /\ version # Unpinned => package = [content |-> version, extras |-> FALSE]

AddCapability(input) ==
  /\ record = {}
  /\ Staged(input.version)
  /\ LET enabled == kind = "skill" /\ input.enabled IN
       /\ record' = {[version |-> input.version, enabled |-> enabled]}
       /\ installed' = IF enabled THEN package ELSE installed

\* An executable that is updated leaves the runtime.
UpdateCapability(input) ==
  \E r \in record :
    LET version == IF input.version = Kept THEN r.version ELSE input.version
        enabled == kind = "skill" /\ r.enabled
    IN /\ Staged(version)
       /\ record' = {[version |-> version, enabled |-> enabled]}
       /\ installed' = CASE enabled -> package
                         [] r.enabled /\ ~enabled -> NoPackage
                         [] OTHER -> installed

\* One that is enabled already stays as it is.
Enable ==
  \E r \in record :
    /\ ~r.enabled
    /\ Staged(r.version)
    /\ record' = {[r EXCEPT !.enabled = TRUE]}
    /\ installed' = package

Disable == record' = {[r EXCEPT !.enabled = FALSE] : r \in record} /\ installed' = NoPackage

RemoveCapability == record' = {} /\ installed' = NoPackage

\* Approved, the service does it, or it throws; denied, nothing happens.
Mutate(c) ==
  /\ work[c].pc = "mutate"
  /\ Ends(c)
  /\ \/ UNCHANGED Runtime
     \/ work[c].op = "add" /\ AddCapability(work[c])
     \/ work[c].op = "update" /\ UpdateCapability(work[c])
     \/ work[c].op = "enable" /\ Enable
     \/ record # {} /\ work[c].op = "disable" /\ Disable
     \/ record # {} /\ work[c].op = "remove" /\ RemoveCapability
  /\ UNCHANGED <<kind, package, attested, passed, prepared, named>>

HandoffNext ==
  \/ Edit \/ RestartTools
  \/ \E d \in Directives, version \in Versions \cup {Latest} : PrepareHandoff(d, version)
  \/ \E d \in Directives, c \in HandoffCalls : Test(c, d)
  \/ \E c \in HandoffCalls :
       Scaffold(c) \/ WriteScaffold(c) \/ TestPasses(c) \/ TestFails(c) \/ Propose(c) \/ Mutate(c)

HandoffSpec == HandoffInit /\ [][HandoffNext]_handoffVars

-----------------------------------------------------------------------------
\* What the runtime loads of a capability with a pinned version is byte for byte what the
\* version says, and a content that was valid when a test that passed began, whatever was
\* edited before the handoff, between it and the approval, and between the approval and the
\* enabling ("verifies sha256:<digest> handoffs against the exact materialized package before
\* promotion", docs/architecture/capability-system.md): unless a caller of the handoff or of
\* the manager named that digest itself, which nothing compares with the tests.
InstalledIsTested ==
  \A r \in record :
    r.enabled /\ r.version # Unpinned =>
      /\ installed = [content |-> r.version, extras |-> FALSE]
      /\ r.version \in passed \cup named

=============================================================================
