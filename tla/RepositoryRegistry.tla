-------------------------- MODULE RepositoryRegistry --------------------------
(***************************************************************************)
(* Cloning and registering repositories (coding-repo-workflow-tools.ts)    *)
(* and the file that holds the registry (repo-registry.ts).  Tool calls    *)
(* overlap: a call looks whether its directory exists, clones into it,     *)
(* perhaps removes it and clones again with credentials, and then reads,   *)
(* changes and writes the registry under the lock of its file.  The file   *)
(* is written in place: a write may fail, or the process die, after it was *)
(* opened, and the file is then cut short.  What git does with a directory *)
(* is external.                                                            *)
(***************************************************************************)
EXTENDS Integers, FiniteSets

CONSTANTS
  Calls,    \* tool calls
  Slugs,    \* names of repositories: the directories under repos/
  Managed,  \* whether clones of GitHub remotes may be retried with credentials
  Nobody

VARIABLES
  call,      \* what each call is for and how far it is
  disk,      \* the directories: "none", "checkout", or the call that is cloning
  registry,  \* the slugs that can be read in repos.json
  readable,  \* whether repos.json is missing or a whole JSON text
  lock,      \* the holder of the mutex of the file
  done       \* slugs that calls reported as cloned or registered (history)

fileVars == <<registry, readable, lock, done>>
registryVars == <<call, disk, fileVars>>

RegistryTypeOK ==
  /\ call \in [Calls -> [pc: {"idle", "look", "clone", "cloning", "retry", "find", "upsert", "write",
                               "writing", "ended"},
                         tool: {"none", "clone", "register"}, slug: Slugs, again: BOOLEAN,
                         records: SUBSET Slugs]]
  /\ disk \in [Slugs -> {"none", "checkout"} \cup Calls]
  /\ registry \subseteq Slugs
  /\ readable \in BOOLEAN
  /\ lock \in Calls \cup {Nobody}
  /\ done \subseteq Slugs

NoCallsYet == [c \in Calls |-> [pc |-> "idle", tool |-> "none", slug |-> CHOOSE s \in Slugs : TRUE,
                                again |-> FALSE, records |-> {}]]

RegistryInit ==
  /\ call = NoCallsYet
  /\ disk \in [Slugs -> {"none", "checkout"}]
  /\ registry = {}
  /\ readable = TRUE
  /\ lock = Nobody
  /\ done = {}

CallAt(c, pc) == [call EXCEPT ![c].pc = pc]
Slug(c) == call[c].slug

\* evaluateRepoApproval lets the call through, or it ends.
StartCall(c) ==
  /\ call[c].pc = "idle"
  /\ \E tool \in {"clone", "register"}, s \in Slugs :
       call' = [call EXCEPT ![c].pc = "look", ![c].tool = tool, ![c].slug = s]
  /\ UNCHANGED <<disk, fileVars>>

Blocked(c) ==
  /\ call[c].pc = "look"
  /\ call' = CallAt(c, "ended")
  /\ UNCHANGED <<disk, fileVars>>

\* A clone wants no directory, a registration a git checkout.
Look(c) ==
  /\ call[c].pc = "look"
  /\ call' = CallAt(c, IF call[c].tool = "clone"
                   THEN IF disk[Slug(c)] = "none" THEN "clone" ELSE "ended"
                   ELSE IF disk[Slug(c)] = "none" THEN "ended" ELSE "find")
  /\ UNCHANGED <<disk, fileVars>>

\* A clone that did not succeed is tried again once, after removing the directory.
CloneFails(c) == CallAt(c, IF Managed /\ ~call[c].again THEN "retry" ELSE "ended")

\* git clone creates the directory, and refuses one that is there.
CloneStarts(c) ==
  /\ call[c].pc = "clone"
  /\ IF disk[Slug(c)] = "none"
     THEN disk' = [disk EXCEPT ![Slug(c)] = c] /\ call' = CallAt(c, "cloning")
     ELSE call' = CloneFails(c) /\ UNCHANGED disk
  /\ UNCHANGED fileVars

\* It removes what it made when it fails.
CloneEnds(c) ==
  /\ call[c].pc = "cloning"
  /\ \/ /\ disk[Slug(c)] = c
        /\ disk' = [disk EXCEPT ![Slug(c)] = "checkout"]
        /\ call' = CallAt(c, "upsert")
     \/ /\ disk' = [disk EXCEPT ![Slug(c)] = IF @ = c THEN "none" ELSE @]
        /\ call' = CloneFails(c)
  /\ UNCHANGED fileVars

\* rm(repoPath, {recursive, force}), which may fail.
Retry(c) ==
  /\ call[c].pc = "retry"
  /\ \/ /\ disk' = [disk EXCEPT ![Slug(c)] = "none"]
        /\ call' = [CallAt(c, "clone") EXCEPT ![c].again = TRUE]
     \/ call' = CallAt(c, "ended") /\ UNCHANGED disk
  /\ UNCHANGED fileVars

-----------------------------------------------------------------------------
\* Mutant: the file is read whoever holds the lock.
Unlocked == TRUE

Free == lock = Nobody

\* Mutant: whatever goes wrong, the file counts as missing.
NeverThrows == FALSE

\* Reading the records throws unless the file is missing.
ReadThrows == ~readable

\* registry.get, for the date of the record there was.
Find(c) ==
  /\ call[c].pc = "find"
  /\ Free
  /\ call' = CallAt(c, IF ReadThrows THEN "ended" ELSE "upsert")
  /\ UNCHANGED <<disk, fileVars>>

\* The read of an upsert.  When it throws, the job is over and the next one has the lock.
Upsert(c) ==
  /\ call[c].pc = "upsert"
  /\ Free
  /\ IF ReadThrows
     THEN call' = CallAt(c, "ended") /\ UNCHANGED lock
     ELSE /\ lock' = c
          /\ call' = [CallAt(c, "write") EXCEPT ![c].records = registry \cup {Slug(c)}]
  /\ UNCHANGED <<disk, registry, readable, done>>

\* writeFile empties the file, and then fills it.
OpenFile(c) ==
  /\ call[c].pc = "write"
  /\ registry' = {}
  /\ readable' = FALSE
  /\ call' = CallAt(c, "writing")
  /\ UNCHANGED <<disk, lock, done>>

Filled(c) == registry' = call[c].records /\ readable' = TRUE

WriteRegistry(c) ==
  /\ call[c].pc = "writing"
  /\ Filled(c)
  /\ lock' = Nobody
  /\ call' = CallAt(c, "ended")
  /\ done' = done \cup {Slug(c)}
  /\ UNCHANGED disk

\* mkdir or writeFile throws: before the file was opened, with a part of the text in it,
\* or with all of it.
FailsToWrite(c) ==
  /\ call[c].pc \in {"write", "writing"}
  /\ \/ UNCHANGED <<registry, readable>>
     \/ call[c].pc = "writing" /\ Filled(c)
  /\ lock' = Nobody
  /\ call' = CallAt(c, "ended")
  /\ UNCHANGED <<disk, done>>

\* The process dies and is started again: the files are as they are, and git may leave a
\* directory that it was cloning into.
Restart ==
  /\ \E left \in [Slugs -> {"none", "checkout"}] :
       disk' = [s \in Slugs |-> IF disk[s] \in Calls THEN left[s] ELSE disk[s]]
  /\ call' = NoCallsYet
  /\ lock' = Nobody
  /\ UNCHANGED <<registry, readable, done>>

RegistryNext ==
  \/ \E c \in Calls :
       StartCall(c) \/ Blocked(c) \/ Look(c) \/ CloneStarts(c) \/ CloneEnds(c) \/ Retry(c)
       \/ Find(c) \/ Upsert(c) \/ OpenFile(c) \/ WriteRegistry(c) \/ FailsToWrite(c)
  \/ Restart

RegistrySpec == RegistryInit /\ [][RegistryNext]_registryVars

-----------------------------------------------------------------------------
\* No call's registration is lost to another's, and none silently: a registry that can be
\* read has every slug that a call reported as "cloned" or "registered", whatever writes
\* were cut short by a failure or a crash and whatever calls came after them.
RegistryKeepsAll == readable => done \subseteq registry

=============================================================================
