--------------------------- MODULE WorkerToolsProofs ---------------------------
(***************************************************************************)
(* What holds of the tools of the coding worker, and of the launcher, for  *)
(* every value of the constants: the parts are those of MCWorkerTools.     *)
(***************************************************************************)
EXTENDS RepositoryRegistry, GithubTools, GatewayLauncher, EditTransactions, FiniteSetTheorems, SequenceTheorems,
        TLAPS

-----------------------------------------------------------------------------
(* The registry.  The writer read the file under the lock that it still     *)
(* holds, so what it carries has every registration reported so far: the    *)
(* invariant says who holds the lock and what a writer carries.             *)

RegistryCall == [pc: {"idle", "look", "clone", "cloning", "retry", "find", "upsert", "write", "writing", "ended"},
         tool: {"none", "clone", "register"}, slug: Slugs, again: BOOLEAN, records: SUBSET Slugs]

Writers == {"write", "writing"}

\* The calls that write are those that hold the lock, and there is room for one.
WriterHolds == \A c \in Calls : call[c].pc \in Writers <=> lock = c

\* What a writer carries is all that was reported, and its own repository.
NothingDropped ==
  \A c \in Calls : call[c].pc \in Writers => done \cup {call[c].slug} \subseteq call[c].records

RegistryInv == RegistryTypeOK /\ WriterHolds /\ NothingDropped /\ RegistryKeepsAll

\* With no call under way, what is there is in order.
LEMMA NoCallsInv ==
  ASSUME Nobody \notin Calls, Slugs # {}, call = NoCallsYet, disk \in [Slugs -> {"none", "checkout"} \cup Calls],
         registry \subseteq Slugs, readable \in BOOLEAN, lock = Nobody, done \subseteq Slugs, RegistryKeepsAll
  PROVE  RegistryInv
<1>1. (CHOOSE s \in Slugs : TRUE) \in Slugs
  OBVIOUS
<1>2. call \in [Calls -> RegistryCall] /\ \A c \in Calls : call[c].pc = "idle"
  BY <1>1 DEF NoCallsYet, RegistryCall
<1>3. RegistryTypeOK
  BY <1>2 DEF RegistryTypeOK, RegistryCall
<1> QED  BY <1>2, <1>3 DEF RegistryInv, WriterHolds, NothingDropped, Writers

LEMMA RegistryInitInv == ASSUME Nobody \notin Calls, Slugs # {}, RegistryInit  PROVE RegistryInv
<1>1. disk \in [Slugs -> {"none", "checkout"} \cup Calls]
  BY DEF RegistryInit
<1> QED  BY <1>1, NoCallsInv DEF RegistryInit, RegistryKeepsAll

\* A step of a call that leaves the file, the lock and the record of what is done alone,
\* and whose call was and is no writer.
LEMMA ElsewhereKeeps ==
  ASSUME RegistryInv, NEW c \in Calls, NEW new \in RegistryCall,
         call' = [call EXCEPT ![c] = new], call[c].pc \notin Writers, new.pc \notin Writers,
         disk' \in [Slugs -> {"none", "checkout"} \cup Calls], UNCHANGED fileVars
  PROVE  RegistryInv'
<1>1. call \in [Calls -> RegistryCall]
  BY DEF RegistryInv, RegistryTypeOK, RegistryCall
<1>2. call' \in [Calls -> RegistryCall]
  BY <1>1
<1>3. \A d \in Calls : call'[d] = IF d = c THEN new ELSE call[d]
  BY <1>1
<1>4. UNCHANGED <<registry, readable, lock, done>>
  BY DEF fileVars
<1>5. RegistryTypeOK'
  BY <1>2, <1>4 DEF RegistryInv, RegistryTypeOK, RegistryCall
<1>6. WriterHolds'
  BY <1>3, <1>4 DEF RegistryInv, WriterHolds
<1>7. NothingDropped'
  BY <1>3, <1>4 DEF RegistryInv, NothingDropped
<1> QED  BY <1>4, <1>5, <1>6, <1>7 DEF RegistryInv, RegistryKeepsAll

\* Every step before the registration is such a step.
LEMMA PrepareKeeps ==
  ASSUME RegistryInv, NEW c \in Calls,
         StartCall(c) \/ Blocked(c) \/ Look(c) \/ CloneStarts(c) \/ CloneEnds(c) \/ Retry(c) \/ Find(c)
  PROVE  RegistryInv'
<1>1. call \in [Calls -> RegistryCall] /\ call[c] \in RegistryCall
  BY DEF RegistryInv, RegistryTypeOK, RegistryCall
<1>2. disk \in [Slugs -> {"none", "checkout"} \cup Calls] /\ Slug(c) \in Slugs
  BY <1>1 DEF RegistryInv, RegistryTypeOK, Slug, RegistryCall
<1> DEFINE Moved(pc) == [call[c] EXCEPT !.pc = pc]
<1>3. \A pc \in {"look", "clone", "cloning", "retry", "find", "upsert", "ended"} :
        Moved(pc) \in RegistryCall /\ Moved(pc).pc \notin Writers /\ CallAt(c, pc) = [call EXCEPT ![c] = Moved(pc)]
  BY <1>1 DEF CallAt, RegistryCall, Writers
<1>4. ASSUME NEW pc \in {"look", "clone", "cloning", "retry", "find", "upsert", "ended"},
             call[c].pc \notin Writers, call' = CallAt(c, pc),
             disk' \in [Slugs -> {"none", "checkout"} \cup Calls],
             UNCHANGED fileVars
      PROVE  RegistryInv'
  <2> HIDE DEF Moved
  <2> QED  BY <1>3, <1>4, ElsewhereKeeps
<1>5. CASE StartCall(c)
  <2>1. PICK tool \in {"clone", "register"}, s \in Slugs :
          call' = [call EXCEPT ![c].pc = "look", ![c].tool = tool, ![c].slug = s]
    BY <1>5 DEF StartCall, Writers
  <2> DEFINE new == [call[c] EXCEPT !.pc = "look", !.tool = tool, !.slug = s]
  <2>2. new \in RegistryCall /\ new.pc \notin Writers
    BY <1>1 DEF RegistryCall, Writers
  <2>3. call' = [call EXCEPT ![c] = new]
    BY <1>1, <2>1
  <2>4. call[c].pc \notin Writers /\ disk' = disk /\ UNCHANGED fileVars
    BY <1>5 DEF StartCall, Writers
  <2> HIDE DEF new
  <2> QED  BY <1>2, <2>2, <2>3, <2>4, ElsewhereKeeps
<1>6. CASE Blocked(c)
  BY <1>2, <1>4, <1>6 DEF Blocked, Writers
<1>7. CASE Look(c)
  <2>1. PICK pc \in {"clone", "find", "ended"} : call' = CallAt(c, pc)
    BY <1>7 DEF Look, Writers
  <2> QED  BY <1>2, <1>4, <1>7, <2>1 DEF Look, Writers
<1>8. \E pc \in {"retry", "ended"} : CloneFails(c) = CallAt(c, pc)
  BY DEF CloneFails
<1>9. CASE CloneStarts(c)
  <2>1. CASE disk[Slug(c)] = "none"
    <3>1. disk' = [disk EXCEPT ![Slug(c)] = c] /\ call' = CallAt(c, "cloning")
      BY <1>9, <2>1 DEF CloneStarts, Writers
    <3>2. disk' \in [Slugs -> {"none", "checkout"} \cup Calls]
      BY <1>2, <3>1
    <3> QED  BY <1>4, <1>9, <3>1, <3>2 DEF CloneStarts, Writers
  <2>2. CASE disk[Slug(c)] # "none"
    BY <1>2, <1>4, <1>8, <1>9, <2>2 DEF CloneStarts, Writers
  <2> QED  BY <2>1, <2>2
<1>10. CASE CloneEnds(c)
  <2>1. disk' \in [Slugs -> {"none", "checkout"} \cup Calls]
    BY <1>2, <1>10 DEF CloneEnds, Writers
  <2>2. \E pc \in {"upsert", "retry", "ended"} : call' = CallAt(c, pc)
    BY <1>8, <1>10 DEF CloneEnds, Writers
  <2> QED  BY <1>4, <1>10, <2>1, <2>2 DEF CloneEnds, Writers
<1>11. CASE Retry(c)
  <2> DEFINE new == [call[c] EXCEPT !.pc = "clone", !.again = TRUE]
  <2>1. new \in RegistryCall /\ new.pc \notin Writers
    BY <1>1 DEF RegistryCall, Writers
  <2>2. call[c].pc \notin Writers /\ UNCHANGED fileVars
    BY <1>11 DEF Retry, Writers
  <2>3. CASE call' = CallAt(c, "ended") /\ UNCHANGED disk
    BY <1>2, <1>4, <2>2, <2>3
  <2>4. CASE ~(call' = CallAt(c, "ended") /\ UNCHANGED disk)
    <3>1. call' = [call EXCEPT ![c] = new]
      BY <1>1, <1>11, <2>4 DEF Retry, CallAt
    <3>2. disk' \in [Slugs -> {"none", "checkout"} \cup Calls]
      BY <1>2, <1>11, <2>4 DEF Retry
    <3> HIDE DEF new
    <3> QED  BY <2>1, <2>2, <3>1, <3>2, ElsewhereKeeps
  <2> QED  BY <2>3, <2>4
<1>12. CASE Find(c)
  <2>1. \E pc \in {"upsert", "ended"} : call' = CallAt(c, pc)
    BY <1>12 DEF Find
  <2> QED  BY <1>2, <1>4, <1>12, <2>1 DEF Find, Writers
<1> QED  BY <1>5, <1>6, <1>7, <1>9, <1>10, <1>11, <1>12

\* The lock is free, so nobody writes; what is read now has all that was reported, and
\* nothing more is reported until it is written.
LEMMA UpsertKeeps ==
  ASSUME Nobody \notin Calls, RegistryInv, NEW c \in Calls, Upsert(c)  PROVE RegistryInv'
<1>1. call \in [Calls -> RegistryCall] /\ call[c] \in RegistryCall /\ registry \subseteq Slugs
  BY DEF RegistryInv, RegistryTypeOK, RegistryCall
<1>2. \A d \in Calls : call[d].pc \notin Writers
  BY DEF Upsert, Free, RegistryInv, WriterHolds
<1>3. CASE ReadThrows
  <2> DEFINE new == [call[c] EXCEPT !.pc = "ended"]
  <2>1. call' = [call EXCEPT ![c] = new] /\ UNCHANGED fileVars /\ disk' = disk
    BY <1>1, <1>3 DEF Upsert, CallAt, fileVars
  <2>2. new \in RegistryCall /\ new.pc \notin Writers
    BY <1>1 DEF RegistryCall, Writers
  <2>3. disk' \in [Slugs -> {"none", "checkout"} \cup Calls]
    BY <2>1 DEF RegistryInv, RegistryTypeOK
  <2> HIDE DEF new
  <2> QED  BY <1>2, <2>1, <2>2, <2>3, ElsewhereKeeps
<1>4. CASE ~ReadThrows
  <2> DEFINE new == [call[c] EXCEPT !.pc = "write", !.records = registry \cup {call[c].slug}]
  <2>1. call' = [call EXCEPT ![c] = new] /\ lock' = c
    BY <1>1, <1>4 DEF Upsert, CallAt, Slug
  <2>2. new \in RegistryCall /\ new.pc \in Writers /\ new.slug = call[c].slug
        /\ new.records = registry \cup {call[c].slug}
    BY <1>1 DEF RegistryCall, Writers
  <2> HIDE DEF new
  <2>3. call' \in [Calls -> RegistryCall] /\ \A d \in Calls : call'[d] = IF d = c THEN new ELSE call[d]
    BY <1>1, <2>1, <2>2
  <2>4. UNCHANGED <<disk, registry, readable, done>>
    BY DEF Upsert
  <2>5. done \subseteq registry
    BY <1>4 DEF RegistryInv, RegistryKeepsAll, ReadThrows
  <2>6. RegistryTypeOK'
    BY <2>1, <2>3, <2>4 DEF RegistryInv, RegistryTypeOK, RegistryCall
  <2>7. WriterHolds'
    BY <1>2, <2>1, <2>2, <2>3 DEF WriterHolds
  <2>8. NothingDropped'
    BY <1>2, <2>2, <2>3, <2>4, <2>5 DEF NothingDropped
  <2> QED  BY <2>4, <2>6, <2>7, <2>8 DEF RegistryInv, RegistryKeepsAll
<1> QED  BY <1>3, <1>4

\* An empty file cannot be read.
LEMMA OpenFileKeeps ==
  ASSUME Nobody \notin Calls, RegistryInv, NEW c \in Calls, OpenFile(c)  PROVE RegistryInv'
<1>1. call \in [Calls -> RegistryCall] /\ call[c] \in RegistryCall
  BY DEF RegistryInv, RegistryTypeOK, RegistryCall
<1> DEFINE new == [call[c] EXCEPT !.pc = "writing"]
<1>2. call' = [call EXCEPT ![c] = new]
  BY <1>1 DEF OpenFile, CallAt
<1>3. new \in RegistryCall /\ new.pc = "writing" /\ new.slug = call[c].slug /\ new.records = call[c].records
  BY <1>1 DEF RegistryCall
<1> HIDE DEF new
<1>4. call' \in [Calls -> RegistryCall] /\ \A d \in Calls : call'[d] = IF d = c THEN new ELSE call[d]
  BY <1>1, <1>2, <1>3
<1>5. UNCHANGED <<disk, lock, done>> /\ registry' = {} /\ readable' = FALSE /\ call[c].pc \in Writers
  BY DEF OpenFile, Writers
<1>6. RegistryTypeOK'
  BY <1>4, <1>5 DEF RegistryInv, RegistryTypeOK, RegistryCall
<1>7. WriterHolds' /\ NothingDropped'
  BY <1>3, <1>4, <1>5 DEF RegistryInv, WriterHolds, NothingDropped, Writers
<1>8. RegistryKeepsAll'
  BY <1>5 DEF RegistryKeepsAll
<1> QED  BY <1>6, <1>7, <1>8 DEF RegistryInv

\* A writer that leaves its lock leaves nobody who writes, and the file as it is or with
\* all that the writer carries.
LEMMA WriterLeaves ==
  ASSUME Nobody \notin Calls, RegistryInv, NEW c \in Calls, call[c].pc \in Writers,
         call' = CallAt(c, "ended"), lock' = Nobody, disk' = disk, done' \in {done, done \cup {Slug(c)}},
         \/ Filled(c)
         \/ UNCHANGED <<registry, readable, done>>
  PROVE  RegistryInv'
<1>1. call \in [Calls -> RegistryCall] /\ call[c] \in RegistryCall
  BY DEF RegistryInv, RegistryTypeOK, RegistryCall
<1>2. done \cup {call[c].slug} \subseteq call[c].records /\ Slug(c) = call[c].slug
  BY DEF RegistryInv, NothingDropped, Slug
<1> DEFINE new == [call[c] EXCEPT !.pc = "ended"]
<1>3. call' = [call EXCEPT ![c] = new]
  BY <1>1 DEF CallAt
<1>4. new \in RegistryCall /\ new.pc = "ended"
  BY <1>1 DEF RegistryCall
<1> HIDE DEF new
<1>5. call' \in [Calls -> RegistryCall] /\ \A d \in Calls : call'[d] = IF d = c THEN new ELSE call[d]
  BY <1>1, <1>3, <1>4
<1>6. \A d \in Calls : call'[d].pc \notin Writers
  <2>1. lock = c
    BY DEF RegistryInv, WriterHolds
  <2>2. \A d \in Calls \ {c} : call[d].pc \notin Writers
    BY <2>1 DEF RegistryInv, WriterHolds
  <2> QED  BY <1>4, <1>5, <2>2 DEF Writers
<1>7. registry' \subseteq Slugs /\ readable' \in BOOLEAN /\ done' \subseteq Slugs
  BY <1>1, <1>2 DEF Filled, RegistryInv, RegistryTypeOK, RegistryCall
<1>8. RegistryTypeOK'
  BY <1>5, <1>7 DEF RegistryInv, RegistryTypeOK, RegistryCall
<1>9. WriterHolds' /\ NothingDropped'
  BY <1>6 DEF WriterHolds, NothingDropped
<1>10. RegistryKeepsAll'
  BY <1>2 DEF Filled, RegistryInv, RegistryKeepsAll
<1> QED  BY <1>8, <1>9, <1>10 DEF RegistryInv

\* Who dies while writing leaves a file that cannot be read, or one that it had not opened.
LEMMA RestartKeeps ==
  ASSUME Nobody \notin Calls, Slugs # {}, RegistryInv, Restart  PROVE RegistryInv'
<1>1. disk' \in [Slugs -> {"none", "checkout"} \cup Calls]
  BY DEF Restart, RegistryInv, RegistryTypeOK
<1>2. call' = NoCallsYet /\ lock' = Nobody /\ UNCHANGED <<registry, readable, done>>
  BY DEF Restart
<1>3. \A c \in Calls : call'[c].pc = "idle"
  BY <1>2 DEF NoCallsYet
<1>4. (CHOOSE s \in Slugs : TRUE) \in Slugs
  OBVIOUS
<1>5. call' \in [Calls -> RegistryCall]
  BY <1>2, <1>4 DEF NoCallsYet, RegistryCall
<1>6. RegistryTypeOK'
  BY <1>1, <1>2, <1>5 DEF RegistryInv, RegistryTypeOK, RegistryCall
<1>7. WriterHolds' /\ NothingDropped'
  BY <1>2, <1>3 DEF WriterHolds, NothingDropped, Writers
<1> QED  BY <1>2, <1>6, <1>7 DEF RegistryInv, RegistryKeepsAll

LEMMA RegistryStep ==
  ASSUME Nobody \notin Calls, Slugs # {}, RegistryInv, [RegistryNext]_registryVars  PROVE RegistryInv'
<1>1. CASE UNCHANGED registryVars
  BY <1>1 DEF registryVars, fileVars, RegistryInv, RegistryTypeOK, WriterHolds, NothingDropped, RegistryKeepsAll
<1>2. ASSUME NEW c \in Calls, WriteRegistry(c) \/ FailsToWrite(c)  PROVE RegistryInv'
  BY <1>2, WriterLeaves DEF WriteRegistry, FailsToWrite, Writers
<1>3. CASE Restart
  BY <1>3, RestartKeeps
<1>4. ASSUME NEW c \in Calls, Upsert(c) \/ OpenFile(c)  PROVE RegistryInv'
  BY <1>4, UpsertKeeps, OpenFileKeeps
<1>5. CASE RegistryNext
  BY <1>2, <1>3, <1>4, <1>5, PrepareKeeps DEF RegistryNext
<1> QED  BY <1>1, <1>5

\* Whatever clones and registrations overlap, fail, are retried and are cut short by a crash,
\* no repository that a call reported is missing from a registry that can be read.
THEOREM NoRegistrationLost ==
  ASSUME Nobody \notin Calls, Slugs # {}  PROVE RegistrySpec => []RegistryKeepsAll
<1>1. RegistryInit => RegistryInv
  BY RegistryInitInv
<1>2. RegistryInv /\ [RegistryNext]_registryVars => RegistryInv'
  BY RegistryStep
<1>3. RegistryInv => RegistryKeepsAll
  BY DEF RegistryInv
<1> QED  BY <1>1, <1>2, <1>3, PTL DEF RegistrySpec

-----------------------------------------------------------------------------
(* GitHub.  As long as nothing is lost, a pending review has one call that  *)
(* created it and has not ended, and nothing but that call's comment; so    *)
(* what a call submits, or deletes, is its own.                             *)

Told1(report) == <<"started", report>>
Reports == {"completed", "failed", "approval_requested"}
CallOpen(k) == k.step \notin {"idle", "done"}
Holds(k) == k.step \in {"fill", "submit", "cleanup"}
Silent == Reads \cup {"approve_request"}

\* How far a call is, what it has told, and its tool.
Sane(k) ==
  /\ k.step = "idle" => k.told = <<>>
  /\ CallOpen(k) => k.told = <<"started">>
  /\ k.resolves => k.tool = "update_review_thread"
  /\ k.step = "gate" => k.tool \notin Silent
  /\ k.step = "reading" => k.tool \in Reads
  /\ k.step = "requesting" => k.tool = "approve_request"
  /\ k.step = "resolve" => k.tool = "update_review_thread"

GithubProgress == [tool: Tools, pull: Pulls, step: Steps, resolves: BOOLEAN,
             told: {<<>>, <<"started">>} \cup {Told1(report) : report \in Reports}]
Sound == {k \in GithubProgress : Sane(k)}

\* What a call says of its write is so.
Honest(k, written) ==
  /\ k.step \notin {"resolve", "done"} => ~written
  /\ k.told = Told1("completed") /\ k.tool \notin Silent => written
  /\ k.told = Told1("failed") /\ k.tool # "update_review_thread" => ~written

\* Who holds the pending review of a pull request.
Held ==
  /\ \A c \in GithubCalls :
       Holds(toolCall[c]) =>
         /\ reviews[Pull(c)] # NoReview /\ reviews[Pull(c)] \subseteq {c}
         /\ toolCall[c].step = "submit" => reviews[Pull(c)] = {c}
  /\ \A c, d \in GithubCalls :
       Holds(toolCall[c]) /\ Holds(toolCall[d]) /\ Pull(c) = Pull(d) => c = d
  /\ \A p \in Pulls :
       reviews[p] # NoReview => \E c \in GithubCalls : Holds(toolCall[c]) /\ Pull(c) = p

GithubInv ==
  /\ toolCall \in [GithubCalls -> Sound]
  /\ reviews \in [Pulls -> (SUBSET GithubCalls) \cup {NoReview}]
  /\ published \subseteq GithubCalls
  /\ lost \subseteq GithubCalls
  /\ lost = {} => Held /\ \A c \in GithubCalls : Honest(toolCall[c], c \in published)

LEMMA ReviewsAreSettled == GithubInv => ReviewsSettled
<1> SUFFICES ASSUME GithubInv, lost = {}
             PROVE  /\ \A c \in GithubCalls :
                         /\ Told(c, "completed") /\ toolCall[c].tool \notin Silent => c \in published
                         /\ Told(c, "failed") /\ toolCall[c].tool # "update_review_thread" => c \notin published
                    /\ (\A c \in GithubCalls : toolCall[c].step \in {"idle", "done"})
                         => \A p \in Pulls : reviews[p] = NoReview
  BY DEF ReviewsSettled, Silent
<1>1. ASSUME NEW c \in GithubCalls, NEW report \in {"completed", "failed"}, Told(c, report)
      PROVE  toolCall[c].told = Told1(report)
  <2>1. toolCall[c].told \in {<<>>, <<"started">>} \cup {Told1(second) : second \in Reports}
    BY DEF GithubInv, Sound, GithubProgress
  <2>2. PICK i \in DOMAIN toolCall[c].told : toolCall[c].told[i] = report
    BY <1>1 DEF Told
  <2>3. CASE toolCall[c].told = <<>>
    BY <2>2, <2>3
  <2>4. CASE toolCall[c].told = <<"started">>
    BY <2>2, <2>4
  <2>5. ASSUME NEW second \in Reports, toolCall[c].told = Told1(second)  PROVE second = report
    BY <2>2, <2>5 DEF Told1, Reports
  <2> QED  BY <2>1, <2>3, <2>4, <2>5
<1>2. ASSUME NEW p \in Pulls, reviews[p] # NoReview
      PROVE  \E c \in GithubCalls : toolCall[c].step \notin {"idle", "done"}
  BY <1>2 DEF GithubInv, Held, Holds
<1> QED  BY <1>1, <1>2 DEF GithubInv, Honest

LEMMA AppendToOne == ASSUME NEW a, NEW b  PROVE Append(<<a>>, b) = <<a, b>>
<1>1. <<a>> \in Seq({a, b}) /\ <<a, b>> \in Seq({a, b}) /\ Len(<<a, b>>) = 2 /\ Len(<<a>>) = 1
  OBVIOUS
<1>2. Append(<<a>>, b) \in Seq({a, b}) /\ Len(Append(<<a>>, b)) = 2
  BY <1>1
<1>3. Append(<<a>>, b)[1] = a /\ Append(<<a>>, b)[2] = b
  BY <1>1
<1>4. \A i \in 1..2 : i = 1 \/ i = 2
  OBVIOUS
<1>5. \A i \in 1..2 : Append(<<a>>, b)[i] = <<a, b>>[i]
  BY <1>3, <1>4
<1> QED  BY <1>1, <1>2, <1>5, SeqEqual

\* A call that goes on, or ends, is sound.
LEMMA Moving ==
  ASSUME NEW k \in Sound, CallOpen(k), NEW step \in Steps \ {"idle", "done", "gate", "reading", "requesting"},
         step = "resolve" => k.tool = "update_review_thread"
  PROVE  /\ [k EXCEPT !.step = step] \in Sound /\ [k EXCEPT !.step = step].step = step
         /\ [k EXCEPT !.step = step].pull = k.pull /\ [k EXCEPT !.step = step].tool = k.tool
         /\ [k EXCEPT !.step = step].told = <<"started">>
BY DEF Sound, GithubProgress, Sane, CallOpen

ReviewEnded(k, report) == [k EXCEPT !.step = "done", !.told = Append(@, report)]

LEMMA Ending ==
  ASSUME NEW k \in Sound, CallOpen(k), NEW report \in Reports
  PROVE  /\ ReviewEnded(k, report) \in Sound /\ ReviewEnded(k, report).step = "done"
         /\ ReviewEnded(k, report).pull = k.pull /\ ReviewEnded(k, report).tool = k.tool
         /\ ReviewEnded(k, report).told = Told1(report)
<1>1. k.told = <<"started">>
  BY DEF Sound, Sane, CallOpen
<1>2. Append(<<"started">>, report) = Told1(report)
  BY AppendToOne DEF Told1
<1>3. "done" \in Steps
  BY DEF Steps
<1> QED  BY <1>1, <1>2, <1>3 DEF Sound, GithubProgress, Sane, CallOpen, ReviewEnded

LEMMA Saying == /\ Told1("completed") # Told1("failed") /\ Told1("failed") # Told1("approval_requested")
                /\ Told1("completed") # Told1("approval_requested")
                /\ \A report : Told1(report) # <<"started">> /\ Told1(report) # <<>>
                /\ <<"started">> # <<>>
BY DEF Told1

\* A step of call c, which does not touch the review it holds, if any: it holds one before
\* if and only if it does after.
LEMMA CallKeeps ==
  ASSUME GithubInv, NEW c \in GithubCalls, NEW k \in Sound, toolCall' = [toolCall EXCEPT ![c] = k],
         ~Holds(toolCall[c]), ~Holds(k),
         published' \in {published, published \cup {c}}, lost' \in {lost, lost \cup {c}},
         lost' = {} => Honest(k, c \in published'),
         UNCHANGED reviews
  PROVE  GithubInv'
<1>1. toolCall' \in [GithubCalls -> Sound] /\ published' \subseteq GithubCalls /\ lost' \subseteq GithubCalls
  BY DEF GithubInv
<1>2. \A d \in GithubCalls : toolCall'[d] = IF d = c THEN k ELSE toolCall[d]
  BY DEF GithubInv
<1>3. ASSUME lost' = {}  PROVE Held' /\ \A d \in GithubCalls : Honest(toolCall'[d], d \in published')
  <2>1. lost = {} /\ Held /\ \A d \in GithubCalls : Honest(toolCall[d], d \in published)
    BY <1>3 DEF GithubInv
  <2>2. \A d \in GithubCalls \ {c} : toolCall'[d] = toolCall[d] /\ (d \in published' <=> d \in published)
    BY <1>2
  <2>3. \A d \in GithubCalls : Honest(toolCall'[d], d \in published')
    <3> SUFFICES ASSUME NEW d \in GithubCalls  PROVE Honest(toolCall'[d], d \in published')
      OBVIOUS
    <3>1. CASE d = c
      BY <1>2, <1>3, <3>1
    <3>2. CASE d # c
      BY <2>1, <2>2, <3>2 DEF Honest
    <3> QED  BY <3>1, <3>2
  <2>4. \A d \in GithubCalls :
          (Holds(toolCall'[d]) <=> Holds(toolCall[d])) /\ (Holds(toolCall[d]) => toolCall'[d] = toolCall[d])
    BY <1>2
  <2>5. Held'
    <3>1. ASSUME NEW d \in GithubCalls, Holds(toolCall'[d])
          PROVE  /\ reviews[toolCall'[d].pull] # NoReview /\ reviews[toolCall'[d].pull] \subseteq {d}
                 /\ toolCall'[d].step = "submit" => reviews[toolCall'[d].pull] = {d}
      BY <2>1, <2>4, <3>1 DEF Held, Pull
    <3>2. ASSUME NEW d \in GithubCalls, NEW e \in GithubCalls, Holds(toolCall'[d]), Holds(toolCall'[e]),
                 toolCall'[d].pull = toolCall'[e].pull
          PROVE  d = e
      BY <2>1, <2>4, <3>2 DEF Held, Pull
    <3>3. ASSUME NEW p \in Pulls, reviews[p] # NoReview
          PROVE  \E d \in GithubCalls : Holds(toolCall'[d]) /\ toolCall'[d].pull = p
      BY <2>1, <2>4, <3>3 DEF Held, Pull
    <3> QED  BY <3>1, <3>2, <3>3 DEF Held, Pull
  <2> QED  BY <2>3, <2>5
<1> QED  BY <1>1, <1>3 DEF GithubInv

\* A step that creates, fills, submits or deletes the review of c's pull request.
LEMMA ReviewKeeps ==
  ASSUME GithubInv, NEW c \in GithubCalls, NEW k \in Sound, toolCall' = [toolCall EXCEPT ![c] = k],
         NEW review \in (SUBSET GithubCalls) \cup {NoReview}, k.pull = Pull(c),
         reviews' = [reviews EXCEPT ![Pull(c)] = review],
         published' \subseteq GithubCalls, lost' \in {lost, lost \cup {c}},
         lost' = {} => /\ Honest(k, c \in published')
                       /\ Holds(toolCall[c]) \/ reviews[Pull(c)] = NoReview
                       /\ published' \in {published, published \cup {c}}
                       /\ IF Holds(k) THEN review # NoReview /\ review \subseteq {c} ELSE review = NoReview
                       /\ k.step = "submit" => review = {c}
  PROVE  GithubInv'
<1>1. /\ toolCall' \in [GithubCalls -> Sound] /\ lost' \subseteq GithubCalls
      /\ reviews' \in [Pulls -> (SUBSET GithubCalls) \cup {NoReview}]
  BY DEF GithubInv
<1>2. \A d \in GithubCalls : toolCall'[d] = IF d = c THEN k ELSE toolCall[d]
  BY DEF GithubInv
<1>3. Pull(c) \in Pulls /\ \A d \in GithubCalls : toolCall'[d].pull = toolCall[d].pull
  BY <1>2 DEF GithubInv, Pull, Sound, GithubProgress
<1>4. \A p \in Pulls : reviews'[p] = IF p = Pull(c) THEN review ELSE reviews[p]
  BY DEF GithubInv
<1>5. ASSUME lost' = {}  PROVE Held' /\ \A d \in GithubCalls : Honest(toolCall'[d], d \in published')
  <2>1. lost = {} /\ Held /\ \A d \in GithubCalls : Honest(toolCall[d], d \in published)
    BY <1>5 DEF GithubInv
  <2>2. \A d \in GithubCalls \ {c} : toolCall'[d] = toolCall[d] /\ (d \in published' <=> d \in published)
    BY <1>2, <1>5
  <2>3. \A d \in GithubCalls : Honest(toolCall'[d], d \in published')
    <3> SUFFICES ASSUME NEW d \in GithubCalls  PROVE Honest(toolCall'[d], d \in published')
      OBVIOUS
    <3>1. CASE d = c
      BY <1>2, <1>5, <3>1
    <3>2. CASE d # c
      BY <2>1, <2>2, <3>2 DEF Honest
    <3> QED  BY <3>1, <3>2
  <2>4. \A d \in GithubCalls \ {c} : Holds(toolCall[d]) => Pull(d) # Pull(c) /\ Pull(d) \in Pulls
    BY <1>5, <2>1 DEF Held, GithubInv, Pull, Sound, GithubProgress
  <2>5. ASSUME NEW d \in GithubCalls, Holds(toolCall'[d])
        PROVE  /\ reviews'[toolCall'[d].pull] # NoReview /\ reviews'[toolCall'[d].pull] \subseteq {d}
               /\ toolCall'[d].step = "submit" => reviews'[toolCall'[d].pull] = {d}
    <3>1. CASE d = c
      BY <1>2, <1>3, <1>4, <1>5, <2>5, <3>1 DEF Pull
    <3>2. CASE d # c
      <4>1. toolCall'[d] = toolCall[d] /\ Holds(toolCall[d])
        BY <1>2, <2>5, <3>2
      <4>2. reviews'[Pull(d)] = reviews[Pull(d)] /\ toolCall'[d].pull = Pull(d)
        BY <1>4, <2>4, <3>2, <4>1 DEF Pull
      <4> QED  BY <2>1, <4>1, <4>2 DEF Held
    <3> QED  BY <3>1, <3>2
  <2>6. ASSUME NEW d \in GithubCalls, NEW e \in GithubCalls, Holds(toolCall'[d]), Holds(toolCall'[e]),
               toolCall'[d].pull = toolCall'[e].pull
        PROVE  d = e
    BY <1>2, <1>3, <2>1, <2>4, <2>6 DEF Held, Pull
  <2>7. ASSUME NEW p \in Pulls, reviews'[p] # NoReview
        PROVE  \E d \in GithubCalls : Holds(toolCall'[d]) /\ toolCall'[d].pull = p
    <3>1. CASE p = Pull(c)
      BY <1>2, <1>3, <1>4, <1>5, <2>7, <3>1 DEF Pull
    <3>2. CASE p # Pull(c)
      <4>1. PICK d \in GithubCalls : Holds(toolCall[d]) /\ Pull(d) = p
        BY <1>4, <2>1, <2>7, <3>2 DEF Held
      <4> QED  BY <1>2, <3>2, <4>1 DEF Pull
    <3> QED  BY <3>1, <3>2
  <2> QED  BY <2>3, <2>5, <2>6, <2>7 DEF Held, Pull
<1> QED  BY <1>1, <1>5 DEF GithubInv

LEMMA EndsIs ==
  ASSUME GithubInv, NEW c \in GithubCalls, NEW report, Ends(c, report)
  PROVE  toolCall' = [toolCall EXCEPT ![c] = ReviewEnded(toolCall[c], report)]
BY DEF GithubInv, Ends, ReviewEnded

CallMoved(k, step) == [k EXCEPT !.step = step]

LEMMA ProceedsIs ==
  ASSUME GithubInv, NEW c \in GithubCalls, NEW step, toolCall' = Proceeds(c, step)
  PROVE  toolCall' = [toolCall EXCEPT ![c] = CallMoved(toolCall[c], step)]
BY DEF GithubInv, Proceeds, CallMoved

\* A call that ends and has not held a review, having reported as it is.
LEMMA EndsKeeps ==
  ASSUME GithubInv, NEW c \in GithubCalls, NEW report \in Reports, Ends(c, report),
         CallOpen(toolCall[c]), ~Holds(toolCall[c]),
         published' \in {published, published \cup {c}}, lost' \in {lost, lost \cup {c}},
         lost' = {} /\ report = "completed" => c \in published' \/ toolCall[c].tool \in Silent,
         lost' = {} /\ report = "failed" => c \notin published' \/ toolCall[c].tool = "update_review_thread",
         UNCHANGED reviews
  PROVE  GithubInv'
<1>1. toolCall[c] \in Sound
  BY DEF GithubInv
<1>2. /\ ReviewEnded(toolCall[c], report) \in Sound /\ ReviewEnded(toolCall[c], report).step = "done"
      /\ ReviewEnded(toolCall[c], report).tool = toolCall[c].tool
      /\ ReviewEnded(toolCall[c], report).told = Told1(report)
  BY <1>1, Ending
<1>3. lost' = {} => Honest(ReviewEnded(toolCall[c], report), c \in published')
  BY <1>2, Saying DEF Honest, Told1
<1> QED  BY <1>2, <1>3, EndsIs, CallKeeps DEF Holds

\* A call that goes on, and holds no review before or after.
LEMMA ProceedsKeeps ==
  ASSUME GithubInv, NEW c \in GithubCalls,
         NEW step \in {"single", "create", "fetch", "checkout", "reply", "resolve"},
         toolCall' = Proceeds(c, step), CallOpen(toolCall[c]), ~Holds(toolCall[c]),
         step = "resolve" => toolCall[c].tool = "update_review_thread",
         published' \in {published, published \cup {c}},
         lost = {} /\ step # "resolve" => c \notin published',
         UNCHANGED <<reviews, lost>>
  PROVE  GithubInv'
<1>1. toolCall[c] \in Sound /\ step \in Steps
  BY DEF GithubInv, Steps
<1>2. /\ CallMoved(toolCall[c], step) \in Sound /\ CallMoved(toolCall[c], step).step = step
      /\ CallMoved(toolCall[c], step).told = <<"started">>
  BY <1>1, Moving DEF CallMoved
<1>3. lost = {} => Honest(CallMoved(toolCall[c], step), c \in published')
  BY <1>2, Saying DEF Honest
<1> QED  BY <1>2, <1>3, ProceedsIs, CallKeeps DEF Holds

\* Before its write an open call has published nothing.
LEMMA Unwritten ==
  ASSUME GithubInv, lost = {}, NEW c \in GithubCalls, toolCall[c].step \notin {"resolve", "done"}
  PROVE  c \notin published
BY DEF GithubInv, Honest

LEMMA StartKeeps ==
  ASSUME GithubInv, NEW c \in GithubCalls, StartTool(c)
  PROVE  GithubInv'
<1>1. PICK tool \in Tools, pull \in Pulls, resolves \in BOOLEAN, attached \in BOOLEAN :
        /\ resolves => tool = "update_review_thread"
        /\ tool = "approve_request" => attached
        /\ toolCall' = [toolCall EXCEPT ![c] =
             [tool |-> tool, pull |-> pull, resolves |-> resolves,
              step |-> IF attached THEN FirstStep(tool) ELSE "done",
              told |-> IF attached THEN <<"started">> ELSE Unavailable(tool)]]
  BY DEF StartTool
<1>2. \E step, told : step = (IF attached THEN FirstStep(tool) ELSE "done")
                      /\ told = (IF attached THEN <<"started">> ELSE Unavailable(tool))
  OBVIOUS
<1>3. PICK step, told : step = (IF attached THEN FirstStep(tool) ELSE "done")
                        /\ told = (IF attached THEN <<"started">> ELSE Unavailable(tool))
  BY <1>2
<1> DEFINE k == [tool |-> tool, pull |-> pull, resolves |-> resolves, step |-> step, told |-> told]
<1>4. step \in {"reading", "requesting", "gate", "done"}
      /\ (step = "reading" => tool \in Reads) /\ (step = "requesting" => tool = "approve_request")
      /\ (step = "done" => ~attached)
      /\ (step = "gate" => tool \notin Silent)
  BY <1>3 DEF FirstStep, Silent
<1>5. told \in {<<"started">>, Told1("completed")}
      /\ (told = Told1("completed") => tool \in Reads) /\ (step # "done" => told = <<"started">>)
  BY <1>3, <1>4, Saying DEF Unavailable, Told1, FirstStep
<1>6. k \in Sound /\ ~Holds(k)
  <2>1. step \in Steps /\ told \in {<<>>, <<"started">>} \cup {Told1(report) : report \in Reports}
    BY <1>4, <1>5 DEF Steps, Reports
  <2>2. k \in GithubProgress
    BY <2>1 DEF GithubProgress
  <2>3. Sane(k)
    BY <1>1, <1>4, <1>5 DEF Sane, CallOpen
  <2> QED  BY <1>4, <2>2, <2>3 DEF Sound, Holds
<1>7. lost = {} => Honest(k, c \in published)
  BY <1>4, <1>5, Saying, Unwritten DEF Honest, Silent, StartTool
<1>8. toolCall' = [toolCall EXCEPT ![c] = k]
  BY <1>1, <1>3
<1> HIDE DEF k
<1> QED  BY <1>6, <1>7, <1>8, CallKeeps DEF StartTool, Remote, Holds

LEMMA GateKeeps ==
  ASSUME GithubInv, NEW c \in GithubCalls, Gate(c)
  PROVE  GithubInv'
<1>1. toolCall[c] \in Sound /\ CallOpen(toolCall[c]) /\ ~Holds(toolCall[c])
  BY DEF Gate, GithubInv, CallOpen, Holds
<1>2. CASE Ends(c, "approval_requested")
  BY <1>1, <1>2, EndsKeeps DEF Gate, Remote, Reports
<1>3. CASE c \in granted
  <2>1. PICK step \in Writing(toolCall[c].tool, toolCall[c].resolves) : toolCall' = Proceeds(c, step)
    BY <1>3 DEF Gate
  <2>2. step \in {"single", "create", "fetch", "reply", "resolve"}
        /\ (step = "resolve" => toolCall[c].tool = "update_review_thread")
    <3> DEFINE tool == toolCall[c].tool
    <3>1. tool \in SingleWrites \cup {"branch_from_pr", "review_comment", "update_review_thread"}
      BY <1>1 DEF Gate, Sound, GithubProgress, Sane, Tools, Silent
    <3>2. CASE tool \in SingleWrites
      BY <2>1, <3>2 DEF Writing, SingleWrites, RunWrites, PullWrites, IssueWrites
    <3>3. CASE tool = "branch_from_pr"
      BY <2>1, <3>3 DEF Writing, SingleWrites, RunWrites, PullWrites, IssueWrites
    <3>4. CASE tool = "review_comment"
      BY <2>1, <3>4 DEF Writing, SingleWrites, RunWrites, PullWrites, IssueWrites
    <3>5. CASE tool = "update_review_thread"
      BY <2>1, <3>5 DEF Writing, SingleWrites, RunWrites, PullWrites, IssueWrites
    <3> QED  BY <3>1, <3>2, <3>3, <3>4, <3>5
  <2>3. lost = {} => c \notin published
    BY Unwritten DEF Gate
  <2> QED  BY <1>1, <2>1, <2>2, <2>3, ProceedsKeeps DEF Gate, Remote
<1> QED  BY <1>2, <1>3 DEF Gate

\* The calls of the server and of git that hold no review.
LEMMA WriteGithubKeeps ==
  ASSUME GithubInv, NEW c \in GithubCalls,
         ReadGithub(c) \/ RequestApproval(c) \/ Single(c) \/ ReplyToThread(c) \/ Resolve(c)
           \/ Fetch(c) \/ Checkout(c)
  PROVE  GithubInv'
<1>1. /\ toolCall[c] \in Sound /\ CallOpen(toolCall[c]) /\ ~Holds(toolCall[c])
      /\ {"completed", "failed"} \subseteq Reports
  BY DEF ReadGithub, RequestApproval, Single, ReplyToThread, Resolve, Fetch, Checkout, GithubInv,
         CallOpen, Holds, Reports
<1>2. CASE ReadGithub(c) \/ RequestApproval(c)
  <2>1. toolCall[c].tool \in Silent
    BY <1>1, <1>2 DEF ReadGithub, RequestApproval, Sound, Sane, Silent
  <2> QED  BY <1>1, <1>2, <2>1, EndsKeeps DEF ReadGithub, RequestApproval, Remote
<1>3. CASE Single(c)
  <2>1. lost = {} => c \notin published
    BY <1>3, Unwritten DEF Single
  <2>2. CASE published' = published \cup {c} /\ Ends(c, "completed") /\ UNCHANGED lost
    BY <1>1, <1>3, <2>2, EndsKeeps DEF Single
  <2>3. CASE published' = published \cup {c} /\ Ends(c, "failed") /\ Loses(c)
    BY <1>1, <1>3, <2>3, EndsKeeps DEF Single, Loses
  <2>4. CASE Ends(c, "failed") /\ UNCHANGED <<published, lost>>
    BY <1>1, <1>3, <2>1, <2>4, EndsKeeps DEF Single
  <2> QED  BY <1>3, <2>2, <2>3, <2>4 DEF Single
<1>4. CASE ReplyToThread(c)
  <2>1. lost = {} => c \notin published
    BY <1>4, Unwritten DEF ReplyToThread
  <2>2. CASE /\ published' = published \cup {c} /\ UNCHANGED lost
             /\ toolCall[c].resolves /\ toolCall' = Proceeds(c, "resolve")
    <3>1. toolCall[c].tool = "update_review_thread"
      BY <1>1, <2>2 DEF Sound, Sane
    <3> QED  BY <1>1, <1>4, <2>2, <3>1, ProceedsKeeps DEF ReplyToThread
  <2>3. CASE published' = published \cup {c} /\ Ends(c, "completed") /\ UNCHANGED lost
    BY <1>1, <1>4, <2>3, EndsKeeps DEF ReplyToThread
  <2>4. CASE published' = published \cup {c} /\ Ends(c, "failed") /\ Loses(c)
    BY <1>1, <1>4, <2>4, EndsKeeps DEF ReplyToThread, Loses
  <2>5. CASE Ends(c, "failed") /\ UNCHANGED <<published, lost>>
    BY <1>1, <1>4, <2>1, <2>5, EndsKeeps DEF ReplyToThread
  <2> QED  BY <1>4, <2>2, <2>3, <2>4, <2>5 DEF ReplyToThread
<1>5. CASE Resolve(c)
  <2>1. toolCall[c].tool = "update_review_thread"
    BY <1>1, <1>5 DEF Resolve, Sound, Sane
  <2>2. CASE published' = published \cup {c} /\ Ends(c, "completed") /\ UNCHANGED lost
    BY <1>1, <1>5, <2>2, EndsKeeps DEF Resolve
  <2>3. CASE published' = published \cup {c} /\ Ends(c, "failed") /\ Loses(c)
    BY <1>1, <1>5, <2>3, EndsKeeps DEF Resolve, Loses
  <2>4. CASE Ends(c, "failed") /\ UNCHANGED <<published, lost>>
    BY <1>1, <1>5, <2>1, <2>4, EndsKeeps DEF Resolve
  <2> QED  BY <1>5, <2>2, <2>3, <2>4 DEF Resolve
<1>6. CASE Fetch(c)
  <2>1. lost = {} => c \notin published
    BY <1>6, Unwritten DEF Fetch
  <2>2. CASE toolCall' = Proceeds(c, "checkout")
    BY <1>1, <1>6, <2>1, <2>2, ProceedsKeeps DEF Fetch
  <2>3. CASE Ends(c, "failed")
    BY <1>1, <1>6, <2>1, <2>3, EndsKeeps DEF Fetch
  <2> QED  BY <1>6, <2>2, <2>3 DEF Fetch
<1>7. CASE Checkout(c)
  <2>1. lost = {} => c \notin published
    BY <1>7, Unwritten DEF Checkout
  <2>2. CASE published' = published \cup {c} /\ Ends(c, "completed")
    BY <1>1, <1>7, <2>2, EndsKeeps DEF Checkout
  <2>3. CASE Ends(c, "failed") /\ UNCHANGED published
    BY <1>1, <1>7, <2>1, <2>3, EndsKeeps DEF Checkout
  <2> QED  BY <1>7, <2>2, <2>3 DEF Checkout
<1> QED  BY <1>2, <1>3, <1>4, <1>5, <1>6, <1>7

\* A call that has ended, or goes on, with the review of its pull request.
LEMMA HoldEnds ==
  ASSUME GithubInv, NEW c \in GithubCalls, NEW report \in {"completed", "failed"},
         CallOpen(toolCall[c]), Ends(c, report),
         NEW review \in (SUBSET GithubCalls) \cup {NoReview},
         reviews' = [reviews EXCEPT ![Pull(c)] = review],
         published' \subseteq GithubCalls, lost' \in {lost, lost \cup {c}},
         lost' = {} =>
           /\ Holds(toolCall[c]) \/ reviews[Pull(c)] = NoReview
           /\ published' \in {published, published \cup {c}}
           /\ review = NoReview
           /\ report = "completed" => c \in published'
           /\ report = "failed" => c \notin published'
  PROVE  GithubInv'
<1>1. toolCall[c] \in Sound /\ report \in Reports
  BY DEF GithubInv, Reports
<1>2. /\ ReviewEnded(toolCall[c], report) \in Sound /\ ReviewEnded(toolCall[c], report).step = "done"
      /\ ReviewEnded(toolCall[c], report).tool = toolCall[c].tool
      /\ ReviewEnded(toolCall[c], report).pull = Pull(c)
      /\ ReviewEnded(toolCall[c], report).told = Told1(report)
  BY <1>1, Ending DEF Pull
<1>3. lost' = {} => Honest(ReviewEnded(toolCall[c], report), c \in published')
  BY <1>2, Saying DEF Honest, Told1
<1> QED  BY <1>2, <1>3, EndsIs, ReviewKeeps DEF Holds

LEMMA HoldMoves ==
  ASSUME GithubInv, NEW c \in GithubCalls, NEW step \in {"fill", "submit", "cleanup"},
         CallOpen(toolCall[c]), toolCall' = Proceeds(c, step),
         NEW review \in (SUBSET GithubCalls) \cup {NoReview},
         reviews' = [reviews EXCEPT ![Pull(c)] = review],
         published' \subseteq GithubCalls, lost' \in {lost, lost \cup {c}},
         lost' = {} =>
           /\ Holds(toolCall[c]) \/ reviews[Pull(c)] = NoReview
           /\ published' = published /\ c \notin published
           /\ review # NoReview /\ review \subseteq {c}
           /\ step = "submit" => review = {c}
  PROVE  GithubInv'
<1>1. toolCall[c] \in Sound /\ step \in Steps
  BY DEF GithubInv, Steps
<1>2. /\ CallMoved(toolCall[c], step) \in Sound /\ CallMoved(toolCall[c], step).step = step
      /\ CallMoved(toolCall[c], step).pull = Pull(c)
      /\ CallMoved(toolCall[c], step).told = <<"started">>
  BY <1>1, Moving DEF CallMoved, Pull
<1>3. lost' = {} => Honest(CallMoved(toolCall[c], step), c \in published')
  BY <1>2, Saying DEF Honest
<1> QED  BY <1>2, <1>3, ProceedsIs, ReviewKeeps DEF Holds

LEMMA CreateReviewKeeps ==
  ASSUME GithubInv, NEW c \in GithubCalls, CreateReview(c)
  PROVE  GithubInv'
<1>1. /\ toolCall[c] \in Sound /\ CallOpen(toolCall[c]) /\ ~Holds(toolCall[c]) /\ "failed" \in Reports
      /\ published \subseteq GithubCalls /\ published' = published
  BY DEF CreateReview, GithubInv, CallOpen, Holds, Reports
<1>2. lost = {} => c \notin published
  BY Unwritten DEF CreateReview
<1>3. {} \in SUBSET GithubCalls /\ {} # NoReview
  BY GithubAssumption
<1>4. CASE reviews[Pull(c)] = NoReview /\ reviews' = [reviews EXCEPT ![Pull(c)] = {}]
  <2>1. CASE toolCall' = Proceeds(c, "fill") /\ UNCHANGED lost
    BY <1>1, <1>2, <1>3, <1>4, <2>1, HoldMoves
  <2>2. CASE Ends(c, "failed") /\ Loses(c)
    BY <1>1, <1>3, <1>4, <2>2, HoldEnds DEF Loses
  <2> QED  BY <1>4, <2>1, <2>2, <1>1, <1>2, EndsKeeps DEF CreateReview
<1>5. CASE Ends(c, "failed") /\ UNCHANGED <<reviews, lost>>
  BY <1>1, <1>2, <1>5, EndsKeeps
<1> QED  BY <1>4, <1>5 DEF CreateReview

\* The review that a call holds.
LEMMA OwnReview ==
  ASSUME GithubInv, NEW c \in GithubCalls, Holds(toolCall[c])
  PROVE  /\ Pull(c) \in Pulls /\ reviews[Pull(c)] \in (SUBSET GithubCalls) \cup {NoReview}
         /\ reviews = [reviews EXCEPT ![Pull(c)] = reviews[Pull(c)]]
         /\ CallOpen(toolCall[c]) /\ published \subseteq GithubCalls
         /\ lost = {} => /\ c \notin published
                         /\ reviews[Pull(c)] # NoReview /\ reviews[Pull(c)] \subseteq {c}
                         /\ toolCall[c].step = "submit" => reviews[Pull(c)] = {c}
<1>1. toolCall[c] \in Sound
  BY DEF GithubInv
<1>2. Pull(c) \in Pulls
  BY <1>1 DEF Sound, GithubProgress, Pull
<1>3. lost = {} => c \notin published
  BY Unwritten DEF Holds
<1> QED  BY <1>2, <1>3 DEF GithubInv, Held, Holds, CallOpen

LEMMA FillReviewKeeps ==
  ASSUME GithubInv, NEW c \in GithubCalls, FillReview(c)
  PROVE  GithubInv'
<1>1. Holds(toolCall[c]) /\ published' = published
  BY DEF FillReview, Holds
<1> DEFINE held == reviews[Pull(c)]
<1>2. CASE /\ held # NoReview /\ reviews' = [reviews EXCEPT ![Pull(c)] = @ \cup {c}]
  <2>1. /\ reviews' = [reviews EXCEPT ![Pull(c)] = held \cup {c}]
        /\ held \cup {c} \in SUBSET GithubCalls
    BY <1>1, <1>2, OwnReview
  <2>2. held \cup {c} # NoReview
    BY <2>1, GithubAssumption
  <2>3. CASE toolCall' = Proceeds(c, "submit") /\ UNCHANGED lost
    <3>1. lost = {} => held \cup {c} = {c}
      BY <1>1, OwnReview
    <3> QED  BY <1>1, <2>1, <2>2, <2>3, <3>1, OwnReview, HoldMoves
  <2>4. CASE CleansUp(c) /\ Loses(c)
    BY <1>1, <2>1, <2>2, <2>4, OwnReview, HoldMoves DEF CleansUp, Loses
  <2>5. CASE CleansUp(c) /\ UNCHANGED <<reviews, lost>>
    BY <1>1, <2>5, OwnReview, HoldMoves DEF CleansUp
  <2> QED  BY <2>3, <2>4, <2>5 DEF FillReview
<1>3. CASE CleansUp(c) /\ UNCHANGED <<reviews, lost>>
  BY <1>1, <1>3, OwnReview, HoldMoves DEF CleansUp
<1> QED  BY <1>2, <1>3 DEF FillReview

LEMMA SubmitReviewKeeps ==
  ASSUME GithubInv, NEW c \in GithubCalls, SubmitReview(c)
  PROVE  GithubInv'
<1>1. Holds(toolCall[c])
  BY DEF SubmitReview, Holds
<1>2. CASE /\ reviews[Pull(c)] # NoReview
           /\ published' = published \cup reviews[Pull(c)]
           /\ reviews' = [reviews EXCEPT ![Pull(c)] = NoReview]
  <2>1. published' \subseteq GithubCalls /\ (lost = {} => published' = published \cup {c})
    BY <1>1, <1>2, OwnReview DEF SubmitReview
  <2>2. CASE Ends(c, "completed") /\ UNCHANGED lost
    BY <1>1, <1>2, <2>1, <2>2, OwnReview, HoldEnds
  <2>3. CASE CleansUp(c) /\ Loses(c)
    BY <1>1, <1>2, <2>1, <2>3, OwnReview, HoldMoves DEF CleansUp, Loses
  <2>4. CASE CleansUp(c) /\ UNCHANGED <<reviews, published, lost>>
    BY <1>1, <2>4, OwnReview, HoldMoves DEF CleansUp, SubmitReview
  <2> QED  BY <2>2, <2>3, <2>4 DEF SubmitReview
<1>3. CASE CleansUp(c) /\ UNCHANGED <<reviews, published, lost>>
  BY <1>1, <1>3, OwnReview, HoldMoves DEF CleansUp, SubmitReview
<1> QED  BY <1>2, <1>3 DEF SubmitReview

LEMMA DeleteReviewKeeps ==
  ASSUME GithubInv, NEW c \in GithubCalls, DeleteReview(c)
  PROVE  GithubInv'
<1>1. Holds(toolCall[c]) /\ Ends(c, "failed") /\ published' = published
  BY DEF DeleteReview, Holds
<1>2. CASE reviews' = [reviews EXCEPT ![Pull(c)] = NoReview] /\ UNCHANGED lost
  BY <1>1, <1>2, OwnReview, HoldEnds
<1>3. CASE Loses(c) /\ UNCHANGED reviews
  BY <1>1, <1>3, OwnReview, HoldEnds DEF Loses
<1> QED  BY <1>2, <1>3 DEF DeleteReview

LEMMA GithubStep ==
  ASSUME GithubInv, [GithubNext]_githubVars
  PROVE  GithubInv'
<1>1. CASE UNCHANGED <<toolCall, reviews, published, lost>>
  BY <1>1 DEF GithubInv, Held, Holds, Pull
<1>2. ASSUME NEW c \in GithubCalls, Approve(c)  PROVE UNCHANGED <<toolCall, reviews, published, lost>>
  BY <1>2 DEF Approve, Remote
<1> QED
  BY <1>1, <1>2, StartKeeps, GateKeeps, WriteGithubKeeps, CreateReviewKeeps, FillReviewKeeps,
     SubmitReviewKeeps, DeleteReviewKeeps
  DEF GithubNext, githubVars

\* For any number of calls and pull requests, what a tool reports is what happened on GitHub
\* and no review is left pending, as long as no answer is lost.
THEOREM ReviewsAlwaysSettled == ASSUME Pulls # {}  PROVE GithubSpec => []ReviewsSettled
<1>1. GithubInit => GithubInv
  <2> SUFFICES ASSUME GithubInit  PROVE GithubInv
    OBVIOUS
  <2>1. \A c \in GithubCalls :
          toolCall[c] \in Sound /\ toolCall[c].step = "idle" /\ toolCall[c].told = <<>>
    <3>1. (CHOOSE p \in Pulls : TRUE) \in Pulls
      OBVIOUS
    <3> QED  BY <3>1 DEF GithubInit, Sound, GithubProgress, Sane, CallOpen, Tools, Reads, ContextReads, Steps
  <2>2. toolCall \in [GithubCalls -> Sound]
    BY <2>1 DEF GithubInit
  <2>3. Held /\ \A c \in GithubCalls : Honest(toolCall[c], c \in published)
    BY <2>1, Saying DEF GithubInit, Held, Holds, Honest
  <2> QED  BY <2>2, <2>3 DEF GithubInv, GithubInit
<1>2. GithubInv /\ [GithubNext]_githubVars => GithubInv'
  BY GithubStep
<1> QED  BY <1>1, <1>2, ReviewsAreSettled, PTL DEF GithubSpec

-----------------------------------------------------------------------------
(* The launcher.  A client that is ready and has a server has it among the  *)
(* started, so that its quit stops it.                                      *)

LauncherInv ==
  /\ LauncherTypeOK
  /\ \A c \in Clients :
       /\ client[c] \in {"check", "start"} => gateway[c] = "none"
       /\ client[c] = "probe" => probes[c] < MaxProbes
       /\ client[c] = "ready" /\ gateway[c] # "none" => c \in started
       /\ Live(c) => client[c] \in {"wait", "probe", "ready", "stop", "grace", "killed"}

\* A step of client c and of its own server.
LEMMA LauncherFrame ==
  ASSUME LauncherInv, LauncherTypeOK', NEW c \in Clients,
         \A d \in Clients \ {c} : /\ client'[d] = client[d] /\ gateway'[d] = gateway[d]
                                  /\ d \in started' <=> d \in started
                                  /\ probes'[d] = probes[d],
         client'[c] \in {"check", "start"} => gateway'[c] = "none",
         client'[c] = "probe" => probes'[c] < MaxProbes,
         client'[c] = "ready" /\ gateway'[c] # "none" => c \in started',
         gateway'[c] \in {"booting", "listening"} =>
           client'[c] \in {"wait", "probe", "ready", "stop", "grace", "killed"}
  PROVE  LauncherInv'
<1>1. \A d \in Clients \ {c} :
        /\ client'[d] \in {"check", "start"} => gateway'[d] = "none"
        /\ client'[d] = "probe" => probes'[d] < MaxProbes
        /\ client'[d] = "ready" /\ gateway'[d] # "none" => d \in started'
        /\ gateway'[d] \in {"booting", "listening"} =>
             client'[d] \in {"wait", "probe", "ready", "stop", "grace", "killed"}
  BY DEF LauncherInv, Live
<1> QED  BY <1>1 DEF LauncherInv, Live

LEMMA LauncherStep ==
  ASSUME MaxProbes \in Nat, LauncherInv, [LauncherNext]_launcherVars
  PROVE  LauncherInv'
<1>1. CASE UNCHANGED launcherVars \/ Outside
  BY <1>1 DEF launcherVars, Outside, LauncherInv, LauncherTypeOK, Live
<1>2. ASSUME NEW c \in Clients, ClientStep(c) \/ Quit(c) \/ Crash(c)  PROVE LauncherInv'
  <2> USE DEF LauncherInv, LauncherTypeOK, Goes
  <2>1. CASE UseOrStart(c)
    BY <2>1, LauncherFrame DEF UseOrStart
  <2>2. CASE StartServer(c)
    BY <2>2, LauncherFrame DEF StartServer
  <2>3. CASE CannotStart(c)
    BY <2>3, LauncherFrame DEF CannotStart
  <2>4. CASE Inspect(c)
    BY <2>4, LauncherFrame DEF Inspect
  <2>5. CASE Probe(c)
    <3>1. PICK healthy \in BOOLEAN :
            /\ client' = [client EXCEPT ![c] = IF healthy THEN "ready" ELSE "wait"]
            /\ started' = IF healthy THEN started \cup {c} ELSE started
            /\ probes' = [probes EXCEPT ![c] = IF healthy THEN @ ELSE @ + 1]
      BY <2>5 DEF Probe
    <3>2. LauncherTypeOK'
      BY <2>5, <3>1 DEF Probe
    <3> QED  BY <2>5, <3>1, <3>2, LauncherFrame DEF Probe
  <2>6. CASE WaitFails(c)
    BY <2>6, LauncherFrame DEF WaitFails, Abandon
  <2>7. CASE StopServer(c)
    BY <2>7, LauncherFrame DEF StopServer, Joins, Live
  <2>8. CASE EndsInTime(c)
    BY <2>8, LauncherFrame DEF EndsInTime, Joins, Live
  <2>9. CASE Kill(c)
    BY <2>9, LauncherFrame DEF Kill, Killed, Joins
  <2>10. CASE Join(c)
    BY <2>10, LauncherFrame DEF Join, Live
  <2>11. CASE Quit(c)
    BY <2>11, LauncherFrame DEF Quit, Live
  <2>12. CASE Crash(c)
    BY <2>12, LauncherFrame DEF Crash
  <2> QED
    BY <1>2, <2>1, <2>2, <2>3, <2>4, <2>5, <2>6, <2>7, <2>8, <2>9, <2>10, <2>11, <2>12
    DEF ClientStep
<1>3. ASSUME NEW c \in Clients, Bind(c) \/ GatewayDies(c)  PROVE LauncherInv'
  BY <1>3, LauncherFrame DEF Bind, GatewayDies, LauncherInv, LauncherTypeOK, Live
<1> QED  BY <1>1, <1>2, <1>3 DEF LauncherNext

\* For any clients and any deadline, no failed start and no quit leaves a server behind.
THEOREM ServersHeld == ASSUME MaxProbes \in Nat  PROVE LauncherSpec => []ServersAreHeld
<1>1. LauncherInit => LauncherInv
  BY DEF LauncherInit, LauncherInv, LauncherTypeOK, Live
<1>2. LauncherInv /\ [LauncherNext]_launcherVars => LauncherInv'
  BY LauncherStep
<1>3. LauncherInv => ServersAreHeld
  BY DEF LauncherInv, ServersAreHeld
<1> QED  BY <1>1, <1>2, <1>3, PTL DEF LauncherSpec

-----------------------------------------------------------------------------
(* Edit transactions.  While nobody else writes, the files that the         *)
(* transaction has been through hold what it intends and are recorded, and  *)
(* the others what they held; a rollback restores what is recorded.         *)

PathsOf(ask) == {ask.writes[i].path : i \in DOMAIN ask.writes} \cup {ask.edits[i].path : i \in DOMAIN ask.edits}

Results(ask) == [path: PathsOf(ask), operation: {"write", "patch"}, status: {"applied", "rolled_back", "failed"}]

\* The files of the first n writes, and of the first n edits.
WriteFiles(ask, n) == {File(ask.writes[i].path) : i \in 1..n}
EditFiles(ask, n)  == {File(ask.edits[i].path) : i \in 1..n}

\* No two writes of the first n are to one file.
Apart(ask, n) == \A i, j \in 1..n : File(ask.writes[i].path) = File(ask.writes[j].path) => i = j

\* The first n writes and m edits have been looked at.
Looked(t, n, m) ==
  /\ n \in 0..Len(t.ask.writes) /\ m \in 0..Len(t.ask.edits)
  /\ DOMAIN t.snapshots = WriteFiles(t.ask, n) \cup EditFiles(t.ask, m)
  /\ WriteFiles(t.ask, n) \cap EditFiles(t.ask, m) = {}
  /\ Apart(t.ask, n)

Writes(t) == Len(t.ask.writes)
Edits(t)  == Len(t.ask.edits)

\* Where a transaction is, and what it has looked at.
CheckingWrites(t) == Looked(t, t.at - 1, 0) /\ t.results = <<>>
CheckingEdits(t)  == Looked(t, Writes(t), t.at - 1) /\ t.results = <<>>
WritingFiles(t)        == Looked(t, Writes(t), Edits(t)) /\ t.at <= Writes(t) + 1
Patching(t)       == Looked(t, Writes(t), Edits(t)) /\ t.at <= Edits(t) + 1
RollingBack(t)    == /\ t.at <= Len(t.results) + 1
                     /\ \A i \in DOMAIN t.results : File(t.results[i].path) \in DOMAIN t.snapshots

Phases == {"idle", "check writes", "check edits", "write", "patch", "roll back", "ended"}

Typed(t) ==
  /\ t.at \in Nat \ {0}
  /\ IsList(t.ask.writes) /\ IsList(t.ask.edits) /\ t.results \in Seq(Results(t.ask))

Shaped(t) == t = [pc |-> t.pc, ask |-> t.ask, at |-> t.at, snapshots |-> t.snapshots, results |-> t.results,
                  status |-> t.status, failure |-> t.failure]

Progress(t) ==
  /\ Shaped(t) /\ t.pc \in Phases /\ Typed(t)
  /\ t.status \in {"pending", "applied", "failed"} /\ (t.pc = "ended" <=> t.status # "pending")
  /\ t.pc = "idle"         => t = Idle
  /\ t.pc = "check writes" => CheckingWrites(t)
  /\ t.pc = "check edits"  => CheckingEdits(t)
  /\ t.pc = "write"        => WritingFiles(t)
  /\ t.pc = "patch"        => Patching(t)
  /\ t.pc = "roll back"    => RollingBack(t)

\* The files that a transaction has been through when it writes and when it patches.
Wrote(t)   == WriteFiles(t.ask, t.at - 1)
Patched(t) == WriteFiles(t.ask, Writes(t)) \cup EditFiles(t.ask, t.at - 1)

\* The result of an operation not yet rolled back names f.
Recorded(t, f, n) == \E i \in n..Len(t.results) : File(t.results[i].path) = f

Left(t, fs, found, through) ==
  \A f \in DOMAIN fs :
    /\ f \notin through => fs[f] = found[f]
    /\ f \in through => Recorded(t, f, 1)
    /\ f \in through /\ OneSpelling(t.ask) => fs[f] = Intended(t.ask, found, f)

Undoing(t, fs, found)  == \A f \in DOMAIN fs \ Reported(t) : fs[f] = found[f] \/ Recorded(t, f, t.at)
Undone(t, fs, found)   == \A f \in DOMAIN fs \ Reported(t) : fs[f] = found[f]
Achieved(t, fs, found) == OneSpelling(t.ask) => \A f \in DOMAIN fs : fs[f] = Intended(t.ask, found, f)
Faithful(t, found)     == \A f \in DOMAIN t.snapshots : t.snapshots[f] = found[f]

\* What the files hold while nobody else writes them.
FilesHold(t, fs, found) ==
  /\ Faithful(t, found)
  /\ t.pc \in {"idle", "check writes", "check edits"} => fs = found
  /\ t.pc = "write"       => Left(t, fs, found, Wrote(t))
  /\ t.pc = "patch"       => Left(t, fs, found, Patched(t))
  /\ t.pc = "roll back"   => Undoing(t, fs, found)
  /\ t.status = "applied" => Achieved(t, fs, found)
  /\ t.status = "failed"  => Undone(t, fs, found)

EditInv ==
  /\ Progress(tx)
  /\ DOMAIN before = DOMAIN files
  /\ ~shared => FilesHold(tx, files, before)

-----------------------------------------------------------------------------
LEMMA WrittenIs ==
  ASSUME IsList(tx.ask.writes)
  PROVE  Written(tx.ask) = WriteFiles(tx.ask, Writes(tx))
BY DEF Written, WriteFiles, IsList, Writes

LEMMA Nothing ==
  ASSUME NEW ask, IsList(ask.writes), IsList(ask.edits),
         NEW t, t.ask = ask, t.at = 1, t.results = <<>>, DOMAIN t.snapshots = {}
  PROVE  Typed(t) /\ CheckingWrites(t) /\ \A found : Faithful(t, found)
<1>1. Len(ask.writes) \in Nat /\ Len(ask.edits) \in Nat
  BY DEF IsList
<1>2. WriteFiles(ask, 0) = {} /\ EditFiles(ask, 0) = {} /\ Apart(ask, 0)
  BY DEF WriteFiles, EditFiles, Apart
<1>3. <<>> \in Seq(Results(ask))
  OBVIOUS
<1>4. Looked(t, 0, 0)
  BY <1>1, <1>2 DEF Looked
<1>5. 1 - 1 = 0
  OBVIOUS
<1> QED BY <1>3, <1>4, <1>5 DEF CheckingWrites, Faithful, Typed

LEMMA InitEdits == EditInit => EditInv
<1> SUFFICES ASSUME EditInit PROVE EditInv
  OBVIOUS
<1>1. tx.at = 1 /\ tx.results = <<>> /\ DOMAIN tx.snapshots = {} /\ tx.ask.writes = <<>> /\ tx.ask.edits = <<>>
  BY DEF EditInit, Idle
<1>2. IsList(<<>>)
  BY DEF IsList
<1>3. tx.pc = "idle" /\ tx.status = "pending" /\ tx = Idle /\ Shaped(tx)
  BY DEF EditInit, Idle, Shaped
<1> QED BY <1>1, <1>2, <1>3, Nothing DEF EditInit, EditInv, Progress, FilesHold, Phases

LEMMA BeginInv == ASSUME EditInv, Begin PROVE EditInv'
<1>1. PICK ask \in Transactions : tx' = [Idle EXCEPT !.pc = "check writes", !.ask = ask]
  BY DEF Begin
<1>2. /\ tx'.ask = ask /\ tx'.at = 1 /\ DOMAIN tx'.snapshots = {} /\ tx'.results = <<>>
      /\ tx'.pc = "check writes" /\ tx'.status = "pending" /\ Shaped(tx')
  <2>1. tx' = [pc |-> "check writes", ask |-> ask, at |-> 1, snapshots |-> <<>>, results |-> <<>>,
               status |-> "pending", failure |-> <<>>]
    BY <1>1 DEF Idle
  <2>2. DOMAIN <<>> = {}
    OBVIOUS
  <2> QED BY <2>1, <2>2 DEF Shaped
<1>3. Typed(tx') /\ CheckingWrites(tx') /\ Faithful(tx', files)
  BY <1>2, EditAssumption, Nothing
<1> QED BY <1>2, <1>3 DEF Begin, EditInv, Progress, FilesHold, Phases

LEMMA OtherInv == ASSUME EditInv, ReadOther \/ Store PROVE EditInv'
<1>1. CASE ReadOther
  BY <1>1 DEF ReadOther, EditInv
<1>2. CASE Store
  BY <1>2 DEF Store, EditInv
<1> QED BY <1>1, <1>2

\* The parts of a transaction that is given part by part.
LEMMA Parts ==
  ASSUME NEW t, NEW pc, NEW ask, NEW at, NEW snapshots, NEW results, NEW status, NEW failure,
         t = [pc |-> pc, ask |-> ask, at |-> at, snapshots |-> snapshots, results |-> results,
              status |-> status, failure |-> failure]
  PROVE  /\ t.at = at /\ t.ask = ask /\ t.results = results /\ t.snapshots = snapshots
         /\ t.pc = pc /\ t.status = status /\ t.failure = failure /\ Shaped(t)
<1>1. /\ t.at = at /\ t.ask = ask /\ t.results = results /\ t.snapshots = snapshots
      /\ t.pc = pc /\ t.status = status /\ t.failure = failure
  OBVIOUS
<1> QED BY <1>1, Zenon DEF Shaped

LEMMA EmptyDomain == DOMAIN <<>> = {}
OBVIOUS

\* A transaction that begins to roll back.
LEMMA RolledIs ==
  ASSUME NEW path, NEW pc, NEW at, Shaped(tx), tx' = [tx EXCEPT !.pc = pc, !.at = at, !.failure = path]
  PROVE  /\ tx'.at = at /\ tx'.ask = tx.ask /\ tx'.results = tx.results /\ tx'.snapshots = tx.snapshots
         /\ tx'.pc = pc /\ tx'.status = tx.status /\ tx'.failure = path /\ Shaped(tx')
<1>1. tx' = [pc |-> pc, ask |-> tx.ask, at |-> at, snapshots |-> tx.snapshots, results |-> tx.results,
             status |-> tx.status, failure |-> path]
  BY DEF Shaped
<1> QED BY <1>1 DEF Shaped

LEMMA AbortIs ==
  ASSUME NEW path, Shaped(tx), tx' = Abort(path)
  PROVE  /\ tx'.at = 1 /\ tx'.ask = tx.ask /\ tx'.results = tx.results /\ tx'.snapshots = tx.snapshots
         /\ tx'.pc = "roll back" /\ tx'.status = tx.status /\ tx'.failure = path /\ Shaped(tx')
<1>1. tx' = [tx EXCEPT !.pc = "roll back", !.at = 1, !.failure = path]
  BY DEF Abort
<1> HIDE DEF Abort
<1> QED BY <1>1, RolledIs, Zenon

LEMMA AbortRolls ==
  ASSUME Progress(tx), tx.pc \notin {"idle", "ended"}, NEW path, tx' = Abort(path),
         \A i \in DOMAIN tx.results : File(tx.results[i].path) \in DOMAIN tx.snapshots
  PROVE  Progress(tx') /\ \A found : Faithful(tx, found) => Faithful(tx', found)
<1>1. Shaped(tx) /\ Typed(tx) /\ tx.status = "pending"
  BY DEF Progress, Phases
<1>2. tx'.at = 1 /\ tx'.ask = tx.ask /\ tx'.results = tx.results /\ tx'.snapshots = tx.snapshots
  BY <1>1, AbortIs
<1>3. Typed(tx')
  BY <1>1, <1>2 DEF Typed
<1>4. RollingBack(tx')
  <2>1. Len(tx.results) \in Nat
    BY <1>1 DEF Typed
  <2> QED BY <1>2, <2>1 DEF RollingBack
<1>5. tx'.pc = "roll back" /\ tx'.status = "pending" /\ Shaped(tx')
  BY <1>1, AbortIs
<1> QED BY <1>2, <1>3, <1>4, <1>5 DEF Progress, Phases, Faithful

\* A transaction that fails before it changed anything.
LEMMA AbortInv ==
  ASSUME EditInv, tx.pc \in {"check writes", "check edits"}, NEW path, tx' = Abort(path),
         UNCHANGED <<files, before, shared>>
  PROVE  EditInv'
<1>1. Shaped(tx) /\ (~shared => Faithful(tx, before) /\ files = before) /\ Progress(tx)
  BY DEF EditInv, Progress, FilesHold
<1>2. tx.results = <<>> /\ tx.status = "pending"
  <2>1. (CheckingWrites(tx) \/ CheckingEdits(tx)) /\ tx.status = "pending"
    BY <1>1 DEF Progress
  <2> QED BY <2>1 DEF CheckingWrites, CheckingEdits
<1>3. \A i \in DOMAIN tx.results : File(tx.results[i].path) \in DOMAIN tx.snapshots
  BY <1>2, EmptyDomain, Zenon
<1>4. Progress(tx') /\ \A found : Faithful(tx, found) => Faithful(tx', found)
  BY <1>1, <1>3, AbortRolls
<1>5. ~shared => Undoing(tx', files, before)
  BY <1>1 DEF Undoing
<1>6. tx'.pc = "roll back" /\ tx'.status = "pending"
  BY <1>1, <1>2, AbortIs
<1> QED BY <1>1, <1>4, <1>5, <1>6 DEF EditInv, FilesHold

\* Checks go on to the next operation, whose file is remembered as it is.
LEMMA SnapIs ==
  ASSUME Shaped(tx), NEW f, tx' = Snapped(f)
  PROVE  /\ tx'.at = tx.at + 1 /\ tx'.ask = tx.ask /\ tx'.results = tx.results
         /\ tx'.snapshots = Snapshots(f) /\ tx'.failure = tx.failure
         /\ tx'.pc = tx.pc /\ tx'.status = tx.status /\ Shaped(tx')
<1>1. tx' = [pc |-> tx.pc, ask |-> tx.ask, at |-> tx.at + 1, snapshots |-> Snapshots(f), results |-> tx.results,
             status |-> tx.status, failure |-> tx.failure]
  BY DEF Snapped, Shaped
<1> QED BY <1>1 DEF Shaped

LEMMA SnapshotsAre ==
  ASSUME NEW f
  PROVE  DOMAIN Snapshots(f) = DOMAIN tx.snapshots \cup {f}
         /\ (Faithful(tx, files) => \A g \in DOMAIN Snapshots(f) : Snapshots(f)[g] = files[g])
BY DEF Snapshots, Faithful

LEMMA OneMoreWrite ==
  ASSUME NEW t, Typed(t), t.at <= Writes(t), Looked(t, t.at - 1, 0),
         File(t.ask.writes[t.at].path) \notin DOMAIN t.snapshots, NEW u,
         u.ask = t.ask, DOMAIN u.snapshots = DOMAIN t.snapshots \cup {File(t.ask.writes[t.at].path)}
  PROVE  Looked(u, t.at, 0)
<1>1. t.at \in Nat \ {0} /\ Writes(t) \in Nat /\ Edits(t) \in Nat
  BY DEF Typed, IsList, Writes, Edits
<1>2. t.at \in 0..Writes(t) /\ 0 \in 0..Edits(t) /\ 1..t.at = 1..(t.at - 1) \cup {t.at}
  BY <1>1
<1>3. WriteFiles(t.ask, t.at) = WriteFiles(t.ask, t.at - 1) \cup {File(t.ask.writes[t.at].path)}
  BY <1>2 DEF WriteFiles
<1>4. EditFiles(t.ask, 0) = {}
  BY DEF EditFiles
<1>5. Apart(t.ask, t.at)
  <2>1. \A i \in 1..(t.at - 1) : File(t.ask.writes[i].path) # File(t.ask.writes[t.at].path)
    BY DEF Looked, WriteFiles
  <2> QED BY <1>2, <2>1 DEF Apart, Looked
<1> QED BY <1>2, <1>3, <1>4, <1>5 DEF Looked, Writes, Edits

LEMMA OneMoreEdit ==
  ASSUME NEW t, Typed(t), t.at <= Edits(t), Looked(t, Writes(t), t.at - 1),
         File(t.ask.edits[t.at].path) \notin WriteFiles(t.ask, Writes(t)), NEW u,
         u.ask = t.ask, DOMAIN u.snapshots = DOMAIN t.snapshots \cup {File(t.ask.edits[t.at].path)}
  PROVE  Looked(u, Writes(t), t.at)
<1>1. t.at \in Nat \ {0} /\ Writes(t) \in Nat /\ Edits(t) \in Nat
  BY DEF Typed, IsList, Writes, Edits
<1>2. t.at \in 0..Edits(t) /\ 1..t.at = 1..(t.at - 1) \cup {t.at}
  BY <1>1
<1>3. EditFiles(t.ask, t.at) = EditFiles(t.ask, t.at - 1) \cup {File(t.ask.edits[t.at].path)}
  BY <1>2 DEF EditFiles
<1> QED BY <1>1, <1>2, <1>3 DEF Looked, Writes, Edits

\* The next phase begins.
LEMMA TurnIs ==
  ASSUME Shaped(tx), NEW pc, tx' = [tx EXCEPT !.pc = pc, !.at = 1]
  PROVE  /\ tx'.at = 1 /\ tx'.ask = tx.ask /\ tx'.results = tx.results
         /\ tx'.snapshots = tx.snapshots /\ tx'.failure = tx.failure
         /\ tx'.pc = pc /\ tx'.status = tx.status /\ Shaped(tx')
<1>1. tx' = [pc |-> pc, ask |-> tx.ask, at |-> 1, snapshots |-> tx.snapshots, results |-> tx.results,
             status |-> tx.status, failure |-> tx.failure]
  BY DEF Shaped
<1> QED BY <1>1 DEF Shaped

LEMMA CheckWriteInv == ASSUME EditInv, CheckWrite PROVE EditInv'
<1>0. tx.pc = "check writes" /\ tx.status = "pending"
  BY DEF EditInv, Progress, CheckWrite
<1>1. Shaped(tx) /\ Typed(tx) /\ CheckingWrites(tx)
  BY <1>0 DEF EditInv, Progress
<1>2. UNCHANGED <<files, before, shared>> /\ DOMAIN before = DOMAIN files
      /\ (~shared => Faithful(tx, before) /\ files = before)
  BY <1>0 DEF CheckWrite, EditInv, FilesHold
<1>3. ASSUME tx.at > Writes(tx), NEW pc, pc = "check edits", tx' = [tx EXCEPT !.pc = pc, !.at = 1]
      PROVE  EditInv'
  <2>1. /\ tx'.at = 1 /\ tx'.ask = tx.ask /\ tx'.results = tx.results
        /\ tx'.snapshots = tx.snapshots
    BY <1>1, <1>3, TurnIs
  <2>2. tx'.pc = "check edits" /\ tx'.status = "pending" /\ Shaped(tx')
    BY <1>0, <1>1, <1>3, TurnIs
  <2>3. Typed(tx')
    BY <1>1, <2>1 DEF Typed
  <2>4. CheckingEdits(tx')
    <3>0. tx.at > Writes(tx)
      BY <1>3
    <3>1. tx.at - 1 = Writes(tx)
      BY <1>1, <3>0 DEF Typed, CheckingWrites, Looked, Writes, IsList
    <3>2. Looked(tx, Writes(tx), 0) /\ tx.results = <<>> /\ 1 - 1 = 0
      BY <1>1, <3>1 DEF CheckingWrites
    <3> QED BY <2>1, <3>2 DEF CheckingEdits, Looked, Writes
  <2>5. ~shared => Faithful(tx', before)
    BY <1>2, <2>1 DEF Faithful
  <2> QED BY <1>2, <2>2, <2>3, <2>4, <2>5 DEF EditInv, Progress, FilesHold, Phases
<1>4. ASSUME NEW path, tx' = Abort(path)
      PROVE  EditInv'
  BY <1>0, <1>2, <1>4, AbortInv
<1>5. ASSUME tx.at <= Writes(tx), NEW f, f = File(tx.ask.writes[tx.at].path),
             f \notin DOMAIN tx.snapshots, tx' = Snapped(f)
      PROVE  EditInv'
  <2>1. /\ tx'.at = tx.at + 1 /\ tx'.ask = tx.ask /\ tx'.results = tx.results
        /\ tx'.snapshots = Snapshots(f)
    BY <1>1, <1>5, SnapIs
  <2>2. tx'.pc = "check writes" /\ tx'.status = "pending" /\ Shaped(tx')
    BY <1>0, <1>1, <1>5, SnapIs
  <2>3. Typed(tx')
    BY <1>1, <2>1 DEF Typed
  <2>4. CheckingWrites(tx')
    <3>1. Looked(tx, tx.at - 1, 0) /\ tx.results = <<>>
      BY <1>1 DEF CheckingWrites
    <3>2. Looked(tx', tx.at, 0)
      BY <1>1, <1>5, <2>1, <3>1, SnapshotsAre, OneMoreWrite
    <3>3. tx'.at - 1 = tx.at
      BY <1>1, <2>1 DEF Typed
    <3>4. tx'.results = <<>>
      BY <2>1, <3>1
    <3> QED BY <3>2, <3>3, <3>4, Zenon DEF CheckingWrites
  <2>5. ~shared => Faithful(tx', before)
    <3> SUFFICES ASSUME ~shared PROVE Faithful(tx', before)
      OBVIOUS
    <3>1. Faithful(tx, files) /\ files = before
      BY <1>2
    <3>2. \A g \in DOMAIN Snapshots(f) : Snapshots(f)[g] = before[g]
      BY <3>1, SnapshotsAre
    <3> QED BY <2>1, <3>2 DEF Faithful
  <2> QED BY <1>2, <2>2, <2>3, <2>4, <2>5 DEF EditInv, Progress, FilesHold, Phases
<1>6. \/ tx.at > Writes(tx) /\ tx' = [tx EXCEPT !.pc = "check edits", !.at = 1]
      \/ \E path : tx' = Abort(path)
      \/ /\ ~(tx.at > Writes(tx)) /\ File(tx.ask.writes[tx.at].path) \notin DOMAIN tx.snapshots
         /\ tx' = Snapped(File(tx.ask.writes[tx.at].path))
  BY DEF CheckWrite, Writes
<1>7. ~(tx.at > Writes(tx)) => tx.at <= Writes(tx)
  BY <1>1 DEF Typed, Writes, IsList
<1> QED BY <1>3, <1>4, <1>5, <1>6, <1>7

LEMMA CheckEditInv == ASSUME EditInv, CheckEdit PROVE EditInv'
<1>0. tx.pc = "check edits" /\ tx.status = "pending"
  BY DEF EditInv, Progress, CheckEdit
<1>1. Shaped(tx) /\ Typed(tx) /\ CheckingEdits(tx)
  BY <1>0 DEF EditInv, Progress
<1>2. UNCHANGED <<files, before, shared>> /\ DOMAIN before = DOMAIN files
      /\ (~shared => Faithful(tx, before) /\ files = before)
  BY <1>0 DEF CheckEdit, EditInv, FilesHold
<1>3. ASSUME tx.at > Edits(tx), NEW pc, pc = "write", tx' = [tx EXCEPT !.pc = pc, !.at = 1]
      PROVE  EditInv'
  <2>1. /\ tx'.at = 1 /\ tx'.ask = tx.ask /\ tx'.results = tx.results
        /\ tx'.snapshots = tx.snapshots
    BY <1>1, <1>3, TurnIs
  <2>2. tx'.pc = "write" /\ tx'.status = "pending" /\ Shaped(tx')
    BY <1>0, <1>1, <1>3, TurnIs
  <2>3. Typed(tx')
    BY <1>1, <2>1 DEF Typed
  <2>4. WritingFiles(tx')
    <3>0. tx.at > Edits(tx)
      BY <1>3
    <3>1. tx.at - 1 = Edits(tx) /\ 1 <= Writes(tx) + 1
      BY <1>1, <3>0 DEF Typed, CheckingEdits, Looked, Writes, Edits, IsList
    <3>2. Looked(tx, Writes(tx), Edits(tx))
      BY <1>1, <3>1 DEF CheckingEdits
    <3> QED BY <2>1, <3>1, <3>2 DEF WritingFiles, Looked, Writes, Edits
  <2>5. ~shared => Faithful(tx', before)
    BY <1>2, <2>1 DEF Faithful
  <2>6. ~shared => Left(tx', files, before, Wrote(tx'))
    <3>1. Wrote(tx') = {}
      BY <2>1 DEF Wrote, WriteFiles
    <3> QED BY <1>2, <3>1 DEF Left
  <2> QED BY <1>2, <2>2, <2>3, <2>4, <2>5, <2>6 DEF EditInv, Progress, FilesHold, Phases
<1>4. ASSUME NEW path, tx' = Abort(path)
      PROVE  EditInv'
  BY <1>0, <1>2, <1>4, AbortInv
<1>5. ASSUME tx.at <= Edits(tx), NEW f, f = File(tx.ask.edits[tx.at].path),
             f \notin Written(tx.ask), tx' = Snapped(f)
      PROVE  EditInv'
  <2>1. /\ tx'.at = tx.at + 1 /\ tx'.ask = tx.ask /\ tx'.results = tx.results
        /\ tx'.snapshots = Snapshots(f)
    BY <1>1, <1>5, SnapIs
  <2>2. tx'.pc = "check edits" /\ tx'.status = "pending" /\ Shaped(tx')
    BY <1>0, <1>1, <1>5, SnapIs
  <2>3. Typed(tx')
    BY <1>1, <2>1 DEF Typed
  <2>4. CheckingEdits(tx')
    <3>1. Looked(tx, Writes(tx), tx.at - 1) /\ tx.results = <<>> /\ IsList(tx.ask.writes)
      BY <1>1 DEF CheckingEdits, Typed
    <3>2. Looked(tx', Writes(tx), tx.at)
      BY <1>1, <1>5, <2>1, <3>1, SnapshotsAre, WrittenIs, OneMoreEdit
    <3>3. tx'.at - 1 = tx.at
      BY <1>1, <2>1 DEF Typed
    <3>4. tx'.results = <<>> /\ Writes(tx') = Writes(tx)
      BY <2>1, <3>1 DEF Writes
    <3> QED BY <3>2, <3>3, <3>4, Zenon DEF CheckingEdits
  <2>5. ~shared => Faithful(tx', before)
    <3> SUFFICES ASSUME ~shared PROVE Faithful(tx', before)
      OBVIOUS
    <3>1. Faithful(tx, files) /\ files = before
      BY <1>2
    <3>2. \A g \in DOMAIN Snapshots(f) : Snapshots(f)[g] = before[g]
      BY <3>1, SnapshotsAre
    <3> QED BY <2>1, <3>2 DEF Faithful
  <2> QED BY <1>2, <2>2, <2>3, <2>4, <2>5 DEF EditInv, Progress, FilesHold, Phases
<1>6. \/ tx.at > Edits(tx) /\ tx' = [tx EXCEPT !.pc = "write", !.at = 1]
      \/ \E path : tx' = Abort(path)
      \/ /\ ~(tx.at > Edits(tx)) /\ File(tx.ask.edits[tx.at].path) \notin Written(tx.ask)
         /\ tx' = Snapped(File(tx.ask.edits[tx.at].path))
  BY DEF CheckEdit, Edits
<1>7. ~(tx.at > Edits(tx)) => tx.at <= Edits(tx)
  BY <1>1 DEF Typed, Edits, IsList
<1> QED BY <1>3, <1>4, <1>5, <1>6, <1>7

-----------------------------------------------------------------------------
\* WritingFiles, patching and rolling back.

LEMMA IntendedWrite ==
  ASSUME NEW ask, NEW found, Apart(ask, Len(ask.writes)), IsList(ask.writes), NEW i \in 1..Len(ask.writes)
  PROVE  Intended(ask, found, File(ask.writes[i].path)) = ask.writes[i].content
<1> DEFINE f == File(ask.writes[i].path)
           k == CHOOSE j \in DOMAIN ask.writes : File(ask.writes[j].path) = f
<1>1. i \in DOMAIN ask.writes /\ DOMAIN ask.writes = 1..Len(ask.writes)
  BY DEF IsList
<1>2. k \in DOMAIN ask.writes /\ File(ask.writes[k].path) = f
  BY <1>1
<1>3. k = i
  BY <1>1, <1>2 DEF Apart
<1>4. f \in Written(ask)
  BY <1>1 DEF Written
<1> QED BY <1>3, <1>4 DEF Intended

LEMMA IntendedEdit ==
  ASSUME NEW ask, NEW found, OneSpelling(ask), NEW j \in DOMAIN ask.edits,
         File(ask.edits[j].path) \notin Written(ask)
  PROVE  Intended(ask, found, File(ask.edits[j].path)) =
           Edited(found[File(ask.edits[j].path)], EditsAt(ask.edits, {ask.edits[j].path}))
<1> DEFINE f     == File(ask.edits[j].path)
           paths == {ask.edits[i].path : i \in {i \in DOMAIN ask.edits : File(ask.edits[i].path) = f}}
<1>1. paths = {ask.edits[j].path}
  BY DEF OneSpelling
<1>2. Intended(ask, found, f) = IF paths # {} THEN Edited(found[f], EditsAt(ask.edits, paths)) ELSE found[f]
  BY DEF Intended
<1> HIDE DEF paths
<1> QED BY <1>1, <1>2

LEMMA IntendedNone ==
  ASSUME NEW ask, NEW found, IsList(ask.edits), NEW f, f \notin Written(ask), f \notin EditFiles(ask, Len(ask.edits))
  PROVE  Intended(ask, found, f) = found[f]
<1>1. {ask.edits[i].path : i \in {i \in DOMAIN ask.edits : File(ask.edits[i].path) = f}} = {}
  BY DEF EditFiles, IsList
<1> QED BY <1>1 DEF Intended

\* What is recorded stays so when results are added.
LEMMA MoreResults ==
  ASSUME NEW R, NEW s \in Seq(R), NEW z \in Seq(R), Len(z) > 0
  PROVE  /\ s \o z \in Seq(R)
         /\ \A i \in 1..Len(s) : i \in 1..Len(s \o z) /\ (s \o z)[i] = s[i]
         /\ Len(s) + 1 \in 1..Len(s \o z) /\ (s \o z)[Len(s) + 1] = z[1]
OBVIOUS

LEMMA OneMoreDone ==
  ASSUME NEW t, NEW fs, NEW found, NEW through, Left(t, fs, found, through), NEW f, NEW content, NEW u,
         u.ask = t.ask, OneSpelling(t.ask) => content = Intended(t.ask, found, f),
         NEW R, NEW z \in Seq(R), t.results \in Seq(R), u.results = t.results \o z, Len(z) > 0,
         File(z[1].path) = f
  PROVE  Left(u, [fs EXCEPT ![f] = content], found, through \cup {f})
<1>0. /\ \A i \in 1..Len(t.results) : i \in 1..Len(u.results) /\ u.results[i] = t.results[i]
      /\ Len(t.results) + 1 \in 1..Len(u.results) /\ u.results[Len(t.results) + 1] = z[1]
  BY MoreResults
<1>1. \A g : Recorded(t, g, 1) => Recorded(u, g, 1)
  BY <1>0 DEF Recorded
<1>2. Recorded(u, f, 1)
  BY <1>0 DEF Recorded
<1>3. ASSUME NEW g \in DOMAIN fs
      PROVE  /\ g \notin through \cup {f} => [fs EXCEPT ![f] = content][g] = found[g]
             /\ g \in through \cup {f} => Recorded(u, g, 1)
             /\ g \in through \cup {f} /\ OneSpelling(u.ask) =>
                  [fs EXCEPT ![f] = content][g] = Intended(u.ask, found, g)
  <2>1. CASE g = f
    BY <1>2, <2>1
  <2>2. CASE g # f
    BY <1>1, <2>2 DEF Left
  <2> QED BY <2>1, <2>2
<1> QED BY <1>3 DEF Left

\* A transaction moves on with more results.
LEMMA MoveIs ==
  ASSUME Shaped(tx), NEW results, tx' = [tx EXCEPT !.at = @ + 1, !.results = results]
  PROVE  /\ tx'.at = tx.at + 1 /\ tx'.ask = tx.ask /\ tx'.results = results
         /\ tx'.snapshots = tx.snapshots /\ tx'.failure = tx.failure
         /\ tx'.pc = tx.pc /\ tx'.status = tx.status /\ Shaped(tx')
<1>1. tx' = [pc |-> tx.pc, ask |-> tx.ask, at |-> tx.at + 1, snapshots |-> tx.snapshots, results |-> results,
             status |-> tx.status, failure |-> tx.failure]
  BY DEF Shaped
<1> QED BY <1>1 DEF Shaped

LEMMA EndIs ==
  ASSUME Shaped(tx), NEW pc, NEW status, tx' = [tx EXCEPT !.pc = pc, !.status = status]
  PROVE  /\ tx'.at = tx.at /\ tx'.ask = tx.ask /\ tx'.results = tx.results
         /\ tx'.snapshots = tx.snapshots /\ tx'.failure = tx.failure
         /\ tx'.pc = pc /\ tx'.status = status /\ Shaped(tx')
<1>1. tx' = [pc |-> pc, ask |-> tx.ask, at |-> tx.at, snapshots |-> tx.snapshots, results |-> tx.results,
             status |-> status, failure |-> tx.failure]
  BY DEF Shaped
<1> QED BY <1>1 DEF Shaped

LEMMA ResultsKnown ==
  ASSUME NEW t, Typed(t), Looked(t, Writes(t), Edits(t)), NEW i \in DOMAIN t.results
  PROVE  File(t.results[i].path) \in DOMAIN t.snapshots
<1>1. t.results[i].path \in PathsOf(t.ask)
  <2>1. t.results \in Seq(Results(t.ask))
    BY DEF Typed
  <2>2. t.results[i] \in Results(t.ask)
    BY <2>1
  <2> QED BY <2>2 DEF Results
<1>2. DOMAIN t.ask.writes = 1..Writes(t) /\ DOMAIN t.ask.edits = 1..Edits(t)
  BY DEF Typed, IsList, Writes, Edits
<1> QED BY <1>1, <1>2 DEF PathsOf, Looked, WriteFiles, EditFiles

\* An operation fails, and its file is as it was or empty.
LEMMA FailInv ==
  ASSUME EditInv, tx.pc \in {"write", "patch"}, NEW path, tx' = Abort(path),
         files' \in {files, [files EXCEPT ![File(path)] = <<>>]}, UNCHANGED <<before, shared>>
  PROVE  EditInv'
<1>1. Progress(tx) /\ Shaped(tx) /\ Typed(tx) /\ tx.status = "pending" /\ (WritingFiles(tx) \/ Patching(tx))
  BY DEF EditInv, Progress
<1>2. \A i \in DOMAIN tx.results : File(tx.results[i].path) \in DOMAIN tx.snapshots
  <2>1. Typed(tx) /\ Looked(tx, Writes(tx), Edits(tx))
    BY <1>1 DEF WritingFiles, Patching
  <2> QED BY <2>1, ResultsKnown
<1>3. Progress(tx') /\ \A found : Faithful(tx, found) => Faithful(tx', found)
  BY <1>1, <1>2, AbortRolls
<1>4. /\ tx'.at = 1 /\ tx'.results = tx.results /\ tx'.failure = path
  BY <1>1, AbortIs
<1>5. tx'.pc = "roll back" /\ tx'.status = "pending"
  BY <1>1, AbortIs
<1>6. ~shared => Faithful(tx, before) /\ \E through : Left(tx, files, before, through)
  BY DEF EditInv, FilesHold
<1>7. \A g : Recorded(tx', g, tx'.at) <=> Recorded(tx, g, 1)
  BY <1>4 DEF Recorded
<1>8. File(path) \in Reported(tx')
  BY <1>4 DEF Reported
<1>9. DOMAIN files' = DOMAIN files /\ DOMAIN before = DOMAIN files
      /\ \A g \in DOMAIN files : g # File(path) => files'[g] = files[g]
  BY DEF EditInv
<1>10. ~shared => Undoing(tx', files', before)
  BY <1>6, <1>7, <1>8, <1>9 DEF Undoing, Left
<1> QED BY <1>3, <1>5, <1>6, <1>9, <1>10 DEF EditInv, FilesHold

LEMMA WriteFileInv == ASSUME EditInv, WriteFile PROVE EditInv'
<1>0. tx.pc = "write" /\ tx.status = "pending"
  BY DEF EditInv, Progress, WriteFile
<1>1. Shaped(tx) /\ Typed(tx) /\ WritingFiles(tx) /\ DOMAIN before = DOMAIN files
  BY <1>0 DEF EditInv, Progress
<1>2. UNCHANGED <<before, shared>> /\ (~shared => Faithful(tx, before) /\ Left(tx, files, before, Wrote(tx)))
  BY <1>0 DEF WriteFile, EditInv, FilesHold
<1>3. Looked(tx, Writes(tx), Edits(tx)) /\ tx.at \in Nat \ {0} /\ Writes(tx) \in Nat /\ Edits(tx) \in Nat
      /\ tx.at <= Writes(tx) + 1
  BY <1>1 DEF WritingFiles, Typed, IsList, Writes, Edits
<1>4. ASSUME tx.at > Writes(tx), NEW pc, pc = "patch", tx' = [tx EXCEPT !.pc = pc, !.at = 1], UNCHANGED files
      PROVE  EditInv'
  <2>1. tx'.at = 1 /\ tx'.ask = tx.ask /\ tx'.results = tx.results /\ tx'.snapshots = tx.snapshots
    BY <1>1, <1>4, TurnIs
  <2>2. tx'.pc = "patch" /\ tx'.status = "pending" /\ Shaped(tx')
    BY <1>0, <1>1, <1>4, TurnIs
  <2>3. Typed(tx')
    BY <1>1, <2>1 DEF Typed
  <2>4. Patching(tx')
    <3>1. 1 <= Edits(tx) + 1
      BY <1>3
    <3> QED BY <1>3, <2>1, <3>1 DEF Patching, Looked, Writes, Edits
  <2>5. Patched(tx') = Wrote(tx)
    <3>0. tx.at > Writes(tx)
      BY <1>4
    <3>1. tx.at - 1 = Writes(tx) /\ tx'.at - 1 = 0 /\ Writes(tx') = Writes(tx)
      BY <1>3, <2>1, <3>0 DEF Writes
    <3>2. EditFiles(tx.ask, 0) = {}
      BY DEF EditFiles
    <3> QED BY <2>1, <3>1, <3>2 DEF Patched, Wrote
  <2>6. ~shared => Faithful(tx', before) /\ Left(tx', files, before, Patched(tx'))
    BY <1>2, <2>1, <2>5 DEF Faithful, Left, Recorded
  <2> QED BY <1>1, <1>2, <1>4, <2>2, <2>3, <2>4, <2>6 DEF EditInv, Progress, FilesHold, Phases
<1>5. ASSUME NEW path, WriteFails(path)
      PROVE  EditInv'
  BY <1>0, <1>2, <1>5, FailInv DEF WriteFails
<1>6. ASSUME ~(tx.at > Writes(tx)), NEW w, w = tx.ask.writes[tx.at],
             files' = [files EXCEPT ![File(w.path)] = w.content],
             tx' = [tx EXCEPT !.at = @ + 1, !.results = Append(tx.results, Result(w.path, "write"))]
      PROVE  EditInv'
  <2> DEFINE r == Result(w.path, "write")
             R == Results(tx.ask)
  <2>0. ~(tx.at > Writes(tx))
    BY <1>6
  <2>1. tx.at \in 1..Writes(tx) /\ DOMAIN tx.ask.writes = 1..Writes(tx)
    BY <1>1, <1>3, <2>0 DEF Typed, IsList, Writes
  <2>2. r \in R /\ r.path = w.path
    <3>1. w.path \in PathsOf(tx.ask)
      BY <1>6, <2>1 DEF PathsOf
    <3> QED BY <3>1 DEF Result, Results
  <2> HIDE DEF r, R
  <2>3. tx.results \in Seq(R)
    BY <1>1 DEF Typed, R
  <2>4. <<r>> \in Seq(R) /\ Len(<<r>>) > 0 /\ <<r>>[1] = r /\ Append(tx.results, r) = tx.results \o <<r>>
        /\ Append(tx.results, r) \in Seq(R)
    BY <2>2, <2>3
  <2>5. tx'.at = tx.at + 1 /\ tx'.ask = tx.ask /\ tx'.results = tx.results \o <<r>> /\ tx'.snapshots = tx.snapshots
    <3>1. tx' = [tx EXCEPT !.at = @ + 1, !.results = Append(tx.results, r)]
      BY <1>6 DEF r
    <3> QED BY <1>1, <2>4, <3>1, MoveIs
  <2>6. tx'.pc = "write" /\ tx'.status = "pending" /\ Shaped(tx')
    BY <1>0, <1>1, <1>6, MoveIs
  <2>7. Typed(tx')
    BY <1>1, <2>4, <2>5 DEF Typed, R
  <2>8. WritingFiles(tx')
    <3>1. tx.at + 1 <= Writes(tx) + 1
      BY <2>1, <1>3
    <3> QED BY <1>3, <2>5, <3>1 DEF WritingFiles, Looked, Writes, Edits
  <2>9. Wrote(tx') = Wrote(tx) \cup {File(w.path)}
    <3>1. tx'.at - 1 = tx.at /\ 1..tx.at = 1..(tx.at - 1) \cup {tx.at}
      BY <1>3, <2>5
    <3>2. WriteFiles(tx.ask, tx.at) = WriteFiles(tx.ask, tx.at - 1) \cup {File(w.path)}
      BY <1>6, <3>1 DEF WriteFiles
    <3> QED BY <2>5, <3>1, <3>2 DEF Wrote
  <2>10. w.content = Intended(tx.ask, before, File(w.path))
    <3>1. Apart(tx.ask, Len(tx.ask.writes)) /\ IsList(tx.ask.writes)
      BY <1>1, <1>3 DEF Looked, Typed, Writes
    <3>2. tx.at \in 1..Len(tx.ask.writes)
      BY <2>1 DEF Writes
    <3> QED BY <1>6, <3>1, <3>2, IntendedWrite
  <2>11. ~shared => Faithful(tx', before) /\ Left(tx', files', before, Wrote(tx'))
    <3> SUFFICES ASSUME ~shared PROVE Faithful(tx', before) /\ Left(tx', files', before, Wrote(tx'))
      OBVIOUS
    <3>1. Left(tx, files, before, Wrote(tx)) /\ Faithful(tx, before) /\ File(<<r>>[1].path) = File(w.path)
      BY <1>2, <2>2, <2>4
    <3>2. Left(tx', [files EXCEPT ![File(w.path)] = w.content], before, Wrote(tx) \cup {File(w.path)})
      BY <2>3, <2>4, <2>5, <2>10, <3>1, OneMoreDone
    <3>3. files' = [files EXCEPT ![File(w.path)] = w.content]
      BY <1>6
    <3> QED BY <2>5, <2>9, <3>1, <3>2, <3>3 DEF Faithful
  <2>12. DOMAIN files' = DOMAIN files
    BY <1>6
  <2> QED BY <1>1, <1>2, <2>6, <2>7, <2>8, <2>11, <2>12 DEF EditInv, Progress, FilesHold, Phases
<1>7. \/ tx.at > Writes(tx) /\ tx' = [tx EXCEPT !.pc = "patch", !.at = 1] /\ UNCHANGED files
      \/ \E path : WriteFails(path)
      \/ /\ ~(tx.at > Writes(tx))
         /\ files' = [files EXCEPT ![File(tx.ask.writes[tx.at].path)] = tx.ask.writes[tx.at].content]
         /\ tx' = [tx EXCEPT !.at = @ + 1, !.results = Append(tx.results, Result(tx.ask.writes[tx.at].path, "write"))]
  BY DEF WriteFile, Writes
<1> QED BY <1>4, <1>5, <1>6, <1>7

LEMMA AllPatched ==
  ASSUME NEW t, NEW fs, NEW found, Left(t, fs, found, Patched(t)), Typed(t),
         t.at - 1 = Edits(t)
  PROVE  Achieved(t, fs, found)
<1>1. IsList(t.ask.writes) /\ IsList(t.ask.edits)
  BY DEF Typed
<1>2. Patched(t) = Written(t.ask) \cup EditFiles(t.ask, Len(t.ask.edits))
  BY <1>1 DEF Patched, Written, WriteFiles, IsList, Writes, Edits
<1>3. ASSUME OneSpelling(t.ask), NEW f \in DOMAIN fs
      PROVE  fs[f] = Intended(t.ask, found, f)
  <2>1. CASE f \in Patched(t)
    BY <1>3, <2>1 DEF Left
  <2>2. CASE f \notin Patched(t)
    BY <1>1, <1>2, <2>2, IntendedNone DEF Left
  <2> QED BY <2>1, <2>2
<1> QED BY <1>3 DEF Achieved

\* An edit whose path was patched with an earlier one, and one whose path is new.
LEMMA OneMorePatched ==
  ASSUME NEW t, NEW u, t.at \in 1..Edits(t), u.ask = t.ask, u.at = t.at + 1
  PROVE  Patched(u) = Patched(t) \cup {File(t.ask.edits[t.at].path)}
<1>1. u.at - 1 = t.at /\ 1..t.at = 1..(t.at - 1) \cup {t.at}
  OBVIOUS
<1>2. EditFiles(t.ask, t.at) = EditFiles(t.ask, t.at - 1) \cup {File(t.ask.edits[t.at].path)}
  BY <1>1 DEF EditFiles
<1> QED BY <1>1, <1>2 DEF Patched, Writes

LEMMA SamePath ==
  ASSUME Typed(tx), tx.at \in 1..Edits(tx), ~NewPath(tx.at)
  PROVE  File(tx.ask.edits[tx.at].path) \in Patched(tx)
<1>1. PICK m \in 1..(tx.at - 1) : tx.ask.edits[m].path = tx.ask.edits[tx.at].path
  BY DEF NewPath
<1> QED BY <1>1 DEF Patched, EditFiles

\* The positions of a path that occurs in a list of edits.
LEMMA SomeEdits ==
  ASSUME NEW ask, IsList(ask.edits), NEW j \in DOMAIN ask.edits
  PROVE  Cardinality({i \in DOMAIN ask.edits : ask.edits[i].path = ask.edits[j].path}) \in Nat \ {0}
<1> DEFINE those == {i \in DOMAIN ask.edits : ask.edits[i].path = ask.edits[j].path}
<1>1. IsFiniteSet(1..Len(ask.edits)) /\ DOMAIN ask.edits = 1..Len(ask.edits)
  BY FS_Interval DEF IsList
<1>2. IsFiniteSet(those)
  BY <1>1, FS_Subset
<1>3. those # {}
  OBVIOUS
<1> HIDE DEF those
<1>4. Cardinality(those) \in Nat /\ Cardinality(those) # 0
  BY <1>2, <1>3, FS_CardinalityType, FS_EmptySet
<1> QED BY <1>4 DEF those

LEMMA PatchResults ==
  ASSUME NEW ask, NEW path \in PathsOf(ask), NEW n \in Nat \ {0}
  PROVE  /\ [i \in 1..n |-> Result(path, "patch")] \in Seq(Results(ask))
         /\ Len([i \in 1..n |-> Result(path, "patch")]) > 0
         /\ [i \in 1..n |-> Result(path, "patch")][1].path = path
<1> DEFINE r == Result(path, "patch")
<1>1. r \in Results(ask) /\ r.path = path
  BY DEF Result, Results
<1> HIDE DEF r
<1>2. /\ [i \in 1..n |-> r] \in Seq(Results(ask))
      /\ Len([i \in 1..n |-> r]) > 0
      /\ [i \in 1..n |-> r][1] = r
  BY <1>1
<1> QED BY <1>1, <1>2 DEF r

LEMMA PatchInv == ASSUME EditInv, Patch PROVE EditInv'
<1> DEFINE path    == tx.ask.edits[tx.at].path
           content == Edited(tx.snapshots[File(path)], EditsAt(tx.ask.edits, {path}))
           those   == {i \in DOMAIN tx.ask.edits : tx.ask.edits[i].path = path}
           more    == [i \in 1..Cardinality(those) |-> Result(path, "patch")]
<1>0. tx.pc = "patch" /\ tx.status = "pending"
  BY DEF EditInv, Progress, Patch
<1>1. Shaped(tx) /\ Typed(tx) /\ Patching(tx) /\ DOMAIN before = DOMAIN files
  BY <1>0 DEF EditInv, Progress
<1>2. UNCHANGED <<before, shared>> /\ (~shared => Faithful(tx, before) /\ Left(tx, files, before, Patched(tx)))
  BY <1>0 DEF Patch, EditInv, FilesHold
<1>3. Looked(tx, Writes(tx), Edits(tx)) /\ tx.at \in Nat \ {0} /\ Writes(tx) \in Nat /\ Edits(tx) \in Nat
      /\ tx.at <= Edits(tx) + 1
  BY <1>1 DEF Patching, Typed, IsList, Writes, Edits
<1>4. \/ tx.at > Edits(tx) /\ tx' = [tx EXCEPT !.pc = "ended", !.status = "applied"] /\ UNCHANGED files
      \/ ~(tx.at > Edits(tx)) /\ ~NewPath(tx.at) /\ tx' = [tx EXCEPT !.at = @ + 1] /\ UNCHANGED files
      \/ tx' = Abort(path) /\ UNCHANGED files
      \/ WriteFails(path)
      \/ /\ ~(tx.at > Edits(tx))
         /\ files' = [files EXCEPT ![File(path)] = content]
         /\ tx' = [tx EXCEPT !.at = @ + 1, !.results = @ \o more]
  BY DEF Patch, Edits
<1>5. ASSUME tx.at > Edits(tx), NEW pc, NEW status, pc = "ended", status = "applied",
             tx' = [tx EXCEPT !.pc = pc, !.status = status], UNCHANGED files
      PROVE  EditInv'
  <2>1. tx'.at = tx.at /\ tx'.ask = tx.ask /\ tx'.results = tx.results /\ tx'.snapshots = tx.snapshots
    BY <1>1, <1>5, EndIs
  <2>2. tx'.pc = "ended" /\ tx'.status = "applied" /\ Shaped(tx')
    BY <1>1, <1>5, EndIs
  <2>3. Typed(tx')
    BY <1>1, <2>1 DEF Typed
  <2>4. tx'.at - 1 = Edits(tx')
    <3>1. tx.at > Edits(tx)
      BY <1>5
    <3>2. Edits(tx') = Edits(tx)
      BY <2>1 DEF Edits
    <3> QED BY <1>3, <2>1, <3>1, <3>2
  <2>5. ~shared => Faithful(tx', before) /\ Left(tx', files, before, Patched(tx'))
    BY <1>2, <2>1 DEF Faithful, Left, Recorded, Patched, Writes
  <2>6. ~shared => Achieved(tx', files, before)
    BY <2>3, <2>4, <2>5, AllPatched
  <2> QED BY <1>1, <1>2, <1>5, <2>2, <2>3, <2>5, <2>6 DEF EditInv, Progress, FilesHold, Phases
<1>6. CASE tx' = Abort(path) /\ UNCHANGED files
  BY <1>0, <1>2, <1>6, FailInv
<1>7. CASE WriteFails(path)
  BY <1>0, <1>2, <1>7, FailInv DEF WriteFails
<1>8. ASSUME ~(tx.at > Edits(tx))
      PROVE  /\ tx.at \in 1..Edits(tx) /\ tx.at \in DOMAIN tx.ask.edits
             /\ path \in PathsOf(tx.ask) /\ File(path) \in DOMAIN tx.snapshots
             /\ File(path) \notin Written(tx.ask)
  <2>1. tx.at \in 1..Edits(tx) /\ DOMAIN tx.ask.edits = 1..Edits(tx)
    BY <1>1, <1>3, <1>8 DEF Typed, IsList, Edits
  <2>2. File(path) \in EditFiles(tx.ask, Edits(tx))
    BY <2>1 DEF EditFiles
  <2>3. Written(tx.ask) = WriteFiles(tx.ask, Writes(tx))
    BY <1>1, WrittenIs DEF Typed
  <2> QED BY <1>3, <2>1, <2>2, <2>3 DEF Looked, PathsOf
\* The transaction goes on with results and files that are left as they should be.
<1>9. ASSUME ~(tx.at > Edits(tx)), NEW results \in Seq(Results(tx.ask)), DOMAIN files' = DOMAIN files,
             tx' = [tx EXCEPT !.at = @ + 1, !.results = results],
             ~shared => Left(tx', files', before, Patched(tx) \cup {File(path)})
      PROVE  EditInv'
  <2>1. tx'.at = tx.at + 1 /\ tx'.ask = tx.ask /\ tx'.results = results /\ tx'.snapshots = tx.snapshots
    BY <1>1, <1>9, MoveIs
  <2>2. tx'.pc = "patch" /\ tx'.status = "pending" /\ Shaped(tx')
    BY <1>0, <1>1, <1>9, MoveIs
  <2>3. Typed(tx')
    BY <1>1, <1>9, <2>1 DEF Typed
  <2>4. tx.at \in 1..Edits(tx)
    BY <1>8, <1>9
  <2>5. Patching(tx')
    <3>1. tx.at + 1 <= Edits(tx) + 1
      BY <1>3, <2>4
    <3> QED BY <1>3, <2>1, <3>1 DEF Patching, Looked, Writes, Edits
  <2>6. Patched(tx') = Patched(tx) \cup {File(path)}
    BY <2>1, <2>4, OneMorePatched
  <2>7. ~shared => Faithful(tx', before)
    BY <1>2, <2>1 DEF Faithful
  <2> QED BY <1>1, <1>2, <1>9, <2>2, <2>3, <2>5, <2>6, <2>7 DEF EditInv, Progress, FilesHold, Phases
<1>10. CASE ~(tx.at > Edits(tx)) /\ ~NewPath(tx.at) /\ tx' = [tx EXCEPT !.at = @ + 1] /\ UNCHANGED files
  <2>1. tx' = [tx EXCEPT !.at = @ + 1, !.results = tx.results]
    BY <1>1, <1>10 DEF Shaped
  <2>2. tx'.ask = tx.ask /\ tx'.results = tx.results
    BY <1>1, <2>1, MoveIs
  <2>3. File(path) \in Patched(tx)
    BY <1>1, <1>8, <1>10, SamePath
  <2>4. Patched(tx) = Patched(tx) \cup {File(path)}
    BY <2>3
  <2>5. ~shared => Left(tx', files', before, Patched(tx))
    BY <1>2, <1>10, <2>2 DEF Left, Recorded
  <2>6. tx.results \in Seq(Results(tx.ask))
    BY <1>1 DEF Typed
  <2> QED BY <1>9, <1>10, <2>1, <2>4, <2>5, <2>6
<1>11. CASE /\ ~(tx.at > Edits(tx))
            /\ files' = [files EXCEPT ![File(path)] = content]
            /\ tx' = [tx EXCEPT !.at = @ + 1, !.results = @ \o more]
  <2>0. tx.at \in DOMAIN tx.ask.edits /\ path \in PathsOf(tx.ask) /\ File(path) \in DOMAIN tx.snapshots
        /\ File(path) \notin Written(tx.ask)
    BY <1>8, <1>11
  <2>1. tx.results \in Seq(Results(tx.ask)) /\ IsList(tx.ask.edits)
    BY <1>1 DEF Typed
  <2>2. more \in Seq(Results(tx.ask)) /\ Len(more) > 0 /\ more[1].path = path
    <3>1. Cardinality(those) \in Nat \ {0}
      BY <2>0, <2>1, SomeEdits
    <3> HIDE DEF those
    <3> QED BY <2>0, <3>1, PatchResults
  <2> HIDE DEF more
  <2>3. tx' = [tx EXCEPT !.at = @ + 1, !.results = tx.results \o more]
    BY <1>11
  <2>4. tx.results \o more \in Seq(Results(tx.ask))
    BY <2>1, <2>2
  <2>5. tx'.ask = tx.ask /\ tx'.results = tx.results \o more
    BY <1>1, <2>3, MoveIs
  <2>6. ASSUME ~shared, OneSpelling(tx.ask)
        PROVE  content = Intended(tx.ask, before, File(path))
    <3>1. tx.snapshots[File(path)] = before[File(path)]
      BY <1>2, <2>0, <2>6 DEF Faithful
    <3> QED BY <2>0, <2>6, <3>1, IntendedEdit
  <2> HIDE DEF content
  <2>7. ~shared => Left(tx', files', before, Patched(tx) \cup {File(path)})
    <3> SUFFICES ASSUME ~shared PROVE Left(tx', files', before, Patched(tx) \cup {File(path)})
      OBVIOUS
    <3>1. Left(tx, files, before, Patched(tx)) /\ (OneSpelling(tx.ask) => content = Intended(tx.ask, before, File(path)))
      BY <1>2, <2>6
    <3>2. Left(tx', [files EXCEPT ![File(path)] = content], before, Patched(tx) \cup {File(path)})
      BY <2>1, <2>2, <2>5, <3>1, OneMoreDone
    <3> QED BY <1>11, <3>2
  <2>8. DOMAIN files' = DOMAIN files
    BY <1>11
  <2> QED BY <1>9, <1>11, <2>3, <2>4, <2>7, <2>8
<1> QED BY <1>4, <1>5, <1>6, <1>7, <1>10, <1>11

\* A transaction with the status of its present result changed.
LEMMA MarkIs ==
  ASSUME Shaped(tx), Typed(tx), tx.at \in 1..Len(tx.results), NEW status \in {"rolled_back", "failed"},
         tx' = [tx EXCEPT !.at = @ + 1, !.results[tx.at].status = status]
  PROVE  /\ tx'.at = tx.at + 1 /\ tx'.ask = tx.ask /\ tx'.snapshots = tx.snapshots /\ tx'.failure = tx.failure
         /\ tx'.pc = tx.pc /\ tx'.status = tx.status /\ Shaped(tx')
         /\ tx'.results \in Seq(Results(tx.ask)) /\ Len(tx'.results) = Len(tx.results)
         /\ \A i \in 1..Len(tx.results) : tx'.results[i].path = tx.results[i].path
         /\ \A i \in 1..Len(tx.results) : i # tx.at => tx'.results[i] = tx.results[i]
         /\ tx'.results[tx.at].status = status
<1> DEFINE r  == [tx.results[tx.at] EXCEPT !.status = status]
           rs == [tx.results EXCEPT ![tx.at] = r]
<1>1. tx.results \in Seq(Results(tx.ask))
  BY DEF Typed
<1>2. tx.results[tx.at] \in Results(tx.ask)
  BY <1>1
<1>3. r \in Results(tx.ask) /\ r.path = tx.results[tx.at].path /\ r.status = status
  BY <1>2 DEF Results
<1>4. tx' = [tx EXCEPT !.at = @ + 1, !.results = rs]
  BY DEF Shaped
<1> HIDE DEF r
<1>5. /\ rs \in Seq(Results(tx.ask)) /\ Len(rs) = Len(tx.results) /\ rs[tx.at] = r
      /\ \A i \in 1..Len(tx.results) : i # tx.at => rs[i] = tx.results[i]
  BY <1>1, <1>3
<1> HIDE DEF rs
<1>6. /\ tx'.at = tx.at + 1 /\ tx'.ask = tx.ask /\ tx'.results = rs /\ tx'.snapshots = tx.snapshots
      /\ tx'.failure = tx.failure /\ tx'.pc = tx.pc /\ tx'.status = tx.status /\ Shaped(tx')
  BY <1>4, MoveIs
<1>7. \A i \in 1..Len(tx.results) : rs[i].path = tx.results[i].path
  BY <1>3, <1>5
<1> QED BY <1>3, <1>5, <1>6, <1>7

\* Files other than that of the present result are as well off as before.
LEMMA OthersUndone ==
  ASSUME NEW t, NEW u, NEW fs, NEW gs, NEW found, Undoing(t, fs, found),
         t.at \in 1..Len(t.results), u.at = t.at + 1, u.failure = t.failure,
         Len(u.results) = Len(t.results), t.results \in Seq(Results(t.ask)), u.results \in Seq(Results(t.ask)),
         \A i \in 1..Len(t.results) : u.results[i].path = t.results[i].path,
         \A i \in 1..Len(t.results) : i # t.at => u.results[i] = t.results[i],
         DOMAIN gs = DOMAIN fs, \A g \in DOMAIN fs : g # File(t.results[t.at].path) => gs[g] = fs[g],
         LET f == File(t.results[t.at].path) IN f \in DOMAIN fs => gs[f] = found[f] \/ f \in Reported(u)
  PROVE  Undoing(u, gs, found)
<1> DEFINE f == File(t.results[t.at].path)
<1>1. DOMAIN t.results = 1..Len(t.results) /\ DOMAIN u.results = 1..Len(t.results) /\ Len(t.results) \in Nat
  OBVIOUS
<1>2. ASSUME NEW g \in DOMAIN gs \ Reported(u), g # f
      PROVE  gs[g] = found[g] \/ Recorded(u, g, u.at)
  <2>1. g \notin Reported(t)
    BY <1>1, <1>2 DEF Reported
  <2>2. Recorded(t, g, t.at) => Recorded(u, g, u.at)
    <3> SUFFICES ASSUME NEW i \in t.at..Len(t.results), File(t.results[i].path) = g
                 PROVE  Recorded(u, g, u.at)
      BY DEF Recorded
    <3>1. i # t.at
      BY <1>2
    <3>2. i \in u.at..Len(u.results) /\ i \in 1..Len(t.results)
      BY <1>1, <3>1
    <3> QED BY <3>2 DEF Recorded
  <2> QED BY <1>2, <2>1, <2>2 DEF Undoing
<1> QED BY <1>2 DEF Undoing

LEMMA RollBackInv == ASSUME EditInv, RollBack PROVE EditInv'
<1> DEFINE f == File(tx.results[tx.at].path)
<1>0. tx.pc = "roll back" /\ tx.status = "pending"
  BY DEF EditInv, Progress, RollBack
<1>1. Shaped(tx) /\ Typed(tx) /\ RollingBack(tx) /\ DOMAIN before = DOMAIN files
  BY <1>0 DEF EditInv, Progress
<1>2. UNCHANGED <<before, shared>> /\ (~shared => Faithful(tx, before) /\ Undoing(tx, files, before))
  BY <1>0 DEF RollBack, EditInv, FilesHold
<1>3. tx.at \in Nat \ {0} /\ Len(tx.results) \in Nat /\ tx.at <= Len(tx.results) + 1
      /\ tx.results \in Seq(Results(tx.ask))
  BY <1>1 DEF RollingBack, Typed
<1>4. ASSUME tx.at > Len(tx.results), NEW pc, NEW status, pc = "ended", status = "failed",
             tx' = [tx EXCEPT !.pc = pc, !.status = status], UNCHANGED files
      PROVE  EditInv'
  <2>1. /\ tx'.at = tx.at /\ tx'.ask = tx.ask /\ tx'.results = tx.results /\ tx'.snapshots = tx.snapshots
        /\ tx'.failure = tx.failure
    BY <1>1, <1>4, EndIs
  <2>2. tx'.pc = "ended" /\ tx'.status = "failed" /\ Shaped(tx')
    BY <1>1, <1>4, EndIs
  <2>3. Typed(tx')
    BY <1>1, <2>1 DEF Typed
  <2>4. Reported(tx') = Reported(tx)
    BY <2>1 DEF Reported
  <2>5. \A g : ~Recorded(tx, g, tx.at)
    <3>1. tx.at > Len(tx.results)
      BY <1>4
    <3> QED BY <1>3, <3>1 DEF Recorded
  <2>6. ~shared => Faithful(tx', before) /\ Undone(tx', files, before)
    BY <1>2, <2>1, <2>4, <2>5 DEF Faithful, Undoing, Undone
  <2> QED BY <1>1, <1>2, <1>4, <2>2, <2>3, <2>6 DEF EditInv, Progress, FilesHold, Phases
<1>5. ASSUME ~(tx.at > Len(tx.results)), NEW status \in {"rolled_back", "failed"},
             tx' = [tx EXCEPT !.at = @ + 1, !.results[tx.at].status = status],
             \/ files' = [files EXCEPT ![f] = tx.snapshots[f]]
             \/ UNCHANGED files /\ status = "failed"
      PROVE  EditInv'
  <2>0. ~(tx.at > Len(tx.results))
    BY <1>5
  <2>1. tx.at \in 1..Len(tx.results) /\ DOMAIN tx.results = 1..Len(tx.results)
    BY <1>3, <2>0
  <2>2. /\ tx'.at = tx.at + 1 /\ tx'.ask = tx.ask /\ tx'.snapshots = tx.snapshots /\ tx'.failure = tx.failure
        /\ tx'.results \in Seq(Results(tx.ask)) /\ Len(tx'.results) = Len(tx.results)
        /\ \A i \in 1..Len(tx.results) : tx'.results[i].path = tx.results[i].path
        /\ \A i \in 1..Len(tx.results) : i # tx.at => tx'.results[i] = tx.results[i]
    BY <1>1, <1>5, <2>1, MarkIs
  <2>3. tx'.results[tx.at].status = status
    BY <1>1, <1>5, <2>1, MarkIs
  <2>4. tx'.pc = "roll back" /\ tx'.status = "pending" /\ Shaped(tx')
    BY <1>0, <1>1, <1>5, <2>1, MarkIs
  <2>5. Typed(tx')
    BY <1>1, <2>2 DEF Typed
  <2>6. f \in DOMAIN tx.snapshots
    BY <1>1, <2>1 DEF RollingBack
  <2>7. RollingBack(tx')
    <3>1. tx.at + 1 <= Len(tx'.results) + 1 /\ DOMAIN tx'.results = 1..Len(tx.results)
      BY <1>3, <2>1, <2>2
    <3>2. \A i \in 1..Len(tx.results) : File(tx.results[i].path) \in DOMAIN tx.snapshots
      BY <1>1, <2>1 DEF RollingBack
    <3> QED BY <2>2, <3>1, <3>2 DEF RollingBack
  <2>8. DOMAIN files' = DOMAIN files /\ \A g \in DOMAIN files : g # f => files'[g] = files[g]
    BY <1>5
  <2>9. ~shared /\ f \in DOMAIN files => files'[f] = before[f] \/ f \in Reported(tx')
    <3>1. status = "failed" => f \in Reported(tx')
      <4>1. tx.at \in DOMAIN tx'.results /\ File(tx'.results[tx.at].path) = f
        BY <2>1, <2>2
      <4> QED BY <2>3, <4>1 DEF Reported
    <3>2. ~shared => tx.snapshots[f] = before[f]
      BY <1>2, <2>6 DEF Faithful
    <3> QED BY <1>5, <3>1, <3>2
  <2>10. ~shared => Faithful(tx', before) /\ Undoing(tx', files', before)
    <3> SUFFICES ASSUME ~shared PROVE Faithful(tx', before) /\ Undoing(tx', files', before)
      OBVIOUS
    <3>1. Faithful(tx', before)
      BY <1>2, <2>2 DEF Faithful
    <3>2. Undoing(tx, files, before) /\ (f \in DOMAIN files => files'[f] = before[f] \/ f \in Reported(tx'))
      BY <1>2, <2>9
    <3>3. Undoing(tx', files', before)
      BY <1>3, <2>1, <2>2, <2>8, <3>2, OthersUndone
    <3> QED BY <3>1, <3>3
  <2> QED BY <1>1, <1>2, <2>4, <2>5, <2>7, <2>8, <2>10 DEF EditInv, Progress, FilesHold, Phases
<1>6. \/ tx.at > Len(tx.results) /\ tx' = [tx EXCEPT !.pc = "ended", !.status = "failed"] /\ UNCHANGED files
      \/ /\ ~(tx.at > Len(tx.results)) /\ files' = [files EXCEPT ![f] = tx.snapshots[f]]
         /\ tx' = [tx EXCEPT !.at = @ + 1, !.results[tx.at].status = "rolled_back"]
      \/ /\ ~(tx.at > Len(tx.results)) /\ UNCHANGED files
         /\ tx' = [tx EXCEPT !.at = @ + 1, !.results[tx.at].status = "failed"]
  BY DEF RollBack, Restored
<1> QED BY <1>4, <1>5, <1>6

LEMMA EditStep == EditInv /\ [EditNext]_editVars => EditInv'
<1>1. EditInv /\ UNCHANGED editVars => EditInv'
  BY DEF editVars, EditInv
<1> QED
  BY <1>1, BeginInv, OtherInv, CheckWriteInv, CheckEditInv, WriteFileInv, PatchInv, RollBackInv DEF EditNext

LEMMA WholeOrNothing == EditInv => AllOrNothing
<1> SUFFICES ASSUME EditInv, ~shared PROVE AllOrNothing
  BY DEF AllOrNothing
<1>1. FilesHold(tx, files, before)
  BY DEF EditInv
<1> QED BY <1>1 DEF FilesHold, Achieved, Undone, AllOrNothing

\* A transaction that had the files to itself leaves everything it was asked for or, whatever
\* failed when, every file as it was but for those its result names; for any files, contents
\* and transactions.
THEOREM AllOrNothingHolds == EditSpec => []AllOrNothing
BY InitEdits, EditStep, WholeOrNothing, PTL DEF EditSpec
=============================================================================
