-------------------------- MODULE CodingWorkerProofs --------------------------
(***************************************************************************)
(* Proofs about CodingApprovals for every number of agents and operators,  *)
(* every lifetime and every clock: types, records, and that no mutation    *)
(* happens without an approval. Then about RuntimeConfiguration, for all   *)
(* keys, words, shells and files: the gateway runs as it was asked to. And *)
(* about CodingLoop, for every set of commands and every bound.            *)
(***************************************************************************)
EXTENDS CodingApprovals, RuntimeConfiguration, CodingLoop, SequenceTheorems, TLAPS

\* What an upsert leaves in the file: the record written and records that were
\* there, still of record type.
LEMMA UpsertedRecords ==
  ASSUME NEW s \in Seq(Record), NEW r \in Record
  PROVE  /\ Upserted(s, r) \in Seq(Record)
         /\ \A q \in RecordsIn(Upserted(s, r)) : q = r \/ q \in RecordsIn(s)
<1>1. CASE r.id \in IdsIn(s)
  <2> DEFINE t == [i \in DOMAIN s |-> IF s[i].id = r.id THEN r ELSE s[i]]
  <2>1. Upserted(s, r) = t
    BY <1>1 DEF Upserted
  <2>2. DOMAIN s = 1..Len(s) /\ Len(s) \in Nat /\ \A i \in DOMAIN s : s[i] \in Record
    OBVIOUS
  <2>3. t \in [1..Len(s) -> Record]
    BY <2>2
  <2>4. t \in Seq(Record)
    BY <2>2, <2>3
  <2>5. \A i \in DOMAIN t : t[i] = r \/ t[i] \in RecordsIn(s)
    BY DEF RecordsIn
  <2> QED
    BY <2>1, <2>4, <2>5 DEF RecordsIn
<1>2. CASE r.id \notin IdsIn(s)
  <2>1. Upserted(s, r) = Append(s, r)
    BY <1>2 DEF Upserted
  <2>2. Append(s, r) \in Seq(Record) /\ DOMAIN Append(s, r) = 1..(Len(s) + 1)
        /\ DOMAIN s = 1..Len(s) /\ Len(s) \in Nat
    OBVIOUS
  <2>3. \A i \in 1..(Len(s) + 1) : Append(s, r)[i] = IF i = Len(s) + 1 THEN r ELSE s[i]
    BY <2>2
  <2>4. \A i \in 1..(Len(s) + 1) : i # Len(s) + 1 => i \in DOMAIN s
    BY <2>2
  <2> QED
    BY <2>1, <2>2, <2>3, <2>4 DEF RecordsIn
<1> QED
  BY <1>1, <1>2

\* The records in the file have record type.
LEMMA RecordsTyped ==
  ASSUME TypeOK
  PROVE  Records \subseteq Record
BY DEF TypeOK, Records, RecordsIn

\* The three records that are written over a stored one.
LEMMA WrittenRecords ==
  ASSUME NEW r \in Record
  PROVE  /\ AsExpired(r) \in Record
         /\ AsExpired(r).id = r.id
         /\ AsExpired(r).status = "expired"
         /\ AsExpired(r).decision = r.decision
         /\ \A answer \in {"yes", "no"} :
              /\ Decided(r, answer) \in Record
              /\ Decided(r, answer).id = r.id
              /\ Decided(r, answer).status = IF answer = "yes" THEN "approved" ELSE "denied"
              /\ Decided(r, answer).decision = answer
BY DEF AsExpired, Decided, Record, Statuses

\* The part of the invariant that is about the file, as an upsert keeps it.
FileOK(s, ids) ==
  \A r \in RecordsIn(s) : /\ r.decision = "yes" => r.id \in ids
                          /\ r.status = "approved" <=> r.decision = "yes"
                          /\ r.status = "denied" <=> r.decision = "no"

LEMMA UpsertKeepsFile ==
  ASSUME NEW s \in Seq(Record), NEW r \in Record, NEW ids, NEW ids2,
         ids \subseteq ids2, FileOK(s, ids),
         r.decision = "yes" => r.id \in ids2,
         r.status = "approved" <=> r.decision = "yes",
         r.status = "denied" <=> r.decision = "no"
  PROVE  FileOK(Upserted(s, r), ids2)
BY UpsertedRecords DEF FileOK

-----------------------------------------------------------------------------
\* The two remaining parts.
HeldOK == \A p \in Actors : \A r \in held[p] : r.status = "pending" /\ r.decision = "none"

RunningOK ==
  /\ \A a \in Agents : pc[a] \in {"creating", "writing", "performing"} => now[a] \in Times
  /\ \A a \in Agents : pc[a] = "performing" =>
       target[a] \in granted /\ (Lifetime = 0 \/ now[a] < target[a] + Lifetime)

LEMMA GrantParts ==
  GrantInv <=> TypeOK /\ FileOK(file, granted) /\ HeldOK /\ RunningOK /\ EffectsGranted
BY DEF GrantInv, FileOK, HeldOK, RunningOK, StatusMatchesDecision, Records

LEMMA InitGrant == Init => GrantInv
<1> SUFFICES ASSUME Init PROVE GrantInv
  OBVIOUS
<1>1. TypeOK
  BY CodingApprovalsAssumption DEF Init, TypeOK, Times
<1>2. FileOK(file, granted) /\ HeldOK /\ RunningOK /\ EffectsGranted
  BY DEF Init, FileOK, RecordsIn, HeldOK, RunningOK, EffectsGranted, Actors
<1> QED
  BY <1>1, <1>2, GrantParts

\* The step an agent takes on to its command is one of an approved, unexpired
\* and therefore granted request.
LEMMA ApprovedIsGranted ==
  ASSUME GrantInv, NEW a \in Agents, Answers(a, "approved")
  PROVE  target[a] \in granted /\ (Lifetime = 0 \/ clock < target[a] + Lifetime)
<1>1. PICK r \in Records : r.id = target[a] /\ Evaluation(r) = "approved"
  BY DEF Answers
<1>2. r \in Record /\ r.id \in Nat /\ clock \in Nat /\ Lifetime \in Nat
  BY RecordsTyped, CodingApprovalsAssumption DEF GrantInv, TypeOK, Times, Record
<1>3. ~Expired(r.id)
  BY <1>1 DEF Evaluation
<1>4. r.decision = "yes"
  BY <1>1, <1>2, <1>3 DEF Evaluation, Record
<1>5. Lifetime = 0 \/ clock < r.id + Lifetime
  BY <1>2, <1>3 DEF Expired
<1> QED
  BY <1>1, <1>4, <1>5 DEF GrantInv

\* An agent's step that leaves the file alone.
LEMMA ContinueOK ==
  ASSUME GrantInv, NEW a \in Agents, NEW to \in {"creating", "performing"},
         Continue(a, to), to = "performing" => Answers(a, "approved"),
         UNCHANGED <<clock, file, held, wants, granted, effects>>
  PROVE  GrantInv'
<1>1. TypeOK /\ FileOK(file, granted) /\ HeldOK /\ RunningOK /\ EffectsGranted
  BY GrantParts
<1>2. TypeOK'
  BY <1>1 DEF Continue, Goto, TypeOK, Actors, Times
<1>3. FileOK(file, granted)' /\ HeldOK' /\ EffectsGranted'
  BY <1>1 DEF FileOK, RecordsIn, HeldOK, EffectsGranted
<1>4. RunningOK'
  BY <1>1, ApprovedIsGranted DEF Continue, Goto, TypeOK, RunningOK, Actors, Times
<1> QED
  BY <1>2, <1>3, <1>4, GrantParts DEF GrantInv, FileOK, HeldOK, RunningOK, StatusMatchesDecision, Records

LEMMA ReturnOK ==
  ASSUME GrantInv, NEW a \in Agents, Return(a),
         UNCHANGED <<clock, file, held, wants, granted, effects>>
  PROVE  GrantInv'
<1>1. TypeOK /\ FileOK(file, granted) /\ HeldOK /\ RunningOK /\ EffectsGranted
  BY GrantParts
<1>2. TypeOK'
  BY <1>1, CodingApprovalsAssumption DEF Return, Goto, TypeOK, Actors, Times
<1>3. FileOK(file, granted)' /\ HeldOK' /\ EffectsGranted'
  BY <1>1 DEF FileOK, RecordsIn, HeldOK, EffectsGranted
<1>4. RunningOK'
  BY <1>1 DEF Return, Goto, TypeOK, RunningOK, Actors
<1> QED
  BY <1>2, <1>3, <1>4, GrantParts DEF GrantInv, FileOK, HeldOK, RunningOK, StatusMatchesDecision, Records

\* A step after which p stands before no command and holds only undecided
\* records, whatever it wrote to the file.
LEMMA FileStepOK ==
  ASSUME GrantInv, NEW p \in Actors, NEW to, NEW rs \in SUBSET Record,
         Goto(p, to), to \in {"idle", "listed", "expiring", "writing", "confirming", "deciding"},
         to = "writing" => now[p] \in Times,
         Hold(p, rs),
         \A r \in rs : r.status = "pending" /\ r.decision = "none",
         file' \in Seq(Record), FileOK(file', granted'),
         granted \subseteq granted', granted' \subseteq Times,
         target' \in [Agents -> 0..MaxClock],
         \A a \in Agents \ {p} : target'[a] = target[a],
         wants' \in [Operators -> {"yes", "no"}],
         UNCHANGED <<clock, now, effects>>
  PROVE  GrantInv'
<1>1. TypeOK /\ FileOK(file, granted) /\ HeldOK /\ RunningOK /\ EffectsGranted
  BY GrantParts
<1>2. TypeOK'
  BY <1>1 DEF Goto, Hold, TypeOK
<1>3. HeldOK'
  BY <1>1 DEF HeldOK, Hold, TypeOK
<1>4. EffectsGranted'
  BY <1>1 DEF EffectsGranted
<1>5. RunningOK'
  BY <1>1 DEF RunningOK, Goto, TypeOK, Actors
<1> QED
  BY <1>2, <1>3, <1>4, <1>5 DEF GrantInv, FileOK, HeldOK, RunningOK, StatusMatchesDecision, Records

\* Writing a record that is held, as expired.
LEMMA ExpireOK ==
  ASSUME GrantInv, NEW p \in Actors, NEW r \in held[p], Upsert(AsExpired(r)),
         granted' = granted
  PROVE  file' \in Seq(Record) /\ FileOK(file', granted')
<1>1. TypeOK /\ FileOK(file, granted) /\ HeldOK
  BY GrantParts
<1>2. r \in Record /\ r.status = "pending" /\ r.decision = "none"
  BY <1>1 DEF TypeOK, HeldOK
<1>3. AsExpired(r) \in Record /\ AsExpired(r).status = "expired" /\ AsExpired(r).decision = "none"
  BY <1>2, WrittenRecords
<1>4. file \in Seq(Record) /\ file' = Upserted(file, AsExpired(r))
  BY <1>1 DEF TypeOK, Upsert
<1>5. file' \in Seq(Record)
  BY <1>3, <1>4, UpsertedRecords
<1>6. FileOK(Upserted(file, AsExpired(r)), granted)
  BY <1>1, <1>3, <1>4, UpsertKeepsFile
<1> QED
  BY <1>4, <1>5, <1>6

\* What a listing and a read find pending has no decision.
LEMMA PendingUndecided ==
  ASSUME GrantInv, NEW r \in Records, r.status = "pending"
  PROVE  r \in Record /\ r.decision = "none"
<1>1. r \in Record
  BY RecordsTyped DEF GrantInv
<1> QED
  BY <1>1 DEF GrantInv, StatusMatchesDecision, Record

LEMMA AgentStepOK ==
  ASSUME GrantInv, NEW a \in Agents, AgentStep(a)
  PROVE  GrantInv'
<1>t. TypeOK /\ FileOK(file, granted) /\ a \in Actors
  BY GrantParts DEF Actors
<1>s. Stale \in SUBSET Record /\ \A r \in Stale : r.status = "pending" /\ r.decision = "none"
  BY PendingUndecided DEF Stale
<1>f. file \in Seq(Record) /\ granted \subseteq Times
      /\ target \in [Agents -> 0..MaxClock] /\ wants \in [Operators -> {"yes", "no"}]
      /\ held[a] \in SUBSET Record /\ now[a] \in 0..MaxClock /\ held \in [Actors -> SUBSET Record]
      /\ \A r \in held[a] : r.status = "pending" /\ r.decision = "none"
  BY <1>t, GrantParts DEF TypeOK, HeldOK
<1>1. CASE List(a)
  <2>1. CASE Continue(a, "creating") /\ UNCHANGED held
    BY <1>1, <2>1, ContinueOK DEF List, history
  <2>2. ASSUME NEW r \in Records,
               Goto(a, "listed") /\ Hold(a, Stale) /\ target' = [target EXCEPT ![a] = r.id]
                 /\ UNCHANGED now
        PROVE  GrantInv'
    <3>1. r.id \in 0..MaxClock
      BY <1>t, RecordsTyped DEF Record, Times
    <3>2. /\ target' \in [Agents -> 0..MaxClock]
          /\ \A b \in Agents \ {a} : target'[b] = target[b]
      BY <2>2, <3>1, <1>f
    <3>3. UNCHANGED <<clock, file, wants, granted, effects, now>>
      BY <1>1, <2>2 DEF List, history
    <3> QED
      BY <1>t, <1>s, <1>f, <2>2, <3>2, <3>3, FileStepOK
  <2> QED
    BY <1>1, <2>1, <2>2 DEF List
<1>2. CASE ExpireStale(a)
  <2>1. PICK r \in held[a] : Upsert(AsExpired(r)) /\ Hold(a, held[a] \ {r})
    BY <1>2 DEF ExpireStale
  <2>2. UNCHANGED <<clock, pc, now, target, wants, granted, effects>> /\ pc[a] = "listed"
    BY <1>2 DEF ExpireStale, history
  <2>3. Goto(a, "listed")
    BY <2>2, <1>t DEF Goto, TypeOK
  <2>4. file' \in Seq(Record) /\ FileOK(file', granted')
    BY <1>t, <2>1, <2>2, ExpireOK
  <2> QED
    BY <1>t, <1>f, <2>1, <2>2, <2>3, <2>4, FileStepOK
<1>3. CASE EvaluateLatest(a)
  BY <1>3, ContinueOK, ReturnOK DEF EvaluateLatest, history
<1>4. CASE FindExisting(a)
  <2>u. UNCHANGED <<clock, file, now, wants, granted, effects>>
    BY <1>4 DEF FindExisting, history
  <2>h. Hold(a, held[a]) <=> held' = held
    BY <1>f, <1>t DEF Hold
  <2>1. CASE FirstPending /\ target' = [target EXCEPT ![a] = file[1].id]
               /\ (\/ Expired(file[1].id) /\ Goto(a, "expiring") /\ Hold(a, {file[1]})
                   \/ ~Expired(file[1].id) /\ Goto(a, "confirming") /\ UNCHANGED held)
    <3>1. file # <<>> /\ file[1].status = "pending"
      BY <2>1 DEF FirstPending
    <3>2. file[1] \in Records
      BY <3>1, <1>f DEF Records, RecordsIn
    <3>3. file[1] \in Record /\ file[1].decision = "none"
      BY <3>1, <3>2, PendingUndecided
    <3>4. /\ target' \in [Agents -> 0..MaxClock]
          /\ \A b \in Agents \ {a} : target'[b] = target[b]
      BY <2>1, <3>3, <1>f DEF Record, Times
    <3>5. CASE Goto(a, "expiring") /\ Hold(a, {file[1]})
      <4>1. {file[1]} \in SUBSET Record
            /\ \A q \in {file[1]} : q.status = "pending" /\ q.decision = "none"
        BY <3>1, <3>3
      <4>2. file' \in Seq(Record) /\ FileOK(file', granted') /\ granted \subseteq granted'
            /\ granted' \subseteq Times /\ wants' \in [Operators -> {"yes", "no"}]
            /\ UNCHANGED <<clock, now, effects>>
        BY <1>t, <1>f, <2>u
      <4> QED
        BY <1>t, <3>4, <3>5, <4>1, <4>2, FileStepOK
    <3>6. CASE Goto(a, "confirming") /\ UNCHANGED held
      BY <1>t, <1>f, <2>u, <2>h, <3>4, <3>6, FileStepOK
    <3> QED
      BY <2>1, <3>5, <3>6
  <2>2. CASE Goto(a, "writing") /\ UNCHANGED <<held, target>>
    <3>1. now[a] \in Times
      BY <1>4, GrantParts DEF FindExisting, RunningOK
    <3> QED
      BY <1>t, <1>f, <2>u, <2>h, <2>2, <3>1, FileStepOK
  <2> QED
    BY <1>4, <2>1, <2>2 DEF FindExisting
<1>5. CASE ExpireExisting(a)
  <2>1. PICK r \in held[a] : Upsert(AsExpired(r))
    BY <1>5 DEF ExpireExisting
  <2>2. UNCHANGED <<clock, now, target, wants, granted, effects>> /\ Hold(a, {}) /\ Goto(a, "confirming")
    BY <1>5 DEF ExpireExisting, history
  <2>3. file' \in Seq(Record) /\ FileOK(file', granted')
    BY <1>t, <2>1, <2>2, ExpireOK
  <2> QED
    BY <1>t, <1>f, <2>2, <2>3, FileStepOK
<1>6. CASE WriteRequest(a)
  <2>1. UNCHANGED <<clock, held, now, wants, granted, effects>> /\ Goto(a, "confirming")
    BY <1>6 DEF WriteRequest, history
  <2>2. Hold(a, held[a])
    BY <2>1, <1>f, <1>t DEF Hold
  <2>3. target' = [target EXCEPT ![a] = now[a]] /\ file' = Upserted(file, Pending(now[a]))
    BY <1>6 DEF WriteRequest, Upsert
  <2>4. Pending(now[a]) \in Record
    BY <1>6, <1>f, GrantParts DEF RunningOK, WriteRequest, Pending, Record, Statuses, Times
  <2>5. FileOK(file', granted') /\ file' \in Seq(Record)
    BY <1>t, <1>f, <2>1, <2>3, <2>4, UpsertKeepsFile, UpsertedRecords DEF Pending
  <2> QED
    BY <1>t, <1>f, <2>1, <2>2, <2>3, <2>5, FileStepOK
<1>7. CASE EvaluateCreated(a)
  BY <1>7, ContinueOK, ReturnOK DEF EvaluateCreated, history
<1>8. CASE Perform(a)
  <2> DEFINE e == [id |-> target[a], at |-> now[a]]
  <2>1. pc[a] = "performing" /\ effects' = effects \cup {e} /\ Return(a)
        /\ UNCHANGED <<clock, file, held, wants, granted>>
    BY <1>8 DEF Perform
  <2>2. /\ e.id \in granted /\ e.id \in Times
        /\ (Lifetime = 0 \/ e.at < e.id + Lifetime)
    BY <1>f, <2>1, GrantParts DEF RunningOK
  <2>3. now[a] \in Times
    BY <2>1, GrantParts DEF RunningOK
  <2>4. TypeOK'
    BY <1>t, <2>1, <2>2, <2>3, CodingApprovalsAssumption DEF Return, Goto, TypeOK, Actors, Times
  <2>5. EffectsGranted'
    BY <2>1, <2>2, GrantParts DEF EffectsGranted
  <2>6. FileOK(file, granted)' /\ HeldOK'
    BY <1>t, <2>1, GrantParts DEF FileOK, RecordsIn, HeldOK
  <2>7. RunningOK'
    BY <1>t, <2>1, GrantParts DEF Return, Goto, TypeOK, RunningOK, Actors
  <2> QED
    BY <2>4, <2>5, <2>6, <2>7 DEF GrantInv, FileOK, HeldOK, RunningOK, StatusMatchesDecision, Records
<1> QED
  BY <1>1, <1>2, <1>3, <1>4, <1>5, <1>6, <1>7, <1>8 DEF AgentStep

LEMMA OperatorStepOK ==
  ASSUME GrantInv, NEW d \in Operators, OperatorStep(d)
  PROVE  GrantInv'
<1>t. TypeOK /\ FileOK(file, granted) /\ d \in Actors /\ d \notin Agents
  BY GrantParts, CodingApprovalsAssumption DEF Actors
<1>s. Stale \in SUBSET Record /\ \A r \in Stale : r.status = "pending" /\ r.decision = "none"
  BY PendingUndecided DEF Stale
<1>f. file \in Seq(Record) /\ granted \subseteq Times
      /\ target \in [Agents -> 0..MaxClock] /\ wants \in [Operators -> {"yes", "no"}]
      /\ held[d] \in SUBSET Record /\ held \in [Actors -> SUBSET Record]
      /\ \A r \in held[d] : r.status = "pending" /\ r.decision = "none"
  BY <1>t, GrantParts DEF TypeOK, HeldOK
<1>1. CASE Review(d)
  <2>1. Goto(d, "listed") /\ Hold(d, Stale)
        /\ UNCHANGED <<clock, file, now, target, wants, granted, effects>>
    BY <1>1 DEF Review, history
  <2> QED
    BY <1>t, <1>s, <1>f, <2>1, FileStepOK
<1>2. CASE ExpireStale(d)
  <2>1. PICK r \in held[d] : Upsert(AsExpired(r)) /\ Hold(d, held[d] \ {r})
    BY <1>2 DEF ExpireStale
  <2>2. UNCHANGED <<clock, pc, now, target, wants, granted, effects>> /\ pc[d] = "listed"
    BY <1>2 DEF ExpireStale, history
  <2>3. Goto(d, "listed")
    BY <2>2, <1>t DEF Goto, TypeOK
  <2>4. file' \in Seq(Record) /\ FileOK(file', granted')
    BY <1>t, <2>1, <2>2, ExpireOK
  <2>5. held[d] \ {r} \in SUBSET Record
        /\ \A q \in held[d] \ {r} : q.status = "pending" /\ q.decision = "none"
    BY <1>f
  <2> QED
    BY <1>t, <1>f, <2>1, <2>2, <2>3, <2>4, <2>5, FileStepOK
<1>3. CASE Reply(d)
  <2>1. /\ Goto(d, "idle") /\ wants' = [wants EXCEPT ![d] = "no"]
        /\ UNCHANGED <<clock, file, held, now, target, granted, effects>>
    BY <1>3 DEF Reply, history
  <2>2. Hold(d, held[d]) /\ wants' \in [Operators -> {"yes", "no"}]
    BY <1>f, <1>t, <2>1 DEF Hold
  <2> QED
    BY <1>t, <1>f, <2>1, <2>2, FileStepOK
<1>4. CASE ReadPending(d)
  <2>1. PICK r \in Records, answer \in {"yes", "no"} :
          /\ r.status = "pending"
          /\ Hold(d, {r})
          /\ wants' = [wants EXCEPT ![d] = answer]
          /\ Goto(d, IF Expired(r.id) THEN "listed" ELSE "deciding")
    BY <1>4 DEF ReadPending
  <2>2. r \in Record /\ r.decision = "none"
    BY <2>1, PendingUndecided
  <2>3. UNCHANGED <<clock, file, now, target, granted, effects>>
    BY <1>4 DEF ReadPending, history
  <2>4. wants' \in [Operators -> {"yes", "no"}]
    BY <1>f, <2>1
  <2>5. PICK to \in {"listed", "deciding"} : Goto(d, to)
    BY <2>1
  <2> QED
    BY <1>t, <1>f, <2>1, <2>2, <2>3, <2>4, <2>5, FileStepOK
<1>5. CASE RecordDecision(d)
  <2>1. PICK r \in held[d] :
          /\ Upsert(Decided(r, wants[d]))
          /\ granted' = IF wants[d] = "yes" THEN granted \cup {r.id} ELSE granted
    BY <1>5 DEF RecordDecision
  <2>2. /\ Hold(d, {}) /\ wants' = [wants EXCEPT ![d] = "no"] /\ Goto(d, "idle")
        /\ UNCHANGED <<clock, now, target, effects>>
    BY <1>5 DEF RecordDecision
  <2>3. wants[d] \in {"yes", "no"}
    BY <1>f
  <2>4. r \in Record /\ r.id \in Times
    BY <1>f, <2>1 DEF Record
  <2>5. /\ Decided(r, wants[d]) \in Record
        /\ Decided(r, wants[d]).id = r.id
        /\ Decided(r, wants[d]).status = IF wants[d] = "yes" THEN "approved" ELSE "denied"
        /\ Decided(r, wants[d]).decision = wants[d]
    BY <2>3, <2>4, WrittenRecords
  <2>6. granted \subseteq granted' /\ granted' \subseteq Times /\ (wants[d] = "yes" => r.id \in granted')
    BY <1>f, <2>1, <2>4
  <2>7. file' = Upserted(file, Decided(r, wants[d]))
    BY <2>1 DEF Upsert
  <2>8. FileOK(file', granted') /\ file' \in Seq(Record)
    BY <1>t, <1>f, <2>3, <2>5, <2>6, <2>7, UpsertKeepsFile, UpsertedRecords
  <2>9. wants' \in [Operators -> {"yes", "no"}]
    BY <1>f, <2>2
  <2> QED
    BY <1>t, <1>f, <2>2, <2>6, <2>8, <2>9, FileStepOK
<1> QED
  BY <1>1, <1>2, <1>3, <1>4, <1>5 DEF OperatorStep

LEMMA RestartOK ==
  ASSUME GrantInv, Restart
  PROVE  GrantInv'
<1>1. TypeOK /\ FileOK(file, granted) /\ EffectsGranted
  BY GrantParts
<1>2. TypeOK'
  BY <1>1, CodingApprovalsAssumption DEF Restart, history, TypeOK, Actors, Times
<1>3. FileOK(file, granted)' /\ EffectsGranted'
  BY <1>1 DEF Restart, history, FileOK, RecordsIn, EffectsGranted
<1>4. HeldOK' /\ RunningOK'
  BY DEF Restart, HeldOK, RunningOK, Actors
<1> QED
  BY <1>2, <1>3, <1>4 DEF GrantInv, FileOK, HeldOK, RunningOK, StatusMatchesDecision, Records

LEMMA TickOK ==
  ASSUME GrantInv, Tick
  PROVE  GrantInv'
<1>1. TypeOK'
  BY CodingApprovalsAssumption DEF GrantInv, Tick, history, TypeOK, Times
<1> QED
  BY <1>1 DEF GrantInv, Tick, history, EffectsGranted, StatusMatchesDecision, Records, RecordsIn

LEMMA NextGrant == GrantInv /\ [Next]_vars => GrantInv'
<1> SUFFICES ASSUME GrantInv, [Next]_vars PROVE GrantInv'
  OBVIOUS
<1>1. CASE UNCHANGED vars
  BY <1>1 DEF vars, GrantInv, TypeOK, EffectsGranted, StatusMatchesDecision, Records, RecordsIn
<1>2. CASE Next
  BY <1>2, AgentStepOK, OperatorStepOK, RestartOK, TickOK DEF Next
<1> QED
  BY <1>1, <1>2

-----------------------------------------------------------------------------
\* Every variable keeps its type: approvals.json always holds well-formed records.
THEOREM ApprovalTypes == Spec => []TypeOK
<1>1. Spec => []GrantInv
  BY InitGrant, NextGrant, PTL DEF Spec
<1>2. GrantInv => TypeOK
  BY DEF GrantInv
<1> QED
  BY <1>1, <1>2, PTL

\* No tool mutates anything without an approval some operator was answered for,
\* valid when its gate evaluated it.
THEOREM NoEffectWithoutApproval == Spec => []EffectsGranted
<1>1. Spec => []GrantInv
  BY InitGrant, NextGrant, PTL DEF Spec
<1>2. GrantInv => EffectsGranted
  BY DEF GrantInv
<1> QED
  BY <1>1, <1>2, PTL

\* A record's status and decision agree however listings, decisions and
\* restarts interleave.
THEOREM StatusAgrees == Spec => []StatusMatchesDecision
<1>1. Spec => []GrantInv
  BY InitGrant, NextGrant, PTL DEF Spec
<1>2. GrantInv => StatusMatchesDecision
  BY DEF GrantInv
<1> QED
  BY <1>1, <1>2, PTL

-----------------------------------------------------------------------------
(***************************************************************************)
(* The configuration file, its rewritings and the gateway that starts on   *)
(* it.                                                                     *)
(***************************************************************************)

\* A text that follows another says the same if that is plain, and no other word if not.
Follows(t, u) == t.word = u.word /\ (t = Blank <=> u = Blank) /\ (Plain(u) => t = u)

\* What the file is to say of k once w has renamed its draft.
AskedOf(w, k) == IF k \in DOMAIN drafts[w].asked THEN drafts[w].asked[k] ELSE intended[k]

MaybeText == Texts \cup {Blank}

-----------------------------------------------------------------------------
\* Texts.

LEMMA SlashesBound == MaxSlashes \in Nat
BY ConfigAssumption

LEMMA RewritesBound == MaxRewrites \in Nat
BY ConfigAssumption

LEMMA NoWord == "" \notin Words
BY ConfigAssumption

LEMMA Inputs ==
  /\ ExampleTexts \in [ConfigKeys -> MaybeText]
  /\ \A f \in HandFiles : f.lines \in Lines /\ f.owned \in BOOLEAN /\ f \in [owned: BOOLEAN, lines: Lines]
  /\ LegacyFiles \subseteq Lines /\ Shells \subseteq Lines
  /\ AskedTexts \subseteq MaybeText
BY ConfigAssumption DEF Lines, MaybeText

LEMMA TextFacts ==
  /\ \A t \in Texts : t.word # "" /\ t.slashes \in Nat /\ t.quoted \in BOOLEAN
  /\ Absent \notin MaybeText
  /\ \A t \in MaybeText : t.word = "" <=> t = Blank
<1>1. \A t \in Texts : t.word # "" /\ t.slashes \in Nat /\ t.quoted \in BOOLEAN
  <2>1. \A t \in Texts : t.word \in Words /\ t.slashes \in 0..MaxSlashes /\ t.quoted \in BOOLEAN
    BY DEF Texts
  <2>2. \A n \in 0..MaxSlashes : n \in Nat
    BY SlashesBound
  <2> QED BY <2>1, <2>2, NoWord
<1>2. Absent # Blank /\ Absent.word = "" /\ Blank.word = ""
  BY DEF Absent, Blank
<1> QED BY <1>1, <1>2 DEF MaybeText

LEMMA TextOfType ==
  ASSUME NEW lines \in Lines, NEW k \in ConfigKeys, NEW otherwise \in MaybeText
  PROVE  TextOf(lines, k, otherwise) \in MaybeText
<1>1. CASE \E n \in Mentioned(lines) : KeyOf(n) = k
  <2> DEFINE n == CHOOSE n \in Mentioned(lines) : KeyOf(n) = k
  <2>1. n \in Mentioned(lines)
    BY <1>1
  <2>2. lines[n] \in MaybeText
    BY <2>1 DEF Mentioned, Lines, MaybeText
  <2> QED BY <1>1, <2>2 DEF TextOf
<1>2. CASE ~\E n \in Mentioned(lines) : KeyOf(n) = k
  BY <1>2 DEF TextOf
<1> QED BY <1>1, <1>2

LEMMA CappedType == \A n \in Nat : Capped(n) \in 0..MaxSlashes /\ (n = 0 => Capped(n) = 0)
BY SlashesBound DEF Capped

\* What is read back of a text follows it.
LEMMA RereadFollows ==
  ASSUME NEW t \in MaybeText
  PROVE  Reread(t) \in MaybeText /\ Follows(Reread(t), t)
<1>1. CASE t = Blank
  <2>1. Capped(2 * 0) = 0
    BY CappedType
  <2>2. Reread(t) = Blank
    BY <1>1, <2>1 DEF Reread, Blank
  <2> QED BY <1>1, <2>2 DEF Follows, MaybeText
<1>2. CASE t \in Texts
  <2>1. t.word \in Words /\ t.slashes \in Nat /\ t.quoted \in BOOLEAN
        /\ t = [word |-> t.word, slashes |-> t.slashes, quoted |-> t.quoted]
    BY <1>2, TextFacts DEF Texts
  <2> DEFINE n == IF t.quoted THEN 2 * t.slashes + 1 ELSE 2 * t.slashes
  <2>2. n \in Nat /\ (t.slashes = 0 /\ ~t.quoted => n = 0)
    BY <2>1
  <2>3. Reread(t) = [word |-> t.word, slashes |-> Capped(n), quoted |-> FALSE]
    BY DEF Reread
  <2> HIDE DEF n
  <2>4. Capped(n) \in 0..MaxSlashes /\ (t.slashes = 0 /\ ~t.quoted => Capped(n) = 0)
    BY <2>2, CappedType
  <2>6. Reread(t) \in Texts
    BY <2>1, <2>3, <2>4 DEF Texts
  <2>7. Plain(t) => Reread(t) = t
    BY <2>1, <2>3, <2>4 DEF Plain
  <2>8. Reread(t) # Blank /\ t # Blank
    <3>1. Blank.word = ""
      BY DEF Blank
    <3> QED BY <1>2, <2>6, <3>1, TextFacts
  <2>9. Reread(t).word = t.word
    BY <2>3
  <2> QED BY <2>6, <2>7, <2>8, <2>9 DEF Follows, MaybeText
<1> QED BY <1>1, <1>2 DEF MaybeText

LEMMA FollowsTransitive ==
  ASSUME NEW t, NEW u, NEW v, Follows(t, u), Follows(u, v)
  PROVE  Follows(t, v)
BY DEF Follows

LEMMA KeyOfKey == \A k \in ConfigKeys : KeyOf(k) = k
BY ConfigAssumption DEF KeyOf

\* A file that was written anew says of each key what is read back of its text.
LEMMA SerializedFile ==
  ASSUME NEW texts \in [ConfigKeys -> MaybeText]
  PROVE  /\ Serialized(texts) \in Lines
         /\ \A k \in ConfigKeys : TextOf(Serialized(texts), k, Blank) = Reread(texts[k])
<1>1. \A k \in ConfigKeys : Reread(texts[k]) \in MaybeText
  BY RereadFollows
<1>2. Serialized(texts) \in Lines
  BY <1>1 DEF Serialized, Lines, MaybeText
<1>3. Mentioned(Serialized(texts)) = ConfigKeys
  BY <1>1, TextFacts DEF Mentioned, Serialized, Names
<1>4. ASSUME NEW k \in ConfigKeys
      PROVE  TextOf(Serialized(texts), k, Blank) = Reread(texts[k])
  <2>1. (CHOOSE n \in Mentioned(Serialized(texts)) : KeyOf(n) = k) = k
    BY <1>3, KeyOfKey
  <2>2. Serialized(texts)[k] = Reread(texts[k])
    BY DEF Serialized, Names
  <2> QED BY <1>3, <2>1, <2>2, KeyOfKey DEF TextOf
<1> QED BY <1>2, <1>4

-----------------------------------------------------------------------------
\* Steps.

FileInv == \A k \in ConfigKeys : Follows(TextOf(config.lines, k, Blank), intended[k])

DraftInv ==
  \A w \in Writers : drafts[w] # NoDraft =>
    \A k \in ConfigKeys : Follows(TextOf(drafts[w].lines, k, Blank), AskedOf(w, k))

DraftOK(d) ==
  /\ d.lines \in Lines /\ DOMAIN d.asked \subseteq ConfigKeys
  /\ \A k \in DOMAIN d.asked : d.asked[k] \in MaybeText

DraftsOK(ds) == DOMAIN ds = Writers /\ \A w \in Writers : DraftOK(ds[w])

LEMMA NoDraftOK == DraftOK(NoDraft)
BY DEF DraftOK, NoDraft, NoFile, Lines

\* A rewritten file for the texts that it was asked for.
LEMMA NewDraft ==
  ASSUME NEW texts \in [ConfigKeys -> MaybeText], NEW ks \in SUBSET ConfigKeys,
         NEW asked, asked = [k \in ks |-> texts[k]]
  PROVE  /\ DraftOK([lines |-> Serialized(texts), asked |-> asked])
         /\ \A k \in ConfigKeys : Follows(TextOf(Serialized(texts), k, Blank), texts[k])
BY SerializedFile, RereadFollows DEF DraftOK

LEMMA ReadConfigIs ==
  ASSUME ConfigTypeOK, NEW c \in ConfigCalls, ReadConfig(c)
  PROVE  \/ UNCHANGED drafts
         \/ \E x \in ConfigChanges, texts \in [ConfigKeys -> MaybeText] :
              /\ texts = [k \in ConfigKeys |-> IF k = x.key THEN x.text ELSE TextOf(config.lines, k, Blank)]
              /\ drafts' = [drafts EXCEPT !["tool"] = [lines |-> Serialized(texts),
                                                       asked |-> [k \in {x.key} |-> texts[k]]]]
<1>1. PICK x \in asking[c] :
        \/ UNCHANGED drafts
        \/ drafts' = [drafts EXCEPT !["tool"] =
              [lines |-> Serialized([k \in ConfigKeys |->
                           IF k = x.key THEN x.text ELSE TextOf(config.lines, k, Blank)]),
               asked |-> [k \in {x.key} |-> x.text]]]
  BY DEF ReadConfig
<1>2. x \in ConfigChanges /\ x.key \in ConfigKeys /\ x.text \in MaybeText
  BY Inputs DEF ConfigTypeOK, ConfigChanges, MaybeText
<1> DEFINE texts == [k \in ConfigKeys |-> IF k = x.key THEN x.text ELSE TextOf(config.lines, k, Blank)]
<1>3. texts \in [ConfigKeys -> MaybeText]
  <2>1. \A k \in ConfigKeys : TextOf(config.lines, k, Blank) \in MaybeText
    BY TextOfType DEF ConfigTypeOK, MaybeText
  <2> QED BY <1>2, <2>1
<1>4. [k \in {x.key} |-> x.text] = [k \in {x.key} |-> texts[k]]
  BY <1>2
<1> HIDE DEF texts
<1>5. texts = [k \in ConfigKeys |-> IF k = x.key THEN x.text ELSE TextOf(config.lines, k, Blank)]
  BY DEF texts
<1>6. \/ UNCHANGED drafts
      \/ drafts' = [drafts EXCEPT !["tool"] = [lines |-> Serialized(texts),
                                              asked |-> [k \in {x.key} |-> texts[k]]]]
  BY <1>1, <1>4, <1>5
<1> QED BY <1>2, <1>3, <1>5, <1>6

LEMMA ReadLegacyIs ==
  ASSUME ReadLegacy
  PROVE  \E texts \in [ConfigKeys -> MaybeText] :
           drafts' = [drafts EXCEPT !["script"] = [lines |-> Serialized(texts), asked |-> texts]]
<1>1. PICK legacy \in LegacyFiles :
        drafts' = [drafts EXCEPT !["script"] =
          [lines |-> Serialized([k \in ConfigKeys |-> TextOf(legacy, k, ExampleTexts[k])]),
           asked |-> [k \in ConfigKeys |-> TextOf(legacy, k, ExampleTexts[k])]]]
  BY DEF ReadLegacy
<1>2. [k \in ConfigKeys |-> TextOf(legacy, k, ExampleTexts[k])] \in [ConfigKeys -> MaybeText]
  BY Inputs, TextOfType
<1> QED BY <1>1, <1>2

LEMMA AppliedIs ==
  ASSUME NEW shell \in Lines, NEW lines \in Lines
  PROVE  /\ Applied(shell, lines) \in Lines
         /\ \A k \in ConfigKeys : Applied(shell, lines)[k] = Setting(TextOf(lines, k, Blank))
         /\ \A a \in Aliases : Applied(shell, lines)[a] = Absent
<1>1. \A k \in ConfigKeys : TextOf(lines, k, Blank) \in MaybeText
  BY TextOfType DEF MaybeText
<1>2. \A k \in ConfigKeys : k \notin Strangers /\ k \in Names
  BY ConfigAssumption DEF Names
<1>3. \A a \in Aliases : a \notin Strangers /\ a \in Names /\ a \notin ConfigKeys
  BY ConfigAssumption DEF Names
<1>4. Applied(shell, lines) \in Lines
  BY <1>1 DEF Applied, Lines, MaybeText
<1> QED BY <1>2, <1>3, <1>4 DEF Applied, Setting

LEMMA ConfigTypeStep ==
  ASSUME ConfigTypeOK, [ConfigNext]_configVars
  PROVE  ConfigTypeOK'
<1>0. DraftsOK(drafts)
  BY DEF ConfigTypeOK, DraftsOK, DraftOK, MaybeText
<1>1. ASSUME NEW d, DraftOK(d), NEW w \in Writers, drafts' = [drafts EXCEPT ![w] = d]
      PROVE  DraftsOK(drafts')
  BY <1>0, <1>1 DEF DraftsOK
<1>2. DraftsOK(drafts') => /\ DOMAIN drafts' = Writers
                           /\ \A w \in Writers :
                                /\ drafts'[w].lines \in Lines /\ DOMAIN drafts'[w].asked \subseteq ConfigKeys
                                /\ \A k \in DOMAIN drafts'[w].asked : drafts'[w].asked[k] \in Texts \cup {Blank}
  BY DEF DraftsOK, DraftOK, MaybeText
<1>3. "tool" \in Writers /\ "script" \in Writers
  BY DEF Writers
<1>4. CASE StartGateway
  BY <1>4, Inputs, AppliedIs DEF StartGateway, ConfigTypeOK
<1>5. CASE StopGateway
  <2>1. DraftsOK(drafts')
    BY <1>1, <1>3, <1>5, NoDraftOK DEF StopGateway
  <2>2. environment' \in Lines
    BY <1>5 DEF StopGateway, NoFile, Lines
  <2> QED BY <1>2, <1>5, <2>1, <2>2 DEF StopGateway, ConfigTypeOK
<1>6. ASSUME NEW c \in ConfigCalls, AskChange(c)
      PROVE  ConfigTypeOK'
  <2>1. asking' \in [ConfigCalls -> SUBSET ConfigChanges] /\ requested' \subseteq ConfigChanges
    BY <1>6 DEF AskChange, ConfigTypeOK
  <2> QED BY <1>6, <2>1 DEF AskChange, ConfigTypeOK
<1>7. CASE DecideChange
  BY <1>7 DEF DecideChange, ConfigTypeOK
<1>8. ASSUME NEW c \in ConfigCalls, ReadConfig(c)
      PROVE  ConfigTypeOK'
  <2>1. DraftsOK(drafts')
    <3>1. CASE UNCHANGED drafts
      BY <1>0, <3>1
    <3>2. ASSUME NEW x \in ConfigChanges, NEW texts \in [ConfigKeys -> MaybeText],
                 drafts' = [drafts EXCEPT !["tool"] = [lines |-> Serialized(texts),
                                                       asked |-> [k \in {x.key} |-> texts[k]]]]
          PROVE  DraftsOK(drafts')
      <4>1. {x.key} \in SUBSET ConfigKeys
        BY DEF ConfigChanges
      <4>2. DraftOK([lines |-> Serialized(texts), asked |-> [k \in {x.key} |-> texts[k]]])
        BY <4>1, NewDraft
      <4> QED BY <1>1, <1>3, <3>2, <4>2
    <3> QED BY <1>8, <3>1, <3>2, ReadConfigIs
  <2>2. asking' \in [ConfigCalls -> SUBSET ConfigChanges]
    BY <1>8 DEF ReadConfig, ConfigTypeOK
  <2> QED BY <1>2, <1>8, <2>1, <2>2 DEF ReadConfig, ConfigTypeOK
<1>9. CASE ReadLegacy
  <2>1. PICK texts \in [ConfigKeys -> MaybeText] :
           drafts' = [drafts EXCEPT !["script"] = [lines |-> Serialized(texts), asked |-> texts]]
    BY <1>9, ReadLegacyIs
  <2>2. DraftOK([lines |-> Serialized(texts), asked |-> texts])
    BY SerializedFile DEF DraftOK
  <2>3. DraftsOK(drafts')
    BY <1>1, <1>3, <2>1, <2>2
  <2>4. rewrites' \in 0..MaxRewrites
    BY <1>9, RewritesBound DEF ReadLegacy, ConfigTypeOK
  <2> QED BY <1>2, <1>9, <2>3, <2>4 DEF ReadLegacy, ConfigTypeOK
<1>10. ASSUME NEW w \in Writers, Rename(w)
       PROVE  ConfigTypeOK'
  <2>1. DraftsOK(drafts')
    BY <1>1, <1>10, NoDraftOK DEF Rename
  <2>2. config' \in [owned: BOOLEAN, lines: Lines]
    BY <1>0, <1>10 DEF Rename, DraftsOK, DraftOK
  <2>3. intended' \in [ConfigKeys -> MaybeText]
    BY <1>0, <1>10 DEF Rename, DraftsOK, DraftOK, ConfigTypeOK, MaybeText
  <2>4. raced' \in BOOLEAN
    BY <1>10 DEF Rename, Overlaps, ConfigTypeOK
  <2> QED BY <1>2, <1>10, <2>1, <2>2, <2>3, <2>4 DEF Rename, ConfigTypeOK, MaybeText
<1>11. CASE EditByHand
  <2>1. PICK f \in HandFiles : config' = f /\ intended' = [k \in ConfigKeys |-> TextOf(f.lines, k, Blank)]
    BY <1>11 DEF EditByHand
  <2>2. config' \in [owned: BOOLEAN, lines: Lines]
    BY <2>1, Inputs
  <2>3. intended' \in [ConfigKeys -> MaybeText]
    BY <2>1, Inputs, TextOfType DEF MaybeText
  <2>4. raced' \in BOOLEAN
    BY <1>11 DEF EditByHand, Overlaps, ConfigTypeOK
  <2>5. rewrites' \in 0..MaxRewrites
    BY <1>11, RewritesBound DEF EditByHand, ConfigTypeOK
  <2> QED BY <1>11, <2>2, <2>3, <2>4, <2>5 DEF EditByHand, ConfigTypeOK, MaybeText
<1>12. CASE UNCHANGED configVars
  BY <1>12 DEF configVars, ConfigTypeOK
<1> QED BY <1>4, <1>5, <1>6, <1>7, <1>8, <1>9, <1>10, <1>11, <1>12 DEF ConfigNext

\* Every step but these leaves the files, the drafts and the gateway alone.
core == <<config, drafts, running, environment, intended, wanted, raced>>

LEMMA ConfigSteps ==
  ASSUME [ConfigNext]_configVars
  PROVE  \/ UNCHANGED core \/ StartGateway \/ StopGateway \/ ReadLegacy \/ EditByHand
         \/ \E c \in ConfigCalls : ReadConfig(c)
         \/ \E w \in Writers : Rename(w)
BY DEF ConfigNext, configVars, core, AskChange, DecideChange

\* A new draft, of a file that says what it should.
LEMMA DraftStep ==
  ASSUME ConfigTypeOK, DraftInv, UNCHANGED intended, NEW w \in Writers,
         NEW texts \in [ConfigKeys -> MaybeText], NEW ks \in SUBSET ConfigKeys,
         drafts' = [drafts EXCEPT ![w] = [lines |-> Serialized(texts), asked |-> [k \in ks |-> texts[k]]]],
         \A k \in ConfigKeys \ ks : Follows(texts[k], intended[k])
  PROVE  DraftInv'
<1>1. DOMAIN drafts = Writers
  BY DEF ConfigTypeOK
<1>2. drafts'[w].lines = Serialized(texts) /\ drafts'[w].asked = [k \in ks |-> texts[k]]
  BY <1>1
<1>3. ASSUME NEW k \in ConfigKeys
      PROVE  Follows(TextOf(drafts'[w].lines, k, Blank), AskedOf(w, k)')
  <2>1. Follows(TextOf(Serialized(texts), k, Blank), texts[k])
    BY NewDraft
  <2>2. CASE k \in ks
    BY <1>2, <2>1, <2>2 DEF AskedOf
  <2>3. CASE k \notin ks
    <3>1. Follows(texts[k], AskedOf(w, k)')
      BY <1>2, <2>3 DEF AskedOf
    <3> QED BY <1>2, <2>1, <3>1, FollowsTransitive
  <2> QED BY <2>2, <2>3
<1>4. ASSUME NEW u \in Writers, u # w
      PROVE  drafts'[u] = drafts[u]
  BY <1>1, <1>4
<1>5. ASSUME NEW u \in Writers, u # w, drafts'[u] # NoDraft, NEW k \in ConfigKeys
      PROVE  Follows(TextOf(drafts'[u].lines, k, Blank), AskedOf(u, k)')
  <2>1. AskedOf(u, k)' = AskedOf(u, k)
    BY <1>4, <1>5 DEF AskedOf
  <2> QED BY <1>4, <1>5, <2>1 DEF DraftInv
<1> QED BY <1>3, <1>5 DEF DraftInv

\* Nobody else has a draft when a file is replaced and nothing is lost.
LEMMA ReplaceStep ==
  ASSUME ConfigTypeOK, NEW writers \in SUBSET Writers, Overlaps(writers), ~raced',
         \A w \in Writers \ writers : drafts'[w] = NoDraft,
         \A w \in writers : drafts'[w] = drafts[w]
  PROVE  DraftInv' /\ ~raced
BY DEF Overlaps, DraftInv

LEMMA ConfigFilesStep ==
  ASSUME ConfigTypeOK, [ConfigNext]_configVars, ~raced => FileInv /\ DraftInv, ~raced'
  PROVE  FileInv' /\ DraftInv' /\ ~raced
<1>1. CASE UNCHANGED core
  BY <1>1 DEF core, FileInv, DraftInv, AskedOf
<1>2. CASE StartGateway
  BY <1>2 DEF StartGateway, FileInv, DraftInv, AskedOf
<1>3. CASE StopGateway
  <2>1. drafts'["tool"] = NoDraft /\ \A w \in Writers : w # "tool" => drafts'[w] = drafts[w]
    BY <1>3 DEF StopGateway, ConfigTypeOK, Writers
  <2>2. UNCHANGED <<config, intended, raced>>
    BY <1>3 DEF StopGateway
  <2> QED BY <2>1, <2>2 DEF FileInv, DraftInv, AskedOf
<1>4. CASE ReadLegacy
  <2>1. PICK texts \in [ConfigKeys -> MaybeText] :
           drafts' = [drafts EXCEPT !["script"] = [lines |-> Serialized(texts), asked |-> texts]]
    BY <1>4, ReadLegacyIs
  <2>2. texts = [k \in ConfigKeys |-> texts[k]]
    OBVIOUS
  <2>3. UNCHANGED <<config, intended, raced>> /\ "script" \in Writers
    BY <1>4 DEF ReadLegacy, Writers
  <2>4. DraftInv'
    BY <2>1, <2>2, <2>3, DraftStep
  <2> QED BY <2>3, <2>4 DEF FileInv
<1>5. ASSUME NEW c \in ConfigCalls, ReadConfig(c)
      PROVE  FileInv' /\ DraftInv' /\ ~raced
  <2>1. UNCHANGED <<config, intended, raced>> /\ "tool" \in Writers
    BY <1>5 DEF ReadConfig, Writers
  <2>2. CASE UNCHANGED drafts
    BY <2>1, <2>2 DEF FileInv, DraftInv, AskedOf
  <2>3. ASSUME NEW x \in ConfigChanges, NEW texts \in [ConfigKeys -> MaybeText],
               texts = [k \in ConfigKeys |-> IF k = x.key THEN x.text ELSE TextOf(config.lines, k, Blank)],
               drafts' = [drafts EXCEPT !["tool"] = [lines |-> Serialized(texts),
                                                     asked |-> [k \in {x.key} |-> texts[k]]]]
        PROVE  FileInv' /\ DraftInv' /\ ~raced
    <3>1. {x.key} \in SUBSET ConfigKeys
      BY DEF ConfigChanges
    <3>2. \A k \in ConfigKeys \ {x.key} : Follows(texts[k], intended[k])
      BY <2>1, <2>3 DEF FileInv
    <3>3. DraftInv'
      BY <2>1, <2>3, <3>1, <3>2, DraftStep
    <3> QED BY <2>1, <3>3 DEF FileInv
  <2> QED BY <1>5, <2>2, <2>3, ReadConfigIs
<1>6. ASSUME NEW w \in Writers, Rename(w)
      PROVE  FileInv' /\ DraftInv' /\ ~raced
  <2>1. drafts'[w] = NoDraft /\ \A u \in Writers \ {w} : drafts'[u] = drafts[u]
    BY <1>6 DEF Rename, ConfigTypeOK
  <2>2. DraftInv' /\ ~raced
    <3>1. Writers \ {w} \in SUBSET Writers /\ Overlaps(Writers \ {w})
      BY <1>6 DEF Rename
    <3> QED BY <2>1, <3>1, ReplaceStep
  <2>3. ASSUME NEW k \in ConfigKeys
        PROVE  Follows(TextOf(config'.lines, k, Blank), intended'[k])
    <3>1. config'.lines = drafts[w].lines /\ intended'[k] = AskedOf(w, k) /\ drafts[w] # NoDraft
      BY <1>6 DEF Rename, AskedOf
    <3> QED BY <2>2, <3>1 DEF DraftInv
  <2> QED BY <2>2, <2>3 DEF FileInv
<1>7. CASE EditByHand
  <2>1. PICK f \in HandFiles : config' = f /\ intended' = [k \in ConfigKeys |-> TextOf(f.lines, k, Blank)]
    BY <1>7 DEF EditByHand
  <2>2. FileInv'
    BY <2>1 DEF FileInv, Follows
  <2>3. DraftInv' /\ ~raced
    BY <1>7, ReplaceStep DEF EditByHand
  <2> QED BY <2>2, <2>3
<1> QED BY <1>1, <1>2, <1>3, <1>4, <1>5, <1>6, <1>7, ConfigSteps

LEMMA StartsAsAsked ==
  ASSUME ConfigTypeOK, FileInv, StartGateway
  PROVE  RunsAsAsked'
<1>1. PICK shell \in Shells : environment' = Applied(shell, config.lines)
  BY DEF StartGateway
<1>2. /\ \A k \in ConfigKeys : environment'[k] = Setting(TextOf(config.lines, k, Blank))
      /\ \A a \in Aliases : environment'[a] = Absent
  BY <1>1, Inputs, AppliedIs DEF ConfigTypeOK
<1>3. ASSUME NEW k \in ConfigKeys
      PROVE  /\ environment'[k].word = Setting(wanted'[k]).word
             /\ Plain(wanted'[k]) => environment'[k] = Setting(wanted'[k])
  <2>1. Follows(TextOf(config.lines, k, Blank), wanted'[k])
    BY DEF FileInv, StartGateway
  <2> QED BY <1>2, <2>1 DEF Follows, Setting
<1> QED BY <1>2, <1>3 DEF RunsAsAsked

\* Types; while nothing is lost, files and drafts say what was asked; and the property.
ConfigInv == ConfigTypeOK /\ (~raced => FileInv /\ DraftInv) /\ RunsAsAsked

LEMMA ConfigInvariant == ConfigSpec => []ConfigInv
<1>1. ConfigInit => ConfigInv
  <2> SUFFICES ASSUME ConfigInit PROVE ConfigInv
    OBVIOUS
  <2>1. NoFile.lines \in Lines /\ NoFile \in [owned: BOOLEAN, lines: Lines]
    BY DEF NoFile, Lines
  <2>2. ConfigTypeOK
    <3>1. \A w \in Writers : DraftOK(drafts[w])
      BY NoDraftOK DEF ConfigInit
    <3>2. 0 \in 0..MaxRewrites
      BY RewritesBound
    <3> QED BY <2>1, <3>1, <3>2 DEF ConfigInit, ConfigTypeOK, DraftOK, MaybeText
  <2>3. Mentioned(NoFile.lines) = {}
    BY DEF Mentioned, NoFile
  <2>4. \A k \in ConfigKeys : TextOf(config.lines, k, Blank) = Blank
    BY <2>3 DEF TextOf, ConfigInit
  <2>5. FileInv /\ DraftInv
    BY <2>4 DEF FileInv, DraftInv, Follows, ConfigInit
  <2> QED BY <2>2, <2>5 DEF ConfigInv, RunsAsAsked, ConfigInit
<1>2. ConfigInv /\ [ConfigNext]_configVars => ConfigInv'
  <2> SUFFICES ASSUME ConfigInv, [ConfigNext]_configVars PROVE ConfigInv'
    OBVIOUS
  <2>1. ConfigTypeOK'
    BY ConfigTypeStep DEF ConfigInv
  <2>2. ~raced' => FileInv' /\ DraftInv' /\ ~raced
    BY ConfigFilesStep DEF ConfigInv
  <2>3. RunsAsAsked'
    <3>1. CASE raced'
      BY <3>1 DEF RunsAsAsked
    <3>2. CASE StartGateway /\ ~raced'
      BY <2>2, <3>2, StartsAsAsked DEF ConfigInv
    <3>3. CASE UNCHANGED <<running, environment, wanted>> /\ ~raced'
      BY <2>2, <3>3 DEF ConfigInv, RunsAsAsked
    <3>4. CASE StopGateway
      BY <3>4 DEF StopGateway, RunsAsAsked
    <3> QED BY <3>1, <3>2, <3>3, <3>4, ConfigSteps DEF core, ReadLegacy, EditByHand, ReadConfig, Rename
  <2> QED BY <2>1, <2>2, <2>3 DEF ConfigInv
<1> QED BY <1>1, <1>2, PTL DEF ConfigSpec

\* A gateway that started on a file which no concurrent write has lost runs with
\* what was last asked of each key: the same word, and the same text if no rewriting
\* can damage it.
THEOREM RunsAsAskedHolds == ConfigSpec => []RunsAsAsked
BY ConfigInvariant, PTL DEF ConfigInv

-----------------------------------------------------------------------------
(* The loop: its types, that completion was verified, and how the two       *)
(* bounds relate.  CompletedIsVerified is not inductive: it needs that      *)
(* nothing touches the workspace between the passing run and the checkpoint *)
(* (Verified) and that no call edits while the file still says completed    *)
(* (SavedOK).  GuardOnlyIfShort needs the exact count of turns (TurnsOK).   *)

\* Which steps the loop can be in at each await.
Where ==
  /\ awaiting = "create" => step = "triage"
  /\ awaiting = "step" => step \in Steps
  /\ awaiting = "apply" => step = "implement"
  /\ awaiting \in {"debug", "patch", "reverify"} => step = "test-debug"
  /\ awaiting \in {"head", "persist"} => step # "error"
  /\ awaiting = "finish" => step \in {"completed", "blocked"}
  /\ awaiting = "fail" => step = "error"

\* Past verification the required commands have passed on the present files.
Verified ==
  awaiting \in {"head", "step", "persist", "finish"} /\ step \in {"code-review", "github", "completed"}
    => Passing(commands, fresh)

\* The stored completion is true, and a running call that still finds it on
\* disk is one that has nothing more to do.
SavedOK ==
  /\ CompletedIsVerified
  /\ saved.step = "completed" /\ awaiting \notin {"idle", "create"} =>
       /\ awaiting \in {"persist", "head", "finish", "fail"}
       /\ step \in {"completed", "error"}

\* The turns a step has behind it, and the three each replan adds.
Behind(s) == CASE s = "triage" -> 0 [] s = "implement" -> 1 [] s = "test-debug" -> 2
               [] s = "code-review" -> 3 [] s = "github" -> 4

TurnsOK ==
  /\ awaiting \in {"create", "head", "persist"} /\ step \in Steps => turn = Behind(step) + 3 * replans
  /\ awaiting \in {"step", "apply", "debug", "patch", "reverify"} => turn = Behind(step) + 1 + 3 * replans
  /\ awaiting # "idle" /\ step \in Steps => replans <= MaxReplans
  /\ awaiting # "idle" /\ step = "github" => task.github
  /\ GuardOnlyIfShort

LoopInv == LoopTypeOK /\ Where /\ Verified /\ SavedOK /\ TurnsOK

LEMMA InitLoop == LoopInit => LoopInv
<1> SUFFICES ASSUME LoopInit PROVE LoopInv
  OBVIOUS
<1>1. LoopTypeOK
  <2>1. calls \in 0..MaxCalls /\ turn \in 0..MaxTurns /\ replans \in 0..(MaxReplans + 1)
    BY CodingLoopAssumption DEF LoopInit
  <2>2. saved \in [step: Steps \cup Stopped \cup {"none", "unreadable"}, commands: SUBSET Commands]
    BY DEF LoopInit, NoRecord, Checkpoint
  <2> QED
    BY <2>1, <2>2 DEF LoopInit, LoopTypeOK, Awaits, Steps
<1>2. Where /\ Verified /\ SavedOK /\ TurnsOK
  BY DEF LoopInit, NoRecord, Checkpoint, Where, Verified, SavedOK, CompletedIsVerified, TurnsOK,
         GuardOnlyIfShort
<1> QED
  BY <1>1, <1>2 DEF LoopInv

\* What a request fixes, and what a request for commands resolves to.
LEMMA TaskTyped ==
  ASSUME LoopTypeOK
  PROVE  /\ task.directive \in BOOLEAN /\ task.github \in BOOLEAN
         /\ task.commands \subseteq Commands /\ task.maxTurns \in 0..MaxTurns
         /\ \A names \in SUBSET Commands : Resolve(names) \subseteq Commands
BY CodingLoopAssumption DEF LoopTypeOK, Tasks, Resolve

LEMMA NextLoop == LoopInv /\ [LoopNext]_loopVars => LoopInv'
<1> SUFFICES ASSUME LoopInv, [LoopNext]_loopVars PROVE LoopInv'
  OBVIOUS
<1> USE CodingLoopAssumption DEF LoopInv, Steps, Stopped, outside, callState
<1>1. CASE Begin
  <2>1. LoopTypeOK'
    <3>1. calls' \in 0..MaxCalls
      BY <1>1 DEF Begin, LoopTypeOK
    <3>2. commands' \subseteq Commands
      BY <1>1, TaskTyped DEF Begin
    <3>3. turn' \in 0..MaxTurns /\ replans' \in 0..(MaxReplans + 1)
      BY <1>1 DEF Begin
    <3> QED
      BY <1>1, <3>1, <3>2, <3>3 DEF Begin, LoopTypeOK, Awaits
  <2>2. Where'
    BY <1>1 DEF Begin, Resolve, LoopTypeOK, Where
  <2>3. Verified'
    BY <1>1 DEF Begin, Resolve, LoopTypeOK, Where, Verified, Passing
  <2>4. SavedOK'
    BY <1>1 DEF Begin, Resolve, LoopTypeOK, Where, Verified, Passing, SavedOK, CompletedIsVerified
  <2>5. TurnsOK'
    BY <1>1 DEF Begin, Resolve, LoopTypeOK, Tasks, Where, TurnsOK, Behind, GuardOnlyIfShort
  <2> QED
    BY <2>1, <2>2, <2>3, <2>4, <2>5
<1>2. CASE PersistInitial
  <2>1. LoopTypeOK'
    BY <1>2 DEF PersistInitial, Store, Checkpoint, NoRecord, Unreadable, LoopTypeOK, Tasks, Awaits
  <2>2. Where'
    BY <1>2 DEF PersistInitial, Store, Checkpoint, NoRecord, Unreadable, LoopTypeOK, Where
  <2>3. Verified'
    BY <1>2 DEF PersistInitial, Store, Checkpoint, NoRecord, Unreadable, LoopTypeOK, Where, Verified, Passing
  <2>4. SavedOK'
    BY <1>2 DEF PersistInitial, Store, Checkpoint, NoRecord, Unreadable, LoopTypeOK, Where, Verified, Passing, SavedOK, CompletedIsVerified
  <2>5. TurnsOK'
    BY <1>2 DEF PersistInitial, Store, Checkpoint, NoRecord, Unreadable, LoopTypeOK, Tasks, Where, TurnsOK, Behind, GuardOnlyIfShort
  <2> QED
    BY <2>1, <2>2, <2>3, <2>4, <2>5
<1>3. CASE NextTurn
  <2>1. LoopTypeOK'
    BY <1>3 DEF NextTurn, LoopTypeOK, Tasks, Awaits
  <2>2. Where'
    BY <1>3 DEF NextTurn, LoopTypeOK, Where
  <2>3. Verified'
    BY <1>3 DEF NextTurn, LoopTypeOK, Where, Verified, Passing
  <2>4. SavedOK'
    BY <1>3 DEF NextTurn, LoopTypeOK, Where, Verified, Passing, SavedOK, CompletedIsVerified
  <2>5. TurnsOK'
    BY <1>3 DEF NextTurn, LoopTypeOK, Tasks, Where, TurnsOK, Behind, GuardOnlyIfShort
  <2> QED
    BY <2>1, <2>2, <2>3, <2>4, <2>5
<1>4. CASE TurnGuard
  <2>1. LoopTypeOK'
    BY <1>4 DEF TurnGuard, LoopTypeOK, Tasks, Awaits
  <2>2. Where'
    BY <1>4 DEF TurnGuard, LoopTypeOK, Where
  <2>3. Verified'
    BY <1>4 DEF TurnGuard, LoopTypeOK, Where, Verified, Passing
  <2>4. SavedOK'
    BY <1>4 DEF TurnGuard, LoopTypeOK, Where, Verified, Passing, SavedOK, CompletedIsVerified
  <2>5. TurnsOK'
    BY <1>4 DEF TurnGuard, LoopTypeOK, Tasks, Where, TurnsOK, Behind, GuardOnlyIfShort
  <2> QED
    BY <2>1, <2>2, <2>3, <2>4, <2>5
<1>5. CASE Triage
  <2>1. LoopTypeOK'
    BY <1>5 DEF Triage, EndStep, LoopTypeOK, Tasks, Awaits
  <2>2. Where'
    BY <1>5 DEF Triage, EndStep, LoopTypeOK, Where
  <2>3. Verified'
    BY <1>5 DEF Triage, EndStep, LoopTypeOK, Where, Verified, Passing
  <2>4. SavedOK'
    BY <1>5 DEF Triage, EndStep, LoopTypeOK, Where, Verified, Passing, SavedOK, CompletedIsVerified
  <2>5. TurnsOK'
    BY <1>5 DEF Triage, EndStep, LoopTypeOK, Tasks, Where, TurnsOK, Behind, GuardOnlyIfShort
  <2> QED
    BY <2>1, <2>2, <2>3, <2>4, <2>5
<1>6. CASE Implement
  <2>1. LoopTypeOK'
    BY <1>6 DEF Implement, Merged, Resolve, LoopTypeOK, Tasks, Awaits
  <2>2. Where'
    BY <1>6 DEF Implement, Merged, Resolve, LoopTypeOK, Where
  <2>3. Verified'
    BY <1>6 DEF Implement, Merged, Resolve, LoopTypeOK, Where, Verified, Passing
  <2>4. SavedOK'
    BY <1>6 DEF Implement, Merged, Resolve, LoopTypeOK, Where, Verified, Passing, SavedOK, CompletedIsVerified
  <2>5. TurnsOK'
    BY <1>6 DEF Implement, Merged, Resolve, LoopTypeOK, Tasks, Where, TurnsOK, Behind, GuardOnlyIfShort
  <2> QED
    BY <2>1, <2>2, <2>3, <2>4, <2>5
<1>7. CASE ApplyImplementation
  <2>1. LoopTypeOK'
    BY <1>7 DEF ApplyImplementation, NothingToApply, ApplyEdits, EndStep, LoopTypeOK, Tasks, Awaits
  <2>2. Where'
    BY <1>7 DEF ApplyImplementation, NothingToApply, ApplyEdits, EndStep, LoopTypeOK, Where
  <2>3. Verified'
    BY <1>7 DEF ApplyImplementation, NothingToApply, ApplyEdits, EndStep, LoopTypeOK, Where, Verified, Passing
  <2>4. SavedOK'
    BY <1>7 DEF ApplyImplementation, NothingToApply, ApplyEdits, EndStep, LoopTypeOK, Where, Verified, Passing, SavedOK, CompletedIsVerified
  <2>5. TurnsOK'
    BY <1>7 DEF ApplyImplementation, NothingToApply, ApplyEdits, EndStep, LoopTypeOK, Tasks, Where, TurnsOK, Behind, GuardOnlyIfShort
  <2> QED
    BY <2>1, <2>2, <2>3, <2>4, <2>5
<1>8. CASE TestDebug
  <2>1. LoopTypeOK'
    BY <1>8 DEF TestDebug, Verify, EndStep, LoopTypeOK, Tasks, Awaits, Where, TurnsOK
  <2>2. Where'
    BY <1>8 DEF TestDebug, Verify, EndStep, LoopTypeOK, Where
  <2>3. Verified'
    BY <1>8 DEF TestDebug, Verify, EndStep, LoopTypeOK, Where, Verified, Passing
  <2>4. SavedOK'
    BY <1>8 DEF TestDebug, Verify, EndStep, LoopTypeOK, Where, Verified, Passing, SavedOK, CompletedIsVerified
  <2>5. TurnsOK'
    BY <1>8 DEF TestDebug, Verify, EndStep, LoopTypeOK, Tasks, Where, TurnsOK, Behind, GuardOnlyIfShort
  <2> QED
    BY <2>1, <2>2, <2>3, <2>4, <2>5
<1>9. CASE Debug
  <2>1. LoopTypeOK'
    <3>1. commands' \subseteq Commands /\ commands \subseteq commands'
      BY <1>9, TaskTyped DEF Debug, Merged, LoopTypeOK
    <3>2. awaiting' \in Awaits /\ step' \in Steps \cup Stopped /\ pending' \in BOOLEAN
      BY <1>9 DEF Debug, NotPassing, EndStep, LoopTypeOK, Awaits
    <3>3. replans' \in 0..(MaxReplans + 1)
      BY <1>9 DEF Debug, NotPassing, LoopTypeOK, Where, TurnsOK
    <3> QED
      BY <1>9, <3>1, <3>2, <3>3 DEF Debug, LoopTypeOK
  <2>2. Where'
    BY <1>9 DEF Debug, Merged, Resolve, NotPassing, EndStep, LoopTypeOK, Where
  <2>3. Verified'
    BY <1>9 DEF Debug, Merged, Resolve, NotPassing, EndStep, LoopTypeOK, Where, Verified, Passing
  <2>4. SavedOK'
    BY <1>9 DEF Debug, Merged, Resolve, NotPassing, EndStep, LoopTypeOK, Where, Verified, Passing, SavedOK, CompletedIsVerified
  <2>5. TurnsOK'
    BY <1>9 DEF Debug, Merged, Resolve, NotPassing, EndStep, LoopTypeOK, Tasks, Where, TurnsOK, Behind, GuardOnlyIfShort
  <2> QED
    BY <2>1, <2>2, <2>3, <2>4, <2>5
<1>10. CASE ApplyDebugEdits
  <2>1. LoopTypeOK'
    <3>1. fresh' \subseteq Commands /\ pending' \in BOOLEAN
      BY <1>10 DEF ApplyDebugEdits, ApplyEdits, LoopTypeOK
    <3>2. awaiting' \in Awaits /\ step' \in Steps \cup Stopped
      BY <1>10 DEF ApplyDebugEdits, ApplyEdits, EndStep, LoopTypeOK, Awaits
    <3> QED
      BY <1>10, <3>1, <3>2 DEF ApplyDebugEdits, LoopTypeOK
  <2>2. Where'
    BY <1>10 DEF ApplyDebugEdits, ApplyEdits, EndStep, LoopTypeOK, Where
  <2>3. Verified'
    BY <1>10 DEF ApplyDebugEdits, ApplyEdits, EndStep, LoopTypeOK, Where, Verified, Passing
  <2>4. SavedOK'
    BY <1>10 DEF ApplyDebugEdits, ApplyEdits, EndStep, LoopTypeOK, Where, Verified, Passing, SavedOK, CompletedIsVerified
  <2>5. TurnsOK'
    BY <1>10 DEF ApplyDebugEdits, ApplyEdits, EndStep, LoopTypeOK, Tasks, Where, TurnsOK, Behind, GuardOnlyIfShort
  <2> QED
    BY <2>1, <2>2, <2>3, <2>4, <2>5
<1>11. CASE Reverify
  <2>1. LoopTypeOK'
    BY <1>11 DEF Reverify, Verify, EndStep, NotPassing, LoopTypeOK, Tasks, Awaits, Where, TurnsOK
  <2>2. Where'
    BY <1>11 DEF Reverify, Verify, EndStep, NotPassing, LoopTypeOK, Where
  <2>3. Verified'
    BY <1>11 DEF Reverify, Verify, EndStep, NotPassing, LoopTypeOK, Where, Verified, Passing
  <2>4. SavedOK'
    BY <1>11 DEF Reverify, Verify, EndStep, NotPassing, LoopTypeOK, Where, Verified, Passing, SavedOK, CompletedIsVerified
  <2>5. TurnsOK'
    BY <1>11 DEF Reverify, Verify, EndStep, NotPassing, LoopTypeOK, Tasks, Where, TurnsOK, Behind, GuardOnlyIfShort
  <2> QED
    BY <2>1, <2>2, <2>3, <2>4, <2>5
<1>12. CASE CodeReview
  <2>1. LoopTypeOK'
    BY <1>12 DEF CodeReview, Approve, Reject, EndStep, LoopTypeOK, Tasks, Awaits, Where, TurnsOK
  <2>2. Where'
    BY <1>12 DEF CodeReview, Approve, Reject, EndStep, LoopTypeOK, Where
  <2>3. Verified'
    BY <1>12 DEF CodeReview, Approve, Reject, EndStep, LoopTypeOK, Where, Verified, Passing
  <2>4. SavedOK'
    BY <1>12 DEF CodeReview, Approve, Reject, EndStep, LoopTypeOK, Where, Verified, Passing, SavedOK, CompletedIsVerified
  <2>5. TurnsOK'
    BY <1>12 DEF CodeReview, Approve, Reject, EndStep, LoopTypeOK, Tasks, Where, TurnsOK, Behind, GuardOnlyIfShort
  <2> QED
    BY <2>1, <2>2, <2>3, <2>4, <2>5
<1>13. CASE Github
  <2>1. LoopTypeOK'
    BY <1>13 DEF Github, EndStep, LoopTypeOK, Tasks, Awaits
  <2>2. Where'
    BY <1>13 DEF Github, EndStep, LoopTypeOK, Where
  <2>3. Verified'
    BY <1>13 DEF Github, EndStep, LoopTypeOK, Where, Verified, Passing
  <2>4. SavedOK'
    BY <1>13 DEF Github, EndStep, LoopTypeOK, Where, Verified, Passing, SavedOK, CompletedIsVerified
  <2>5. TurnsOK'
    BY <1>13 DEF Github, EndStep, LoopTypeOK, Tasks, Where, TurnsOK, Behind, GuardOnlyIfShort
  <2> QED
    BY <2>1, <2>2, <2>3, <2>4, <2>5
<1>14. CASE Persist
  <2>1. LoopTypeOK'
    BY <1>14 DEF Persist, Store, Checkpoint, Unreadable, LoopTypeOK, Tasks, Awaits
  <2>2. Where'
    BY <1>14 DEF Persist, Store, Checkpoint, Unreadable, LoopTypeOK, Where
  <2>3. Verified'
    BY <1>14 DEF Persist, Store, Checkpoint, Unreadable, LoopTypeOK, Where, Verified, Passing
  <2>4. SavedOK'
    BY <1>14 DEF Persist, Store, Checkpoint, Unreadable, LoopTypeOK, Where, Verified, Passing, SavedOK, CompletedIsVerified
  <2>5. TurnsOK'
    BY <1>14 DEF Persist, Store, Checkpoint, Unreadable, LoopTypeOK, Tasks, Where, TurnsOK, Behind, GuardOnlyIfShort
  <2> QED
    BY <2>1, <2>2, <2>3, <2>4, <2>5
<1>15. CASE Throw
  <2>1. LoopTypeOK'
    BY <1>15 DEF Throw, CutShort, LoopTypeOK, Tasks, Awaits
  <2>2. Where'
    BY <1>15 DEF Throw, CutShort, LoopTypeOK, Where
  <2>3. Verified'
    BY <1>15 DEF Throw, CutShort, LoopTypeOK, Where, Verified, Passing
  <2>4. SavedOK'
    BY <1>15 DEF Throw, CutShort, LoopTypeOK, Where, Verified, Passing, SavedOK, CompletedIsVerified
  <2>5. TurnsOK'
    BY <1>15 DEF Throw, CutShort, LoopTypeOK, Tasks, Where, TurnsOK, Behind, GuardOnlyIfShort
  <2> QED
    BY <2>1, <2>2, <2>3, <2>4, <2>5
<1>16. CASE Finish
  <2>1. LoopTypeOK'
    BY <1>16 DEF Finish, Store, Checkpoint, Unreadable, LoopTypeOK, Tasks, Awaits, Where, TurnsOK
  <2>2. Where'
    BY <1>16 DEF Finish, Store, Checkpoint, Unreadable, LoopTypeOK, Where
  <2>3. Verified'
    BY <1>16 DEF Finish, Store, Checkpoint, Unreadable, LoopTypeOK, Where, Verified, Passing
  <2>4. SavedOK'
    BY <1>16 DEF Finish, Store, Checkpoint, Unreadable, LoopTypeOK, Where, Verified, Passing, SavedOK, CompletedIsVerified
  <2>5. TurnsOK'
    BY <1>16 DEF Finish, Store, Checkpoint, Unreadable, LoopTypeOK, Tasks, Where, TurnsOK, Behind, GuardOnlyIfShort
  <2> QED
    BY <2>1, <2>2, <2>3, <2>4, <2>5
<1>17. CASE Rethrow
  <2>1. LoopTypeOK'
    BY <1>17 DEF Rethrow, Store, Checkpoint, Unreadable, LoopTypeOK, Tasks, Awaits
  <2>2. Where'
    BY <1>17 DEF Rethrow, Store, Checkpoint, Unreadable, LoopTypeOK, Where
  <2>3. Verified'
    BY <1>17 DEF Rethrow, Store, Checkpoint, Unreadable, LoopTypeOK, Where, Verified, Passing
  <2>4. SavedOK'
    BY <1>17 DEF Rethrow, Store, Checkpoint, Unreadable, LoopTypeOK, Where, Verified, Passing, SavedOK, CompletedIsVerified
  <2>5. TurnsOK'
    BY <1>17 DEF Rethrow, Store, Checkpoint, Unreadable, LoopTypeOK, Tasks, Where, TurnsOK, Behind, GuardOnlyIfShort
  <2> QED
    BY <2>1, <2>2, <2>3, <2>4, <2>5
<1>18. CASE Crash
  <2>1. LoopTypeOK'
    BY <1>18 DEF Crash, CutShort, Unreadable, Checkpoint, LoopTypeOK, Tasks, Awaits
  <2>2. Where'
    BY <1>18 DEF Crash, CutShort, Unreadable, Checkpoint, LoopTypeOK, Where
  <2>3. Verified'
    BY <1>18 DEF Crash, CutShort, Unreadable, Checkpoint, LoopTypeOK, Where, Verified, Passing
  <2>4. SavedOK'
    BY <1>18 DEF Crash, CutShort, Unreadable, Checkpoint, LoopTypeOK, Where, Verified, Passing, SavedOK, CompletedIsVerified
  <2>5. TurnsOK'
    BY <1>18 DEF Crash, CutShort, Unreadable, Checkpoint, LoopTypeOK, Tasks, Where, TurnsOK, Behind, GuardOnlyIfShort
  <2> QED
    BY <2>1, <2>2, <2>3, <2>4, <2>5
<1>19. CASE UNCHANGED loopVars
  BY <1>19 DEF loopVars, LoopTypeOK, Where, Verified, Passing, SavedOK, CompletedIsVerified, TurnsOK,
               GuardOnlyIfShort
<1> QED
  BY <1>1, <1>2, <1>3, <1>4, <1>5, <1>6, <1>7, <1>8, <1>9, <1>10, <1>11, <1>12, <1>13, <1>14, <1>15, <1>16, <1>17, <1>18, <1>19 DEF LoopNext

LEMMA Invariance == LoopSpec => []LoopInv
BY InitLoop, NextLoop, PTL DEF LoopSpec

-----------------------------------------------------------------------------
\* Every variable keeps its type; the replan count passes its budget by one at
\* most.
THEOREM LoopTypes == LoopSpec => []LoopTypeOK
BY Invariance, PTL DEF LoopInv

\* What task-runs.json calls completed was verified on the files as they are.
THEOREM CompletionVerified == LoopSpec => []CompletedIsVerified
<1>1. LoopInv => CompletedIsVerified
  BY DEF LoopInv, SavedOK
<1> QED
  BY <1>1, Invariance, PTL

\* The turn guard stops a call only if its limit is too small for the replan
\* budget.
THEOREM GuardIsLastResort == LoopSpec => []GuardOnlyIfShort
<1>1. LoopInv => GuardOnlyIfShort
  BY DEF LoopInv, TurnsOK
<1> QED
  BY <1>1, Invariance, PTL

=============================================================================
