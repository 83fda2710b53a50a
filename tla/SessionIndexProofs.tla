------------------------- MODULE SessionIndexProofs -------------------------
(***************************************************************************)
(* Proofs about SessionIndex for every set of keys, entries and calls of   *)
(* delete(), every number of saves and every clock: types, that no vector  *)
(* is forgotten, that the logical session points at the newest indexed one *)
(* and that the index follows Flue's store.                                *)
(***************************************************************************)
EXTENDS SessionIndex, TLAPS

-----------------------------------------------------------------------------
\* Chains: what Append and Tail do to them, element by element.

LEMMA Longer ==
  ASSUME NEW q \in Seq(Op), NEW op \in Op
  PROVE  /\ Append(q, op) \in Seq(Op)
         /\ Len(q) \in Nat
         /\ Len(Append(q, op)) = Len(q) + 1
         /\ \A i \in 1..Len(q) : Append(q, op)[i] = q[i]
         /\ Append(q, op)[Len(q) + 1] = op
         /\ q # <<>> => Head(Append(q, op)) = Head(q) /\ 1 \in 1..Len(q)
         /\ Append(q, op) # <<>>
<1>1. Append(q, op) \in Seq(Op) /\ Len(q) \in Nat /\ Len(Append(q, op)) = Len(q) + 1
  OBVIOUS
<1>2. \A i \in 1..(Len(q) + 1) : Append(q, op)[i] = IF i = Len(q) + 1 THEN op ELSE q[i]
  OBVIOUS
<1>3. \A i \in 1..Len(q) : Append(q, op)[i] = q[i] /\ i \in 1..(Len(q) + 1)
  BY <1>1, <1>2
<1>4. Append(q, op)[Len(q) + 1] = op
  BY <1>1, <1>2
<1>5. q # <<>> => Head(Append(q, op)) = Head(q) /\ 1 \in 1..Len(q)
  <2>1. q # <<>> => Head(q) = q[1] /\ 1 \in 1..Len(q)
    OBVIOUS
  <2>2. Head(Append(q, op)) = Append(q, op)[1]
    OBVIOUS
  <2> QED
    BY <1>3, <2>1, <2>2
<1>6. Append(q, op) # <<>>
  BY <1>1
<1> QED
  BY <1>1, <1>3, <1>4, <1>5, <1>6

LEMMA Shorter ==
  ASSUME NEW q \in Seq(Op), q # <<>>
  PROVE  /\ Tail(q) \in Seq(Op)
         /\ Len(q) \in Nat
         /\ Len(q) = Len(Tail(q)) + 1
         /\ Len(Tail(q)) \in Nat
         /\ \A i \in 1..Len(Tail(q)) : Tail(q)[i] = q[i + 1]
         /\ Head(q) = q[1]
         /\ Head(q) \in Op
OBVIOUS

LEMMA OpTypes ==
  /\ \A d \in Data : Record(d) \in Op
  /\ \A e \in SUBSET Entries : DeleteIds(e) \in Op
  /\ Absent \in Data
  /\ Idle \in Call
  /\ NoLatest \in [key : Keys \cup {Nobody}, stamp : Stamps]
BY SessionIndexAssumption
   DEF Data, Record, DeleteIds, Op, Absent, Stamps, Idle, Call, NoLatest

\* The chain after deleteSessionMemoryByStorageKey.
LEMMA IdsQueued ==
  ASSUME TypeOK, NEW k \in Keys
  PROVE  /\ DeletedIds(k) \in [Keys -> Seq(Op)]
         /\ \A j \in Keys : j # k => DeletedIds(k)[j] = queue[j]
         /\ DeletedIds(k)[k] = IF chunks[k] = {} THEN queue[k]
                               ELSE Append(queue[k], DeleteIds(chunks[k]))
<1>1. chunks[k] \in SUBSET Entries /\ queue \in [Keys -> Seq(Op)] /\ queue[k] \in Seq(Op)
  BY DEF TypeOK
<1>2. Append(queue[k], DeleteIds(chunks[k])) \in Seq(Op)
  BY <1>1, OpTypes, Longer
<1> QED
  BY <1>1, <1>2 DEF DeletedIds, Enqueued

LEMMA NoticeTypes ==
  ASSUME TypeOK, NEW k \in Keys
  PROVE  /\ Notice(k) \in [Deleters -> Call]
         /\ \A d \in Deleters : /\ Notice(k)[d].pc = calls[d].pc
                                /\ Notice(k)[d].target = calls[d].target
<1>1. ASSUME NEW d \in Deleters
      PROVE  /\ Notice(k)[d] \in Call
             /\ Notice(k)[d].pc = calls[d].pc
             /\ Notice(k)[d].target = calls[d].target
  <2>1. calls[d] \in Call
    BY DEF TypeOK
  <2>2. CASE calls[d].target = k /\ calls[d].ahead > 0
    <3>1. Notice(k)[d] = [calls[d] EXCEPT !.ahead = calls[d].ahead - 1]
      BY <2>2 DEF Notice
    <3>2. calls[d].ahead - 1 \in Nat
      BY <2>1, <2>2 DEF Call
    <3> QED
      BY <2>1, <3>1, <3>2 DEF Call
  <2>3. CASE ~(calls[d].target = k /\ calls[d].ahead > 0)
    BY <2>1, <2>3 DEF Notice
  <2> QED
    BY <2>2, <2>3
<1>2. Notice(k) = [d \in Deleters |-> Notice(k)[d]]
  BY DEF Notice
<1> QED
  BY <1>1, <1>2

-----------------------------------------------------------------------------
\* Types. A key that awaits its vectors has a recordFlueSession at the head.

HeadOK == \A k \in Keys : upserting[k] => HeadIs(k, "record")

Typed == TypeOK /\ HeadOK

LEMMA HeadType ==
  ASSUME Typed, NEW k \in Keys, queue[k] # <<>>
  PROVE  queue[k] \in Seq(Op) /\ Head(queue[k]) \in Op
BY Shorter DEF Typed, TypeOK

LEMMA EndTypes ==
  ASSUME Typed, NEW k \in Keys, HeadEnds(k), queue[k] # <<>>
  PROVE  /\ queue' \in [Keys -> Seq(Op)]
         /\ calls' \in [Deleters -> Call]
         /\ \A j \in Keys : j # k => queue'[j] = queue[j]
         /\ queue'[k] = Tail(queue[k])
         /\ \A d \in Deleters : calls'[d].pc = calls[d].pc /\ calls'[d].target = calls[d].target
BY Shorter, NoticeTypes DEF HeadEnds, Typed, TypeOK

LEMMA SaveTypes ==
  ASSUME Typed, NEW k \in Keys, Save(k)
  PROVE  Typed'
<1> USE SessionIndexAssumption DEF Typed
<1>1. PICK e \in SUBSET Entries, t \in 1..MaxClock :
        /\ store' = [store EXCEPT ![k] = [entries |-> e, stamp |-> t]]
        /\ writer' = [writer EXCEPT ![k] = [entries |-> e, stamp |-> t]]
        /\ clock' = t
  BY DEF Save
<1>2. [entries |-> e, stamp |-> t] \in Data /\ t \in Stamps
  BY DEF Data, Stamps
<1>3. saves' \in 0..MaxSaves
  BY DEF Save, TypeOK
<1> QED
  BY <1>1, <1>2, <1>3 DEF TypeOK, Save, tables, HeadOK, HeadIs

LEMMA QueueTypes ==
  ASSUME Typed, NEW k \in Keys, Queue(k)
  PROVE  Typed'
<1> USE DEF Typed
<1>1. queue[k] \in Seq(Op) /\ Record(writer[k]) \in Op
  BY OpTypes DEF TypeOK
<1>2. /\ Append(queue[k], Record(writer[k])) \in Seq(Op)
      /\ queue[k] # <<>> => Head(Append(queue[k], Record(writer[k]))) = Head(queue[k])
      /\ Append(queue[k], Record(writer[k])) # <<>>
  BY <1>1, Longer
<1>3. queue' = [queue EXCEPT ![k] = Append(queue[k], Record(writer[k]))]
  BY DEF Queue, Enqueued
<1>4. HeadOK'
  BY <1>2, <1>3 DEF HeadOK, HeadIs, Queue, TypeOK
<1> QED
  BY <1>2, <1>3, <1>4, OpTypes DEF TypeOK, Queue, tables, history

\* The chain after the rows of a save are written.
LEMMA RecordQueue ==
  ASSUME Typed, NEW k \in Keys, RunRecord(k)
  PROVE  /\ queue[k] \in Seq(Op) /\ queue[k] # <<>> /\ Head(queue[k]) \in Op
         /\ DeletedIds(k)[k] \in Seq(Op) /\ DeletedIds(k)[k] # <<>>
         /\ Head(DeletedIds(k)[k]) = Head(queue[k])
         /\ queue' \in [Keys -> Seq(Op)]
         /\ \A j \in Keys : j # k => queue'[j] = queue[j]
         /\ queue'[k] = IF Head(queue[k]).entries = {} THEN Tail(DeletedIds(k)[k])
                        ELSE DeletedIds(k)[k]
<1>1. queue[k] # <<>> /\ queue[k] \in Seq(Op) /\ Head(queue[k]) \in Op
  BY HeadType DEF RunRecord, HeadIs
<1>2. TypeOK /\ chunks[k] \in SUBSET Entries
  BY DEF Typed, TypeOK
<1>3. /\ DeletedIds(k)[k] \in Seq(Op) /\ DeletedIds(k)[k] # <<>>
      /\ Head(DeletedIds(k)[k]) = Head(queue[k])
  <2>1. DeleteIds(chunks[k]) \in Op
    BY <1>2, OpTypes
  <2>2. LET r == Append(queue[k], DeleteIds(chunks[k]))
        IN  r \in Seq(Op) /\ r # <<>> /\ Head(r) = Head(queue[k])
    BY <1>1, <2>1, Longer
  <2>3. DeletedIds(k)[k] = IF chunks[k] = {} THEN queue[k]
                           ELSE Append(queue[k], DeleteIds(chunks[k]))
    BY <1>2, IdsQueued
  <2> QED
    BY <1>1, <2>2, <2>3
<1>4. Tail(DeletedIds(k)[k]) \in Seq(Op)
  BY <1>3, Shorter
<1>5. [DeletedIds(k) EXCEPT ![k] = Tail(@)] \in [Keys -> Seq(Op)]
  BY <1>2, <1>4, IdsQueued
<1> QED
  BY <1>1, <1>2, <1>3, <1>5, IdsQueued DEF RunRecord

LEMMA RunRecordTypes ==
  ASSUME Typed, NEW k \in Keys, RunRecord(k)
  PROVE  Typed'
<1> USE DEF Typed
<1>1. calls' \in [Deleters -> Call] /\ upserting' \in [Keys -> BOOLEAN]
  BY NoticeTypes DEF RunRecord, TypeOK
<1>2. /\ rows' \in [Keys -> Stamps]
      /\ chunks' \in [Keys -> SUBSET Entries]
      /\ latest' \in [key : Keys \cup {Nobody}, stamp : Stamps]
  BY RecordQueue DEF RunRecord, TypeOK, Op, Pointed
<1>3. TypeOK'
  BY <1>1, <1>2, RecordQueue DEF RunRecord, TypeOK, history
<1>4. \A j \in Keys : j # k => (upserting'[j] => upserting[j])
  BY DEF RunRecord, TypeOK
<1>5. upserting'[k] => queue'[k] = DeletedIds(k)[k]
  BY RecordQueue DEF RunRecord
<1>6. HeadOK'
  BY <1>4, <1>5, RecordQueue DEF HeadOK, HeadIs, RunRecord
<1> QED
  BY <1>3, <1>6

LEMMA FinishUpsertTypes ==
  ASSUME Typed, NEW k \in Keys, FinishUpsert(k)
  PROVE  Typed'
<1> USE DEF Typed
<1>1. queue[k] # <<>> /\ Head(queue[k]) \in Op
  BY HeadType DEF FinishUpsert, HeadOK, HeadIs
<1>2. vectors' \in [Keys -> SUBSET Entries] /\ missed' \in [Keys -> SUBSET Entries]
  <2> DEFINE e == Head(queue[k]).entries
  <2>1. e \subseteq Entries /\ vectors[k] \subseteq Entries /\ missed[k] \subseteq Entries
    BY <1>1 DEF TypeOK, Op
  <2>2. /\ vectors[k] \cup e \in SUBSET Entries /\ vectors[k] \ e \in SUBSET Entries
        /\ missed[k] \cup e \in SUBSET Entries /\ missed[k] \ e \in SUBSET Entries
    BY <2>1
  <2>3. \/ vectors' = [vectors EXCEPT ![k] = vectors[k] \cup e]
        \/ vectors' = [vectors EXCEPT ![k] = vectors[k]]
        \/ vectors' = [vectors EXCEPT ![k] = vectors[k] \ e]
    BY DEF FinishUpsert
  <2>4. \/ missed' = [missed EXCEPT ![k] = missed[k] \cup e]
        \/ missed' = [missed EXCEPT ![k] = missed[k] \ e]
    BY DEF FinishUpsert
  <2> HIDE DEF e
  <2>5. vectors \in [Keys -> SUBSET Entries] /\ missed \in [Keys -> SUBSET Entries]
    BY DEF TypeOK
  <2> QED
    BY <2>2, <2>3, <2>4, <2>5
<1>3. TypeOK'
  BY <1>1, <1>2, EndTypes DEF FinishUpsert, TypeOK, tables
<1>4. HeadOK'
  BY <1>1, EndTypes DEF FinishUpsert, TypeOK, HeadOK, HeadIs
<1> QED
  BY <1>3, <1>4

LEMMA RunDeleteTypes ==
  ASSUME Typed, NEW k \in Keys, RunDelete(k)
  PROVE  Typed' /\ ~upserting[k]
<1> USE DEF Typed
<1>1. queue[k] # <<>> /\ Head(queue[k]) \in Op /\ ~upserting[k]
  BY HeadType DEF RunDelete, HeadOK, HeadIs
<1>2. vectors' \in [Keys -> SUBSET Entries] /\ lost' \in [Keys -> SUBSET Entries]
  <2> DEFINE e == Head(queue[k]).entries
  <2>1. vectors[k] \subseteq Entries /\ lost[k] \subseteq Entries
    BY DEF TypeOK
  <2>2. vectors[k] \ e \in SUBSET Entries /\ lost[k] \cup (vectors[k] \cap e) \in SUBSET Entries
    BY <2>1
  <2>3. \/ vectors' = [vectors EXCEPT ![k] = vectors[k] \ e] /\ lost' = lost
        \/ lost' = [lost EXCEPT ![k] = lost[k] \cup (vectors[k] \cap e)] /\ vectors' = vectors
    BY DEF RunDelete
  <2> HIDE DEF e
  <2>4. vectors \in [Keys -> SUBSET Entries] /\ lost \in [Keys -> SUBSET Entries]
    BY DEF TypeOK
  <2> QED
    BY <2>2, <2>3, <2>4
<1>3. TypeOK'
  BY <1>1, <1>2, EndTypes DEF RunDelete, TypeOK, tables
<1>4. HeadOK'
  BY <1>1, EndTypes DEF RunDelete, HeadOK, HeadIs
<1> QED
  BY <1>1, <1>3, <1>4

LEMMA DeleteTypes ==
  ASSUME Typed, NEW d \in Deleters, NEW k \in Keys, Delete(d, k)
  PROVE  Typed'
<1>1. [pc |-> "drop", key |-> k, target |-> k, exact |-> Stored(k), ahead |-> 0] \in Call
  BY DEF Call, Stored
<1> QED
  BY <1>1 DEF Delete, Typed, TypeOK, HeadOK, HeadIs, tables, history

\* A call that is under way has a session to delete: the target is a key.
Targeted == \A d \in Deleters : calls[d].pc # "idle" => calls[d].target \in Keys

LEMMA DropTypes ==
  ASSUME Typed, NEW d \in Deleters, Drop(d)
  PROVE  Typed'
<1>1. calls' \in [Deleters -> Call] /\ store' \in [Keys -> Data]
  BY OpTypes DEF Drop, Typed, TypeOK, Call
<1> QED
  BY <1>1 DEF Drop, Typed, TypeOK, HeadOK, HeadIs, tables, history

LEMMA UnindexTypes ==
  ASSUME Typed, Targeted, NEW d \in Deleters, Unindex(d)
  PROVE  Typed'
<1> DEFINE k == calls[d].target
<1>1. k \in Keys /\ TypeOK /\ calls[d] \in Call
  BY DEF Targeted, Unindex, Typed, TypeOK
<1>2. queue' \in [Keys -> Seq(Op)] /\ queue' = DeletedIds(k)
  BY <1>1, IdsQueued DEF Unindex
<1>3. Len(queue'[k]) \in Nat
  BY <1>1, <1>2
<1>4. calls' \in [Deleters -> Call]
  <2>1. calls' = [calls EXCEPT ![d] = [calls[d] EXCEPT !.pc = "wait", !.ahead = Len(queue'[k])]]
    BY <1>1 DEF Unindex, TypeOK
  <2>2. [calls[d] EXCEPT !.pc = "wait", !.ahead = Len(queue'[k])] \in Call
    BY <1>1, <1>3 DEF Call
  <2> QED
    BY <1>1, <2>1, <2>2 DEF TypeOK
<1>5. rows' \in [Keys -> Stamps] /\ chunks' \in [Keys -> SUBSET Entries] /\ behind' \subseteq Keys
  BY <1>1, SessionIndexAssumption DEF Unindex, TypeOK, Stamps
<1>6. TypeOK'
  BY <1>1, <1>2, <1>4, <1>5 DEF Unindex, TypeOK
<1>7. ASSUME queue[k] # <<>> PROVE queue'[k] # <<>> /\ Head(queue'[k]) = Head(queue[k])
  <2>1. queue[k] \in Seq(Op) /\ DeleteIds(chunks[k]) \in Op
    BY <1>1, OpTypes DEF TypeOK
  <2>2. LET r == Append(queue[k], DeleteIds(chunks[k]))
        IN  r # <<>> /\ Head(r) = Head(queue[k])
    BY <1>7, <2>1, Longer
  <2>3. DeletedIds(k)[k] = IF chunks[k] = {} THEN queue[k]
                           ELSE Append(queue[k], DeleteIds(chunks[k]))
    BY <1>1, IdsQueued
  <2> QED
    BY <1>2, <1>7, <2>2, <2>3
<1>8. HeadOK'
  <2>1. upserting' = upserting
    BY DEF Unindex
  <2>2. \A j \in Keys : j # k => queue'[j] = queue[j]
    BY <1>1, <1>2, IdsQueued
  <2>3. \A j \in Keys : upserting[j] => queue[j] # <<>> /\ Head(queue[j]).kind = "record"
    BY DEF Typed, HeadOK, HeadIs
  <2> HIDE DEF k
  <2>4. \A j \in Keys : upserting'[j] => queue'[j] # <<>> /\ Head(queue'[j]).kind = "record"
    BY <1>1, <1>7, <2>1, <2>2, <2>3
  <2> QED
    BY <2>4 DEF HeadOK, HeadIs
<1> QED
  BY <1>6, <1>8 DEF Typed

LEMMA RepointedTypes ==
  ASSUME TypeOK, NEW k \in Keys
  PROVE  Repointed(k) \subseteq [key : Keys \cup {Nobody}, stamp : Stamps]
<1>1. latest \in [key : Keys \cup {Nobody}, stamp : Stamps]
  BY DEF TypeOK
<1>2. ASSUME NEW j \in Keys
      PROVE  [key |-> j, stamp |-> rows[j]] \in [key : Keys \cup {Nobody}, stamp : Stamps]
  BY DEF TypeOK
<1>3. ASSUME NEW p \in Repointed(k)
      PROVE  p = latest \/ p = NoLatest \/ \E j \in Keys : p = [key |-> j, stamp |-> rows[j]]
  <2>1. CASE latest.key # k
    BY <2>1, <1>3 DEF Repointed
  <2>2. CASE latest.key = k /\ \A j \in Keys : rows[j] = 0
    BY <2>2, <1>3 DEF Repointed
  <2>3. CASE latest.key = k /\ ~\A j \in Keys : rows[j] = 0
    BY <2>3, <1>3 DEF Repointed
  <2> QED
    BY <2>1, <2>2, <2>3
<1> QED
  BY <1>1, <1>2, <1>3, OpTypes

LEMMA SettleTypes ==
  ASSUME Typed, Targeted, NEW d \in Deleters, Settle(d)
  PROVE  Typed' /\ Targeted'
<1>1. calls[d] \in Call /\ calls[d].target \in Keys /\ TypeOK
  BY DEF Settle, Typed, TypeOK, Targeted
<1>2. latest' \in [key : Keys \cup {Nobody}, stamp : Stamps]
  BY <1>1, RepointedTypes DEF Settle
<1>3. CASE calls' = [calls EXCEPT ![d] = Idle]
  <2>1. calls' \in [Deleters -> Call]
    BY <1>1, <1>3, OpTypes DEF TypeOK
  <2>2. Targeted'
    BY <1>3, <2>1 DEF Targeted, Typed, TypeOK, Idle
  <2> QED
    BY <1>2, <2>1, <2>2 DEF Settle, Typed, TypeOK, HeadOK, HeadIs, history
<1>4. CASE /\ calls' = [calls EXCEPT ![d] = [calls[d] EXCEPT !.pc = "drop", !.target = latest'.key]]
           /\ latest'.key # Nobody
  <2>1. latest'.key \in Keys
    BY <1>2, <1>4
  <2>2. calls' \in [Deleters -> Call] /\ calls'[d].target = latest'.key
    BY <1>1, <1>4, <2>1 DEF TypeOK, Call
  <2>3. Targeted'
    BY <1>4, <2>1, <2>2 DEF Targeted, Typed, TypeOK
  <2> QED
    BY <1>2, <2>2, <2>3 DEF Settle, Typed, TypeOK, HeadOK, HeadIs, history
<1> QED
  BY <1>3, <1>4 DEF Settle

LEMMA CrashTypes ==
  ASSUME Typed, Crash
  PROVE  Typed' /\ Targeted'
<1>1. writer' \in [Keys -> Data] /\ calls' \in [Deleters -> Call]
  BY OpTypes DEF Crash
<1>2. queue' \in [Keys -> Seq(Op)] /\ upserting' \in [Keys -> BOOLEAN]
  BY DEF Crash
<1>3. missed' \in [Keys -> SUBSET Entries] /\ lost' \in [Keys -> SUBSET Entries]
      /\ behind' \subseteq Keys
  BY DEF Crash, Typed, TypeOK
<1>4. torn' \in [key : Keys \cup {Nobody}, stamp : Stamps]
  BY DEF Crash, Typed, TypeOK
<1>5. TypeOK'
  BY <1>1, <1>2, <1>3, <1>4 DEF Crash, Typed, TypeOK, tables
<1> QED
  BY <1>5 DEF Crash, Typed, HeadOK, Targeted, Idle

LEMMA TargetedKept ==
  ASSUME Typed, Targeted, Next
  PROVE  Targeted'
<1>1. ASSUME NEW k \in Keys, Save(k) \/ Queue(k) PROVE Targeted'
  BY <1>1 DEF Save, Queue, Targeted
<1>2. ASSUME NEW k \in Keys, RunRecord(k) PROVE Targeted'
  BY <1>2, NoticeTypes DEF RunRecord, Targeted, Typed
<1>3. ASSUME NEW k \in Keys, FinishUpsert(k) \/ RunDelete(k) PROVE Targeted'
  BY <1>3, NoticeTypes DEF FinishUpsert, RunDelete, HeadEnds, Targeted, Typed
<1>4. ASSUME NEW d \in Deleters, NEW k \in Keys, Delete(d, k) PROVE Targeted'
  BY <1>4 DEF Delete, Targeted, Typed, TypeOK
<1>5. ASSUME NEW d \in Deleters, Drop(d) \/ Unindex(d) PROVE Targeted'
  <2>1. calls[d].target \in Keys /\ calls[d] \in Call /\ calls \in [Deleters -> Call]
    BY <1>5 DEF Drop, Unindex, Targeted, Typed, TypeOK
  <2>2. /\ \A c \in Deleters : c # d => calls'[c] = calls[c]
        /\ calls'[d].target = calls[d].target
    BY <1>5, <2>1 DEF Drop, Unindex, Call
  <2> QED
    BY <2>1, <2>2 DEF Targeted
<1>6. ASSUME NEW d \in Deleters, Settle(d) PROVE Targeted'
  BY <1>6, SettleTypes
<1> QED
  BY <1>1, <1>2, <1>3, <1>4, <1>5, <1>6, CrashTypes DEF Next

\* Keys name their calls, chains hold operations, and clocks stay in their bounds.
LEMMA TypesKept ==
  ASSUME Typed, Targeted, [Next]_vars
  PROVE  Typed' /\ Targeted'
<1>1. CASE Next
  BY <1>1, TargetedKept, SaveTypes, QueueTypes, RunRecordTypes, FinishUpsertTypes,
     RunDeleteTypes, DeleteTypes, DropTypes, UnindexTypes, SettleTypes, CrashTypes DEF Next
<1>2. CASE UNCHANGED vars
  BY <1>2 DEF vars, tables, history, Typed, TypeOK, HeadOK, HeadIs, Targeted
<1> QED
  BY <1>1, <1>2

LEMMA TypesStart ==
  ASSUME Init
  PROVE  Typed /\ Targeted
BY OpTypes, SessionIndexAssumption DEF Init, Typed, TypeOK, HeadOK, Targeted, Idle, Stamps

\* Types of every reachable state: what GoromboLogicalSessionStore and the session
\* database keep has the shape the specification gives it, whatever the interleaving.
THEOREM SessionTypes == Spec => []TypeOK
<1>1. Init => Typed /\ Targeted
  BY TypesStart
<1>2. Typed /\ Targeted /\ [Next]_vars => (Typed /\ Targeted)'
  BY TypesKept
<1>3. Typed => TypeOK
  BY DEF Typed
<1> QED
  BY <1>1, <1>2, <1>3, PTL DEF Spec

-----------------------------------------------------------------------------
\* No vector is forgotten. A vector may outlive its row only while a deletion that
\* names it waits, and so may a vector that is about to be stored: a deletion that
\* came during the embedding waits behind it.

Doomed(q, x) == \E i \in 1..Len(q) : q[i].kind = "delete" /\ x \in q[i].entries

VectorsOf(k) == \A x \in vectors[k] : x \in chunks[k] \/ x \in lost[k] \/ Doomed(queue[k], x)

UpsertOf(k) == upserting[k] => \A x \in Head(queue[k]).entries :
                                 x \in chunks[k] \/ Doomed(queue[k], x)

VectorInv == \A k \in Keys : VectorsOf(k) /\ UpsertOf(k)

LEMMA DoomedLonger ==
  ASSUME NEW q \in Seq(Op), NEW op \in Op, NEW x
  PROVE  /\ Doomed(q, x) => Doomed(Append(q, op), x)
         /\ op.kind = "delete" /\ x \in op.entries => Doomed(Append(q, op), x)
<1> DEFINE r == Append(q, op)
<1>1. /\ Len(q) \in Nat /\ Len(r) = Len(q) + 1
      /\ \A i \in 1..Len(q) : r[i] = q[i] /\ i \in 1..Len(r)
      /\ r[Len(q) + 1] = op /\ Len(q) + 1 \in 1..Len(r)
  BY Longer
<1> HIDE DEF r
<1>2. Doomed(q, x) => Doomed(r, x)
  BY <1>1 DEF Doomed
<1>3. op.kind = "delete" /\ x \in op.entries => Doomed(r, x)
  BY <1>1 DEF Doomed
<1> QED
  BY <1>2, <1>3 DEF r

LEMMA DoomedShorter ==
  ASSUME NEW q \in Seq(Op), q # <<>>, NEW x, Doomed(q, x),
         Head(q).kind # "delete" \/ x \notin Head(q).entries
  PROVE  Doomed(Tail(q), x)
<1>1. PICK i \in 1..Len(q) : q[i].kind = "delete" /\ x \in q[i].entries
  BY DEF Doomed
<1>2. i # 1
  BY <1>1, Shorter
<1>3. i - 1 \in 1..Len(Tail(q)) /\ Tail(q)[i - 1] = q[(i - 1) + 1] /\ (i - 1) + 1 = i
  BY <1>1, <1>2, Shorter
<1> QED
  BY <1>1, <1>3 DEF Doomed

\* The rows that deleteSessionMemoryByStorageKey removes are doomed at once.
LEMMA RowsDoomed ==
  ASSUME TypeOK, NEW k \in Keys, NEW x
  PROVE  /\ Doomed(queue[k], x) => Doomed(DeletedIds(k)[k], x)
         /\ x \in chunks[k] => Doomed(DeletedIds(k)[k], x)
<1>1. queue[k] \in Seq(Op) /\ DeleteIds(chunks[k]) \in Op
  BY OpTypes DEF TypeOK
<1>2. DeleteIds(chunks[k]).kind = "delete" /\ DeleteIds(chunks[k]).entries = chunks[k]
  BY DEF DeleteIds
<1>3. CASE chunks[k] = {}
  BY <1>3, IdsQueued
<1>4. CASE chunks[k] # {}
  <2>1. DeletedIds(k)[k] = Append(queue[k], DeleteIds(chunks[k]))
    BY <1>4, IdsQueued
  <2> QED
    BY <1>1, <1>2, <2>1, DoomedLonger
<1> QED
  BY <1>3, <1>4

\* A step that leaves what is known of k alone.
LEMMA VectorFrame ==
  ASSUME NEW k \in Keys, VectorsOf(k), UpsertOf(k),
         vectors'[k] = vectors[k], chunks'[k] = chunks[k], lost'[k] = lost[k],
         queue'[k] = queue[k], upserting'[k] = upserting[k]
  PROVE  (VectorsOf(k) /\ UpsertOf(k))'
BY DEF VectorsOf, UpsertOf, Doomed

LEMMA VectorQueue ==
  ASSUME Typed, VectorInv, NEW k \in Keys, Queue(k)
  PROVE  VectorInv'
<1>1. queue[k] \in Seq(Op) /\ Record(writer[k]) \in Op /\ queue \in [Keys -> Seq(Op)]
  BY OpTypes DEF Typed, TypeOK
<1>2. queue' = [queue EXCEPT ![k] = Append(queue[k], Record(writer[k]))]
  BY DEF Queue, Enqueued
<1>3. vectors' = vectors /\ chunks' = chunks /\ lost' = lost /\ upserting' = upserting
  BY DEF Queue, tables, history
<1>4. \A x : Doomed(queue[k], x) => Doomed(queue'[k], x)
  BY <1>1, <1>2, DoomedLonger
<1>5. upserting[k] => Head(queue'[k]) = Head(queue[k])
  BY <1>1, <1>2, Longer DEF Typed, HeadOK, HeadIs
<1>6. (VectorsOf(k) /\ UpsertOf(k))'
  BY <1>3, <1>4, <1>5 DEF VectorInv, VectorsOf, UpsertOf
<1>7. ASSUME NEW j \in Keys, j # k PROVE (VectorsOf(j) /\ UpsertOf(j))'
  BY <1>1, <1>2, <1>3, <1>7, VectorFrame DEF VectorInv
<1> QED
  BY <1>6, <1>7 DEF VectorInv

LEMMA VectorRunRecord ==
  ASSUME Typed, VectorInv, NEW k \in Keys, RunRecord(k)
  PROVE  VectorInv'
<1> DEFINE e == Head(queue[k]).entries
           r == DeletedIds(k)[k]
<1>1. TypeOK /\ vectors' = vectors /\ lost' = lost
      /\ chunks' = [chunks EXCEPT ![k] = e] /\ chunks \in [Keys -> SUBSET Entries]
  BY DEF RunRecord, history, Typed, TypeOK
<1>2. /\ r \in Seq(Op) /\ r # <<>> /\ Head(r) = Head(queue[k])
      /\ \A j \in Keys : j # k => queue'[j] = queue[j]
      /\ queue'[k] = IF e = {} THEN Tail(r) ELSE r
  BY RecordQueue
<1>3. Head(r).kind = "record"
  BY <1>2 DEF RunRecord, HeadIs
<1>4. upserting' = IF e = {} THEN upserting ELSE [upserting EXCEPT ![k] = TRUE]
  BY DEF RunRecord
<1>5. ~upserting[k] /\ upserting \in [Keys -> BOOLEAN]
  BY DEF RunRecord, Typed, TypeOK
<1> HIDE DEF e, r
<1>6. \A x : Doomed(r, x) => Doomed(queue'[k], x)
  BY <1>2, <1>3, DoomedShorter
<1>7. \A x : Doomed(queue[k], x) \/ x \in chunks[k] => Doomed(r, x)
  BY <1>1, RowsDoomed DEF r
<1>8. (VectorsOf(k))'
  BY <1>1, <1>6, <1>7 DEF VectorInv, VectorsOf
<1>9. (UpsertOf(k))'
  <2>1. CASE e = {}
    BY <1>4, <1>5, <2>1 DEF UpsertOf
  <2>2. CASE e # {}
    BY <1>1, <1>2, <2>2 DEF UpsertOf, e
  <2> QED
    BY <2>1, <2>2
<1>10. ASSUME NEW j \in Keys, j # k PROVE (VectorsOf(j) /\ UpsertOf(j))'
  BY <1>1, <1>2, <1>4, <1>5, <1>10, VectorFrame DEF VectorInv
<1> QED
  BY <1>8, <1>9, <1>10 DEF VectorInv

LEMMA VectorFinishUpsert ==
  ASSUME Typed, VectorInv, NEW k \in Keys, FinishUpsert(k)
  PROVE  VectorInv'
<1> DEFINE e == Head(queue[k]).entries
<1>1. queue[k] # <<>> /\ queue[k] \in Seq(Op) /\ Head(queue[k]).kind = "record" /\ upserting[k]
  BY HeadType DEF FinishUpsert, Typed, HeadOK, HeadIs
<1>2. /\ queue'[k] = Tail(queue[k])
      /\ \A j \in Keys : j # k => queue'[j] = queue[j]
  BY <1>1, EndTypes DEF FinishUpsert
<1>3. /\ chunks' = chunks /\ lost' = lost
      /\ upserting' = [upserting EXCEPT ![k] = FALSE] /\ upserting \in [Keys -> BOOLEAN]
      /\ vectors \in [Keys -> SUBSET Entries]
  BY DEF FinishUpsert, tables, Typed, TypeOK
<1>4. \/ vectors' = [vectors EXCEPT ![k] = vectors[k] \cup e]
      \/ vectors' = [vectors EXCEPT ![k] = vectors[k]]
      \/ vectors' = [vectors EXCEPT ![k] = vectors[k] \ e]
  BY DEF FinishUpsert
<1>5. \A x : Doomed(queue[k], x) => Doomed(queue'[k], x)
  BY <1>1, <1>2, DoomedShorter
<1>6. \A x \in e : x \in chunks[k] \/ Doomed(queue[k], x)
  BY <1>1 DEF VectorInv, UpsertOf
<1> HIDE DEF e
<1>7. /\ vectors'[k] \subseteq vectors[k] \cup e
      /\ \A j \in Keys : j # k => vectors'[j] = vectors[j]
  BY <1>3, <1>4
<1>8. (VectorsOf(k) /\ UpsertOf(k))'
  BY <1>3, <1>5, <1>6, <1>7 DEF VectorInv, VectorsOf, UpsertOf
<1>9. ASSUME NEW j \in Keys, j # k PROVE (VectorsOf(j) /\ UpsertOf(j))'
  BY <1>2, <1>3, <1>7, <1>9, VectorFrame DEF VectorInv
<1> QED
  BY <1>8, <1>9 DEF VectorInv

LEMMA VectorRunDelete ==
  ASSUME Typed, VectorInv, NEW k \in Keys, RunDelete(k)
  PROVE  VectorInv'
<1> DEFINE e == Head(queue[k]).entries
<1>1. queue[k] # <<>> /\ queue[k] \in Seq(Op) /\ ~upserting[k]
  BY HeadType, RunDeleteTypes DEF RunDelete, HeadIs
<1>2. /\ queue'[k] = Tail(queue[k])
      /\ \A j \in Keys : j # k => queue'[j] = queue[j]
  BY <1>1, EndTypes DEF RunDelete
<1>3. /\ chunks' = chunks /\ upserting' = upserting
      /\ vectors \in [Keys -> SUBSET Entries] /\ lost \in [Keys -> SUBSET Entries]
  BY DEF RunDelete, tables, Typed, TypeOK
<1>4. \/ vectors' = [vectors EXCEPT ![k] = vectors[k] \ e] /\ lost' = lost
      \/ lost' = [lost EXCEPT ![k] = lost[k] \cup (vectors[k] \cap e)] /\ vectors' = vectors
  BY DEF RunDelete
<1>5. \A x : Doomed(queue[k], x) /\ x \notin e => Doomed(queue'[k], x)
  BY <1>1, <1>2, DoomedShorter
<1> HIDE DEF e
<1>6. /\ vectors'[k] \subseteq vectors[k] /\ lost[k] \subseteq lost'[k]
      /\ \A x \in vectors'[k] : x \notin e \/ x \in lost'[k]
      /\ \A j \in Keys : j # k => vectors'[j] = vectors[j] /\ lost'[j] = lost[j]
  BY <1>3, <1>4
<1>7. (VectorsOf(k) /\ UpsertOf(k))'
  BY <1>1, <1>3, <1>5, <1>6 DEF VectorInv, VectorsOf, UpsertOf
<1>8. ASSUME NEW j \in Keys, j # k PROVE (VectorsOf(j) /\ UpsertOf(j))'
  BY <1>2, <1>3, <1>6, <1>8, VectorFrame DEF VectorInv
<1> QED
  BY <1>7, <1>8 DEF VectorInv

LEMMA VectorUnindex ==
  ASSUME Typed, Targeted, VectorInv, NEW d \in Deleters, Unindex(d)
  PROVE  VectorInv'
<1> PICK k \in Keys : k = calls[d].target
  BY DEF Targeted, Unindex
<1>1. TypeOK /\ chunks \in [Keys -> SUBSET Entries]
  BY DEF Typed, TypeOK
<1>2. /\ queue' = DeletedIds(k) /\ chunks' = [chunks EXCEPT ![k] = {}]
      /\ vectors' = vectors /\ lost' = lost /\ upserting' = upserting
  BY DEF Unindex
<1>3. \A j \in Keys : j # k => queue'[j] = queue[j]
  BY <1>1, <1>2, IdsQueued
<1>4. \A x : Doomed(queue[k], x) \/ x \in chunks[k] => Doomed(queue'[k], x)
  BY <1>1, <1>2, RowsDoomed
<1>5. upserting[k] => Head(queue'[k]) = Head(queue[k])
  <2>1. queue[k] \in Seq(Op) /\ DeleteIds(chunks[k]) \in Op
    BY <1>1, OpTypes DEF TypeOK
  <2>2. queue[k] # <<>> => Head(Append(queue[k], DeleteIds(chunks[k]))) = Head(queue[k])
    BY <2>1, Longer
  <2>3. upserting[k] => queue[k] # <<>>
    BY <1>1 DEF Typed, HeadOK, HeadIs
  <2> QED
    BY <1>1, <1>2, <2>2, <2>3, IdsQueued
<1>6. (VectorsOf(k) /\ UpsertOf(k))'
  BY <1>1, <1>2, <1>4, <1>5 DEF VectorInv, VectorsOf, UpsertOf
<1>7. ASSUME NEW j \in Keys, j # k PROVE (VectorsOf(j) /\ UpsertOf(j))'
  BY <1>1, <1>2, <1>3, <1>7, VectorFrame DEF VectorInv
<1> QED
  BY <1>6, <1>7 DEF VectorInv

LEMMA VectorCrash ==
  ASSUME Typed, Crash
  PROVE  VectorInv'
<1> SUFFICES ASSUME NEW k \in Keys PROVE (VectorsOf(k) /\ UpsertOf(k))'
  BY DEF VectorInv
<1>1. vectors' = vectors /\ chunks' = chunks /\ lost'[k] = vectors[k] \ chunks[k] /\ ~upserting'[k]
  BY DEF Crash, tables
<1> QED
  BY <1>1 DEF VectorsOf, UpsertOf

LEMMA VectorsKept ==
  ASSUME Typed, Targeted, VectorInv, [Next]_vars
  PROVE  VectorInv'
<1>1. ASSUME UNCHANGED <<vectors, chunks, lost, queue, upserting>> PROVE VectorInv'
  BY <1>1 DEF VectorInv, VectorsOf, UpsertOf, Doomed
<1>2. ASSUME NEW k \in Keys, Save(k) PROVE VectorInv'
  BY <1>1, <1>2 DEF Save, tables
<1>3. ASSUME NEW d \in Deleters, NEW k \in Keys, Delete(d, k) PROVE VectorInv'
  BY <1>1, <1>3 DEF Delete, tables, history
<1>4. ASSUME NEW d \in Deleters, Drop(d) \/ Settle(d) PROVE VectorInv'
  BY <1>1, <1>4 DEF Drop, Settle, tables, history
<1>5. CASE UNCHANGED vars
  BY <1>1, <1>5 DEF vars, tables, history
<1> QED
  BY <1>2, <1>3, <1>4, <1>5, VectorQueue, VectorRunRecord, VectorFinishUpsert,
     VectorRunDelete, VectorUnindex, VectorCrash DEF Next

\* When the chain of a session is empty, the vector collection holds no memory of it
\* that the index has not, but for ids whose deletion failed or was lost in a crash:
\* whatever saves and deletions of the session overlapped.
THEOREM NothingForgotten == Spec => []NoForgottenVectors
<1>1. Init => Typed /\ Targeted /\ VectorInv
  BY TypesStart DEF Init, VectorInv, VectorsOf, UpsertOf
<1>2. Typed /\ Targeted /\ VectorInv /\ [Next]_vars => (Typed /\ Targeted /\ VectorInv)'
  BY TypesKept, VectorsKept
<1>3. VectorInv => NoForgottenVectors
  <2> SUFFICES ASSUME VectorInv, NEW k \in Keys, queue[k] = <<>>, NEW x \in vectors[k]
               PROVE  x \in chunks[k] \cup lost[k]
    BY DEF NoForgottenVectors
  <2>1. Len(queue[k]) = 0
    OBVIOUS
  <2>2. ~Doomed(queue[k], x)
    BY <2>1 DEF Doomed
  <2> QED
    BY <2>2 DEF VectorInv, VectorsOf
<1> QED
  BY <1>1, <1>2, <1>3, PTL DEF Spec

-----------------------------------------------------------------------------
\* The index follows the store. Between a save and its turn in the chain the newest
\* data are in the writer's hand, then in the last operation of the chain that has
\* not begun, and then in the rows.

Waits(q, u, i) == i \in 1..Len(q) /\ q[i].kind = "record" /\ ~(i = 1 /\ u)

Pending(q, u, x) == \E i \in 1..Len(q) :
                      /\ Waits(q, u, i)
                      /\ x = [entries |-> q[i].entries, stamp |-> q[i].stamp]
                      /\ \A j \in 1..Len(q) : Waits(q, u, j) => j <= i

Clear(q, u) == \A i \in 1..Len(q) : ~Waits(q, u, i)

Caught(q, u, x, y) == Pending(q, u, y) \/ (Clear(q, u) /\ x = y)

FollowsOf(k) == Stored(k) /\ k \notin behind =>
                  IF writer[k] # Absent THEN writer[k] = store[k]
                  ELSE Caught(queue[k], upserting[k], InIndex(k), store[k])

FollowInv == \A k \in Keys : FollowsOf(k)

LEMMA PendingAppend ==
  ASSUME NEW q \in Seq(Op), NEW u \in BOOLEAN, NEW d \in Data, u => q # <<>>
  PROVE  Pending(Append(q, Record(d)), u, d)
<1> DEFINE r == Append(q, Record(d))
           n == Len(q) + 1
<1>1. /\ Len(q) \in Nat /\ Len(r) = n /\ n \in 1..Len(r)
      /\ r[n] = Record(d)
  BY Longer, OpTypes
<1>2. n = 1 => ~u
  <2>1. u => 1 \in 1..Len(q)
    BY Longer, OpTypes
  <2> QED
    BY <1>1, <2>1
<1>3. d = [entries |-> r[n].entries, stamp |-> r[n].stamp] /\ r[n].kind = "record"
  BY <1>1 DEF Record, Data
<1>4. \A j \in 1..Len(r) : j <= n
  BY <1>1
<1> HIDE DEF r, n
<1>5. Waits(r, u, n)
  BY <1>1, <1>2, <1>3 DEF Waits
<1>6. Pending(r, u, d)
  BY <1>1, <1>3, <1>4, <1>5 DEF Pending
<1> QED
  BY <1>6 DEF r

LEMMA CaughtLonger ==
  ASSUME NEW q \in Seq(Op), NEW u \in BOOLEAN, NEW e \in SUBSET Entries, NEW x, NEW y,
         Caught(q, u, x, y)
  PROVE  Caught(Append(q, DeleteIds(e)), u, x, y)
<1> DEFINE r == Append(q, DeleteIds(e))
<1>1. /\ Len(q) \in Nat /\ Len(r) = Len(q) + 1
      /\ \A i \in 1..Len(q) : r[i] = q[i] /\ i \in 1..Len(r)
      /\ r[Len(q) + 1] = DeleteIds(e)
  BY Longer, OpTypes
<1>2. r[Len(q) + 1].kind = "delete"
  BY <1>1 DEF DeleteIds
<1>3. \A i \in 1..Len(r) : i \in 1..Len(q) \/ i = Len(q) + 1
  BY <1>1
<1> HIDE DEF r
<1>4. \A i \in 1..Len(r) : Waits(r, u, i) => i \in 1..Len(q) /\ Waits(q, u, i)
  BY <1>1, <1>2, <1>3 DEF Waits
<1>5. \A i \in 1..Len(q) : Waits(q, u, i) => Waits(r, u, i)
  BY <1>1 DEF Waits
<1>6. CASE Clear(q, u) /\ x = y
  BY <1>4, <1>6 DEF Clear, Caught, r
<1>7. CASE Pending(q, u, y)
  <2>1. PICK i \in 1..Len(q) : /\ Waits(q, u, i)
                               /\ y = [entries |-> q[i].entries, stamp |-> q[i].stamp]
                               /\ \A j \in 1..Len(q) : Waits(q, u, j) => j <= i
    BY <1>7 DEF Pending
  <2>2. Waits(r, u, i) /\ i \in 1..Len(r) /\ r[i] = q[i]
    BY <1>1, <1>5, <2>1
  <2>3. \A j \in 1..Len(r) : Waits(r, u, j) => j <= i
    BY <1>4, <2>1
  <2>4. Pending(r, u, y)
    BY <2>1, <2>2, <2>3 DEF Pending
  <2> QED
    BY <2>4 DEF Caught, r
<1> QED
  BY <1>6, <1>7 DEF Caught

LEMMA CaughtShorter ==
  ASSUME NEW q \in Seq(Op), NEW u \in BOOLEAN, q # <<>>, NEW x, NEW y,
         Caught(q, u, x, y), ~Waits(q, u, 1)
  PROVE  Caught(Tail(q), FALSE, x, y)
<1> DEFINE r == Tail(q)
<1>1. /\ Len(r) \in Nat /\ Len(q) = Len(r) + 1
      /\ \A i \in 1..Len(r) : r[i] = q[i + 1]
  BY Shorter
<1> HIDE DEF r
<1>2. \A i \in 1..Len(r) : Waits(r, FALSE, i) => i + 1 \in 1..Len(q) /\ Waits(q, u, i + 1)
  BY <1>1 DEF Waits
<1>3. \A i \in 1..Len(q) : Waits(q, u, i) => /\ i - 1 \in 1..Len(r) /\ Waits(r, FALSE, i - 1)
                                             /\ r[i - 1] = q[i]
  <2> SUFFICES ASSUME NEW i \in 1..Len(q), Waits(q, u, i)
               PROVE  /\ i - 1 \in 1..Len(r) /\ Waits(r, FALSE, i - 1)
                      /\ r[i - 1] = q[i]
    OBVIOUS
  <2>1. i # 1
    OBVIOUS
  <2>2. i - 1 \in 1..Len(r) /\ (i - 1) + 1 = i
    BY <1>1, <2>1
  <2>3. r[i - 1] = q[i]
    BY <1>1, <2>2
  <2> QED
    BY <2>2, <2>3 DEF Waits
<1>4. CASE Clear(q, u) /\ x = y
  BY <1>2, <1>4 DEF Clear, Caught, r
<1>5. CASE Pending(q, u, y)
  <2>1. PICK i \in 1..Len(q) : /\ Waits(q, u, i)
                               /\ y = [entries |-> q[i].entries, stamp |-> q[i].stamp]
                               /\ \A j \in 1..Len(q) : Waits(q, u, j) => j <= i
    BY <1>5 DEF Pending
  <2>2. i - 1 \in 1..Len(r) /\ Waits(r, FALSE, i - 1) /\ r[i - 1] = q[i]
    BY <1>3, <2>1
  <2>3. \A j \in 1..Len(r) : Waits(r, FALSE, j) => j <= i - 1
    <3> SUFFICES ASSUME NEW j \in 1..Len(r), Waits(r, FALSE, j) PROVE j <= i - 1
      OBVIOUS
    <3>1. j + 1 <= i
      BY <1>2, <2>1
    <3> QED
      BY <1>1, <3>1
  <2>4. Pending(r, FALSE, y)
    BY <2>1, <2>2, <2>3 DEF Pending
  <2> QED
    BY <2>4 DEF Caught, r
<1> QED
  BY <1>4, <1>5 DEF Caught

\* A save begins its turn: its data are written, and it waits no more.
LEMMA CaughtBegins ==
  ASSUME NEW q \in Seq(Op), q # <<>>, Head(q).kind = "record", NEW x, NEW y,
         Caught(q, FALSE, x, y)
  PROVE  Caught(q, TRUE, [entries |-> Head(q).entries, stamp |-> Head(q).stamp], y)
<1>1. Head(q) = q[1] /\ 1 \in 1..Len(q) /\ Len(q) \in Nat
  BY Shorter
<1>2. Waits(q, FALSE, 1) /\ Pending(q, FALSE, y)
  BY <1>1 DEF Waits, Caught, Clear
<1>3. PICK i \in 1..Len(q) : /\ Waits(q, FALSE, i)
                             /\ y = [entries |-> q[i].entries, stamp |-> q[i].stamp]
                             /\ \A j \in 1..Len(q) : Waits(q, FALSE, j) => j <= i
  BY <1>2 DEF Pending
<1>4. \A j \in 1..Len(q) : Waits(q, TRUE, j) => Waits(q, FALSE, j) /\ j # 1
  BY DEF Waits
<1>5. CASE i = 1
  <2>1. Clear(q, TRUE)
    <3> SUFFICES ASSUME NEW j \in 1..Len(q), Waits(q, TRUE, j) PROVE FALSE
      BY DEF Clear
    <3>1. j <= 1 /\ j # 1
      BY <1>3, <1>4, <1>5
    <3> QED
      BY <1>1, <3>1
  <2> QED
    BY <1>1, <1>3, <1>5, <2>1 DEF Caught
<1>6. CASE i # 1
  <2>1. Waits(q, TRUE, i)
    BY <1>3, <1>6 DEF Waits
  <2>2. \A j \in 1..Len(q) : Waits(q, TRUE, j) => j <= i
    BY <1>3, <1>4
  <2> QED
    BY <1>3, <2>1, <2>2 DEF Caught, Pending
<1> QED
  BY <1>5, <1>6

LEMMA FollowFrame ==
  ASSUME NEW k \in Keys, FollowsOf(k), store'[k] = store[k], k \in behind => k \in behind',
         writer'[k] = writer[k], queue'[k] = queue[k], upserting'[k] = upserting[k],
         chunks'[k] = chunks[k], rows'[k] = rows[k]
  PROVE  FollowsOf(k)'
BY DEF FollowsOf, Stored, Caught, Pending, Clear, Waits, InIndex

LEMMA FollowSave ==
  ASSUME Typed, FollowInv, NEW k \in Keys, Save(k)
  PROVE  FollowInv'
<1>1. PICK x : store' = [store EXCEPT ![k] = x] /\ writer' = [writer EXCEPT ![k] = x]
  BY DEF Save
<1>2. /\ queue' = queue /\ upserting' = upserting /\ chunks' = chunks /\ rows' = rows
      /\ behind' = behind \ {k}
      /\ store \in [Keys -> Data] /\ writer \in [Keys -> Data]
  BY DEF Save, tables, Typed, TypeOK
<1>3. FollowsOf(k)'
  BY <1>1, <1>2 DEF FollowsOf, Stored
<1>4. ASSUME NEW j \in Keys, j # k PROVE FollowsOf(j)'
  BY <1>1, <1>2, <1>4, FollowFrame DEF FollowInv
<1> QED
  BY <1>3, <1>4 DEF FollowInv

LEMMA FollowQueue ==
  ASSUME Typed, FollowInv, NEW k \in Keys, Queue(k)
  PROVE  FollowInv'
<1>1. /\ queue' = [queue EXCEPT ![k] = Append(queue[k], Record(writer[k]))]
      /\ writer' = [writer EXCEPT ![k] = Absent] /\ writer[k] # Absent
      /\ store' = store /\ behind' = behind /\ upserting' = upserting
      /\ chunks' = chunks /\ rows' = rows
  BY DEF Queue, Enqueued, tables, history
<1>2. /\ queue \in [Keys -> Seq(Op)] /\ writer \in [Keys -> Data]
      /\ upserting[k] \in BOOLEAN /\ (upserting[k] => queue[k] # <<>>)
  BY DEF Typed, TypeOK, HeadOK, HeadIs
<1>3. Pending(queue'[k], upserting'[k], writer[k])
  BY <1>1, <1>2, PendingAppend
<1>4. FollowsOf(k)'
  <2> SUFFICES ASSUME Stored(k), k \notin behind
               PROVE  Caught(queue'[k], upserting'[k], InIndex(k)', store[k])
    BY <1>1, <1>2 DEF FollowsOf, Stored
  <2>1. writer[k] = store[k]
    BY <1>1 DEF FollowInv, FollowsOf
  <2> QED
    BY <1>3, <2>1 DEF Caught
<1>5. ASSUME NEW j \in Keys, j # k PROVE FollowsOf(j)'
  BY <1>1, <1>2, <1>5, FollowFrame DEF FollowInv
<1> QED
  BY <1>4, <1>5 DEF FollowInv

LEMMA FollowRunRecord ==
  ASSUME Typed, FollowInv, NEW k \in Keys, RunRecord(k)
  PROVE  FollowInv'
<1> DEFINE q == queue[k]
           h == Head(q)
           r == DeletedIds(k)[k]
           x == [entries |-> h.entries, stamp |-> h.stamp]
<1>1. /\ q \in Seq(Op) /\ q # <<>> /\ r \in Seq(Op) /\ r # <<>> /\ Head(r) = h
      /\ \A j \in Keys : j # k => queue'[j] = queue[j]
      /\ queue'[k] = IF h.entries = {} THEN Tail(r) ELSE r
  BY RecordQueue
<1>2. /\ h.kind = "record" /\ upserting[k] = FALSE
      /\ upserting \in [Keys -> BOOLEAN] /\ rows \in [Keys -> Stamps]
      /\ chunks \in [Keys -> SUBSET Entries] /\ TypeOK
  BY DEF RunRecord, HeadIs, Typed, TypeOK
<1>3. /\ rows' = [rows EXCEPT ![k] = h.stamp] /\ chunks' = [chunks EXCEPT ![k] = h.entries]
      /\ upserting' = IF h.entries = {} THEN upserting ELSE [upserting EXCEPT ![k] = TRUE]
      /\ store' = store /\ writer' = writer /\ behind' = behind
  BY DEF RunRecord, history
<1>4. r = IF chunks[k] = {} THEN q ELSE Append(q, DeleteIds(chunks[k]))
  BY <1>2, IdsQueued
<1>5. InIndex(k)' = x
  BY <1>2, <1>3 DEF InIndex
<1> HIDE DEF q, h, r, x
<1>6. ASSUME NEW i, NEW y, Caught(q, FALSE, i, y)
      PROVE  Caught(queue'[k], upserting'[k], x, y)
  <2>1. Caught(r, FALSE, i, y)
    BY <1>1, <1>2, <1>4, <1>6, CaughtLonger
  <2>2. Caught(r, TRUE, x, y)
    BY <1>1, <1>2, <2>1, CaughtBegins DEF x
  <2>3. CASE h.entries # {}
    BY <1>1, <1>2, <1>3, <2>2, <2>3
  <2>4. CASE h.entries = {}
    <3>1. ~Waits(r, TRUE, 1)
      BY DEF Waits
    <3>2. Caught(Tail(r), FALSE, x, y)
      BY <1>1, <2>2, <3>1, CaughtShorter
    <3> QED
      BY <1>1, <1>2, <1>3, <2>4, <3>2
  <2> QED
    BY <2>3, <2>4
<1>7. FollowsOf(k)'
  <2> SUFFICES ASSUME Stored(k), k \notin behind
               PROVE  IF writer[k] # Absent THEN writer[k] = store[k]
                      ELSE Caught(queue'[k], upserting'[k], x, store[k])
    BY <1>3, <1>5 DEF FollowsOf, Stored
  <2>1. IF writer[k] # Absent THEN writer[k] = store[k]
        ELSE Caught(q, FALSE, InIndex(k), store[k])
    BY <1>2 DEF FollowInv, FollowsOf, q
  <2> QED
    BY <1>6, <2>1
<1>8. ASSUME NEW j \in Keys, j # k PROVE FollowsOf(j)'
  BY <1>1, <1>2, <1>3, <1>8, FollowFrame DEF FollowInv
<1> QED
  BY <1>7, <1>8 DEF FollowInv

\* An operation that is not the beginning of a save ends.
LEMMA FollowShorter ==
  ASSUME Typed, FollowInv, NEW k \in Keys, queue[k] # <<>>, HeadEnds(k), ~Waits(queue[k], upserting[k], 1),
         upserting'[k] = FALSE, \A j \in Keys : j # k => upserting'[j] = upserting[j],
         store' = store, writer' = writer, behind' = behind, chunks' = chunks, rows' = rows
  PROVE  FollowInv'
<1>1. /\ queue[k] \in Seq(Op) /\ upserting[k] \in BOOLEAN
      /\ queue'[k] = Tail(queue[k])
      /\ \A j \in Keys : j # k => queue'[j] = queue[j]
  BY HeadType, EndTypes DEF Typed, TypeOK
<1>2. \A y : Caught(queue[k], upserting[k], InIndex(k), y)
                => Caught(queue'[k], upserting'[k], InIndex(k), y)
  BY <1>1, CaughtShorter
<1>3. FollowsOf(k)'
  <2>1. InIndex(k)' = InIndex(k)
    BY DEF InIndex
  <2> QED
    BY <1>2, <2>1 DEF FollowInv, FollowsOf, Stored
<1>4. ASSUME NEW j \in Keys, j # k PROVE FollowsOf(j)'
  BY <1>1, <1>4, FollowFrame DEF FollowInv
<1> QED
  BY <1>3, <1>4 DEF FollowInv

LEMMA FollowFinishUpsert ==
  ASSUME Typed, FollowInv, NEW k \in Keys, FinishUpsert(k)
  PROVE  FollowInv'
<1>1. queue[k] # <<>> /\ ~Waits(queue[k], upserting[k], 1)
  BY DEF FinishUpsert, Typed, HeadOK, HeadIs, Waits
<1>2. /\ upserting'[k] = FALSE /\ \A j \in Keys : j # k => upserting'[j] = upserting[j]
      /\ HeadEnds(k) /\ store' = store /\ writer' = writer /\ behind' = behind
      /\ chunks' = chunks /\ rows' = rows
  BY DEF FinishUpsert, tables, Typed, TypeOK
<1> QED
  BY <1>1, <1>2, FollowShorter

LEMMA FollowRunDelete ==
  ASSUME Typed, FollowInv, NEW k \in Keys, RunDelete(k)
  PROVE  FollowInv'
<1>1. queue[k] # <<>> /\ queue[k] \in Seq(Op) /\ ~upserting[k] /\ Head(queue[k]).kind = "delete"
  BY HeadType, RunDeleteTypes DEF RunDelete, HeadIs
<1>2. ~Waits(queue[k], upserting[k], 1)
  BY <1>1, Shorter DEF Waits
<1>3. /\ upserting' = upserting /\ upserting \in [Keys -> BOOLEAN]
      /\ HeadEnds(k) /\ store' = store /\ writer' = writer /\ behind' = behind
      /\ chunks' = chunks /\ rows' = rows
  BY DEF RunDelete, tables, Typed, TypeOK
<1> QED
  BY <1>1, <1>2, <1>3, FollowShorter

LEMMA FollowDrop ==
  ASSUME Typed, Targeted, FollowInv, NEW d \in Deleters, Drop(d)
  PROVE  FollowInv'
<1> PICK k \in Keys : k = calls[d].target
  BY DEF Targeted, Drop
<1>1. /\ store' = [store EXCEPT ![k] = Absent] /\ store \in [Keys -> Data]
      /\ queue' = queue /\ upserting' = upserting /\ chunks' = chunks /\ rows' = rows
      /\ behind' = behind /\ writer' = writer
  BY DEF Drop, tables, history, Typed, TypeOK
<1>2. FollowsOf(k)'
  BY <1>1 DEF FollowsOf, Stored
<1>3. ASSUME NEW j \in Keys, j # k PROVE FollowsOf(j)'
  BY <1>1, <1>3, FollowFrame DEF FollowInv
<1> QED
  BY <1>2, <1>3 DEF FollowInv

LEMMA FollowUnindex ==
  ASSUME Typed, Targeted, FollowInv, NEW d \in Deleters, Unindex(d)
  PROVE  FollowInv'
<1> PICK k \in Keys : k = calls[d].target
  BY DEF Targeted, Unindex
<1>1. /\ rows' = [rows EXCEPT ![k] = 0] /\ chunks' = [chunks EXCEPT ![k] = {}]
      /\ queue' = DeletedIds(k) /\ store' = store /\ writer' = writer /\ upserting' = upserting
      /\ behind' = IF Stored(k) THEN behind \cup {k} ELSE behind
  BY DEF Unindex
<1>2. /\ rows \in [Keys -> Stamps] /\ chunks \in [Keys -> SUBSET Entries]
      /\ \A j \in Keys : j # k => queue'[j] = queue[j]
  BY <1>1, IdsQueued DEF Typed, TypeOK
<1>3. FollowsOf(k)'
  BY <1>1 DEF FollowsOf, Stored
<1>4. ASSUME NEW j \in Keys, j # k PROVE FollowsOf(j)'
  BY <1>1, <1>2, <1>4, FollowFrame DEF FollowInv
<1> QED
  BY <1>3, <1>4 DEF FollowInv

LEMMA FollowCrash ==
  ASSUME Typed, Crash
  PROVE  FollowInv'
<1> SUFFICES ASSUME NEW k \in Keys PROVE FollowsOf(k)'
  BY DEF FollowInv
<1>1. /\ writer'[k] = Absent /\ queue'[k] = <<>> /\ store' = store
      /\ InIndex(k)' = InIndex(k) /\ (k \notin behind' => store[k] = InIndex(k))
  BY DEF Crash, tables, InIndex
<1>2. Clear(queue'[k], upserting'[k])
  <2>1. Len(queue'[k]) = 0
    BY <1>1
  <2> QED
    BY <2>1 DEF Clear
<1> QED
  BY <1>1, <1>2 DEF FollowsOf, Stored, Caught

LEMMA FollowKept ==
  ASSUME Typed, Targeted, FollowInv, [Next]_vars
  PROVE  FollowInv'
<1>1. ASSUME UNCHANGED <<store, writer, rows, chunks, queue, upserting, behind>> PROVE FollowInv'
  BY <1>1, FollowFrame DEF FollowInv
<1>2. ASSUME NEW d \in Deleters, NEW k \in Keys, Delete(d, k) PROVE FollowInv'
  BY <1>1, <1>2 DEF Delete, tables, history
<1>3. ASSUME NEW d \in Deleters, Settle(d) PROVE FollowInv'
  BY <1>1, <1>3 DEF Settle, history
<1>4. CASE UNCHANGED vars
  BY <1>1, <1>4 DEF vars, tables, history
<1> QED
  BY <1>2, <1>3, <1>4, FollowSave, FollowQueue, FollowRunRecord, FollowFinishUpsert,
     FollowRunDelete, FollowDrop, FollowUnindex, FollowCrash DEF Next

\* Once nothing of a session waits, the index has the rows of its last save, unless a
\* crash forgot it or a call of delete() met a save between its two deletions.
THEOREM IndexIsCurrent == Spec => []IndexFollowsStore
<1>1. Init => Typed /\ Targeted /\ FollowInv
  BY TypesStart DEF Init, FollowInv, FollowsOf, Stored
<1>2. Typed /\ Targeted /\ FollowInv /\ [Next]_vars => (Typed /\ Targeted /\ FollowInv)'
  BY TypesKept, FollowKept
<1>3. FollowInv => IndexFollowsStore
  <2> SUFFICES ASSUME FollowInv, NEW k \in Keys, Settled(k), Stored(k), k \notin behind
               PROVE  InIndex(k) = store[k]
    BY DEF IndexFollowsStore
  <2>1. Caught(queue[k], upserting[k], InIndex(k), store[k]) /\ queue[k] = <<>>
    BY DEF FollowInv, FollowsOf, Settled
  <2>2. Len(queue[k]) = 0
    BY <2>1
  <2>3. ~Pending(queue[k], upserting[k], store[k])
    BY <2>2 DEF Pending
  <2> QED
    BY <2>1, <2>3 DEF Caught
<1> QED
  BY <1>1, <1>2, <1>3, PTL DEF Spec

-----------------------------------------------------------------------------
\* The pointer of the logical session. The saves of one key keep their order from the
\* store through the chain to the rows, so the time of a row never goes back while
\* the row is there; and no row is ever newer than the pointer, torn or not.

Sorted(q, lo, hi) ==
  \A i \in 1..Len(q) : q[i].kind = "record" =>
    /\ lo <= q[i].stamp /\ q[i].stamp <= hi
    /\ \A j \in 1..Len(q) : i <= j /\ q[j].kind = "record" => q[i].stamp <= q[j].stamp

\* The newest time that the chain of k may hold.
Newest(k) == IF writer[k] # Absent THEN writer[k].stamp ELSE clock

OrderedOf(k) == /\ Sorted(queue[k], rows[k], Newest(k))
                /\ rows[k] <= Newest(k) /\ Newest(k) <= clock

PointerInv ==
  /\ \A k \in Keys : OrderedOf(k)
  /\ \A k \in Keys : rows[k] <= latest.stamp
  /\ latest.key = Nobody => latest.stamp = 0
  /\ PointerIsNewest

LEMMA StampsAreInts ==
  /\ \A t \in Stamps : t \in Int /\ 0 <= t
  /\ \A op \in Op : op.stamp \in Stamps
  /\ \A q \in Seq(Op), i \in Nat : i \in 1..Len(q) => q[i].stamp \in Stamps
<1>1. \A t \in Stamps : t \in Int /\ 0 <= t
  BY SessionIndexAssumption DEF Stamps
<1>2. \A op \in Op : op.stamp \in Stamps
  BY DEF Op
<1>3. \A q \in Seq(Op), i \in Nat : i \in 1..Len(q) => q[i] \in Op
  OBVIOUS
<1> QED
  BY <1>1, <1>2, <1>3

LEMMA SortedWider ==
  ASSUME NEW q \in Seq(Op), NEW lo \in Stamps, NEW hi \in Stamps, Sorted(q, lo, hi),
         NEW l \in Stamps, NEW h \in Stamps, l <= lo, hi <= h
  PROVE  Sorted(q, l, h)
<1> SUFFICES ASSUME NEW i \in 1..Len(q), q[i].kind = "record"
             PROVE  l <= q[i].stamp /\ q[i].stamp <= h
  BY DEF Sorted
<1>1. lo <= q[i].stamp /\ q[i].stamp <= hi
  BY DEF Sorted
<1>2. q[i].stamp \in Int /\ l \in Int /\ lo \in Int /\ hi \in Int /\ h \in Int
  <2>1. i \in Nat
    OBVIOUS
  <2> QED
    BY <2>1, StampsAreInts
<1> QED
  BY <1>1, <1>2

\* A save joins the chain behind those before it.
LEMMA SortedAppend ==
  ASSUME NEW q \in Seq(Op), NEW lo \in Stamps, NEW d \in Data, lo <= d.stamp,
         Sorted(q, lo, d.stamp)
  PROVE  Sorted(Append(q, Record(d)), lo, d.stamp)
<1> DEFINE r == Append(q, Record(d))
<1>1. /\ Len(q) \in Nat /\ Len(r) = Len(q) + 1
      /\ \A i \in 1..Len(q) : r[i] = q[i]
      /\ r[Len(q) + 1] = Record(d)
  BY Longer, OpTypes
<1>2. r[Len(q) + 1].stamp = d.stamp /\ d.stamp \in Int /\ lo \in Int
  BY <1>1, StampsAreInts DEF Record, Data
<1>3. \A i \in 1..Len(r) : i \in 1..Len(q) \/ i = Len(q) + 1
  BY <1>1
<1> HIDE DEF r
<1> SUFFICES ASSUME NEW i \in 1..Len(r), r[i].kind = "record"
             PROVE  /\ lo <= r[i].stamp /\ r[i].stamp <= d.stamp
                    /\ \A j \in 1..Len(r) : i <= j /\ r[j].kind = "record" => r[i].stamp <= r[j].stamp
  BY DEF Sorted, r
<1>4. lo <= r[i].stamp /\ r[i].stamp <= d.stamp
  BY <1>1, <1>2, <1>3 DEF Sorted
<1>5. ASSUME NEW j \in 1..Len(r), i <= j, r[j].kind = "record" PROVE r[i].stamp <= r[j].stamp
  <2>1. CASE j \in 1..Len(q)
    <3>1. i \in 1..Len(q)
      BY <1>1, <1>3, <1>5, <2>1
    <3> QED
      BY <1>1, <1>5, <2>1, <3>1 DEF Sorted
  <2>2. CASE j = Len(q) + 1
    BY <1>2, <1>4, <2>2
  <2> QED
    BY <1>3, <2>1, <2>2
<1> QED
  BY <1>4, <1>5

LEMMA SortedLonger ==
  ASSUME NEW q \in Seq(Op), NEW lo, NEW hi, NEW e \in SUBSET Entries, Sorted(q, lo, hi)
  PROVE  Sorted(Append(q, DeleteIds(e)), lo, hi)
<1> DEFINE r == Append(q, DeleteIds(e))
<1>1. /\ Len(q) \in Nat /\ Len(r) = Len(q) + 1
      /\ \A i \in 1..Len(q) : r[i] = q[i]
      /\ r[Len(q) + 1] = DeleteIds(e)
  BY Longer, OpTypes
<1>2. r[Len(q) + 1].kind = "delete"
  BY <1>1 DEF DeleteIds
<1>3. \A i \in 1..Len(r) : i \in 1..Len(q) \/ i = Len(q) + 1
  BY <1>1
<1> HIDE DEF r
<1>4. \A i \in 1..Len(r) : r[i].kind = "record" => i \in 1..Len(q) /\ r[i] = q[i]
  BY <1>1, <1>2, <1>3
<1> QED
  BY <1>4 DEF Sorted, r

LEMMA SortedShorter ==
  ASSUME NEW q \in Seq(Op), q # <<>>, NEW lo, NEW hi, Sorted(q, lo, hi)
  PROVE  Sorted(Tail(q), lo, hi)
<1> DEFINE r == Tail(q)
<1>1. /\ Len(r) \in Nat /\ Len(q) = Len(r) + 1
      /\ \A i \in 1..Len(r) : r[i] = q[i + 1]
  BY Shorter
<1>2. \A i \in 1..Len(r) : i + 1 \in 1..Len(q)
  BY <1>1
<1>3. \A i \in 1..Len(r) : \A j \in 1..Len(r) : i <= j => i + 1 <= j + 1
  BY <1>1
<1> HIDE DEF r
<1> QED
  BY <1>1, <1>2, <1>3 DEF Sorted, r

\* The oldest save of the chain is at its head.
LEMMA SortedBegins ==
  ASSUME NEW q \in Seq(Op), q # <<>>, Head(q).kind = "record", NEW lo, NEW hi,
         Sorted(q, lo, hi)
  PROVE  /\ Sorted(q, Head(q).stamp, hi)
         /\ lo <= Head(q).stamp /\ Head(q).stamp <= hi
<1>1. Head(q) = q[1] /\ 1 \in 1..Len(q) /\ \A i \in 1..Len(q) : 1 <= i
  BY Shorter
<1> QED
  BY <1>1 DEF Sorted

LEMMA NewestStamp ==
  ASSUME TypeOK, NEW k \in Keys
  PROVE  Newest(k) \in Stamps /\ rows[k] \in Stamps /\ clock \in Stamps /\ queue[k] \in Seq(Op)
BY DEF TypeOK, Newest, Data

LEMMA OrderedFrame ==
  ASSUME NEW k \in Keys, OrderedOf(k), queue'[k] = queue[k], rows'[k] = rows[k],
         writer'[k] = writer[k], clock' = clock
  PROVE  OrderedOf(k)'
BY DEF OrderedOf, Newest, Sorted

\* The pointer when neither it nor the rows move, and no call that waits moves on.
LEMMA PointerFrame ==
  ASSUME PointerInv, latest' = latest, rows' = rows, torn' = torn,
         \A d \in Deleters : calls[d].pc = "wait" => calls'[d].pc = "wait" /\ calls'[d].target = calls[d].target
  PROVE  /\ (\A k \in Keys : rows[k] <= latest.stamp)'
         /\ (latest.key = Nobody => latest.stamp = 0)'
         /\ PointerIsNewest'
BY DEF PointerInv, PointerIsNewest, Intact

LEMMA PointerSave ==
  ASSUME Typed, PointerInv, NEW k \in Keys, Save(k)
  PROVE  PointerInv'
<1>1. TypeOK
  BY DEF Typed
<1>2. PICK e \in SUBSET Entries, t \in 1..MaxClock :
        /\ t \in {clock, clock + 1}
        /\ writer' = [writer EXCEPT ![k] = [entries |-> e, stamp |-> t]]
        /\ clock' = t
  BY DEF Save
<1>3. t \in Stamps /\ clock \in Stamps /\ clock <= t /\ t # 0
  BY <1>1, <1>2, SessionIndexAssumption DEF TypeOK, Stamps
<1>4. /\ queue' = queue /\ rows' = rows /\ latest' = latest /\ torn' = torn /\ calls' = calls
      /\ writer \in [Keys -> Data]
  BY <1>1 DEF Save, tables, TypeOK
<1>5. ASSUME NEW j \in Keys PROVE OrderedOf(j)'
  <2>1. /\ Sorted(queue[j], rows[j], Newest(j)) /\ rows[j] <= Newest(j) /\ Newest(j) <= clock
    BY DEF PointerInv, OrderedOf
  <2>2. Newest(j) \in Stamps /\ rows[j] \in Stamps /\ queue[j] \in Seq(Op)
    BY <1>1, NewestStamp
  <2>3. Newest(j)' \in Stamps /\ Newest(j) <= Newest(j)' /\ Newest(j)' <= t
    <3> DEFINE n == Newest(j)
    <3>1. n \in Int /\ clock \in Int /\ t \in Int /\ n <= clock /\ clock <= t
      BY <1>3, <2>1, <2>2, StampsAreInts
    <3>2. n <= t /\ n <= n /\ t <= t
      BY <3>1
    <3>3. CASE j = k
      <4>1. Newest(j)' = t
        BY <1>2, <1>3, <1>4, <3>3 DEF Newest, Absent
      <4> QED
        BY <1>3, <3>2, <4>1
    <3>4. CASE j # k /\ writer[j] # Absent
      <4>1. Newest(j)' = Newest(j)
        BY <1>2, <1>4, <3>4 DEF Newest
      <4> QED
        BY <2>2, <3>2, <4>1
    <3>5. CASE j # k /\ writer[j] = Absent
      <4>1. Newest(j)' = t /\ Newest(j) = clock
        BY <1>2, <1>4, <3>5 DEF Newest
      <4> QED
        BY <1>3, <4>1, StampsAreInts
    <3> QED
      BY <3>3, <3>4, <3>5
  <2>4. rows[j] <= Newest(j)'
    BY <2>1, <2>2, <2>3, StampsAreInts
  <2>5. rows[j] <= rows[j]
    BY <2>2, StampsAreInts
  <2>6. Sorted(queue[j], rows[j], Newest(j)')
    BY <2>1, <2>2, <2>3, <2>5, SortedWider
  <2> QED
    BY <1>2, <1>4, <2>3, <2>4, <2>6 DEF OrderedOf
<1> QED
  BY <1>4, <1>5, PointerFrame DEF PointerInv

LEMMA PointerQueue ==
  ASSUME Typed, PointerInv, NEW k \in Keys, Queue(k)
  PROVE  PointerInv'
<1>1. TypeOK /\ writer[k] # Absent /\ writer[k] \in Data
      /\ queue \in [Keys -> Seq(Op)] /\ writer \in [Keys -> Data]
  BY DEF Typed, TypeOK, Queue
<1>2. /\ queue' = [queue EXCEPT ![k] = Append(queue[k], Record(writer[k]))]
      /\ writer' = [writer EXCEPT ![k] = Absent]
      /\ clock' = clock /\ rows' = rows /\ latest' = latest /\ torn' = torn /\ calls' = calls
  BY DEF Queue, Enqueued, tables, history
<1>3. OrderedOf(k)'
  <2>1. /\ Sorted(queue[k], rows[k], writer[k].stamp) /\ rows[k] <= writer[k].stamp
        /\ writer[k].stamp <= clock
    BY <1>1 DEF PointerInv, OrderedOf, Newest
  <2>2. writer[k].stamp \in Stamps /\ rows[k] \in Stamps /\ queue[k] \in Seq(Op) /\ clock \in Stamps
    BY <1>1, NewestStamp DEF Data
  <2>3. Sorted(queue'[k], rows[k], writer[k].stamp) /\ queue'[k] \in Seq(Op)
    BY <1>1, <1>2, <2>1, <2>2, SortedAppend, Longer, OpTypes
  <2>4. rows[k] <= rows[k] /\ rows[k] <= clock /\ clock <= clock
    BY <2>1, <2>2, StampsAreInts
  <2>5. Sorted(queue'[k], rows[k], clock)
    BY <2>1, <2>2, <2>3, <2>4, SortedWider
  <2> QED
    BY <1>1, <1>2, <2>4, <2>5 DEF OrderedOf, Newest
<1>4. ASSUME NEW j \in Keys, j # k PROVE OrderedOf(j)'
  BY <1>1, <1>2, <1>4, OrderedFrame DEF PointerInv
<1> QED
  BY <1>2, <1>3, <1>4, PointerFrame DEF PointerInv

LEMMA PointerRunRecord ==
  ASSUME Typed, PointerInv, NEW k \in Keys, RunRecord(k)
  PROVE  PointerInv'
<1> DEFINE q == queue[k]
           h == Head(q)
           r == DeletedIds(k)[k]
           t == h.stamp
<1>1. /\ q \in Seq(Op) /\ q # <<>> /\ h \in Op /\ r \in Seq(Op) /\ r # <<>> /\ Head(r) = h
      /\ \A j \in Keys : j # k => queue'[j] = queue[j]
      /\ queue'[k] = IF h.entries = {} THEN Tail(r) ELSE r
  BY RecordQueue
<1>2. /\ h.kind = "record" /\ rows \in [Keys -> Stamps]
      /\ chunks[k] \in SUBSET Entries /\ TypeOK
  BY DEF RunRecord, HeadIs, Typed, TypeOK
<1>3. /\ rows' = [rows EXCEPT ![k] = t] /\ latest' = Pointed(k, t)
      /\ writer' = writer /\ clock' = clock /\ torn' = torn
  BY DEF RunRecord, history
<1>4. r = IF chunks[k] = {} THEN q ELSE Append(q, DeleteIds(chunks[k]))
  BY <1>2, IdsQueued
<1>5. \A d \in Deleters : calls'[d].pc = calls[d].pc /\ calls'[d].target = calls[d].target
  BY <1>2, NoticeTypes DEF RunRecord
<1>6. t \in Stamps
  BY <1>1, StampsAreInts
<1> HIDE DEF q, h, r, t
<1>7. /\ Sorted(q, rows[k], Newest(k)) /\ Newest(k) <= clock
  BY DEF PointerInv, OrderedOf, q
<1>8. Sorted(q, t, Newest(k)) /\ rows[k] <= t /\ t <= Newest(k)
  BY <1>1, <1>2, <1>7, SortedBegins DEF h, t
<1>9. OrderedOf(k)'
  <2>1. Sorted(r, t, Newest(k))
    BY <1>1, <1>2, <1>4, <1>8, SortedLonger
  <2>2. Sorted(queue'[k], t, Newest(k))
    BY <1>1, <2>1, SortedShorter
  <2>3. rows'[k] = t /\ Newest(k)' = Newest(k)
    BY <1>2, <1>3 DEF Newest
  <2> QED
    BY <1>3, <1>7, <1>8, <2>2, <2>3 DEF OrderedOf
<1>10. ASSUME NEW j \in Keys, j # k PROVE OrderedOf(j)'
  BY <1>1, <1>2, <1>3, <1>10, OrderedFrame DEF PointerInv
<1>11. latest.stamp \in Int /\ t \in Int /\ 0 <= t /\ \A j \in Keys : rows[j] \in Int
  BY <1>2, <1>6, StampsAreInts DEF TypeOK
<1>12. /\ \A j \in Keys : rows[j] <= latest.stamp
       /\ latest.key = Nobody => latest.stamp = 0
  BY DEF PointerInv
<1>13. CASE latest' = [key |-> k, stamp |-> t] /\ (latest.key # Nobody => latest.stamp <= t)
  <2>1. latest.stamp <= t
    BY <1>11, <1>12, <1>13
  <2>2. \A j \in Keys : rows'[j] <= t
    BY <1>2, <1>3, <1>11, <1>12, <2>1
  <2>3. Intact(latest)' /\ latest'.key # Nobody
    BY <1>2, <1>3, <1>13, SessionIndexAssumption DEF Intact
  <2> QED
    BY <1>9, <1>10, <1>13, <2>2, <2>3 DEF PointerInv, PointerIsNewest
<1>14. CASE latest' = latest /\ latest.key # Nobody /\ t < latest.stamp
  <2>1. \A j \in Keys : rows'[j] <= latest.stamp
    BY <1>2, <1>3, <1>11, <1>12, <1>14
  <2>2. Intact(latest) => Intact(latest)'
    <3>1. ASSUME Intact(latest) PROVE rows[latest.key] = latest.stamp
      BY <1>14, <3>1 DEF Intact
    <3>2. Intact(latest) => latest.key # k
      BY <1>8, <1>11, <1>14, <3>1
    <3> QED
      BY <1>2, <1>3, <1>14, <3>2 DEF Intact
  <2>3. PointerIsNewest'
    BY <1>3, <1>5, <1>14, <2>1, <2>2 DEF PointerInv, PointerIsNewest
  <2> QED
    BY <1>9, <1>10, <1>12, <1>14, <2>1, <2>3 DEF PointerInv
<1> QED
  BY <1>3, <1>11, <1>13, <1>14 DEF Pointed

\* An operation of the chain ends, and its rows were there before.
LEMMA PointerShorter ==
  ASSUME Typed, PointerInv, NEW k \in Keys, queue[k] # <<>>, HeadEnds(k),
         clock' = clock, writer' = writer, rows' = rows, latest' = latest, torn' = torn
  PROVE  PointerInv'
<1>1. /\ queue[k] \in Seq(Op) /\ queue'[k] = Tail(queue[k])
      /\ \A j \in Keys : j # k => queue'[j] = queue[j]
      /\ \A d \in Deleters : calls'[d].pc = calls[d].pc /\ calls'[d].target = calls[d].target
  BY HeadType, EndTypes
<1>2. OrderedOf(k)'
  <2>1. Sorted(queue'[k], rows[k], Newest(k))
    BY <1>1, SortedShorter DEF PointerInv, OrderedOf
  <2>2. Newest(k)' = Newest(k)
    BY DEF Newest
  <2> QED
    BY <2>1, <2>2 DEF PointerInv, OrderedOf
<1>3. ASSUME NEW j \in Keys, j # k PROVE OrderedOf(j)'
  BY <1>1, <1>3, OrderedFrame DEF PointerInv
<1> QED
  BY <1>1, <1>2, <1>3, PointerFrame DEF PointerInv

LEMMA PointerUnindex ==
  ASSUME Typed, Targeted, PointerInv, NEW d \in Deleters, Unindex(d)
  PROVE  PointerInv'
<1> PICK k \in Keys : k = calls[d].target
  BY DEF Targeted, Unindex
<1>1. /\ rows' = [rows EXCEPT ![k] = 0] /\ queue' = DeletedIds(k) /\ latest' = latest
      /\ writer' = writer /\ clock' = clock /\ torn' = torn
  BY DEF Unindex
<1>2. /\ rows \in [Keys -> Stamps] /\ TypeOK /\ chunks[k] \in SUBSET Entries
      /\ calls[d] \in Call /\ calls \in [Deleters -> Call]
  BY DEF Typed, TypeOK
<1>3. /\ \A j \in Keys : j # k => queue'[j] = queue[j]
      /\ queue'[k] = IF chunks[k] = {} THEN queue[k] ELSE Append(queue[k], DeleteIds(chunks[k]))
  BY <1>1, <1>2, IdsQueued
<1>4. /\ calls[d].pc = "unindex" /\ calls'[d].pc = "wait" /\ calls'[d].target = k
      /\ \A c \in Deleters : c # d => calls'[c] = calls[c]
  BY <1>2 DEF Unindex, Call
<1>5. OrderedOf(k)'
  <2>1. Sorted(queue[k], rows[k], Newest(k)) /\ rows[k] <= Newest(k) /\ Newest(k) <= clock
    BY DEF PointerInv, OrderedOf
  <2>2. Newest(k) \in Stamps /\ rows[k] \in Stamps /\ queue[k] \in Seq(Op) /\ 0 \in Stamps
    BY <1>2, NewestStamp, SessionIndexAssumption DEF Stamps
  <2>3. 0 <= rows[k] /\ 0 <= Newest(k) /\ Newest(k) <= Newest(k)
    BY <2>2, StampsAreInts
  <2>4. Sorted(queue[k], 0, Newest(k))
    BY <2>1, <2>2, <2>3, SortedWider
  <2>5. Sorted(queue'[k], 0, Newest(k))
    BY <1>2, <1>3, <2>2, <2>4, SortedLonger
  <2>6. Newest(k)' = Newest(k) /\ rows'[k] = 0
    BY <1>1, <1>2 DEF Newest
  <2> QED
    BY <1>1, <2>1, <2>3, <2>5, <2>6 DEF OrderedOf
<1>6. ASSUME NEW j \in Keys, j # k PROVE OrderedOf(j)'
  BY <1>1, <1>2, <1>3, <1>6, OrderedFrame DEF PointerInv
<1>7. \A j \in Keys : rows'[j] <= latest.stamp
  BY <1>1, <1>2, StampsAreInts DEF PointerInv, TypeOK
<1>8. PointerIsNewest'
  <2>1. CASE latest.key = k
    BY <1>1, <1>4, <2>1 DEF PointerIsNewest
  <2>2. CASE latest.key # k
    <3>1. Intact(latest) => Intact(latest)'
      BY <1>1, <1>2, <2>2 DEF Intact, TypeOK
    <3> QED
      BY <1>1, <1>4, <1>7, <3>1 DEF PointerInv, PointerIsNewest
  <2> QED
    BY <2>1, <2>2
<1> QED
  BY <1>1, <1>5, <1>6, <1>7, <1>8 DEF PointerInv

LEMMA PointerSettle ==
  ASSUME Typed, Targeted, PointerInv, NEW d \in Deleters, Settle(d)
  PROVE  PointerInv'
<1> PICK k \in Keys : k = calls[d].target
  BY DEF Targeted, Settle
<1>1. /\ latest' \in Repointed(k) /\ rows' = rows /\ queue' = queue
      /\ writer' = writer /\ clock' = clock /\ torn' = torn
  BY DEF Settle, history
<1>2. /\ rows \in [Keys -> Stamps] /\ calls \in [Deleters -> Call]
  BY DEF Typed, TypeOK
<1>3. \A c \in Deleters : c # d => calls'[c] = calls[c]
  BY <1>2 DEF Settle
<1>4. \A j \in Keys : OrderedOf(j)'
  BY <1>1, OrderedFrame DEF PointerInv
<1>5. CASE latest.key # k
  <2>1. latest' = latest
    BY <1>1, <1>5 DEF Repointed
  <2>2. PointerIsNewest'
    BY <1>1, <1>3, <1>5, <2>1 DEF PointerInv, PointerIsNewest, Intact
  <2> QED
    BY <1>1, <1>4, <2>1, <2>2 DEF PointerInv
<1>6. CASE latest.key = k /\ \A j \in Keys : rows[j] = 0
  <2>1. latest' = NoLatest
    BY <1>1, <1>6 DEF Repointed
  <2> QED
    BY <1>1, <1>4, <1>6, <2>1 DEF PointerInv, PointerIsNewest, Intact, NoLatest
<1>7. CASE latest.key = k /\ ~\A j \in Keys : rows[j] = 0
  <2>1. PICK i \in Keys : /\ latest' = [key |-> i, stamp |-> rows[i]]
                          /\ \A j \in Keys : rows[j] <= rows[i]
    BY <1>1, <1>7 DEF Repointed
  <2>2. latest'.key # Nobody
    BY <2>1, SessionIndexAssumption
  <2> QED
    BY <1>1, <1>4, <2>1, <2>2 DEF PointerInv, PointerIsNewest, Intact
<1> QED
  BY <1>5, <1>6, <1>7

LEMMA PointerCrash ==
  ASSUME Typed, PointerInv, Crash
  PROVE  PointerInv'
<1>1. /\ latest' = latest /\ rows' = rows /\ clock' = clock
      /\ torn' = IF Intact(latest) THEN torn ELSE latest
      /\ \A k \in Keys : writer'[k] = Absent /\ queue'[k] = <<>>
  BY DEF Crash, tables
<1>2. ASSUME NEW k \in Keys PROVE OrderedOf(k)'
  <2>1. rows[k] <= Newest(k) /\ Newest(k) <= clock
    BY DEF PointerInv, OrderedOf
  <2>2. Newest(k) \in Int /\ rows[k] \in Int /\ clock \in Int
    BY NewestStamp, StampsAreInts DEF Typed
  <2>3. rows'[k] <= clock' /\ clock' <= clock'
    BY <1>1, <2>1, <2>2
  <2>4. Newest(k)' = clock' /\ Len(queue'[k]) = 0
    BY <1>1 DEF Newest
  <2> QED
    BY <2>3, <2>4 DEF OrderedOf, Sorted
<1>3. PointerIsNewest'
  <2>1. CASE Intact(latest)
    BY <1>1, <2>1 DEF PointerInv, PointerIsNewest, Intact
  <2>2. CASE ~Intact(latest)
    BY <1>1, <2>2 DEF PointerIsNewest, Intact, NoLatest
  <2> QED
    BY <2>1, <2>2
<1> QED
  BY <1>1, <1>2, <1>3 DEF PointerInv

LEMMA PointerKept ==
  ASSUME Typed, Targeted, PointerInv, [Next]_vars
  PROVE  PointerInv'
<1>1. ASSUME UNCHANGED <<queue, rows, writer, clock, latest, torn>>,
             \A d \in Deleters : calls[d].pc = "wait" => calls'[d].pc = "wait" /\ calls'[d].target = calls[d].target
      PROVE  PointerInv'
  BY <1>1, OrderedFrame, PointerFrame DEF PointerInv
<1>2. ASSUME NEW d \in Deleters, NEW k \in Keys, Delete(d, k) PROVE PointerInv'
  BY <1>1, <1>2 DEF Delete, tables, history, Typed, TypeOK
<1>3. ASSUME NEW d \in Deleters, Drop(d) PROVE PointerInv'
  BY <1>1, <1>3 DEF Drop, tables, history, Typed, TypeOK
<1>4. ASSUME NEW k \in Keys, FinishUpsert(k) PROVE PointerInv'
  BY <1>4, PointerShorter DEF FinishUpsert, tables, Typed, HeadOK, HeadIs
<1>5. ASSUME NEW k \in Keys, RunDelete(k) PROVE PointerInv'
  BY <1>5, PointerShorter DEF RunDelete, tables, HeadIs
<1>6. CASE UNCHANGED vars
  BY <1>1, <1>6 DEF vars, tables, history
<1> QED
  BY <1>2, <1>3, <1>4, <1>5, <1>6, PointerSave, PointerQueue, PointerRunRecord,
     PointerUnindex, PointerSettle, PointerCrash DEF Next

\* The logical session points at the newest indexed session, or at one that a call of
\* delete() is about to replace or a crash kept it from replacing; whatever order the
\* chains of the keys run in.
THEOREM PointerHolds == Spec => []PointerIsNewest
<1>1. Init => Typed /\ Targeted /\ PointerInv
  <2> SUFFICES ASSUME Init PROVE PointerInv
    BY TypesStart
  <2>1. ASSUME NEW k \in Keys PROVE OrderedOf(k)
    <3>1. Len(queue[k]) = 0 /\ rows[k] = 0 /\ Newest(k) = 0 /\ clock = 0
      BY DEF Init, Newest
    <3> QED
      BY <3>1 DEF OrderedOf, Sorted
  <2> QED
    BY <2>1 DEF Init, PointerInv, PointerIsNewest, Intact, NoLatest
<1>2. Typed /\ Targeted /\ PointerInv /\ [Next]_vars => (Typed /\ Targeted /\ PointerInv)'
  BY TypesKept, PointerKept
<1>3. PointerInv => PointerIsNewest
  BY DEF PointerInv
<1> QED
  BY <1>1, <1>2, <1>3, PTL DEF Spec

=============================================================================
