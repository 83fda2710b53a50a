------------------------- MODULE StructuredMemoryProofs -------------------------
(***************************************************************************)
(* What holds of the structured memory for every value of its constants.   *)
(*                                                                         *)
(* The proof is about the order of the queue.  A microtask puts its call   *)
(* behind all others, so of two writes of one record the one that began    *)
(* last is the last in every stage: Latest names it, and StoresFollow says *)
(* which store has its record by then.  VectorsFollow adds the vectors of  *)
(* notes, which are awaited outside of the queue, and KindsInv that an id  *)
(* has one kind for good, without which a write of a todo could race the   *)
(* vectors of a note.                                                      *)
(*                                                                         *)
(* ItemsAccepted walks up from an item a bounded number of times.  That it *)
(* rules out cycles is AcceptedIsHung, by induction over the finite set of *)
(* items (SetInduction, from the well-foundedness of the naturals).        *)
(***************************************************************************)
EXTENDS StructuredMemory, FiniteSetTheorems, SequenceTheorems, WellFoundedInduction, TLAPS

-----------------------------------------------------------------------------
\* Naturals, finite sets and walks.
LEMMA LeastNatural ==
  ASSUME NEW S, S \subseteq Nat, S # {}
  PROVE  \E n \in S : \A m \in S : n <= m
<1>1. PICK n \in S : \A m \in S : ~(<<m, n>> \in OpToRel(<, Nat))
  BY NatLessThanWellFounded, WFMin
<1>2. ASSUME NEW m \in S  PROVE n <= m
  <2>1. m \in Nat /\ n \in Nat
    OBVIOUS
  <2>2. ~(m < n)
    BY <1>1, <2>1 DEF OpToRel
  <2> QED  BY <2>1, <2>2
<1> QED BY <1>2

LEMMA SetInduction ==
  ASSUME NEW S, 0 \in S, \A n \in Nat : n \in S => n + 1 \in S
  PROVE  Nat \subseteq S
<1> SUFFICES ASSUME Nat \ S # {} PROVE FALSE
  OBVIOUS
<1>1. PICK n \in Nat \ S : \A m \in Nat \ S : n <= m
  BY LeastNatural
<1>2. n # 0 
  BY <1>1
<1>3. n - 1 \in Nat /\ n - 1 \in S
  BY <1>1, <1>2
<1> QED BY <1>1, <1>3

StepUp(items, x) == IF x \in DOMAIN items THEN items[x] ELSE Top
IsWalk(items, i, N, f) == f = [n \in 0..N |-> IF n = 0 THEN i ELSE StepUp(items, f[n - 1])]

LEMMA WalkExists ==
  ASSUME NEW N \in Nat, NEW items, NEW i
  PROVE  \E f : IsWalk(items, i, N, f)
<1> DEFINE S == {k \in Nat : \E f : IsWalk(items, i, k, f)}
<1>1. 0 \in S
  <2> DEFINE f == [n \in 0..0 |-> i]
  <2>1. f = [n \in 0..0 |-> IF n = 0 THEN i ELSE StepUp(items, f[n - 1])]
    OBVIOUS
  <2> QED BY <2>1 DEF IsWalk
<1>2. \A k \in Nat : k \in S => k + 1 \in S
  <2> SUFFICES ASSUME NEW k \in Nat, NEW f, IsWalk(items, i, k, f)
              PROVE \E g : IsWalk(items, i, k + 1, g)
    OBVIOUS
  <2> DEFINE g == [n \in 0..(k+1) |-> IF n <= k THEN f[n] ELSE StepUp(items, f[k])]
             h == [n \in 0..(k+1) |-> IF n = 0 THEN i ELSE StepUp(items, g[n - 1])]
  <2>1. ASSUME NEW n \in 0..(k+1)  PROVE g[n] = h[n]
    <3>1. CASE n = 0
      <4>1. f[n] = i
        BY <3>1 DEF IsWalk
      <4> QED  BY <3>1, <4>1
    <3>2. CASE n # 0 /\ n <= k
      <4>1. n \in 0..k /\ n - 1 \in 0..k /\ n - 1 \in 0..(k+1) /\ n - 1 <= k
        BY <3>2
      <4>2. f[n] = StepUp(items, f[n - 1])
        BY <3>2, <4>1 DEF IsWalk
      <4>3. g[n - 1] = f[n - 1]
        BY <4>1
      <4>4. g[n] = f[n]
        BY <3>2
      <4>5. h[n] = StepUp(items, g[n - 1])
        BY <3>2
      <4> QED  BY <4>2, <4>3, <4>4, <4>5
    <3>3. CASE n = k + 1
      <4>1. g[k] = f[k] /\ n - 1 = k /\ n # 0 /\ ~(n <= k)
        BY <3>3
      <4>2. g[n] = StepUp(items, f[k])
        BY <4>1
      <4>3. h[n] = StepUp(items, g[n - 1])
        BY <4>1
      <4> QED  BY <4>1, <4>2, <4>3
    <3> QED  BY <3>1, <3>2, <3>3
  <2>2. g = h
    <3>1. g = [n \in 0..(k+1) |-> g[n]] /\ h = [n \in 0..(k+1) |-> h[n]]
      OBVIOUS
    <3> HIDE DEF g, h
    <3> QED  BY <2>1, <3>1
  <2>3. IsWalk(items, i, k + 1, g)
    BY <2>2 DEF IsWalk
  <2> QED BY <2>3
<1>3. N \in S
  BY <1>1, <1>2, SetInduction
<1> QED BY <1>3

LEMMA WalkIs ==
  ASSUME NEW items, IsFiniteSet(DOMAIN items), NEW i
  PROVE  IsWalk(items, i, Cardinality(DOMAIN items), Walk(items, i))
<1> DEFINE N == Cardinality(DOMAIN items)
<1>1. N \in Nat
  BY FS_CardinalityType
<1>2. Walk(items, i) = CHOOSE f : IsWalk(items, i, N, f)
  BY DEF Walk, IsWalk, StepUp
<1> HIDE DEF N
<1>3. \E f : IsWalk(items, i, N, f)
  BY <1>1, WalkExists
<1>4. IsWalk(items, i, N, CHOOSE f : IsWalk(items, i, N, f))
  BY <1>3
<1> QED  BY <1>2, <1>4 DEF N

\* An item's ancestors are those of its parents.
LEMMA WalkGoesOn ==
  ASSUME NEW items, IsFiniteSet(DOMAIN items), NEW i, NEW N, N = Cardinality(DOMAIN items),
         NEW a \in 0..N, NEW j, j = Walk(items, i)[a]
  PROVE  \A m \in 0..N : a + m <= N => Walk(items, j)[m] = Walk(items, i)[a + m]
<1> DEFINE v == Walk(items, i)
           w == Walk(items, j)
           S == {m \in Nat : a + m <= N => w[m] = v[a + m]}
<1>1. N \in Nat
  BY FS_CardinalityType
<1>2. v = [n \in 0..N |-> IF n = 0 THEN i ELSE StepUp(items, v[n - 1])]
  BY WalkIs DEF IsWalk
<1>3. w = [n \in 0..N |-> IF n = 0 THEN j ELSE StepUp(items, w[n - 1])]
  <2>1. IsWalk(items, j, Cardinality(DOMAIN items), w)
    BY WalkIs
  <2> HIDE DEF w
  <2> QED  BY <2>1 DEF IsWalk
<1>4. j = v[a]
  OBVIOUS
<1> HIDE DEF v, w
<1>5. 0 \in S
  BY <1>1, <1>3, <1>4
<1>6. \A m \in Nat : m \in S => m + 1 \in S
  <2> SUFFICES ASSUME NEW m \in Nat, a + m <= N => w[m] = v[a + m], a + (m + 1) <= N
               PROVE  w[m + 1] = v[a + (m + 1)]
    OBVIOUS
  <2> DEFINE n1 == m + 1
             n2 == a + (m + 1)
  <2>1. /\ n1 \in 0..N /\ n2 \in 0..N /\ n1 # 0 /\ n2 # 0
        /\ n1 - 1 = m /\ n2 - 1 = a + m /\ a + m <= N
    BY <1>1
  <2> HIDE DEF n1, n2
  <2>2. w[n1] = StepUp(items, w[n1 - 1])
    BY <1>3, <2>1
  <2>3. v[n2] = StepUp(items, v[n2 - 1])
    BY <1>2, <2>1
  <2>4. w[m] = v[a + m]
    BY <2>1, <1>1
  <2> QED  BY <2>1, <2>2, <2>3, <2>4 DEF n1, n2
<1>7. Nat \subseteq S
  BY <1>5, <1>6, SetInduction
<1> QED  BY <1>7 DEF v, w

\* Every parent is an item or the top, and no set of items hangs from itself.
Hung(items) == Rooted(items) /\ \A i \in DOMAIN items : items[i] \in DOMAIN items \cup {Top}

LEMMA AcceptedIsHung ==
  ASSUME NEW items, DOMAIN items \subseteq Items, ItemsAccepted(items)
  PROVE  Hung(items)
<1> DEFINE N == Cardinality(DOMAIN items)
<1>1. IsFiniteSet(DOMAIN items) /\ N \in Nat
  BY MemoryAssumption, FS_Subset, FS_CardinalityType
<1>2. \A i \in DOMAIN items : items[i] \in DOMAIN items \cup {Top}
  BY DEF ItemsAccepted
<1>3. ASSUME NEW S \in SUBSET DOMAIN items, NEW i \in S, \A k \in S : items[k] \in S
      PROVE  FALSE
  <2> DEFINE v == Walk(items, i)
  <2>1. v = [n \in 0..N |-> IF n = 0 THEN i ELSE StepUp(items, v[n - 1])]
    BY <1>1, WalkIs DEF IsWalk
  <2> DEFINE T == {n \in Nat : n <= N => v[n] \in S}
  <2> HIDE DEF v, N
  <2>2. 0 \in T
    BY <1>1, <2>1
  <2>3. \A n \in Nat : n \in T => n + 1 \in T
    <3> SUFFICES ASSUME NEW n \in Nat, n <= N => v[n] \in S, n + 1 <= N  PROVE v[n + 1] \in S
      OBVIOUS
    <3>1. n + 1 \in 0..N /\ (n + 1) - 1 = n /\ n <= N
      BY <1>1
    <3>2. v[n + 1] = StepUp(items, v[n])
      BY <2>1, <3>1
    <3>3. v[n] \in S
      BY <3>1
    <3> QED  BY <1>3, <3>2, <3>3 DEF StepUp
  <2>4. \A n \in 0..N : v[n] \in DOMAIN items /\ v[n] \in S
    <3>1. Nat \subseteq T
      BY <2>2, <2>3, SetInduction
    <3> QED  BY <1>1, <3>1
  <2>5. v \in [0..N -> DOMAIN items]
    <3>1. DOMAIN v = 0..N /\ v = [n \in 0..N |-> v[n]]
      BY <2>1
    <3> QED  BY <2>4, <3>1
  <2>6. IsFiniteSet(0..N) /\ Cardinality(0..N) = N + 1
    BY <1>1, FS_Interval
  <2>7. \E a, b \in 0..N : a # b /\ v[a] = v[b]
    <3>1. Cardinality(0..N) > Cardinality(DOMAIN items)
      BY <1>1, <2>6 DEF N
    <3> QED  BY <1>1, <2>5, <2>6, <3>1, FS_PigeonHole
  <2>8. PICK a \in 0..N, b \in 0..N : a < b /\ v[a] = v[b]
    BY <1>1, <2>7
  <2> DEFINE j == v[a]
  <2>9. b - a \in (0..N) \ {0} /\ a + (b - a) = b /\ a + (b - a) <= N
    BY <1>1, <2>8
  <2>10. Walk(items, j)[b - a] = v[a + (b - a)]
    BY <1>1, <2>9, WalkGoesOn DEF v, N
  <2>11. Walk(items, j)[b - a] = j
    BY <2>8, <2>9, <2>10
  <2>12. DOMAIN Walk(items, j) = 0..N
    BY <1>1, WalkIs DEF IsWalk, N
  <2>13. CreatesCycle(items, j)
    BY <2>9, <2>11, <2>12 DEF CreatesCycle
  <2>14. j \in S /\ j \in DOMAIN items /\ items[j] \in S
    BY <1>3, <2>4
  <2>15. items[j] # Top
    BY <2>14, MemoryAssumption
  <2> QED  BY <2>13, <2>14, <2>15 DEF ItemsAccepted
<1>4. Rooted(items)
  BY <1>3 DEF Rooted
<1> QED  BY <1>2, <1>4 DEF Hung

LEMMA AcceptedIsForest ==
  ASSUME NEW D \in SUBSET Items, NEW items, items = [i \in D |-> items[i]], ItemsAccepted(items)
  PROVE  items \in Forest
<1>1. \A i \in DOMAIN items : items[i] \in DOMAIN items \cup {Top}
  BY DEF ItemsAccepted
<1>2. items \in [D -> D \cup {Top}]
  BY <1>1
<1> QED  BY <1>2 DEF Forest

-----------------------------------------------------------------------------
\* The queue of microtasks.
In(s, t) == \E i \in DOMAIN s : s[i] = t
Precedes(s, u, v) == \E i, j \in DOMAIN s : i < j /\ s[i] = u /\ s[j] = v
Once(s) == \A i, j \in DOMAIN s : s[i] = s[j] => i = j

LEMMA OnAppend ==
  ASSUME NEW S, NEW s \in Seq(S), NEW t \in S, Once(s), ~In(s, t)
  PROVE  /\ Append(s, t) \in Seq(S)
         /\ Once(Append(s, t))
         /\ \A u : In(Append(s, t), u) <=> In(s, u) \/ u = t
         /\ \A u, v : Precedes(Append(s, t), u, v) <=> Precedes(s, u, v) \/ (In(s, u) /\ v = t)
<1> DEFINE n == Len(s) + 1
           q == Append(s, t)
<1>1. /\ q \in Seq(S) /\ DOMAIN s = 1..Len(s) /\ Len(s) \in Nat
      /\ DOMAIN q = 1..n /\ q[n] = t
      /\ \A i \in DOMAIN s : q[i] = s[i]
  OBVIOUS
<1>2. \A i \in DOMAIN q : (i \in DOMAIN s /\ q[i] = s[i]) \/ (i = n /\ q[i] = t)
  BY <1>1
<1>3. \A i \in DOMAIN s : i < n /\ i \in DOMAIN q
  BY <1>1
<1>a. n \in DOMAIN q /\ n \notin DOMAIN s /\ n \in Int
  BY <1>1
<1> HIDE DEF q, n
<1>4. Once(q)
  BY <1>2 DEF Once, In
<1>5. \A u : In(q, u) <=> In(s, u) \/ u = t
  <2> TAKE u
  <2>1. In(q, u) => In(s, u) \/ u = t
    BY <1>2 DEF In
  <2>2. In(s, u) => In(q, u)
    BY <1>1, <1>3 DEF In
  <2>3. u = t => In(q, u)
    BY <1>1, <1>a DEF In
  <2> QED  BY <2>1, <2>2, <2>3
<1>6. \A u, v : Precedes(q, u, v) <=> Precedes(s, u, v) \/ (In(s, u) /\ v = t)
  <2> TAKE u, v
  <2>1. ASSUME Precedes(q, u, v)  PROVE Precedes(s, u, v) \/ (In(s, u) /\ v = t)
    <3>1. PICK i \in DOMAIN q, j \in DOMAIN q : i < j /\ q[i] = u /\ q[j] = v
      BY <2>1 DEF Precedes
    <3>2. i \in DOMAIN s
      BY <1>1, <1>2, <1>3, <3>1 DEF n
    <3>3. CASE j \in DOMAIN s
      BY <1>1, <3>1, <3>2, <3>3 DEF Precedes
    <3>4. CASE j \notin DOMAIN s
      BY <1>1, <1>2, <3>1, <3>2, <3>4 DEF In
    <3> QED  BY <3>3, <3>4
  <2>2. Precedes(s, u, v) => Precedes(q, u, v)
    BY <1>1, <1>3 DEF Precedes
  <2>3. In(s, u) /\ v = t => Precedes(q, u, v)
    BY <1>1, <1>3, <1>a DEF Precedes, In
  <2> QED  BY <2>1, <2>2, <2>3
<1> QED  BY <1>1, <1>4, <1>5, <1>6 DEF q

LEMMA OnTail ==
  ASSUME NEW S, NEW s \in Seq(S), s # <<>>, Once(s)
  PROVE  /\ Head(s) \in S /\ In(s, Head(s))
         /\ Tail(s) \in Seq(S)
         /\ Once(Tail(s))
         /\ \A u : In(Tail(s), u) <=> In(s, u) /\ u # Head(s)
         /\ \A u, v : Precedes(Tail(s), u, v) <=> Precedes(s, u, v) /\ u # Head(s)
         /\ \A u : In(s, u) /\ u # Head(s) => Precedes(s, Head(s), u)
<1> DEFINE q == Tail(s)
           h == Head(s)
<1>1. /\ q \in Seq(S) /\ DOMAIN s = 1..Len(s) /\ Len(s) \in Nat /\ Len(s) > 0
      /\ DOMAIN q = 1..(Len(s) - 1) /\ h = s[1] /\ h \in S
      /\ \A i \in DOMAIN q : q[i] = s[i + 1]
  OBVIOUS
<1>2. \A i \in DOMAIN q : i + 1 \in DOMAIN s /\ i + 1 # 1 /\ i \in Int
  BY <1>1
<1>3. \A i \in DOMAIN s : i = 1 \/ (i - 1 \in DOMAIN q /\ q[i - 1] = s[i])
  BY <1>1
<1>4. 1 \in DOMAIN s
  BY <1>1
<1>5. \A i \in DOMAIN s : i # 1 => s[i] # h /\ 1 < i
  BY <1>1, <1>4 DEF Once
<1> HIDE DEF q, h
<1>6. Once(q)
  BY <1>1, <1>2 DEF Once
<1>7. \A u : In(q, u) <=> In(s, u) /\ u # h
  <2> TAKE u
  <2>1. In(q, u) => In(s, u) /\ u # h
    BY <1>1, <1>2, <1>5 DEF In
  <2>2. In(s, u) /\ u # h => In(q, u)
    BY <1>1, <1>3 DEF In
  <2> QED  BY <2>1, <2>2
<1>8. \A u, v : Precedes(q, u, v) <=> Precedes(s, u, v) /\ u # h
  <2> TAKE u, v
  <2>1. ASSUME Precedes(q, u, v)  PROVE Precedes(s, u, v) /\ u # h
    <3>1. PICK i \in DOMAIN q, j \in DOMAIN q : i < j /\ q[i] = u /\ q[j] = v
      BY <2>1 DEF Precedes
    <3>2. i + 1 \in DOMAIN s /\ j + 1 \in DOMAIN s /\ i + 1 < j + 1 /\ s[i + 1] = u /\ s[j + 1] = v
      BY <1>1, <1>2, <3>1
    <3>3. u # h
      BY <1>2, <1>5, <3>1, <3>2
    <3> QED  BY <3>2, <3>3 DEF Precedes
  <2>2. ASSUME Precedes(s, u, v), u # h  PROVE Precedes(q, u, v)
    <3>1. PICK i \in DOMAIN s, j \in DOMAIN s : i < j /\ s[i] = u /\ s[j] = v
      BY <2>2 DEF Precedes
    <3>2. i # 1
      BY <1>1, <2>2, <3>1
    <3>3. i \in 1..Len(s) /\ j \in 1..Len(s) /\ j # 1
      BY <1>1, <3>1, <3>2
    <3>4. i - 1 \in DOMAIN q /\ j - 1 \in DOMAIN q /\ i - 1 < j - 1 /\ q[i - 1] = u /\ q[j - 1] = v
      BY <1>3, <3>1, <3>2, <3>3
    <3> QED  BY <3>4 DEF Precedes
  <2> QED  BY <2>1, <2>2
<1>9. \A u : In(s, u) /\ u # h => Precedes(s, h, u)
  BY <1>1, <1>4, <1>5 DEF In, Precedes
<1>10. In(s, h)
  BY <1>1, <1>4 DEF In
<1> QED  BY <1>1, <1>6, <1>7, <1>8, <1>9, <1>10 DEF q, h

LEMMA PrecedesIsIn ==
  \A s, u, v : Precedes(s, u, v) => In(s, u) /\ In(s, v)
BY DEF Precedes, In

-----------------------------------------------------------------------------
\* The records.
RecordKinds == {"checklist", "todo", "session_note"}

LEMMA KindsTell ==
  \A r \in MemoryRecord \cup {NoRecord} :
    /\ r.kind = "none" <=> r = NoRecord
    /\ r.kind # "none" <=> r \in MemoryRecord
    /\ r.kind \in RecordKinds <=> r \in MemoryRecord
BY DEF MemoryRecord, NoRecord, RecordKinds

\* What the module accepts, a sweep archives todos alone, and a note is never completed.
Sensible(r) ==
  /\ r.kind = "checklist" => Hung(r.items)
  /\ r.kind # "none" => (r.archivedAt => r.kind = "todo")
  /\ r.kind = "session_note" => r.status \in {"active", "archived"}

Sound == {r \in MemoryRecord : Sensible(r)}
SameKind(r, s) == r # NoRecord /\ s # NoRecord => r.kind = s.kind

Writing  == {"cache", "persist"}
Deleting == {"forget", "uncache"}
Embedding == {"embed", "clear", "add"}

CallIs(k) ==
  \/ k = IdleCall
  \/ /\ k.id \in Ids
     /\ \/ k.pc \in Writing \cup {"restore", "drop"} /\ k.record \in Sound
        \/ k.pc \in Deleting /\ k.record = NoRecord
        \/ k.pc \in Embedding /\ k.record \in Sound /\ k.record.kind = "session_note"
                              /\ k.record.status = "active"
        \/ k.pc = "unindex" /\ (k.record = NoRecord \/
             (k.record \in Sound /\ k.record.kind = "session_note" /\ k.record.status = "archived"))

CallStates == [pc: {"idle"} \cup InMemory \cup Indexing, id: Ids \cup {"none"},
               record: MemoryRecord \cup {NoRecord}]
SoundStores == [Ids -> Sound \cup {NoRecord}]

Holding ==
  /\ phase \in {"down", "up"}
  /\ wasm \in SoundStores /\ cache \in SoundStores /\ db \in SoundStores
  /\ vectors \in [Ids -> SUBSET AllTexts]
  /\ limit \in Nat \ {0}
  /\ calls \in [MemoryCalls -> CallStates]
  /\ \A t \in MemoryCalls : CallIs(calls[t])
  /\ snapshot \in [MemoryCalls -> SoundStores]
  /\ starts \in 0..MaxStarts
  /\ disturbed \subseteq Ids /\ blurred \subseteq Ids
  /\ phase = "down" => \A t \in MemoryCalls : calls[t] = IdleCall

Queueing ==
  /\ ticks \in Seq(MemoryCalls)
  /\ Once(ticks)
  /\ \A t \in MemoryCalls : calls[t].pc \in InMemory <=> In(ticks, t)

-----------------------------------------------------------------------------
\* What a row parses to is the record, or nothing.
LEMMA ParsedIs ==
  /\ Parsed(NoRecord) = NoRecord
  /\ \A x : Parsed(x) \in {x, NoRecord}
  /\ \A store : DOMAIN Loaded(store) = Ids
  /\ \A store : \A id \in Ids : Loaded(store)[id] = Parsed(store[id])
BY DEF Parsed, Loaded

LEMMA LoadedIsSound ==
  ASSUME NEW store \in SoundStores
  PROVE  Loaded(store) \in SoundStores
<1>1. \A id \in Ids : Parsed(store[id]) \in Sound \cup {NoRecord}
  BY ParsedIs DEF SoundStores
<1> QED  BY <1>1 DEF Loaded, SoundStores

\* Every call that writes begins with a record that was accepted, under an id that is new
\* or has a record of that kind in the module.
Begins(t, id, r) ==
  /\ MayBegin(t) /\ BeginCall(t, id, r)
  /\ FreshId(id) \/ (wasm[id] # NoRecord /\ wasm[id].kind = r.kind)

Writes(t, id) ==
  \/ CreateChecklist(t, id) \/ CreateTodo(t, id) \/ CreateSessionNote(t, id)
  \/ HandOffPlan(t, id) \/ ArchiveNote(t, id)
  \/ UpdateChecklist(t, id) \/ UpdateTodo(t, id) \/ UpdateNote(t, id)
  \/ \E item \in Items : AddItem(t, id, item) \/ UpdateItem(t, id, item)

LEMMA PlainIsRecord ==
  ASSUME NEW s \in Scopes, NEW k \in RecordKinds
  PROVE  /\ Plain(k, s) \in MemoryRecord /\ Plain(k, s).kind = k
         /\ Plain(k, s).status = "active" /\ ~Plain(k, s).archivedAt
         /\ Plain(k, s).text \in Texts
<1>1. (CHOOSE x \in ChecklistSlugs : TRUE) \in ChecklistSlugs /\ (CHOOSE x \in Texts : TRUE) \in Texts
  BY MemoryAssumption
<1>2. [i \in {} |-> Top] \in Forest
  <2>1. [i \in {} |-> Top] \in [{} -> {} \cup {Top}]
    OBVIOUS
  <2>2. {} \in SUBSET Items
    OBVIOUS
  <2> QED  BY <2>1, <2>2 DEF Forest
<1> QED  BY <1>1, <1>2 DEF Plain, MemoryRecord, RecordKinds, AllTexts

LEMMA NewChecklist ==
  ASSUME NEW id \in Ids, NEW s \in Scopes, NEW slug \in ChecklistSlugs, NEW items \in SUBSET Items,
         NEW text \in AllTexts,
         NEW r, r = [Plain("checklist", s) EXCEPT !.slug = slug, !.text = text,
                                                  !.items = [i \in items |-> Top]],
         Accepted(id, r)
  PROVE  r \in Sound /\ r.kind = "checklist"
<1> DEFINE p == Plain("checklist", s)
           new == [i \in items |-> Top]
<1>1. p \in MemoryRecord /\ p.kind = "checklist" /\ ~p.archivedAt
  BY PlainIsRecord DEF RecordKinds
<1>2. new \in Forest
  <2>1. new \in [items -> items \cup {Top}]
    OBVIOUS
  <2> QED  BY <2>1 DEF Forest
<1> HIDE DEF p, new
<1>3. r = [p EXCEPT !.slug = slug, !.text = text, !.items = new]
  BY DEF p, new
<1>4. r \in MemoryRecord /\ r.kind = "checklist" /\ r.items = new /\ ~r.archivedAt
  BY <1>1, <1>2, <1>3 DEF MemoryRecord
<1>5. Hung(new)
  BY <1>4, AcceptedIsHung DEF Accepted, new
<1> QED  BY <1>4, <1>5 DEF Sound, Sensible

\* A checklist whose items change, or do not.
LEMMA ChangedItems ==
  ASSUME NEW id \in Ids, NEW w \in Sound, w.kind = "checklist", NEW r, Accepted(id, r),
         NEW items, items = [i \in DOMAIN items |-> items[i]], DOMAIN items \subseteq Items,
         NEW text \in AllTexts, r = [w EXCEPT !.text = text, !.items = items]
  PROVE  r \in Sound /\ r.kind = "checklist"
<1>1. r.kind = "checklist" /\ r.items = items /\ r.archivedAt = w.archivedAt
  BY DEF Sound, MemoryRecord
<1>2. ItemsAccepted(items)
  BY <1>1 DEF Accepted
<1>3. items \in Forest /\ Hung(items)
  BY <1>2, AcceptedIsForest, AcceptedIsHung
<1>4. r \in MemoryRecord
  BY <1>3 DEF Sound, MemoryRecord
<1> QED  BY <1>1, <1>3, <1>4 DEF Sound, Sensible

LEMMA ItemsOf ==
  ASSUME NEW w \in Sound
  PROVE  DOMAIN w.items \subseteq Items /\ w.items = [i \in DOMAIN w.items |-> w.items[i]]
<1>1. w.items \in Forest
  BY DEF Sound, MemoryRecord
<1> QED  BY <1>1 DEF Forest

LEMMA WritesBegin ==
  ASSUME Holding, NEW t \in MemoryCalls, NEW id \in Ids, Writes(t, id)
  PROVE  \E r \in Sound : Begins(t, id, r)
<1> USE DEF Begins
<1>0. /\ wasm[id] \in Sound \cup {NoRecord} /\ cache[id] \in Sound \cup {NoRecord}
      /\ NoRecord.kind = "none"
  BY DEF Holding, SoundStores, NoRecord
<1>w. ASSUME wasm[id].kind \in RecordKinds  PROVE wasm[id] \in Sound /\ wasm[id] # NoRecord
  BY <1>0, <1>w DEF RecordKinds
<1>c. ASSUME cache[id].kind \in RecordKinds  PROVE cache[id] \in Sound
  BY <1>0, <1>c DEF RecordKinds
<1>1. CASE CreateChecklist(t, id) \/ HandOffPlan(t, id)
  <2>1. PICK s \in Scopes, slug \in ChecklistSlugs, items \in SUBSET Items, text \in AllTexts :
          BeginCall(t, id, [Plain("checklist", s) EXCEPT !.slug = slug, !.text = text,
                                                         !.items = [i \in items |-> Top]])
    <3>1. CASE CreateChecklist(t, id)
      BY <3>1 DEF CreateChecklist
    <3>2. CASE HandOffPlan(t, id)
      <4>1. PICK s \in Scopes, slug \in ChecklistSlugs, items \in SUBSET Items :
              BeginCall(t, id, [Plain("checklist", s) EXCEPT !.slug = slug, !.items = [i \in items |-> Top]])
        BY <3>2 DEF HandOffPlan
      <4> DEFINE p == Plain("checklist", s)
                 new == [i \in items |-> Top]
      <4>2. p \in MemoryRecord /\ p.text \in AllTexts
        BY PlainIsRecord DEF RecordKinds, AllTexts
      <4>3. [p EXCEPT !.slug = slug, !.items = new]
              = [p EXCEPT !.slug = slug, !.text = p.text, !.items = new]
        <5> HIDE DEF p, new
        <5> QED  BY <4>2 DEF MemoryRecord
      <4> QED  BY <4>1, <4>2, <4>3
    <3> QED  BY <1>1, <3>1, <3>2
  <2> DEFINE r == [Plain("checklist", s) EXCEPT !.slug = slug, !.text = text,
                                                !.items = [i \in items |-> Top]]
  <2>2. BeginCall(t, id, r)
    BY <2>1
  <2> HIDE DEF r
  <2>3. Accepted(id, r)
    BY <2>2 DEF BeginCall
  <2>4. r \in Sound
    BY <2>3, NewChecklist DEF r
  <2> QED  BY <1>1, <2>2, <2>4 DEF CreateChecklist, HandOffPlan
<1>2. CASE CreateTodo(t, id)
  <2>1. PICK s \in Scopes, text \in AllTexts : BeginCall(t, id, [Plain("todo", s) EXCEPT !.text = text])
    BY <1>2 DEF CreateTodo
  <2> DEFINE p == Plain("todo", s)
             r == [p EXCEPT !.text = text]
  <2>2. p \in MemoryRecord /\ p.kind = "todo" /\ ~p.archivedAt
    BY PlainIsRecord DEF RecordKinds
  <2>3. r \in Sound
    <3> HIDE DEF p
    <3> QED  BY <2>2 DEF Sound, Sensible, MemoryRecord
  <2> QED  BY <1>2, <2>1, <2>3 DEF CreateTodo
<1>3. CASE CreateSessionNote(t, id)
  <2>1. PICK s \in Scopes, text \in Texts : BeginCall(t, id, [Plain("session_note", s) EXCEPT !.text = text])
    BY <1>3 DEF CreateSessionNote
  <2> DEFINE p == Plain("session_note", s)
             r == [p EXCEPT !.text = text]
  <2>2. p \in MemoryRecord /\ p.kind = "session_note" /\ ~p.archivedAt /\ p.status = "active"
    BY PlainIsRecord DEF RecordKinds
  <2>3. r \in Sound
    <3> HIDE DEF p
    <3> QED  BY <2>2 DEF Sound, Sensible, MemoryRecord, AllTexts
  <2> QED  BY <1>3, <2>1, <2>3 DEF CreateSessionNote
<1>4. CASE ArchiveNote(t, id)
  <2> DEFINE r == [cache[id] EXCEPT !.status = "archived"]
  <2>1. cache[id] \in Sound /\ wasm[id] # NoRecord /\ cache[id].kind = "session_note" /\ wasm[id].kind = "session_note"
    BY <1>4, <1>w, <1>c DEF ArchiveNote, Known, RecordKinds
  <2>2. r \in Sound /\ r.kind = "session_note"
    BY <2>1 DEF Sound, Sensible, MemoryRecord
  <2> QED  BY <1>4, <2>1, <2>2 DEF ArchiveNote
<1>5. CASE UpdateChecklist(t, id)
  <2>1. PICK slug \in ChecklistSlugs, text \in AllTexts, status \in {"active", "archived"} :
          BeginCall(t, id, [cache[id] EXCEPT !.slug = slug, !.text = text, !.status = status])
    BY <1>5 DEF UpdateChecklist
  <2> DEFINE r == [cache[id] EXCEPT !.slug = slug, !.text = text, !.status = status]
  <2>2. cache[id] \in Sound /\ wasm[id] # NoRecord /\ cache[id].kind = "checklist" /\ wasm[id].kind = "checklist"
    BY <1>5, <1>w, <1>c DEF UpdateChecklist, Known, RecordKinds
  <2>3. r \in Sound /\ r.kind = "checklist"
    BY <2>2 DEF Sound, Sensible, MemoryRecord
  <2> QED  BY <1>5, <2>1, <2>2, <2>3 DEF UpdateChecklist
<1>6. CASE UpdateTodo(t, id)
  <2>1. PICK text \in AllTexts, status \in {"active", "completed"} :
          BeginCall(t, id, [cache[id] EXCEPT !.text = text, !.status = status])
    BY <1>6 DEF UpdateTodo
  <2> DEFINE r == [cache[id] EXCEPT !.text = text, !.status = status]
  <2>2. cache[id] \in Sound /\ wasm[id] # NoRecord /\ cache[id].kind = "todo" /\ wasm[id].kind = "todo"
    BY <1>6, <1>w, <1>c DEF UpdateTodo, Known, RecordKinds
  <2>3. r \in Sound /\ r.kind = "todo"
    BY <2>2 DEF Sound, Sensible, MemoryRecord
  <2> QED  BY <1>6, <2>1, <2>2, <2>3 DEF UpdateTodo
<1>7. CASE UpdateNote(t, id)
  <2>1. PICK s \in Scopes, text \in AllTexts, status \in {"active", "archived"} :
          BeginCall(t, id, [cache[id] EXCEPT !.scope = s, !.text = text, !.status = status])
    BY <1>7 DEF UpdateNote
  <2> DEFINE r == [cache[id] EXCEPT !.scope = s, !.text = text, !.status = status]
  <2>2. cache[id] \in Sound /\ wasm[id] # NoRecord /\ cache[id].kind = "session_note" /\ wasm[id].kind = "session_note"
    BY <1>7, <1>w, <1>c DEF UpdateNote, Known, RecordKinds
  <2>3. r \in Sound /\ r.kind = "session_note"
    BY <2>2 DEF Sound, Sensible, MemoryRecord
  <2> QED  BY <1>7, <2>1, <2>2, <2>3 DEF UpdateNote
<1>8. ASSUME NEW item \in Items, AddItem(t, id, item) \/ UpdateItem(t, id, item)
      PROVE  \E r \in Sound : Begins(t, id, r)
  <2>1. wasm[id] \in Sound /\ wasm[id] # NoRecord /\ wasm[id].kind = "checklist"
    BY <1>8, <1>w DEF AddItem, UpdateItem, RecordKinds
  <2>2. PICK parent, text : /\ text \in AllTexts
                            /\ BeginCall(t, id, [wasm[id] EXCEPT !.text = text, !.items = Put(wasm[id].items, item, parent)])
    <3>1. wasm[id].text \in AllTexts /\ Blank \in AllTexts
      BY <2>1 DEF Sound, MemoryRecord, AllTexts
    <3> QED  BY <1>8, <3>1 DEF AddItem, UpdateItem
  <2> DEFINE new == Put(wasm[id].items, item, parent)
             r == [wasm[id] EXCEPT !.text = text, !.items = new]
  <2>3. new = [i \in DOMAIN new |-> new[i]] /\ DOMAIN new \subseteq Items
    BY <2>1, ItemsOf DEF Put
  <2>4. BeginCall(t, id, r)
    BY <2>2
  <2> HIDE DEF new
  <2>5. Accepted(id, r)
    BY <2>4 DEF BeginCall
  <2>6. r \in Sound /\ r.kind = "checklist"
    BY <2>1, <2>2, <2>3, <2>5, ChangedItems
  <2>7. MayBegin(t)
    BY <1>8 DEF AddItem, UpdateItem
  <2> QED  BY <2>1, <2>4, <2>6, <2>7
<1> QED  BY <1>1, <1>2, <1>3, <1>4, <1>5, <1>6, <1>7, <1>8 DEF Writes

-----------------------------------------------------------------------------
\* Steps of the queue.
Before(u, v) == Precedes(ticks, u, v)

LEMMA QueueAppends ==
  ASSUME Queueing, calls \in [MemoryCalls -> CallStates], NEW t \in MemoryCalls, NEW k,
         calls[t].pc \notin InMemory, k.pc \in InMemory,
         calls' = [calls EXCEPT ![t] = k], ticks' = Append(ticks, t)
  PROVE  /\ Queueing'
         /\ \A u \in MemoryCalls, v \in MemoryCalls :
              Before(u, v)' <=> Before(u, v) \/ (calls[u].pc \in InMemory /\ v = t)
<1>1. /\ ticks \in Seq(MemoryCalls) /\ Once(ticks) /\ ~In(ticks, t)
      /\ \A u \in MemoryCalls : calls[u].pc \in InMemory <=> In(ticks, u)
  BY DEF Queueing
<1>2. /\ ticks' \in Seq(MemoryCalls) /\ Once(ticks')
      /\ \A u : In(ticks', u) <=> In(ticks, u) \/ u = t
      /\ \A u, v : Precedes(ticks', u, v) <=> Precedes(ticks, u, v) \/ (In(ticks, u) /\ v = t)
  BY <1>1, OnAppend
<1>3. calls'[t] = k /\ \A u \in MemoryCalls \ {t} : calls'[u] = calls[u]
  OBVIOUS
<1>4. \A u \in MemoryCalls : calls'[u].pc \in InMemory <=> In(ticks', u)
  BY <1>1, <1>2, <1>3
<1> QED  BY <1>1, <1>2, <1>4 DEF Queueing, Before

LEMMA QueueHead ==
  ASSUME Queueing, NEW t \in MemoryCalls, NEW pc, Turn(t, pc)
  PROVE  /\ calls[t].pc \in InMemory
         /\ \A u \in MemoryCalls : calls[u].pc \in InMemory /\ u # t => Before(t, u)
BY OnTail DEF Queueing, Turn, Before

LEMMA QueuePops ==
  ASSUME Queueing, calls \in [MemoryCalls -> CallStates], NEW t \in MemoryCalls, NEW k, NEW pc,
         Turn(t, pc), k.pc \notin InMemory,
         calls' = [calls EXCEPT ![t] = k], ticks' = Tail(ticks)
  PROVE  /\ Queueing'
         /\ \A u \in MemoryCalls, v \in MemoryCalls : Before(u, v)' <=> Before(u, v) /\ u # t
<1>1. /\ ticks \in Seq(MemoryCalls) /\ Once(ticks) /\ ticks # <<>> /\ Head(ticks) = t
      /\ \A u \in MemoryCalls : calls[u].pc \in InMemory <=> In(ticks, u)
  BY DEF Queueing, Turn
<1>2. /\ ticks' \in Seq(MemoryCalls) /\ Once(ticks')
      /\ \A u : In(ticks', u) <=> In(ticks, u) /\ u # t
      /\ \A u, v : Precedes(ticks', u, v) <=> Precedes(ticks, u, v) /\ u # t
  BY <1>1, OnTail
<1>3. calls'[t] = k /\ \A u \in MemoryCalls \ {t} : calls'[u] = calls[u]
  OBVIOUS
<1>4. \A u \in MemoryCalls : calls'[u].pc \in InMemory <=> In(ticks', u)
  BY <1>1, <1>2, <1>3
<1> QED  BY <1>1, <1>2, <1>4 DEF Queueing, Before

LEMMA QueueRotates ==
  ASSUME Queueing, calls \in [MemoryCalls -> CallStates], NEW t \in MemoryCalls, NEW k, NEW pc,
         Turn(t, pc), k.pc \in InMemory,
         calls' = [calls EXCEPT ![t] = k], ticks' = Append(Tail(ticks), t)
  PROVE  /\ Queueing'
         /\ \A u \in MemoryCalls, v \in MemoryCalls :
              Before(u, v)' <=> u # t /\ (Before(u, v) \/ (calls[u].pc \in InMemory /\ v = t))
<1>1. /\ ticks \in Seq(MemoryCalls) /\ Once(ticks) /\ ticks # <<>> /\ Head(ticks) = t
      /\ \A u \in MemoryCalls : calls[u].pc \in InMemory <=> In(ticks, u)
  BY DEF Queueing, Turn
<1> DEFINE q == Tail(ticks)
<1>2. /\ q \in Seq(MemoryCalls) /\ Once(q)
      /\ \A u : In(q, u) <=> In(ticks, u) /\ u # t
      /\ \A u, v : Precedes(q, u, v) <=> Precedes(ticks, u, v) /\ u # t
      /\ In(ticks, t)
  BY <1>1, OnTail
<1>3. ticks' = Append(q, t)
  OBVIOUS
<1> HIDE DEF q
<1>a. q \in Seq(MemoryCalls) /\ Once(q) /\ ~In(q, t)
  BY <1>2
<1>4. /\ Append(q, t) \in Seq(MemoryCalls) /\ Once(Append(q, t))
      /\ \A u : In(Append(q, t), u) <=> In(q, u) \/ u = t
      /\ \A u, v : Precedes(Append(q, t), u, v) <=> Precedes(q, u, v) \/ (In(q, u) /\ v = t)
  BY <1>a, OnAppend
<1>5. calls'[t] = k /\ \A u \in MemoryCalls \ {t} : calls'[u] = calls[u]
  OBVIOUS
<1>6. \A u \in MemoryCalls : calls'[u].pc \in InMemory <=> In(ticks', u)
  BY <1>1, <1>2, <1>3, <1>4, <1>5
<1>7. Queueing'
  BY <1>3, <1>4, <1>6 DEF Queueing
<1>8. ASSUME NEW u \in MemoryCalls, NEW v \in MemoryCalls
      PROVE  Precedes(ticks', u, v) <=> u # t /\ (Precedes(ticks, u, v) \/ (calls[u].pc \in InMemory /\ v = t))
  <2>1. Precedes(ticks', u, v) <=> Precedes(q, u, v) \/ (In(q, u) /\ v = t)
    BY <1>3, <1>4
  <2>2. Precedes(q, u, v) <=> Precedes(ticks, u, v) /\ u # t
    BY <1>2
  <2>3. In(q, u) <=> calls[u].pc \in InMemory /\ u # t
    BY <1>1, <1>2
  <2> QED  BY <2>1, <2>2, <2>3
<1> QED  BY <1>7, <1>8 DEF Before

LEMMA QueueStays ==
  ASSUME Queueing, calls \in [MemoryCalls -> CallStates], NEW t \in MemoryCalls, NEW k,
         calls[t].pc \notin InMemory, k.pc \notin InMemory,
         calls' = [calls EXCEPT ![t] = k], ticks' = ticks
  PROVE  /\ Queueing'
         /\ \A u \in MemoryCalls, v \in MemoryCalls : Before(u, v)' <=> Before(u, v)
<1>1. calls'[t] = k /\ \A u \in MemoryCalls \ {t} : calls'[u] = calls[u]
  OBVIOUS
<1> QED  BY <1>1 DEF Queueing, Before

LEMMA QueueEmpties ==
  ASSUME ticks' = <<>>, calls' = [u \in MemoryCalls |-> IdleCall]
  PROVE  Queueing'
<1>1. \A u \in MemoryCalls : calls'[u].pc = "idle"
  BY DEF IdleCall
<1>2. DOMAIN ticks' = {} /\ ticks' \in Seq(MemoryCalls)
  OBVIOUS
<1> QED  BY <1>1, <1>2 DEF Queueing, Once, In, InMemory

LEMMA BeforeIsInMemory ==
  ASSUME Queueing
  PROVE  \A u \in MemoryCalls, v \in MemoryCalls :
           Before(u, v) => calls[u].pc \in InMemory /\ calls[v].pc \in InMemory
BY PrecedesIsIn DEF Queueing, Before

-----------------------------------------------------------------------------
\* Steps of the stores.
LEMMA HoldingFrame ==
  ASSUME Holding, NEW t \in MemoryCalls, NEW k \in CallStates, CallIs(k),
         calls' = [calls EXCEPT ![t] = k], phase = "up", phase' = phase,
         wasm' \in SoundStores, cache' \in SoundStores, db' \in SoundStores,
         vectors' \in [Ids -> SUBSET AllTexts], limit' \in Nat \ {0},
         snapshot' \in [MemoryCalls -> SoundStores], starts' \in 0..MaxStarts,
         disturbed' \subseteq Ids, blurred' \subseteq Ids
  PROVE  Holding'
<1>1. calls'[t] = k /\ \A u \in MemoryCalls \ {t} : calls'[u] = calls[u]
  BY DEF Holding
<1>2. calls' \in [MemoryCalls -> CallStates]
  BY DEF Holding
<1>3. \A u \in MemoryCalls : CallIs(calls'[u])
  BY <1>1 DEF Holding
<1> QED  BY <1>2, <1>3 DEF Holding

LEMMA StoreTakes ==
  ASSUME NEW store \in SoundStores, NEW id, NEW r \in Sound \cup {NoRecord}
  PROVE  [store EXCEPT ![id] = r] \in SoundStores
BY DEF SoundStores

\* What the state of a call says.
LEMMA CallAt ==
  ASSUME Holding, NEW t \in MemoryCalls, calls[t].pc # "idle"
  PROVE  /\ phase = "up" /\ calls[t] \in CallStates /\ CallIs(calls[t])
         /\ calls[t].id \in Ids
         /\ calls[t].record \in Sound \cup {NoRecord}
         /\ calls[t].pc \in Writing \cup Embedding \cup {"restore", "drop"} => calls[t].record \in Sound
         /\ calls[t].pc \in Deleting => calls[t].record = NoRecord
         /\ calls[t].pc \in Embedding =>
              calls[t].record.kind = "session_note" /\ calls[t].record.status = "active"
<1>1. calls[t] # IdleCall /\ CallIs(calls[t])
  BY DEF Holding, IdleCall
<1>2. phase = "up" /\ calls[t] \in CallStates
  BY <1>1 DEF Holding
<1> QED  BY <1>1, <1>2 DEF CallIs, Writing, Embedding, Deleting

LEMMA CallMoves ==
  ASSUME Holding, NEW t \in MemoryCalls, calls[t].pc # "idle", NEW pc \in InMemory \cup Indexing
  PROVE  /\ [calls EXCEPT ![t].pc = pc] = [calls EXCEPT ![t] = [calls[t] EXCEPT !.pc = pc]]
         /\ [calls[t] EXCEPT !.pc = pc] \in CallStates
         /\ [calls[t] EXCEPT !.pc = pc].pc = pc
         /\ [calls[t] EXCEPT !.pc = pc].id = calls[t].id
         /\ [calls[t] EXCEPT !.pc = pc].record = calls[t].record
<1>1. calls[t] \in CallStates
  BY DEF Holding
<1> QED  BY <1>1 DEF CallStates

LEMMA IdleIsCall == IdleCall \in CallStates /\ CallIs(IdleCall) /\ IdleCall.pc = "idle"
BY DEF IdleCall, CallStates, CallIs, NoRecord

LEMMA HoldingBegins ==
  ASSUME Holding, NEW t \in MemoryCalls, NEW id \in Ids, NEW r \in Sound, Begins(t, id, r)
  PROVE  Holding'
<1> DEFINE k == [pc |-> "cache", id |-> id, record |-> r]
<1>1. phase = "up" /\ starts + 1 \in 0..MaxStarts
  BY MemoryAssumption DEF Begins, MayBegin, Holding
<1>2. k \in CallStates /\ CallIs(k)
  BY DEF CallStates, CallIs, InMemory, Writing, Sound
<1>3. wasm' \in SoundStores
  BY StoreTakes DEF Begins, BeginCall, Holding
<1> QED  BY <1>1, <1>2, <1>3, HoldingFrame DEF Begins, BeginCall, Holding

LEMMA HoldingDelete ==
  ASSUME Holding, NEW t \in MemoryCalls, NEW id \in Ids, DeleteRecord(t, id)
  PROVE  Holding'
<1> DEFINE k == [pc |-> "forget", id |-> id, record |-> NoRecord]
<1>1. phase = "up" /\ starts + 1 \in 0..MaxStarts
  BY MemoryAssumption DEF DeleteRecord, MayBegin, Holding
<1>2. k \in CallStates /\ CallIs(k)
  BY DEF CallStates, CallIs, InMemory, Deleting
<1>3. db' \in SoundStores
  BY StoreTakes DEF DeleteRecord, Holding
<1> QED  BY <1>1, <1>2, <1>3, HoldingFrame DEF DeleteRecord, Holding

\* A step of a call in memory that goes on at pc: the call that results.
Goes(t, pc) == [calls[t] EXCEPT !.pc = pc]

LEMMA GoesOn ==
  ASSUME Holding, NEW t \in MemoryCalls, calls[t].pc # "idle", NEW pc \in InMemory \cup Indexing,
         GoOn(t, pc)
  PROVE  /\ calls' = [calls EXCEPT ![t] = Goes(t, pc)]
         /\ Goes(t, pc) \in CallStates
         /\ Goes(t, pc).pc = pc /\ Goes(t, pc).id = calls[t].id /\ Goes(t, pc).record = calls[t].record
         /\ calls[t].id \in Ids /\ phase = "up" /\ phase' = phase /\ starts' = starts
         /\ calls[t].record \in Sound \cup {NoRecord}
BY CallMoves, CallAt DEF GoOn, Goes

LEMMA HoldingInMemory ==
  ASSUME Holding, NEW t \in MemoryCalls,
         \/ SetCache(t) \/ Persist(t) \/ RollBack(t) \/ Restore(t)
         \/ RollBackFails(t) \/ DropFromCache(t) \/ Forget(t) \/ Uncache(t)
  PROVE  Holding'
<1> DEFINE id == calls[t].id
           r == calls[t].record
<1>0. /\ wasm \in SoundStores /\ cache \in SoundStores /\ db \in SoundStores
      /\ vectors \in [Ids -> SUBSET AllTexts] /\ limit \in Nat \ {0}
      /\ snapshot \in [MemoryCalls -> SoundStores] /\ starts \in 0..MaxStarts
      /\ disturbed \subseteq Ids /\ blurred \subseteq Ids
      /\ DefaultDepth \in Nat \ {0}
  BY DEF Holding, DefaultDepth
<1>1. CASE SetCache(t)
  <2>1. calls[t].pc = "cache" /\ GoOn(t, "persist")
    BY <1>1 DEF SetCache, Turn
  <2>2. r \in Sound /\ id \in Ids
    BY <2>1, CallAt DEF Writing
  <2>3. CallIs(Goes(t, "persist"))
    BY <2>1, <2>2, GoesOn DEF CallIs, Writing, InMemory
  <2>4. cache' \in SoundStores
    BY <1>0, <1>1, <2>2, StoreTakes DEF SetCache
  <2> QED  BY <1>0, <1>1, <2>1, <2>3, <2>4, GoesOn, HoldingFrame DEF SetCache, history, InMemory
<1>2. CASE Persist(t)
  <2>1. calls[t].pc = "persist" /\ phase = "up"
    BY <1>2, CallAt DEF Persist, Turn
  <2>2. r \in Sound /\ id \in Ids
    BY <2>1, CallAt DEF Writing
  <2>3. db' \in SoundStores
    BY <1>0, <1>2, <2>2, StoreTakes DEF Persist
  <2>4. blurred' \subseteq Ids
    BY <1>0, <1>2, <2>2 DEF Persist, Blurring
  <2>5. CASE r.kind # "session_note"
    BY <1>0, <1>2, <2>1, <2>3, <2>4, <2>5, IdleIsCall, HoldingFrame DEF Persist, End, memory
  <2>6. CASE r.kind = "session_note" /\ r.status = "archived"
    <3>1. GoOn(t, "unindex")
      BY <1>2, <2>6 DEF Persist
    <3>2. CallIs(Goes(t, "unindex"))
      BY <2>1, <2>2, <2>6, <3>1, GoesOn DEF CallIs, Indexing
    <3> QED  BY <1>0, <1>2, <2>1, <2>3, <2>4, <3>1, <3>2, GoesOn, HoldingFrame DEF Persist, memory, Indexing
  <2>7. CASE r.kind = "session_note" /\ r.status # "archived"
    <3>1. GoOn(t, "embed")
      BY <1>2, <2>7 DEF Persist
    <3>2. CallIs(Goes(t, "embed"))
      BY <2>1, <2>2, <2>7, <3>1, GoesOn DEF CallIs, Indexing, Embedding, Sound, Sensible
    <3> QED  BY <1>0, <1>2, <2>1, <2>3, <2>4, <3>1, <3>2, GoesOn, HoldingFrame DEF Persist, memory, Indexing
  <2> QED  BY <2>5, <2>6, <2>7
<1>3. CASE RollBack(t)
  <2>1. calls[t].pc = "persist" /\ GoOn(t, "restore")
    BY <1>3 DEF RollBack, Turn
  <2>2. r \in Sound /\ id \in Ids
    BY <2>1, CallAt DEF Writing
  <2>3. CallIs(Goes(t, "restore"))
    BY <2>1, <2>2, GoesOn DEF CallIs, Writing, InMemory
  <2>4. snapshot' \in [MemoryCalls -> SoundStores] /\ wasm' \in SoundStores
    BY <1>0, <1>3, LoadedIsSound DEF RollBack
  <2>5. Unsaved(t) \subseteq Ids
    <3>1. \A u \in MemoryCalls : calls[u].pc \in {"cache", "persist"} => calls[u].id \in Ids
      BY CallAt
    <3> QED  BY <3>1 DEF Unsaved
  <2> QED  BY <1>0, <1>3, <2>1, <2>3, <2>4, <2>5, GoesOn, HoldingFrame DEF RollBack, InMemory
<1>4. CASE Restore(t)
  <2>1. calls[t].pc = "restore" /\ phase = "up"
    BY <1>4, CallAt DEF Restore, Turn
  <2>2. cache' \in SoundStores
    BY <1>0, <1>4 DEF Restore
  <2>3. Nothing \in SoundStores
    BY DEF Nothing, SoundStores
  <2>4. snapshot' \in [MemoryCalls -> SoundStores]
    BY <1>0, <1>4, <2>3 DEF Restore
  <2> QED  BY <1>0, <1>4, <2>1, <2>2, <2>4, IdleIsCall, HoldingFrame DEF Restore, End, history
<1>5. CASE RollBackFails(t)
  <2>1. calls[t].pc = "persist" /\ GoOn(t, "drop")
    BY <1>5 DEF RollBackFails, Turn
  <2>2. r \in Sound /\ id \in Ids
    BY <2>1, CallAt DEF Writing
  <2>3. CallIs(Goes(t, "drop"))
    BY <2>1, <2>2, GoesOn DEF CallIs, Writing, InMemory
  <2>4. wasm' \in SoundStores
    BY <1>0, <1>5, StoreTakes DEF RollBackFails
  <2> QED  BY <1>0, <1>5, <2>1, <2>2, <2>3, <2>4, GoesOn, HoldingFrame DEF RollBackFails, InMemory
<1>6. CASE DropFromCache(t)
  <2>1. calls[t].pc = "drop" /\ phase = "up"
    BY <1>6, CallAt DEF DropFromCache, Turn
  <2>2. cache' \in SoundStores
    BY <1>0, <1>6, StoreTakes DEF DropFromCache
  <2> QED  BY <1>0, <1>6, <2>1, <2>2, IdleIsCall, HoldingFrame DEF DropFromCache, End, history
<1>7. CASE Forget(t)
  <2>1. calls[t].pc = "forget" /\ GoOn(t, "uncache")
    BY <1>7 DEF Forget, Turn
  <2>2. r = NoRecord /\ id \in Ids
    BY <2>1, CallAt DEF Deleting
  <2>3. CallIs(Goes(t, "uncache"))
    BY <2>1, <2>2, GoesOn DEF CallIs, Deleting, InMemory
  <2>4. wasm' \in SoundStores
    BY <1>0, <1>7, StoreTakes DEF Forget
  <2> QED  BY <1>0, <1>7, <2>1, <2>3, <2>4, GoesOn, HoldingFrame DEF Forget, InMemory, history
<1>8. CASE Uncache(t)
  <2>1. calls[t].pc = "uncache" /\ GoOn(t, "unindex")
    BY <1>8 DEF Uncache, Turn
  <2>2. r = NoRecord /\ id \in Ids
    BY <2>1, CallAt DEF Deleting
  <2>3. CallIs(Goes(t, "unindex"))
    BY <2>1, <2>2, GoesOn DEF CallIs, Indexing
  <2>4. cache' \in SoundStores
    BY <1>0, <1>8, StoreTakes DEF Uncache
  <2>5. blurred' \subseteq Ids
    BY <1>0, <1>8, <2>2 DEF Uncache, Blurring
  <2> QED  BY <1>0, <1>8, <2>1, <2>3, <2>4, <2>5, GoesOn, HoldingFrame DEF Uncache, Indexing
<1> QED  BY <1>1, <1>2, <1>3, <1>4, <1>5, <1>6, <1>7, <1>8

LEMMA HoldingIndexing ==
  ASSUME Holding, NEW t \in MemoryCalls,
         EmbedNote(t) \/ Clear(t) \/ AddVector(t) \/ Unindex(t) \/ IndexFails(t)
  PROVE  Holding'
<1> DEFINE id == calls[t].id
           r == calls[t].record
<1>0. /\ wasm \in SoundStores /\ cache \in SoundStores /\ db \in SoundStores
      /\ vectors \in [Ids -> SUBSET AllTexts] /\ limit \in Nat \ {0}
      /\ snapshot \in [MemoryCalls -> SoundStores] /\ starts \in 0..MaxStarts
      /\ disturbed \subseteq Ids /\ blurred \subseteq Ids
  BY DEF Holding
<1>1. calls[t].pc \in Indexing /\ calls[t].pc # "idle" /\ id \in Ids /\ phase = "up"
  BY CallAt DEF EmbedNote, Clear, AddVector, Unindex, IndexFails, Indexing
<1>2. CASE EmbedNote(t)
  <2>1. calls[t].pc = "embed" /\ Indexed(t, "clear", vectors[id])
    BY <1>2 DEF EmbedNote
  <2>2. calls' = [calls EXCEPT ![t] = Goes(t, "clear")]
    BY <2>1 DEF Indexed, Goes, Holding
  <2>3. /\ Goes(t, "clear") \in CallStates /\ Goes(t, "clear").pc = "clear"
        /\ Goes(t, "clear").id = id /\ Goes(t, "clear").record = r
    BY <1>1, CallMoves DEF Indexing, Goes
  <2>4. r \in Sound /\ r.kind = "session_note" /\ r.status = "active"
    BY <1>1, <2>1, CallAt DEF Embedding
  <2>5. CallIs(Goes(t, "clear"))
    BY <1>1, <2>3, <2>4 DEF CallIs, Embedding
  <2> QED  BY <1>0, <1>1, <2>1, <2>2, <2>3, <2>5, HoldingFrame DEF Indexed, memory, history
<1>3. CASE Clear(t)
  <2>1. calls[t].pc = "clear" /\ Indexed(t, "add", {})
    BY <1>3 DEF Clear
  <2>2. calls' = [calls EXCEPT ![t] = Goes(t, "add")]
    BY <2>1 DEF Indexed, Goes, Holding
  <2>3. /\ Goes(t, "add") \in CallStates /\ Goes(t, "add").pc = "add"
        /\ Goes(t, "add").id = id /\ Goes(t, "add").record = r
    BY <1>1, CallMoves DEF Indexing, Goes
  <2>4. r \in Sound /\ r.kind = "session_note" /\ r.status = "active"
    BY <1>1, <2>1, CallAt DEF Embedding
  <2>5. CallIs(Goes(t, "add"))
    BY <1>1, <2>3, <2>4 DEF CallIs, Embedding
  <2> QED  BY <1>0, <1>1, <2>1, <2>2, <2>3, <2>5, HoldingFrame DEF Indexed, memory, history
<1>4. CASE AddVector(t)
  <2>1. calls[t].pc = "add" /\ Indexed(t, "idle", vectors[id] \cup {r.text})
    BY <1>4 DEF AddVector
  <2>2. r \in Sound
    BY <1>1, <2>1, CallAt DEF Embedding
  <2>3. r.text \in AllTexts
    BY <2>2 DEF Sound, MemoryRecord
  <2>4. vectors' \in [Ids -> SUBSET AllTexts]
    BY <1>0, <2>1, <2>3 DEF Indexed
  <2> QED  BY <1>0, <1>1, <2>1, <2>4, IdleIsCall, HoldingFrame DEF Indexed, memory, history
<1>5. CASE Unindex(t)
  <2>1. Indexed(t, "idle", {})
    BY <1>5 DEF Unindex
  <2> QED  BY <1>0, <1>1, <2>1, IdleIsCall, HoldingFrame DEF Indexed, memory, history
<1>6. CASE IndexFails(t)
  BY <1>0, <1>1, <1>6, IdleIsCall, HoldingFrame DEF IndexFails, memory
<1> QED  BY <1>2, <1>3, <1>4, <1>5, <1>6

\* What a boot makes of a record.
Swept(r, s) == s \in {r, NoRecord} \/ (r.kind = "todo" /\ s = [r EXCEPT !.archivedAt = TRUE])

LEMMA BootSweeps ==
  ASSUME Holding, Boot
  PROVE  /\ db' \in SoundStores /\ wasm' = Loaded(db') /\ cache' = Loaded(db')
         /\ \A id \in Ids : SameKind(db[id], db'[id])
         /\ \A id \in Ids : db[id].kind = "session_note" => db'[id] = db[id]
         /\ \A id \in Ids : db'[id].kind = "session_note" => db'[id] = db[id]
<1>1. PICK swept \in SUBSET Ids, removed \in SUBSET Ids :
       /\ \A id \in swept : db[id].kind = "todo" /\ db[id].status = "completed" /\ ~db[id].archivedAt
       /\ \A id \in removed : db[id] # NoRecord /\ db[id].archivedAt
       /\ db' = [id \in Ids |-> IF id \in removed THEN NoRecord
                                ELSE IF id \in swept THEN [db[id] EXCEPT !.archivedAt = TRUE]
                                ELSE db[id]]
  BY DEF Boot
<1>2. ASSUME NEW id \in Ids
      PROVE  /\ db'[id] \in Sound \cup {NoRecord} /\ SameKind(db[id], db'[id])
             /\ db[id].kind = "session_note" => db'[id] = db[id]
             /\ db'[id].kind = "session_note" => db'[id] = db[id]
  <2>1. db[id] \in Sound \cup {NoRecord} /\ NoRecord.kind = "none"
    BY DEF Holding, SoundStores, NoRecord
  <2>2. CASE id \in removed
    <3>1. db[id].kind # "session_note" /\ db'[id] = NoRecord
      BY <1>1, <2>1, <2>2 DEF Sound, Sensible
    <3> QED  BY <2>1, <3>1 DEF SameKind
  <2>3. CASE id \notin removed /\ id \in swept
    <3>1. db[id].kind = "todo" /\ db'[id] = [db[id] EXCEPT !.archivedAt = TRUE] /\ db[id] \in Sound
      BY <1>1, <2>1, <2>3
    <3>2. db'[id] \in Sound /\ db'[id].kind = "todo"
      BY <3>1 DEF Sound, Sensible, MemoryRecord
    <3> QED  BY <3>1, <3>2 DEF SameKind
  <2>4. CASE id \notin removed /\ id \notin swept
    <3>1. db'[id] = db[id]
      BY <1>1, <2>4
    <3> QED  BY <2>1, <3>1 DEF SameKind
  <2> QED  BY <2>2, <2>3, <2>4
<1>3. db' \in SoundStores
  BY <1>1, <1>2 DEF SoundStores
<1> QED  BY <1>2, <1>3 DEF Boot

\* The active notes that a boot finds are active notes of the database.
LEMMA LoadedNotes ==
  \A id \in ActiveNotes(Loaded(db)) : id \in ActiveNotes(db) /\ Parsed(db[id]) = db[id]
<1> SUFFICES ASSUME NEW id \in ActiveNotes(Loaded(db))
             PROVE  id \in ActiveNotes(db) /\ Parsed(db[id]) = db[id]
  OBVIOUS
<1>1. id \in Ids /\ Parsed(db[id]).kind = "session_note" /\ Parsed(db[id]).status = "active"
  BY ParsedIs DEF ActiveNotes
<1>2. Parsed(db[id]) = db[id]
  BY <1>1, ParsedIs DEF NoRecord
<1> QED  BY <1>1, <1>2 DEF ActiveNotes

LEMMA HoldingBoot == ASSUME Holding, Boot  PROVE Holding'
<1>1. wasm' \in SoundStores /\ cache' \in SoundStores /\ db' \in SoundStores
  BY BootSweeps, LoadedIsSound
<1>2. vectors' \in [Ids -> SUBSET AllTexts]
  <2>1. PICK failed \in SUBSET Ids, pruned \in BOOLEAN :
          vectors' = [id \in Ids |->
                        IF id \in ActiveNotes(Loaded(db)) \ failed THEN {db[id].text}
                        ELSE IF id \notin ActiveNotes(Loaded(db)) /\ pruned THEN {} ELSE vectors[id]]
    BY DEF Boot
  <2>2. \A id \in ActiveNotes(Loaded(db)) : db[id].text \in AllTexts
    <3>1. \A id \in ActiveNotes(Loaded(db)) : db[id] \in Sound
      BY LoadedNotes DEF ActiveNotes, Holding, SoundStores, NoRecord
    <3> QED  BY <3>1 DEF Sound, MemoryRecord
  <2> QED  BY <2>1, <2>2 DEF Holding
<1>3. blurred' \subseteq Ids /\ disturbed' \subseteq Ids /\ limit' \in Nat \ {0}
  BY MemoryAssumption DEF Boot
<1> QED  BY <1>1, <1>2, <1>3 DEF Boot, Holding

LEMMA HoldingCrash == ASSUME Holding, Crash  PROVE Holding'
<1>1. Nothing \in SoundStores
  BY DEF Nothing, SoundStores
<1> QED  BY <1>1, IdleIsCall DEF Crash, Holding, history

-----------------------------------------------------------------------------
\* The stores of an id that nothing disturbed follow the calls on it, in the order of the
\* queue.
On(t, id, pcs) == calls[t].pc \in pcs /\ calls[t].id = id
Latest(t, id, pcs) ==
  On(t, id, pcs) /\ \A u \in MemoryCalls : u # t /\ On(u, id, pcs) => Before(u, t)

\* The module has the record of the write that began last ...
WrittenLast(id) == \A t \in MemoryCalls : Latest(t, id, {"cache"}) => wasm[id] = calls[t].record
SavedLast(id) ==
  \A t \in MemoryCalls : Latest(t, id, {"persist"}) /\ ~InFlight(id, {"cache"}) => wasm[id] = calls[t].record
Restoring == \E t \in MemoryCalls : calls[t].pc = "restore"
ModuleSettled(id) ==
  ~InFlight(id, Writing \cup {"forget"}) =>
    /\ wasm[id] \in {db[id], Parsed(db[id])}
    /\ Restoring => wasm[id] = Parsed(db[id])

\* ... and the cache that of the last that went through it.
CachedLast(id) == \A t \in MemoryCalls : Latest(t, id, {"persist"}) => cache[id] = calls[t].record
CacheSettled(id) ==
  ~InFlight(id, Writing \cup Deleting) /\ ~Restoring => cache[id] = wasm[id]

\* What a rollback has read is what the row parses to, or a deletion will follow it; and it
\* reaches the cache before any write that began after it.
ReadIsSaved(id) ==
  \A t \in MemoryCalls : calls[t].pc = "restore" =>
    snapshot[t][id] = Parsed(db[id]) \/ \E u \in MemoryCalls : On(u, id, {"forget"}) /\ Before(t, u)
ReadIsFirst(id) ==
  \A t, u \in MemoryCalls : calls[t].pc = "restore" /\ On(u, id, Writing) => calls[u].pc = "cache" /\ Before(t, u)

\* A deletion is alone on its id.
DeletedAlone(id) ==
  \A t \in MemoryCalls : On(t, id, Deleting) =>
    db[id] = NoRecord /\ \A u \in MemoryCalls : u # t => ~On(u, id, InMemory)
NotDropped(id) == \A t \in MemoryCalls : ~On(t, id, {"drop"})

StoresFollow(id) ==
  /\ WrittenLast(id) /\ SavedLast(id) /\ ModuleSettled(id) /\ CachedLast(id) /\ CacheSettled(id)
  /\ ReadIsSaved(id) /\ ReadIsFirst(id) /\ DeletedAlone(id) /\ NotDropped(id)

StoresInv == phase = "up" => \A id \in Ids \ disturbed : StoresFollow(id)

LEMMA BeforeIsOrder ==
  ASSUME Queueing
  PROVE  \A u, v \in MemoryCalls : ~(Before(u, v) /\ Before(v, u))
<1> SUFFICES ASSUME NEW u, NEW v, Before(u, v), Before(v, u)  PROVE FALSE
  OBVIOUS
<1>1. PICK i \in DOMAIN ticks, j \in DOMAIN ticks : i < j /\ ticks[i] = u /\ ticks[j] = v
  BY DEF Before, Precedes
<1>2. PICK k \in DOMAIN ticks, l \in DOMAIN ticks : k < l /\ ticks[k] = v /\ ticks[l] = u
  BY DEF Before, Precedes
<1>3. i = l /\ j = k
  BY <1>1, <1>2 DEF Queueing, Once
<1>4. i \in Int /\ j \in Int
  BY DEF Queueing
<1> QED  BY <1>1, <1>2, <1>3, <1>4

\* A step of a call that is not in memory on the id, before or after.
LEMMA OtherIdKeeps ==
  ASSUME NEW id \in Ids, StoresFollow(id), NEW t \in MemoryCalls,
         \A u \in MemoryCalls : u # t => calls'[u] = calls[u],
         calls[t].pc # "restore", calls'[t].pc # "restore",
         ~On(t, id, InMemory), ~On(t, id, InMemory)',
         wasm'[id] = wasm[id], cache'[id] = cache[id], db'[id] = db[id], snapshot' = snapshot,
         \A u, v \in MemoryCalls : u # t /\ v # t => (Before(u, v)' <=> Before(u, v))
  PROVE  StoresFollow(id)'
<1> USE DEF On, InMemory, Writing, Deleting
<1>1. \A u \in MemoryCalls : On(u, id, InMemory)' => u # t /\ On(u, id, InMemory) /\ calls'[u] = calls[u]
  OBVIOUS
<1>2. \A u \in MemoryCalls : On(u, id, InMemory) => u # t /\ On(u, id, InMemory)' /\ calls'[u] = calls[u]
  OBVIOUS
<1>3. \A u \in MemoryCalls : calls'[u].pc = "restore" <=> calls[u].pc = "restore"
  OBVIOUS
<1>4. \A pcs \in SUBSET InMemory : InFlight(id, pcs)' <=> InFlight(id, pcs)
  BY <1>1, <1>2 DEF InFlight
<1>5. ASSUME NEW pcs \in SUBSET InMemory, NEW u \in MemoryCalls
      PROVE  Latest(u, id, pcs)' <=> Latest(u, id, pcs)
  <2>1. \A v \in MemoryCalls : On(v, id, pcs)' <=> On(v, id, pcs)
    BY <1>1, <1>2
  <2>2. \A v \in MemoryCalls : On(v, id, pcs) => v # t
    BY <1>2
  <2> QED  BY <2>1, <2>2 DEF Latest
<1>6. /\ {"cache"} \in SUBSET InMemory /\ {"persist"} \in SUBSET InMemory
      /\ Writing \cup {"forget"} \in SUBSET InMemory /\ Writing \cup Deleting \in SUBSET InMemory
  OBVIOUS
<1>7. \A u \in MemoryCalls : Latest(u, id, {"cache"}) \/ Latest(u, id, {"persist"}) => calls'[u] = calls[u]
  BY <1>2 DEF Latest
<1>8. WrittenLast(id)'
  BY <1>5, <1>6, <1>7 DEF StoresFollow, WrittenLast
<1>9. SavedLast(id)' /\ CachedLast(id)'
  BY <1>4, <1>5, <1>6, <1>7 DEF StoresFollow, SavedLast, CachedLast
<1>10. ModuleSettled(id)'
  BY <1>3, <1>4, <1>6 DEF StoresFollow, ModuleSettled, Restoring
<1>11. CacheSettled(id)'
  BY <1>3, <1>4, <1>6 DEF StoresFollow, CacheSettled, Restoring
<1>12. ReadIsSaved(id)'
  BY <1>2, <1>3 DEF StoresFollow, ReadIsSaved
<1>13. ReadIsFirst(id)'
  BY <1>1, <1>2, <1>3 DEF StoresFollow, ReadIsFirst
<1>14. DeletedAlone(id)'
  BY <1>1, <1>2 DEF StoresFollow, DeletedAlone
<1>15. NotDropped(id)'
  BY <1>1 DEF StoresFollow, NotDropped
<1> QED  BY <1>8, <1>9, <1>10, <1>11, <1>12, <1>13, <1>14, <1>15 DEF StoresFollow

LEMMA InFlightIsOn ==
  \A id, pcs : InFlight(id, pcs) <=> \E u \in MemoryCalls : On(u, id, pcs)
BY DEF InFlight, On

LEMMA StoresBegin ==
  ASSUME Holding, Queueing, NEW t \in MemoryCalls, NEW id \in Ids, NEW r \in Sound, Begins(t, id, r),
         NEW i \in Ids \ disturbed', i \notin disturbed => StoresFollow(i)
  PROVE  StoresFollow(i)'
<1> USE DEF On, InMemory, Writing, Deleting
<1> DEFINE k == [pc |-> "cache", id |-> id, record |-> r]
<1>1. /\ calls[t].pc = "idle" /\ calls' = [calls EXCEPT ![t] = k] /\ ticks' = Append(ticks, t)
      /\ wasm' = [wasm EXCEPT ![id] = r] /\ cache' = cache /\ db' = db /\ snapshot' = snapshot
      /\ disturbed' = IF InFlight(id, {"forget", "uncache"}) THEN disturbed \cup {id} ELSE disturbed
  BY DEF Begins, BeginCall, MayBegin
<1>2. StoresFollow(i)
  BY <1>1
<1>3. calls'[t] = k /\ \A u \in MemoryCalls : u # t => calls'[u] = calls[u]
  BY <1>1 DEF Holding
<1>4. \A u, v \in MemoryCalls : Before(u, v)' <=> Before(u, v) \/ (calls[u].pc \in InMemory /\ v = t)
  BY <1>1, QueueAppends DEF Holding
<1>5. \A u, v \in MemoryCalls : Before(u, v) => u # t /\ v # t
  BY <1>1, BeforeIsInMemory
<1>6. CASE i # id
  BY <1>1, <1>2, <1>3, <1>4, <1>6, OtherIdKeeps DEF Holding, SoundStores
<1>7. CASE i = id
  <2> HIDE DEF k
  <2>0. k.pc = "cache" /\ k.id = i /\ k.record = r
    BY <1>7 DEF k
  <2>1. \A u \in MemoryCalls : ~On(u, i, Deleting)
    BY <1>1, <1>7, InFlightIsOn DEF InFlight
  <2>2. wasm'[i] = r
    BY <1>1, <1>7 DEF Holding, SoundStores
  <2>3. InFlight(i, {"cache"})'
    BY <1>3, <2>0 DEF InFlight
  <2>4. WrittenLast(i)'
    <3> SUFFICES ASSUME NEW x \in MemoryCalls, Latest(x, i, {"cache"})', x # t  PROVE FALSE
      BY <1>3, <2>0, <2>2 DEF WrittenLast
    <3>1. Before(t, x)'
      BY <1>3, <2>0 DEF Latest
    <3> QED  BY <1>1, <1>4, <1>5, <3>1
  <2>5. SavedLast(i)'
    BY <2>3 DEF SavedLast
  <2>6. ModuleSettled(i)' /\ CacheSettled(i)'
    BY <1>3, <2>0 DEF ModuleSettled, CacheSettled, InFlight
  <2>7. CachedLast(i)'
    <3> SUFFICES ASSUME NEW x \in MemoryCalls, Latest(x, i, {"persist"})'  PROVE cache[i] = calls'[x].record
      BY <1>1 DEF CachedLast
    <3>1. x # t
      BY <1>3, <2>0 DEF Latest
    <3>2. Latest(x, i, {"persist"})
      BY <1>1, <1>3, <1>4, <3>1 DEF Latest
    <3> QED  BY <1>2, <1>3, <3>1, <3>2 DEF StoresFollow, CachedLast
  <2>8. ReadIsSaved(i)'
    BY <1>1, <1>2, <1>3, <1>4, <2>0 DEF StoresFollow, ReadIsSaved
  <2>9. ReadIsFirst(i)'
    BY <1>1, <1>2, <1>3, <1>4, <2>0 DEF StoresFollow, ReadIsFirst
  <2>10. DeletedAlone(i)'
    BY <1>3, <2>0, <2>1 DEF DeletedAlone
  <2>11. NotDropped(i)'
    BY <1>2, <1>3, <2>0 DEF StoresFollow, NotDropped
  <2> QED  BY <2>4, <2>5, <2>6, <2>7, <2>8, <2>9, <2>10, <2>11 DEF StoresFollow
<1> QED  BY <1>6, <1>7

LEMMA StoresDelete ==
  ASSUME Holding, Queueing, NEW t \in MemoryCalls, NEW id \in Ids, DeleteRecord(t, id),
         NEW i \in Ids \ disturbed', i \notin disturbed => StoresFollow(i)
  PROVE  StoresFollow(i)'
<1> USE DEF On, InMemory, Writing, Deleting
<1> DEFINE k == [pc |-> "forget", id |-> id, record |-> NoRecord]
<1>1. /\ calls[t].pc = "idle" /\ calls' = [calls EXCEPT ![t] = k] /\ ticks' = Append(ticks, t)
      /\ db' = [db EXCEPT ![id] = NoRecord] /\ cache' = cache /\ wasm' = wasm /\ snapshot' = snapshot
      /\ disturbed' = IF InFlight(id, InMemory) THEN disturbed \cup {id} ELSE disturbed
  BY DEF DeleteRecord, MayBegin
<1>2. StoresFollow(i)
  BY <1>1
<1>3. calls'[t] = k /\ \A u \in MemoryCalls : u # t => calls'[u] = calls[u]
  BY <1>1 DEF Holding
<1>4. \A u, v \in MemoryCalls : Before(u, v)' <=> Before(u, v) \/ (calls[u].pc \in InMemory /\ v = t)
  BY <1>1, QueueAppends DEF Holding
<1>6. CASE i # id
  BY <1>1, <1>2, <1>3, <1>4, <1>6, OtherIdKeeps DEF Holding, SoundStores
<1>7. CASE i = id
  <2> HIDE DEF k
  <2>0. k.pc = "forget" /\ k.id = i
    BY <1>7 DEF k
  <2>1. \A u \in MemoryCalls : ~On(u, i, InMemory)
    BY <1>1, <1>7, InFlightIsOn
  <2>2. db'[i] = NoRecord
    BY <1>1, <1>7 DEF Holding, SoundStores
  <2>3. \A u \in MemoryCalls : On(u, i, InMemory)' => u = t
    BY <1>3, <2>1
  <2>4. WrittenLast(i)' /\ SavedLast(i)' /\ CachedLast(i)'
    BY <1>3, <2>0, <2>3 DEF WrittenLast, SavedLast, CachedLast, Latest
  <2>6. ModuleSettled(i)' /\ CacheSettled(i)'
    BY <1>3, <2>0 DEF ModuleSettled, CacheSettled, InFlight
  <2>8. ReadIsSaved(i)'
    BY <1>3, <1>4, <2>0 DEF ReadIsSaved
  <2>9. ReadIsFirst(i)'
    BY <1>3, <2>0, <2>3 DEF ReadIsFirst
  <2>10. DeletedAlone(i)'
    BY <2>2, <2>3 DEF DeletedAlone
  <2>11. NotDropped(i)'
    BY <1>3, <2>0, <2>3 DEF NotDropped
  <2> QED  BY <2>4, <2>6, <2>8, <2>9, <2>10, <2>11 DEF StoresFollow
<1> QED  BY <1>6, <1>7

LEMMA StoresSetCache ==
  ASSUME Holding, Queueing, NEW t \in MemoryCalls, SetCache(t),
         NEW i \in Ids \ disturbed', i \notin disturbed => StoresFollow(i)
  PROVE  StoresFollow(i)'
<1> USE DEF On, InMemory, Writing, Deleting
<1> DEFINE k == Goes(t, "persist")
           id == calls[t].id
<1>1. /\ Turn(t, "cache") /\ GoOn(t, "persist") /\ cache' = [cache EXCEPT ![id] = calls[t].record]
      /\ wasm' = wasm /\ db' = db /\ snapshot' = snapshot /\ disturbed' = disturbed
  BY DEF SetCache, history
<1>2. StoresFollow(i)
  BY <1>1
<1>a. calls[t].pc = "cache"
  BY <1>1 DEF Turn
<1>b. /\ k.pc = "persist" /\ k.id = id /\ k.record = calls[t].record
      /\ calls' = [calls EXCEPT ![t] = k] /\ id \in Ids
  BY <1>1, <1>a, GoesOn
<1>c. ticks' = Append(Tail(ticks), t)
  BY <1>1 DEF GoOn
<1> HIDE DEF k
<1>3. calls'[t] = k /\ \A u \in MemoryCalls : u # t => calls'[u] = calls[u]
  BY <1>b DEF Holding
<1>4. \A u, v \in MemoryCalls :
        Before(u, v)' <=> u # t /\ (Before(u, v) \/ (calls[u].pc \in InMemory /\ v = t))
  BY <1>1, <1>b, <1>c, QueueRotates DEF Holding
<1>5. \A u \in MemoryCalls : calls[u].pc \in InMemory /\ u # t => Before(t, u)
  BY <1>1, QueueHead
<1>6. CASE i # id
  BY <1>1, <1>2, <1>3, <1>4, <1>a, <1>b, <1>6, OtherIdKeeps DEF Holding, SoundStores
<1>7. CASE i = id
  <2>1. \A u \in MemoryCalls : calls[u].pc # "restore"
    <3>1. \A u \in MemoryCalls : calls[u].pc = "restore" => Before(u, t) /\ u # t
      BY <1>2, <1>7, <1>a DEF StoresFollow, ReadIsFirst
    <3> QED  BY <1>5, <3>1, BeforeIsOrder
  <2>2. \A u \in MemoryCalls : ~On(u, i, Deleting)
    BY <1>2, <1>7, <1>a DEF StoresFollow, DeletedAlone
  <2>3. cache'[i] = calls[t].record
    BY <1>1, <1>7 DEF Holding, SoundStores
  <2>4. WrittenLast(i)'
    <3> SUFFICES ASSUME NEW x \in MemoryCalls, Latest(x, i, {"cache"})'  PROVE wasm[i] = calls'[x].record
      BY <1>1 DEF WrittenLast
    <3>1. x # t
      BY <1>3, <1>b DEF Latest
    <3>2. Latest(x, i, {"cache"})
      BY <1>3, <1>4, <1>5, <3>1 DEF Latest
    <3> QED  BY <1>2, <1>3, <3>1, <3>2 DEF StoresFollow, WrittenLast
  <2>5. \A x \in MemoryCalls : Latest(x, i, {"persist"})' => x = t
    <3> SUFFICES ASSUME NEW x \in MemoryCalls, Latest(x, i, {"persist"})', x # t  PROVE FALSE
      OBVIOUS
    <3>1. Before(t, x)'
      BY <1>3, <1>7, <1>b DEF Latest
    <3> QED  BY <1>4, <3>1
  <2>6. CachedLast(i)'
    BY <1>3, <1>b, <2>3, <2>5 DEF CachedLast
  <2>7. SavedLast(i)'
    <3> SUFFICES ASSUME ~InFlight(i, {"cache"})'  PROVE wasm[i] = calls[t].record
      BY <1>1, <1>3, <1>b, <2>5 DEF SavedLast
    <3>1. \A u \in MemoryCalls : u # t => ~On(u, i, {"cache"})
      BY <1>3 DEF InFlight
    <3>2. Latest(t, i, {"cache"})
      BY <1>7, <1>a, <3>1 DEF Latest
    <3> QED  BY <1>2, <3>2 DEF StoresFollow, WrittenLast
  <2>8. ModuleSettled(i)' /\ CacheSettled(i)'
    BY <1>3, <1>7, <1>b DEF ModuleSettled, CacheSettled, InFlight
  <2>9. ReadIsSaved(i)' /\ ReadIsFirst(i)'
    BY <1>3, <1>b, <2>1 DEF ReadIsSaved, ReadIsFirst
  <2>10. DeletedAlone(i)'
    BY <1>3, <1>b, <2>2 DEF DeletedAlone
  <2>11. NotDropped(i)'
    BY <1>2, <1>3, <1>b DEF StoresFollow, NotDropped
  <2> QED  BY <2>4, <2>6, <2>7, <2>8, <2>9, <2>10, <2>11 DEF StoresFollow
<1> QED  BY <1>6, <1>7

\* The call at the head of the queue leaves it: what its step makes of an order.
LEMMA Leaves ==
  ASSUME Holding, Queueing, NEW t \in MemoryCalls, NEW pc, Turn(t, pc), NEW k,
         k.pc \notin InMemory, calls' = [calls EXCEPT ![t] = k], ticks' = Tail(ticks)
  PROVE  /\ calls[t].pc = pc /\ calls'[t] = k /\ \A u \in MemoryCalls : u # t => calls'[u] = calls[u]
         /\ \A u, v \in MemoryCalls : Before(u, v)' <=> Before(u, v) /\ u # t
         /\ \A u \in MemoryCalls : calls[u].pc \in InMemory /\ u # t => Before(t, u) /\ ~Before(u, t)
<1>1. calls[t].pc = pc
  BY DEF Turn
<1>2. calls'[t] = k /\ \A u \in MemoryCalls : u # t => calls'[u] = calls[u]
  BY DEF Holding
<1>3. \A u, v \in MemoryCalls : Before(u, v)' <=> Before(u, v) /\ u # t
  BY QueuePops DEF Holding
<1>4. \A u \in MemoryCalls : calls[u].pc \in InMemory /\ u # t => Before(t, u) /\ ~Before(u, t)
  BY QueueHead, BeforeIsOrder
<1> QED  BY <1>1, <1>2, <1>3, <1>4

LEMMA Requeues ==
  ASSUME Holding, Queueing, NEW t \in MemoryCalls, NEW pc, Turn(t, pc), NEW next \in InMemory,
         GoOn(t, next)
  PROVE  /\ calls[t].pc = pc /\ calls[t].id \in Ids
         /\ calls'[t].pc = next /\ calls'[t].id = calls[t].id /\ calls'[t].record = calls[t].record
         /\ \A u \in MemoryCalls : u # t => calls'[u] = calls[u]
         /\ \A u, v \in MemoryCalls :
              Before(u, v)' <=> u # t /\ (Before(u, v) \/ (calls[u].pc \in InMemory /\ v = t))
         /\ \A u \in MemoryCalls : calls[u].pc \in InMemory /\ u # t => Before(t, u) /\ ~Before(u, t)
<1>0. calls[t].pc = pc /\ calls[t].pc \in InMemory /\ calls[t].pc # "idle"
  BY QueueHead DEF Turn, InMemory
<1>1. /\ calls' = [calls EXCEPT ![t] = Goes(t, next)] /\ ticks' = Append(Tail(ticks), t)
      /\ Goes(t, next).pc = next /\ Goes(t, next).id = calls[t].id
      /\ Goes(t, next).record = calls[t].record /\ calls[t].id \in Ids
  BY <1>0, GoesOn DEF GoOn
<1>2. calls'[t] = Goes(t, next) /\ \A u \in MemoryCalls : u # t => calls'[u] = calls[u]
  BY <1>1 DEF Holding
<1>3. \A u, v \in MemoryCalls :
        Before(u, v)' <=> u # t /\ (Before(u, v) \/ (calls[u].pc \in InMemory /\ v = t))
  BY <1>1, QueueRotates DEF Holding
<1>4. \A u \in MemoryCalls : calls[u].pc \in InMemory /\ u # t => Before(t, u) /\ ~Before(u, t)
  BY QueueHead, BeforeIsOrder
<1> QED  BY <1>0, <1>1, <1>2, <1>3, <1>4

\* The state of a call that is done with the stores.
LEMMA PersistLeaves ==
  ASSUME Holding, Queueing, NEW t \in MemoryCalls, Persist(t)
  PROVE  \E k \in CallStates :
           /\ k.pc \notin InMemory /\ calls' = [calls EXCEPT ![t] = k] /\ ticks' = Tail(ticks)
           /\ calls[t].id \in Ids /\ calls[t].record \in Sound
           /\ \/ k = IdleCall /\ calls[t].record.kind # "session_note" /\ blurred' = blurred
              \/ /\ calls[t].record.kind = "session_note" /\ blurred' = Blurring(calls[t].id)
                 /\ k.pc = IF calls[t].record.status = "archived" THEN "unindex" ELSE "embed"
                 /\ k.id = calls[t].id /\ k.record = calls[t].record
<1> DEFINE r == calls[t].record
<1>1. calls[t].pc = "persist"
  BY DEF Persist, Turn
<1>2. calls[t].id \in Ids /\ r \in Sound
  BY <1>1, CallAt DEF Writing
<1>3. CASE r.kind # "session_note"
  BY <1>2, <1>3, IdleIsCall DEF Persist, End, InMemory
<1>4. CASE r.kind = "session_note"
  <2> DEFINE pc == IF r.status = "archived" THEN "unindex" ELSE "embed"
  <2>1. pc \in Indexing /\ pc \notin InMemory
    BY DEF Indexing, InMemory
  <2>2. GoOn(t, pc) /\ blurred' = Blurring(calls[t].id)
    BY <1>4 DEF Persist
  <2>3. ticks' = Tail(ticks)
    BY <2>1, <2>2 DEF GoOn
  <2> HIDE DEF pc
  <2>4. /\ calls' = [calls EXCEPT ![t] = Goes(t, pc)] /\ Goes(t, pc) \in CallStates
        /\ Goes(t, pc).pc = pc /\ Goes(t, pc).id = calls[t].id /\ Goes(t, pc).record = r
    BY <1>1, <2>1, <2>2, GoesOn
  <2> QED  BY <1>2, <1>4, <2>1, <2>2, <2>3, <2>4 DEF pc
<1> QED  BY <1>3, <1>4

LEMMA StoresPersist ==
  ASSUME Holding, Queueing, NEW t \in MemoryCalls, Persist(t),
         NEW i \in Ids \ disturbed', i \notin disturbed => StoresFollow(i)
  PROVE  StoresFollow(i)'
<1> USE DEF On, InMemory, Writing, Deleting
<1> DEFINE id == calls[t].id
<1>1. /\ Turn(t, "persist") /\ db' = [db EXCEPT ![id] = calls[t].record]
      /\ wasm' = wasm /\ cache' = cache /\ snapshot' = snapshot /\ disturbed' = disturbed
  BY DEF Persist, memory
<1>2. StoresFollow(i)
  BY <1>1
<1>a. PICK k \in CallStates :
        /\ k.pc \notin InMemory /\ calls' = [calls EXCEPT ![t] = k] /\ ticks' = Tail(ticks) /\ id \in Ids
  BY PersistLeaves
<1>3. /\ calls[t].pc = "persist" /\ calls'[t] = k /\ \A u \in MemoryCalls : u # t => calls'[u] = calls[u]
      /\ \A u, v \in MemoryCalls : Before(u, v)' <=> Before(u, v) /\ u # t
      /\ \A u \in MemoryCalls : calls[u].pc \in InMemory /\ u # t => Before(t, u) /\ ~Before(u, t)
  BY <1>1, <1>a, Leaves
<1>6. CASE i # id
  BY <1>1, <1>2, <1>3, <1>a, <1>6, OtherIdKeeps DEF Holding, SoundStores
<1>7. CASE i = id
  <2>1. \A u \in MemoryCalls : calls[u].pc # "restore"
    BY <1>2, <1>3, <1>7 DEF StoresFollow, ReadIsFirst
  <2>2. \A u \in MemoryCalls : ~On(u, i, Deleting)
    BY <1>2, <1>3, <1>7 DEF StoresFollow, DeletedAlone
  <2>3. db'[i] = calls[t].record
    BY <1>1, <1>7 DEF Holding, SoundStores
  <2>4. ASSUME NEW x \in MemoryCalls, NEW pcs \in {{"cache"}, {"persist"}}, Latest(x, i, pcs)'
        PROVE  x # t /\ Latest(x, i, pcs)
    <3>1. x # t
      BY <1>3, <1>a, <2>4 DEF Latest
    <3> QED  BY <1>3, <2>4, <3>1 DEF Latest
  <2>5. WrittenLast(i)'
    BY <1>1, <1>2, <1>3, <2>4 DEF StoresFollow, WrittenLast
  <2>6. CachedLast(i)'
    BY <1>1, <1>2, <1>3, <2>4 DEF StoresFollow, CachedLast
  <2>7. SavedLast(i)'
    <3>1. InFlight(i, {"cache"}) => InFlight(i, {"cache"})'
      BY <1>3 DEF InFlight
    <3> QED  BY <1>1, <1>2, <1>3, <2>4, <3>1 DEF StoresFollow, SavedLast
  <2>8. ~InFlight(i, Writing)' => Latest(t, i, {"persist"}) /\ ~InFlight(i, {"cache"})
    BY <1>3, <1>7 DEF InFlight, Latest
  <2>9. ~InFlight(i, Writing)' => wasm[i] = db'[i] /\ cache[i] = db'[i]
    BY <1>2, <2>3, <2>8 DEF StoresFollow, SavedLast, CachedLast
  <2>10. ModuleSettled(i)' /\ CacheSettled(i)'
    <3>1. ~Restoring'
      BY <1>3, <1>a, <2>1 DEF Restoring
    <3> QED  BY <1>1, <2>9, <3>1 DEF ModuleSettled, CacheSettled, InFlight
  <2>11. ReadIsSaved(i)' /\ ReadIsFirst(i)'
    BY <1>3, <1>a, <2>1 DEF ReadIsSaved, ReadIsFirst
  <2>12. DeletedAlone(i)'
    BY <1>3, <1>a, <2>2 DEF DeletedAlone
  <2>13. NotDropped(i)'
    BY <1>2, <1>3, <1>a DEF StoresFollow, NotDropped
  <2> QED  BY <2>5, <2>6, <2>7, <2>10, <2>11, <2>12, <2>13 DEF StoresFollow
<1> QED  BY <1>6, <1>7

LEMMA StoresForget ==
  ASSUME Holding, Queueing, NEW t \in MemoryCalls, Forget(t),
         NEW i \in Ids \ disturbed', i \notin disturbed => StoresFollow(i)
  PROVE  StoresFollow(i)'
<1> USE DEF On, InMemory, Writing, Deleting
<1> DEFINE id == calls[t].id
<1>1. /\ Turn(t, "forget") /\ wasm' = [wasm EXCEPT ![id] = NoRecord] /\ GoOn(t, "uncache")
      /\ db' = db /\ cache' = cache /\ snapshot' = snapshot /\ disturbed' = disturbed
  BY DEF Forget, history
<1>2. StoresFollow(i)
  BY <1>1
<1>3. /\ calls[t].pc = "forget" /\ id \in Ids
      /\ calls'[t].pc = "uncache" /\ calls'[t].id = id
      /\ \A u \in MemoryCalls : u # t => calls'[u] = calls[u]
      /\ \A u, v \in MemoryCalls :
           Before(u, v)' <=> u # t /\ (Before(u, v) \/ (calls[u].pc \in InMemory /\ v = t))
      /\ \A u \in MemoryCalls : calls[u].pc \in InMemory /\ u # t => Before(t, u) /\ ~Before(u, t)
  BY <1>1, Requeues
<1>6. CASE i # id
  BY <1>1, <1>2, <1>3, <1>6, OtherIdKeeps DEF Holding, SoundStores
<1>7. CASE i = id
  <2>1. db[i] = NoRecord /\ \A u \in MemoryCalls : u # t => ~On(u, i, InMemory)
    BY <1>2, <1>3, <1>7 DEF StoresFollow, DeletedAlone
  <2>2. wasm'[i] = NoRecord
    BY <1>1, <1>7 DEF Holding, SoundStores
  <2>3. \A u \in MemoryCalls : u # t => ~On(u, i, InMemory)'
    BY <1>3, <2>1
  <2>4. WrittenLast(i)' /\ SavedLast(i)' /\ CachedLast(i)'
    BY <1>3, <2>3 DEF WrittenLast, SavedLast, CachedLast, Latest
  <2>5. ModuleSettled(i)' /\ CacheSettled(i)'
    BY <1>1, <1>3, <1>7, <2>1, <2>2, ParsedIs DEF ModuleSettled, CacheSettled, InFlight
  <2>6. ReadIsSaved(i)'
    BY <1>1, <1>2, <1>3, <2>1 DEF StoresFollow, ReadIsSaved
  <2>7. ReadIsFirst(i)' /\ NotDropped(i)'
    BY <1>3, <2>3 DEF ReadIsFirst, NotDropped
  <2>8. DeletedAlone(i)'
    BY <1>1, <1>3, <2>1, <2>3 DEF DeletedAlone
  <2> QED  BY <2>4, <2>5, <2>6, <2>7, <2>8 DEF StoresFollow
<1> QED  BY <1>6, <1>7

LEMMA StoresUncache ==
  ASSUME Holding, Queueing, NEW t \in MemoryCalls, Uncache(t),
         NEW i \in Ids \ disturbed', i \notin disturbed => StoresFollow(i)
  PROVE  StoresFollow(i)'
<1> USE DEF On, InMemory, Writing, Deleting
<1> DEFINE id == calls[t].id
           k == Goes(t, "unindex")
<1>1. /\ Turn(t, "uncache") /\ cache' = [cache EXCEPT ![id] = NoRecord] /\ GoOn(t, "unindex")
      /\ db' = db /\ wasm' = wasm /\ snapshot' = snapshot /\ disturbed' = disturbed
  BY DEF Uncache
<1>2. StoresFollow(i)
  BY <1>1
<1>a. calls[t].pc = "uncache" /\ ticks' = Tail(ticks)
  BY <1>1 DEF Turn, GoOn
<1>b. k.pc = "unindex" /\ k.id = id /\ calls' = [calls EXCEPT ![t] = k] /\ id \in Ids
  BY <1>1, <1>a, GoesOn DEF Indexing
<1> HIDE DEF k
<1>3. /\ calls'[t] = k /\ \A u \in MemoryCalls : u # t => calls'[u] = calls[u]
      /\ \A u, v \in MemoryCalls : Before(u, v)' <=> Before(u, v) /\ u # t
      /\ \A u \in MemoryCalls : calls[u].pc \in InMemory /\ u # t => Before(t, u) /\ ~Before(u, t)
  BY <1>1, <1>a, <1>b, Leaves
<1>6. CASE i # id
  BY <1>1, <1>2, <1>3, <1>a, <1>b, <1>6, OtherIdKeeps DEF Holding, SoundStores
<1>7. CASE i = id
  <2>1. db[i] = NoRecord /\ \A u \in MemoryCalls : u # t => ~On(u, i, InMemory)
    BY <1>2, <1>7, <1>a DEF StoresFollow, DeletedAlone
  <2>2. cache'[i] = NoRecord
    BY <1>1, <1>7 DEF Holding, SoundStores
  <2>3. \A u \in MemoryCalls : ~On(u, i, InMemory) \/ u = t
    BY <2>1
  <2>4. \A u \in MemoryCalls : ~On(u, i, InMemory)'
    BY <1>3, <1>b, <2>1
  <2>5. wasm[i] = NoRecord
    <3>1. ~InFlight(i, Writing \cup {"forget"})
      BY <1>a, <2>3 DEF InFlight
    <3> QED  BY <1>2, <2>1, <3>1, ParsedIs DEF StoresFollow, ModuleSettled
  <2>6. WrittenLast(i)' /\ SavedLast(i)' /\ CachedLast(i)'
    BY <2>4 DEF WrittenLast, SavedLast, CachedLast, Latest
  <2>7. ModuleSettled(i)' /\ CacheSettled(i)'
    BY <1>1, <2>1, <2>2, <2>5, ParsedIs DEF ModuleSettled, CacheSettled
  <2>8. ReadIsSaved(i)'
    BY <1>1, <1>2, <1>3, <1>a, <1>b, <2>3 DEF StoresFollow, ReadIsSaved
  <2>9. ReadIsFirst(i)' /\ NotDropped(i)' /\ DeletedAlone(i)'
    BY <2>4 DEF ReadIsFirst, NotDropped, DeletedAlone
  <2> QED  BY <2>6, <2>7, <2>8, <2>9 DEF StoresFollow
<1> QED  BY <1>6, <1>7

LEMMA StoresDrop ==
  ASSUME Holding, Queueing, NEW t \in MemoryCalls, RollBackFails(t) \/ DropFromCache(t),
         NEW i \in Ids \ disturbed', i \notin disturbed => StoresFollow(i)
  PROVE  StoresFollow(i)'
<1> USE DEF On, InMemory
<1> DEFINE id == calls[t].id
<1>1. CASE RollBackFails(t)
  <2>1. /\ Turn(t, "persist") /\ wasm' = [wasm EXCEPT ![id] = NoRecord] /\ GoOn(t, "drop")
        /\ db' = db /\ cache' = cache /\ snapshot' = snapshot /\ disturbed' = disturbed \cup {id}
    BY <1>1 DEF RollBackFails
  <2>2. StoresFollow(i) /\ i # id
    BY <2>1
  <2>3. /\ calls[t].pc = "persist" /\ calls'[t].pc = "drop" /\ calls'[t].id = id
        /\ \A u \in MemoryCalls : u # t => calls'[u] = calls[u]
        /\ \A u, v \in MemoryCalls :
             Before(u, v)' <=> u # t /\ (Before(u, v) \/ (calls[u].pc \in InMemory /\ v = t))
    BY <2>1, Requeues
  <2> QED  BY <2>1, <2>2, <2>3, OtherIdKeeps DEF Holding, SoundStores
<1>2. CASE DropFromCache(t)
  <2>1. /\ Turn(t, "drop") /\ cache' = [cache EXCEPT ![id] = NoRecord]
        /\ calls' = [calls EXCEPT ![t] = IdleCall] /\ ticks' = Tail(ticks)
        /\ db' = db /\ wasm' = wasm /\ snapshot' = snapshot /\ disturbed' = disturbed
    BY <1>2 DEF DropFromCache, End, history
  <2>2. IdleCall.pc = "idle"
    BY DEF IdleCall
  <2>3. /\ calls[t].pc = "drop" /\ calls'[t] = IdleCall /\ \A u \in MemoryCalls : u # t => calls'[u] = calls[u]
        /\ \A u, v \in MemoryCalls : Before(u, v)' <=> Before(u, v) /\ u # t
    BY <2>1, <2>2, Leaves
  <2>4. StoresFollow(i) /\ i # id
    BY <2>1, <2>3 DEF StoresFollow, NotDropped
  <2> QED  BY <2>1, <2>2, <2>3, <2>4, OtherIdKeeps DEF Holding, SoundStores
<1> QED  BY <1>1, <1>2

LEMMA StoresRollBack ==
  ASSUME Holding, Queueing, NEW t \in MemoryCalls, RollBack(t),
         NEW i \in Ids \ disturbed', i \notin disturbed => StoresFollow(i)
  PROVE  StoresFollow(i)'
<1> USE DEF On, InMemory, Writing, Deleting
<1>1. /\ Turn(t, "persist") /\ GoOn(t, "restore")
      /\ wasm' = Loaded(db) /\ snapshot' = [snapshot EXCEPT ![t] = Loaded(db)]
      /\ cache' = cache /\ db' = db /\ disturbed' = disturbed \cup Unsaved(t)
  BY DEF RollBack
<1>2. StoresFollow(i)
  BY <1>1
<1>3. /\ calls[t].pc = "persist" /\ calls'[t].pc = "restore" /\ calls'[t].id = calls[t].id
      /\ \A u \in MemoryCalls : u # t => calls'[u] = calls[u]
      /\ \A u, v \in MemoryCalls :
           Before(u, v)' <=> u # t /\ (Before(u, v) \/ (calls[u].pc \in InMemory /\ v = t))
      /\ \A u \in MemoryCalls : calls[u].pc \in InMemory /\ u # t => Before(t, u) /\ ~Before(u, t)
  BY <1>1, Requeues
<1>4. \A u \in MemoryCalls : u # t => ~On(u, i, Writing)
  BY <1>1 DEF Unsaved
<1>5. \A u \in MemoryCalls : ~On(u, i, Writing)'
  BY <1>3, <1>4
<1>6. WrittenLast(i)' /\ SavedLast(i)' /\ CachedLast(i)'
  BY <1>5 DEF WrittenLast, SavedLast, CachedLast, Latest
<1>7. ModuleSettled(i)'
  BY <1>1, ParsedIs DEF ModuleSettled
<1>8. CacheSettled(i)'
  BY <1>3 DEF CacheSettled, Restoring
<1>9. ReadIsSaved(i)'
  <2> SUFFICES ASSUME NEW x \in MemoryCalls, calls'[x].pc = "restore"
               PROVE  snapshot'[x][i] = Parsed(db[i]) \/ \E u \in MemoryCalls : On(u, i, {"forget"})' /\ Before(x, u)'
    BY <1>1 DEF ReadIsSaved
  <2>1. CASE x = t
    BY <1>1, <2>1, ParsedIs DEF Holding
  <2>2. CASE x # t
    <3>1. calls[x].pc = "restore" /\ snapshot'[x] = snapshot[x]
      BY <1>1, <1>3, <2>2 DEF Holding
    <3>2. CASE snapshot[x][i] = Parsed(db[i])
      BY <3>1, <3>2
    <3>3. CASE \E u \in MemoryCalls : On(u, i, {"forget"}) /\ Before(x, u)
      BY <1>3, <2>2, <3>3
    <3> QED  BY <1>2, <3>1, <3>2, <3>3 DEF StoresFollow, ReadIsSaved
  <2> QED  BY <2>1, <2>2
<1>10. ReadIsFirst(i)'
  BY <1>5 DEF ReadIsFirst
<1>11. DeletedAlone(i)'
  <2> SUFFICES ASSUME NEW x \in MemoryCalls, On(x, i, Deleting)'
               PROVE  db[i] = NoRecord /\ \A u \in MemoryCalls : u # x => ~On(u, i, InMemory)'
    BY <1>1 DEF DeletedAlone
  <2>1. x # t /\ On(x, i, Deleting)
    BY <1>3
  <2>2. db[i] = NoRecord /\ \A u \in MemoryCalls : u # x => ~On(u, i, InMemory)
    BY <1>2, <2>1 DEF StoresFollow, DeletedAlone
  <2>3. ~On(t, i, InMemory) /\ ~On(t, i, InMemory)'
    BY <1>3, <2>1, <2>2
  <2> QED  BY <1>3, <2>2, <2>3
<1>12. NotDropped(i)'
  BY <1>2, <1>3 DEF StoresFollow, NotDropped
<1> QED  BY <1>6, <1>7, <1>8, <1>9, <1>10, <1>11, <1>12 DEF StoresFollow

LEMMA StoresRestore ==
  ASSUME Holding, Queueing, NEW t \in MemoryCalls, Restore(t),
         NEW i \in Ids \ disturbed', i \notin disturbed => StoresFollow(i)
  PROVE  StoresFollow(i)'
<1> USE DEF On, InMemory, Writing, Deleting
<1>1. /\ Turn(t, "restore") /\ cache' = snapshot[t] /\ snapshot' = [snapshot EXCEPT ![t] = Nothing]
      /\ calls' = [calls EXCEPT ![t] = IdleCall] /\ ticks' = Tail(ticks)
      /\ wasm' = wasm /\ db' = db /\ disturbed' = disturbed
  BY DEF Restore, End, history
<1>2. StoresFollow(i)
  BY <1>1
<1>a. IdleCall.pc = "idle"
  BY DEF IdleCall
<1>3. /\ calls[t].pc = "restore" /\ calls'[t] = IdleCall /\ \A u \in MemoryCalls : u # t => calls'[u] = calls[u]
      /\ \A u, v \in MemoryCalls : Before(u, v)' <=> Before(u, v) /\ u # t
  BY <1>1, <1>a, Leaves
<1>4. \A u \in MemoryCalls : ~On(u, i, {"persist"})
  BY <1>2, <1>3 DEF StoresFollow, ReadIsFirst
<1>5. \A u \in MemoryCalls : ~On(u, i, {"persist"})'
  BY <1>3, <1>4, <1>a
<1>6. WrittenLast(i)'
  <2> SUFFICES ASSUME NEW x \in MemoryCalls, Latest(x, i, {"cache"})'  PROVE wasm[i] = calls'[x].record
    BY <1>1 DEF WrittenLast
  <2>1. x # t
    BY <1>3, <1>a DEF Latest
  <2>2. Latest(x, i, {"cache"})
    BY <1>3, <2>1 DEF Latest
  <2> QED  BY <1>2, <1>3, <2>1, <2>2 DEF StoresFollow, WrittenLast
<1>7. SavedLast(i)' /\ CachedLast(i)'
  BY <1>5 DEF SavedLast, CachedLast, Latest
<1>8. ModuleSettled(i)'
  BY <1>1, <1>2, <1>3, <1>a DEF StoresFollow, ModuleSettled, InFlight, Restoring
<1>9. CacheSettled(i)'
  <2> SUFFICES ASSUME ~InFlight(i, Writing \cup Deleting)'  PROVE snapshot[t][i] = wasm[i]
    BY <1>1 DEF CacheSettled
  <2>1. \A u \in MemoryCalls : ~On(u, i, {"forget"})
    BY <1>3 DEF InFlight
  <2>2. snapshot[t][i] = Parsed(db[i])
    BY <1>2, <1>3, <2>1 DEF StoresFollow, ReadIsSaved
  <2>3. Restoring /\ ~InFlight(i, Writing \cup {"forget"})
    BY <1>3 DEF InFlight, Restoring
  <2> QED  BY <1>2, <2>2, <2>3 DEF StoresFollow, ModuleSettled
<1>10. ReadIsSaved(i)'
  <2> SUFFICES ASSUME NEW x \in MemoryCalls, calls'[x].pc = "restore"
               PROVE  snapshot'[x][i] = Parsed(db[i]) \/ \E u \in MemoryCalls : On(u, i, {"forget"})' /\ Before(x, u)'
    BY <1>1 DEF ReadIsSaved
  <2>1. x # t
    BY <1>3, <1>a
  <2>2. calls[x].pc = "restore" /\ snapshot'[x] = snapshot[x]
    BY <1>1, <1>3, <2>1 DEF Holding
  <2>3. CASE \E u \in MemoryCalls : On(u, i, {"forget"}) /\ Before(x, u)
    BY <1>3, <2>1, <2>3
  <2> QED  BY <1>2, <2>2, <2>3 DEF StoresFollow, ReadIsSaved
<1>11. ReadIsFirst(i)'
  BY <1>2, <1>3, <1>a DEF StoresFollow, ReadIsFirst
<1>12. DeletedAlone(i)'
  BY <1>1, <1>2, <1>3, <1>a DEF StoresFollow, DeletedAlone
<1>13. NotDropped(i)'
  BY <1>2, <1>3, <1>a DEF StoresFollow, NotDropped
<1> QED  BY <1>6, <1>7, <1>8, <1>9, <1>10, <1>11, <1>12, <1>13 DEF StoresFollow

\* The steps on the vectors.
LEMMA IndexingStays ==
  ASSUME Holding, Queueing, NEW t \in MemoryCalls,
         EmbedNote(t) \/ Clear(t) \/ AddVector(t) \/ Unindex(t) \/ IndexFails(t)
  PROVE  /\ Queueing' /\ calls[t].pc \in Indexing /\ phase = "up" /\ calls[t].id \in Ids
         /\ \E k : /\ calls' = [calls EXCEPT ![t] = k] /\ calls'[t] = k /\ k.pc \notin InMemory
                   /\ k = IdleCall \/ (k.id = calls[t].id /\ k.record = calls[t].record)
         /\ \A u \in MemoryCalls : u # t => calls'[u] = calls[u]
         /\ \A u, v \in MemoryCalls : Before(u, v)' <=> Before(u, v)
         /\ wasm' = wasm /\ cache' = cache /\ db' = db /\ snapshot' = snapshot /\ disturbed' = disturbed
<1>1. calls[t].pc \in Indexing /\ calls[t].pc # "idle" /\ calls[t].pc \notin InMemory
  BY DEF EmbedNote, Clear, AddVector, Unindex, IndexFails, Indexing, InMemory
<1>2. phase = "up" /\ calls[t].id \in Ids
  BY <1>1, CallAt
<1>3. /\ Goes(t, "clear").pc = "clear" /\ Goes(t, "clear").id = calls[t].id
      /\ Goes(t, "clear").record = calls[t].record
      /\ Goes(t, "add").pc = "add" /\ Goes(t, "add").id = calls[t].id
      /\ Goes(t, "add").record = calls[t].record
  BY <1>1, CallMoves DEF Goes, Indexing
<1>4. \E k \in {IdleCall, Goes(t, "clear"), Goes(t, "add")} : calls' = [calls EXCEPT ![t] = k]
  <2>1. CASE EmbedNote(t)
    BY <2>1 DEF EmbedNote, Indexed, Goes, Holding
  <2>2. CASE Clear(t)
    BY <2>2 DEF Clear, Indexed, Goes, Holding
  <2>3. CASE AddVector(t) \/ Unindex(t) \/ IndexFails(t)
    BY <2>3 DEF AddVector, Unindex, IndexFails, Indexed
  <2> QED  BY <2>1, <2>2, <2>3
<1>5. PICK k \in {IdleCall, Goes(t, "clear"), Goes(t, "add")} : calls' = [calls EXCEPT ![t] = k]
  BY <1>4
<1>6. k.pc \notin InMemory
  BY <1>3, <1>5, IdleIsCall DEF InMemory
<1>7. /\ ticks' = ticks /\ wasm' = wasm /\ cache' = cache /\ db' = db /\ snapshot' = snapshot
      /\ disturbed' = disturbed
  BY DEF EmbedNote, Clear, AddVector, Unindex, IndexFails, Indexed, memory, history
<1>8. calls'[t] = k /\ \A u \in MemoryCalls : u # t => calls'[u] = calls[u]
  BY <1>5 DEF Holding
<1>9. Queueing' /\ \A u, v \in MemoryCalls : Before(u, v)' <=> Before(u, v)
  BY <1>1, <1>5, <1>6, <1>7, QueueStays DEF Holding
<1> QED  BY <1>1, <1>2, <1>3, <1>5, <1>6, <1>7, <1>8, <1>9

LEMMA StoresIndexing ==
  ASSUME Holding, Queueing, NEW t \in MemoryCalls,
         EmbedNote(t) \/ Clear(t) \/ AddVector(t) \/ Unindex(t) \/ IndexFails(t),
         NEW i \in Ids \ disturbed', i \notin disturbed => StoresFollow(i)
  PROVE  StoresFollow(i)'
<1>1. /\ calls[t].pc \in Indexing /\ calls'[t].pc \notin InMemory
      /\ \A u \in MemoryCalls : u # t => calls'[u] = calls[u]
      /\ \A u, v \in MemoryCalls : Before(u, v)' <=> Before(u, v)
      /\ wasm' = wasm /\ cache' = cache /\ db' = db /\ snapshot' = snapshot /\ disturbed' = disturbed
  BY IndexingStays
<1> QED  BY <1>1, OtherIdKeeps DEF On, Indexing, InMemory

LEMMA QuietStores ==
  ASSUME \A t \in MemoryCalls : calls'[t] = IdleCall, NEW i \in Ids,
         wasm'[i] = Parsed(db'[i]), cache'[i] = wasm'[i]
  PROVE  StoresFollow(i)'
<1>1. \A t \in MemoryCalls : calls'[t].pc = "idle"
  BY DEF IdleCall
<1> QED  BY <1>1 DEF StoresFollow, WrittenLast, SavedLast, ModuleSettled, CachedLast, CacheSettled,
                     ReadIsSaved, ReadIsFirst, DeletedAlone, NotDropped, Latest, On, Deleting

-----------------------------------------------------------------------------
MemoryInv == Holding /\ Queueing /\ StoresInv

InMemoryStep(t) ==
  \/ SetCache(t) \/ Persist(t) \/ RollBack(t) \/ Restore(t)
  \/ RollBackFails(t) \/ DropFromCache(t) \/ Forget(t) \/ Uncache(t)
IndexingStep(t) == EmbedNote(t) \/ Clear(t) \/ AddVector(t) \/ Unindex(t) \/ IndexFails(t)

LEMMA StepsAre ==
  ASSUME MemoryNext
  PROVE  \/ \E t \in MemoryCalls, id \in Ids : Writes(t, id) \/ DeleteRecord(t, id)
         \/ \E t \in MemoryCalls : InMemoryStep(t) \/ IndexingStep(t)
         \/ Boot \/ Crash
BY DEF MemoryNext, Writes, InMemoryStep, IndexingStep

LEMMA HoldingStep == ASSUME Holding, MemoryNext  PROVE Holding'
<1>1. CASE \E t \in MemoryCalls, id \in Ids : Writes(t, id)
  BY <1>1, WritesBegin, HoldingBegins
<1>2. CASE \E t \in MemoryCalls, id \in Ids : DeleteRecord(t, id)
  BY <1>2, HoldingDelete
<1>3. CASE \E t \in MemoryCalls : InMemoryStep(t)
  BY <1>3, HoldingInMemory DEF InMemoryStep
<1>4. CASE \E t \in MemoryCalls : IndexingStep(t)
  BY <1>4, HoldingIndexing DEF IndexingStep
<1>5. CASE Boot \/ Crash
  BY <1>5, HoldingBoot, HoldingCrash
<1> QED  BY <1>1, <1>2, <1>3, <1>4, <1>5, StepsAre

LEMMA QueueingBegins ==
  ASSUME Holding, Queueing, NEW t \in MemoryCalls, NEW k, calls[t].pc = "idle", k.pc \in InMemory,
         calls' = [calls EXCEPT ![t] = k], ticks' = Append(ticks, t)
  PROVE  Queueing'
BY QueueAppends DEF Holding, InMemory

LEMMA QueueingStep == ASSUME Holding, Queueing, MemoryNext  PROVE Queueing'
<1>1. ASSUME NEW t \in MemoryCalls, NEW id \in Ids, Writes(t, id) \/ DeleteRecord(t, id)  PROVE Queueing'
  <2>1. CASE Writes(t, id)
    <3>1. PICK r \in Sound : Begins(t, id, r)
      BY <2>1, WritesBegin
    <3> DEFINE k == [pc |-> "cache", id |-> id, record |-> r]
    <3>2. k.pc \in InMemory
      BY DEF InMemory
    <3>3. calls[t].pc = "idle" /\ calls' = [calls EXCEPT ![t] = k] /\ ticks' = Append(ticks, t)
      BY <3>1 DEF Begins, BeginCall, MayBegin
    <3> HIDE DEF k
    <3> QED  BY <3>2, <3>3, QueueingBegins
  <2>2. CASE DeleteRecord(t, id)
    <3> DEFINE k == [pc |-> "forget", id |-> id, record |-> NoRecord]
    <3>2. k.pc \in InMemory
      BY DEF InMemory
    <3>3. calls[t].pc = "idle" /\ calls' = [calls EXCEPT ![t] = k] /\ ticks' = Append(ticks, t)
      BY <2>2 DEF DeleteRecord, MayBegin
    <3> HIDE DEF k
    <3> QED  BY <3>2, <3>3, QueueingBegins
  <2> QED  BY <1>1, <2>1, <2>2
<1>2. ASSUME NEW t \in MemoryCalls, NEW pc, NEW next \in InMemory, Turn(t, pc), GoOn(t, next)
      PROVE  Queueing'
  <2>1. calls[t].pc # "idle" /\ ticks' = Append(Tail(ticks), t)
    BY <1>2, QueueHead DEF GoOn, InMemory
  <2>2. calls' = [calls EXCEPT ![t] = Goes(t, next)] /\ Goes(t, next).pc \in InMemory
    BY <1>2, <2>1, GoesOn
  <2> QED  BY <1>2, <2>1, <2>2, QueueRotates DEF Holding
<1>3. ASSUME NEW t \in MemoryCalls, NEW pc, NEW k, Turn(t, pc), k.pc \notin InMemory,
             calls' = [calls EXCEPT ![t] = k], ticks' = Tail(ticks)
      PROVE  Queueing'
  BY <1>3, QueuePops DEF Holding
<1>4. ASSUME NEW t \in MemoryCalls, InMemoryStep(t)  PROVE Queueing'
  <2>0. {"persist", "restore", "drop", "uncache"} \subseteq InMemory
    BY DEF InMemory
  <2>1. CASE SetCache(t)
    BY <1>2, <2>0, <2>1 DEF SetCache
  <2>2. CASE RollBack(t)
    BY <1>2, <2>0, <2>2 DEF RollBack
  <2>3. CASE RollBackFails(t)
    BY <1>2, <2>0, <2>3 DEF RollBackFails
  <2>4. CASE Forget(t)
    BY <1>2, <2>0, <2>4 DEF Forget
  <2>5. CASE Persist(t)
    <3>1. Turn(t, "persist")
      BY <2>5 DEF Persist
    <3>2. \E k : k.pc \notin InMemory /\ calls' = [calls EXCEPT ![t] = k] /\ ticks' = Tail(ticks)
      BY <2>5, PersistLeaves
    <3> QED  BY <1>3, <3>1, <3>2
  <2>6. CASE Restore(t) \/ DropFromCache(t)
    <3>1. IdleCall.pc \notin InMemory
      BY DEF IdleCall, InMemory
    <3>2. CASE Restore(t)
      BY <1>3, <3>1, <3>2 DEF Restore, End
    <3>3. CASE DropFromCache(t)
      BY <1>3, <3>1, <3>3 DEF DropFromCache, End
    <3> QED  BY <2>6, <3>2, <3>3
  <2>7. CASE Uncache(t)
    <3>1. calls[t].pc = "uncache" /\ Turn(t, "uncache") /\ GoOn(t, "unindex")
      BY <2>7 DEF Uncache, Turn
    <3>2. "unindex" \in Indexing /\ "unindex" \notin InMemory
      BY DEF Indexing, InMemory
    <3>3. calls' = [calls EXCEPT ![t] = Goes(t, "unindex")] /\ Goes(t, "unindex").pc = "unindex"
      BY <3>1, <3>2, GoesOn
    <3>4. ticks' = Tail(ticks)
      BY <3>1, <3>2 DEF GoOn
    <3> QED  BY <1>3, <3>1, <3>2, <3>3, <3>4
  <2> QED  BY <1>4, <2>1, <2>2, <2>3, <2>4, <2>5, <2>6, <2>7 DEF InMemoryStep
<1>5. ASSUME NEW t \in MemoryCalls, IndexingStep(t)  PROVE Queueing'
  BY <1>5, IndexingStays DEF IndexingStep
<1>6. ASSUME Boot  PROVE Queueing'
  BY <1>6 DEF Boot, Queueing
<1>7. ASSUME Crash  PROVE Queueing'
  BY <1>7, QueueEmpties DEF Crash
<1> QED  BY <1>1, <1>4, <1>5, <1>6, <1>7, StepsAre

LEMMA StoresStep == ASSUME MemoryInv, MemoryNext  PROVE StoresInv'
<1>0. Holding /\ Queueing /\ (phase = "up" => \A i \in Ids : i \notin disturbed => StoresFollow(i))
  BY DEF MemoryInv, StoresInv
<1>1. ASSUME NEW t \in MemoryCalls, NEW id \in Ids, Writes(t, id)  PROVE StoresInv'
  <2>1. PICK r \in Sound : Begins(t, id, r)
    BY <1>0, <1>1, WritesBegin
  <2>2. phase = "up"
    BY <2>1 DEF Begins, MayBegin
  <2> QED  BY <1>0, <2>1, <2>2, StoresBegin DEF StoresInv
<1>2. ASSUME NEW t \in MemoryCalls, NEW id \in Ids, DeleteRecord(t, id)  PROVE StoresInv'
  <2>1. phase = "up"
    BY <1>2 DEF DeleteRecord, MayBegin
  <2> QED  BY <1>0, <1>2, <2>1, StoresDelete DEF StoresInv
<1>3. ASSUME NEW t \in MemoryCalls, InMemoryStep(t)  PROVE StoresInv'
  <2>1. calls[t].pc # "idle"
    BY <1>3 DEF InMemoryStep, SetCache, Persist, RollBack, Restore, RollBackFails, DropFromCache,
                Forget, Uncache, Turn
  <2>2. phase = "up"
    BY <1>0, <2>1, CallAt
  <2>3. \A i \in Ids : i \notin disturbed => StoresFollow(i)
    BY <1>0, <2>2
  <2>4. \A i \in Ids \ disturbed' : StoresFollow(i)'
    BY <1>0, <1>3, <2>3, StoresSetCache, StoresPersist, StoresRollBack, StoresRestore, StoresDrop,
       StoresForget, StoresUncache DEF InMemoryStep
  <2> QED  BY <2>4 DEF StoresInv
<1>4. ASSUME NEW t \in MemoryCalls, IndexingStep(t)  PROVE StoresInv'
  <2>1. phase = "up"
    BY <1>0, <1>4, IndexingStays DEF IndexingStep
  <2>2. \A i \in Ids \ disturbed' : StoresFollow(i)'
    BY <1>0, <1>4, <2>1, StoresIndexing DEF IndexingStep
  <2> QED  BY <2>2 DEF StoresInv
<1>5. ASSUME Boot  PROVE StoresInv'
  <2>1. \A i \in Ids : wasm'[i] = Parsed(db'[i]) /\ cache'[i] = wasm'[i]
    BY <1>5, ParsedIs DEF Boot
  <2>2. \A t \in MemoryCalls : calls'[t] = IdleCall
    BY <1>0, <1>5 DEF Boot, Holding
  <2>3. \A i \in Ids : StoresFollow(i)'
    BY <2>1, <2>2, QuietStores
  <2> QED  BY <2>3 DEF StoresInv
<1>6. ASSUME Crash  PROVE StoresInv'
  BY <1>6 DEF Crash, StoresInv
<1> QED  BY <1>1, <1>2, <1>3, <1>4, <1>5, <1>6, StepsAre

LEMMA MemoryInitInv == ASSUME MemoryInit  PROVE MemoryInv
<1>1. Nothing \in SoundStores
  BY DEF Nothing, SoundStores
<1>2. Holding
  BY <1>1, IdleIsCall, MemoryAssumption DEF MemoryInit, Holding
<1>3. Queueing
  <2>1. \A u \in MemoryCalls : calls[u].pc = "idle"
    BY DEF MemoryInit, IdleCall
  <2>2. DOMAIN ticks = {} /\ ticks \in Seq(MemoryCalls)
    BY DEF MemoryInit
  <2> QED  BY <2>1, <2>2 DEF Queueing, Once, In, InMemory
<1> QED  BY <1>2, <1>3 DEF MemoryInv, StoresInv, MemoryInit

LEMMA MemoryStutters == ASSUME MemoryInv, UNCHANGED memoryVars  PROVE MemoryInv'
<1>1. Holding' /\ Queueing'
  BY DEF MemoryInv, Holding, Queueing, memoryVars
<1>2. \A id \in Ids : StoresFollow(id) => StoresFollow(id)'
  BY DEF memoryVars, StoresFollow, WrittenLast, SavedLast, ModuleSettled, CachedLast, CacheSettled,
         Restoring, ReadIsSaved, ReadIsFirst, DeletedAlone, NotDropped, Latest, On, Deleting, InFlight, Before
<1> QED  BY <1>1, <1>2 DEF MemoryInv, StoresInv, memoryVars

LEMMA MemoryAlways == MemorySpec => []MemoryInv
<1>1. MemoryInit => MemoryInv
  BY MemoryInitInv
<1>2. MemoryInv /\ [MemoryNext]_memoryVars => MemoryInv'
  <2>1. ASSUME MemoryInv, MemoryNext  PROVE MemoryInv'
    BY <2>1, HoldingStep, QueueingStep, StoresStep DEF MemoryInv
  <2> QED  BY <2>1, MemoryStutters
<1> QED  BY <1>1, <1>2, PTL DEF MemorySpec

\* The stores keep records of their type, and a call is in the queue while it is in memory.
THEOREM MemoryTypes == MemorySpec => []MemoryTypeOK
<1>1. MemoryInv => MemoryTypeOK
  <2>1. SoundStores \subseteq Stores
    BY DEF SoundStores, Stores, Sound
  <2>2. snapshot \in [MemoryCalls -> SoundStores] => snapshot \in [MemoryCalls -> Stores]
    BY <2>1
  <2> QED  BY <2>1, <2>2 DEF MemoryInv, Holding, Queueing, MemoryTypeOK, CallStates, In
<1> QED  BY <1>1, MemoryAlways, PTL

\* Module and cache agree with each other, and with the database where the row parses, on
\* every id that no race disturbed, when no call is between two of them.
THEOREM StoresAlwaysAgree == MemorySpec => []StoresAgree
<1>1. MemoryInv => StoresAgree
  <2> SUFFICES ASSUME MemoryInv, Quiet, NEW id \in Ids \ disturbed
               PROVE  cache[id] = wasm[id] /\ wasm[id] \in {db[id], Parsed(db[id])}
    BY DEF StoresAgree
  <2>1. StoresFollow(id)
    BY DEF MemoryInv, StoresInv, Quiet
  <2>2. \A t \in MemoryCalls : calls[t].pc \notin InMemory
    BY DEF Quiet
  <2>3. ~InFlight(id, Writing \cup {"forget"}) /\ ~InFlight(id, Writing \cup Deleting)
    BY <2>2 DEF InFlight, InMemory, Writing, Deleting
  <2>4. ~Restoring
    BY <2>2 DEF InMemory, Restoring
  <2> QED  BY <2>1, <2>3, <2>4 DEF StoresFollow, ModuleSettled, CacheSettled
<1> QED  BY <1>1, MemoryAlways, PTL

\* No checklist of any store has items that hang from themselves or from nothing.
THEOREM ItemsStayRooted == MemorySpec => []ItemsRooted
<1>1. MemoryInv => ItemsRooted
  <2> SUFFICES ASSUME MemoryInv, NEW store \in {wasm, cache, db}, NEW id \in Ids, store[id].kind = "checklist"
               PROVE  Hung(store[id].items)
    BY DEF ItemsRooted, Hung
  <2>1. store \in SoundStores
    BY DEF MemoryInv, Holding
  <2>2. store[id] \in Sound
    BY <2>1 DEF SoundStores, NoRecord
  <2> QED  BY <2>2 DEF Sound, Sensible
<1> QED  BY <1>1, MemoryAlways, PTL

-----------------------------------------------------------------------------
\* An id has one kind for good: its records are of that kind wherever they are.
Of(r, k) == r.kind \in {"none", k}
IsKind(id, k) ==
  /\ Of(wasm[id], k) /\ Of(cache[id], k) /\ Of(db[id], k)
  /\ \A t \in MemoryCalls : Of(snapshot[t][id], k)
  /\ \A t \in MemoryCalls : calls[t].id = id => Of(calls[t].record, k)
OneKind(id) == \E k \in RecordKinds : IsKind(id, k)

\* A call holds a snapshot only between its rollback and the restore.
ReadsHeld == \A t \in MemoryCalls : calls[t].pc # "restore" => snapshot[t] = Nothing

KindsInv == ReadsHeld /\ \A id \in Ids : OneKind(id)

LEMMA ReadsHeldStep == ASSUME MemoryInv, ReadsHeld, MemoryNext  PROVE ReadsHeld'
<1>0. Holding /\ Queueing
  BY DEF MemoryInv
<1>1. ASSUME NEW t \in MemoryCalls, NEW id \in Ids, Writes(t, id) \/ DeleteRecord(t, id)  PROVE ReadsHeld'
  <2>1. CASE Writes(t, id)
    <3>1. PICK r \in Sound : Begins(t, id, r)
      BY <1>0, <2>1, WritesBegin
    <3> QED  BY <1>0, <3>1 DEF Begins, BeginCall, MayBegin, ReadsHeld, Holding
  <2>2. CASE DeleteRecord(t, id)
    BY <1>0, <2>2 DEF DeleteRecord, MayBegin, ReadsHeld, Holding
  <2> QED  BY <1>1, <2>1, <2>2
<1>2. ASSUME NEW t \in MemoryCalls, InMemoryStep(t)  PROVE ReadsHeld'
  <2>1. CASE RollBack(t)
    <3>1. /\ calls'[t].pc = "restore" /\ \A u \in MemoryCalls : u # t => calls'[u] = calls[u]
          /\ snapshot' = [snapshot EXCEPT ![t] = Loaded(db)]
      BY <1>0, <2>1, Requeues DEF RollBack, InMemory
    <3> QED  BY <1>0, <3>1 DEF ReadsHeld, Holding
  <2>2. CASE Restore(t)
    BY <1>0, <2>2 DEF Restore, End, ReadsHeld, Holding
  <2>3. CASE ~RollBack(t) /\ ~Restore(t)
    <3>1. snapshot' = snapshot /\ \A u \in MemoryCalls : u # t => calls'[u] = calls[u]
      BY <1>0, <1>2, <2>3 DEF InMemoryStep, SetCache, Persist, RollBackFails, DropFromCache, Forget, Uncache,
                             GoOn, End, Holding
    <3>2. calls[t].pc # "restore"
      BY <1>2, <2>3 DEF InMemoryStep, SetCache, Persist, RollBackFails, DropFromCache, Forget, Uncache, Turn
    <3> QED  BY <3>1, <3>2 DEF ReadsHeld
  <2> QED  BY <2>1, <2>2, <2>3
<1>3. ASSUME NEW t \in MemoryCalls, IndexingStep(t)  PROVE ReadsHeld'
  <2>1. /\ calls[t].pc \in Indexing /\ snapshot' = snapshot
        /\ \A u \in MemoryCalls : u # t => calls'[u] = calls[u]
    BY <1>0, <1>3, IndexingStays DEF IndexingStep
  <2> QED  BY <2>1 DEF ReadsHeld, Indexing
<1>4. ASSUME Boot \/ Crash  PROVE ReadsHeld'
  BY <1>4 DEF Boot, Crash, ReadsHeld
<1> QED  BY <1>1, <1>2, <1>3, <1>4, StepsAre

\* The kind of no record, and of those under an id.
LEMMA OfNone == \A k : Of(NoRecord, k)
BY DEF Of, NoRecord

LEMMA KindBegins ==
  ASSUME MemoryInv, KindsInv, NEW t \in MemoryCalls, NEW id \in Ids, NEW r \in Sound, Begins(t, id, r),
         NEW i \in Ids
  PROVE  OneKind(i)'
<1>0. Holding
  BY DEF MemoryInv
<1>1. /\ phase = "up" /\ calls' = [calls EXCEPT ![t] = [pc |-> "cache", id |-> id, record |-> r]]
      /\ wasm' = [wasm EXCEPT ![id] = r] /\ cache' = cache /\ db' = db /\ snapshot' = snapshot
  BY DEF Begins, BeginCall, MayBegin
<1>2. PICK k \in RecordKinds : IsKind(i, k)
  BY DEF KindsInv, OneKind
<1>3. /\ calls'[t].id = id /\ calls'[t].record = r /\ \A u \in MemoryCalls : u # t => calls'[u] = calls[u]
  BY <1>0, <1>1 DEF Holding
<1>4. r.kind \in RecordKinds
  BY DEF Sound, MemoryRecord, RecordKinds
<1>5. CASE i # id
  <2>1. wasm'[i] = wasm[i]
    BY <1>0, <1>1, <1>5 DEF Holding, SoundStores
  <2>2. IsKind(i, k)'
    BY <1>1, <1>2, <1>3, <1>5, <2>1 DEF IsKind
  <2> QED  BY <2>2 DEF OneKind
<1>6. CASE i = id
  <2>1. wasm'[i] = r
    BY <1>0, <1>1, <1>6 DEF Holding, SoundStores
  <2>2. CASE wasm[id] # NoRecord /\ wasm[id].kind = r.kind
    <3>1. wasm[id] \in Sound
      BY <1>0, <2>2 DEF Holding, SoundStores
    <3>2. k = r.kind
      BY <1>2, <1>6, <2>2, <3>1 DEF IsKind, Of, Sound, MemoryRecord
    <3>3. Of(r, k)
      BY <3>2 DEF Of
    <3>4. IsKind(i, k)'
      BY <1>1, <1>2, <1>3, <1>6, <2>1, <3>3 DEF IsKind
    <3> QED  BY <3>4 DEF OneKind
  <2>3. CASE FreshId(id)
    <3>1. /\ wasm[i] = NoRecord /\ cache[i] = NoRecord /\ db[i] = NoRecord /\ i \notin disturbed
          /\ ~InFlight(i, InMemory \cup Indexing)
      BY <1>6, <2>3 DEF FreshId
    <3>2. \A u \in MemoryCalls : calls[u].id = i => calls[u].record = NoRecord
      <4>1. \A u \in MemoryCalls : calls[u].id = i => calls[u].pc \notin InMemory \cup Indexing
        BY <3>1 DEF InFlight
      <4>2. \A u \in MemoryCalls : CallIs(calls[u])
        BY <1>0 DEF Holding
      <4> QED  BY <4>1, <4>2 DEF CallIs, InMemory, Indexing, Writing, Deleting, Embedding, IdleCall
    <3>3. \A u \in MemoryCalls : snapshot[u][i] = NoRecord
      <4> SUFFICES ASSUME NEW u \in MemoryCalls  PROVE snapshot[u][i] = NoRecord
        OBVIOUS
      <4>1. CASE calls[u].pc # "restore"
        BY <4>1 DEF KindsInv, ReadsHeld, Nothing
      <4>2. CASE calls[u].pc = "restore"
        <5>1. \A v \in MemoryCalls : ~On(v, i, {"forget"})
          BY <3>1 DEF InFlight, On, InMemory
        <5>2. StoresFollow(i)
          BY <1>1, <3>1 DEF MemoryInv, StoresInv
        <5> QED  BY <3>1, <4>2, <5>1, <5>2, ParsedIs DEF StoresFollow, ReadIsSaved
      <4> QED  BY <4>1, <4>2
    <3>4. IsKind(i, r.kind)'
      <4>1. Of(r, r.kind)
        BY DEF Of
      <4> QED  BY <1>1, <1>3, <2>1, <3>1, <3>2, <3>3, <4>1, OfNone DEF IsKind
    <3> QED  BY <1>4, <3>4 DEF OneKind
  <2> QED  BY <2>2, <2>3 DEF Begins
<1> QED  BY <1>5, <1>6

\* The other steps move records, or take them away.
LEMMA KindMoves ==
  ASSUME NEW i \in Ids, OneKind(i),
         \A k \in RecordKinds : IsKind(i, k) => IsKind(i, k)'
  PROVE  OneKind(i)'
BY DEF OneKind

LEMMA KindInMemory ==
  ASSUME Holding, Queueing, NEW t \in MemoryCalls, InMemoryStep(t), NEW i \in Ids, NEW k, IsKind(i, k)
  PROVE  IsKind(i, k)'
<1> DEFINE id == calls[t].id
<1>1. /\ calls[t].pc # "idle" /\ id \in Ids
  <2>1. calls[t].pc # "idle"
    BY DEF InMemoryStep, SetCache, Persist, RollBack, Restore, RollBackFails, DropFromCache, Forget,
           Uncache, Turn
  <2> QED  BY <2>1, CallAt
<1>2. \A u \in MemoryCalls : \/ calls'[u].id = calls[u].id /\ calls'[u].record = calls[u].record
                             \/ calls'[u] = IdleCall
  <2>1. \E pc \in InMemory \cup Indexing : GoOn(t, pc) \/ End(t)
    BY DEF InMemoryStep, SetCache, Persist, RollBack, Restore, RollBackFails, DropFromCache, Forget,
           Uncache, InMemory, Indexing
  <2>2. PICK pc \in InMemory \cup Indexing : GoOn(t, pc) \/ End(t)
    BY <2>1
  <2>3. CASE GoOn(t, pc)
    BY <1>1, <2>3, GoesOn DEF Holding
  <2>4. CASE End(t)
    BY <2>4 DEF End, Holding
  <2> QED  BY <2>2, <2>3, <2>4
<1>3. \A u \in MemoryCalls : calls'[u].id = i => Of(calls'[u].record, k)
  BY <1>2, OfNone DEF IsKind, IdleCall
<1>4. /\ wasm'[i] \in {wasm[i], db[i], NoRecord}
      /\ cache'[i] \in {cache[i], NoRecord, snapshot[t][i]} \/ (i = id /\ cache'[i] = calls[t].record)
      /\ db'[i] = db[i] \/ (i = id /\ db'[i] = calls[t].record)
  BY <1>1, ParsedIs DEF InMemoryStep, SetCache, Persist, RollBack, Restore, RollBackFails, DropFromCache, Forget,
           Uncache, memory, history, Holding, SoundStores
<1>5. \A u \in MemoryCalls : snapshot'[u][i] \in {snapshot[u][i], db[i], NoRecord}
  BY ParsedIs DEF InMemoryStep, SetCache, Persist, RollBack, Restore, RollBackFails, DropFromCache, Forget,
           Uncache, memory, history, Holding, SoundStores, Nothing
<1>6. Of(wasm'[i], k) /\ Of(cache'[i], k) /\ Of(db'[i], k)
  BY <1>4, OfNone DEF IsKind
<1>7. \A u \in MemoryCalls : Of(snapshot'[u][i], k)
  BY <1>5, OfNone DEF IsKind
<1> QED  BY <1>3, <1>6, <1>7 DEF IsKind

LEMMA KindsStep == ASSUME MemoryInv, KindsInv, MemoryNext  PROVE KindsInv'
<1>0. Holding /\ Queueing /\ ReadsHeld /\ \A i \in Ids : OneKind(i)
  BY DEF MemoryInv, KindsInv
<1>1. ASSUME NEW t \in MemoryCalls, NEW id \in Ids, Writes(t, id), NEW i \in Ids  PROVE OneKind(i)'
  BY <1>0, <1>1, WritesBegin, KindBegins
<1>2. ASSUME NEW t \in MemoryCalls, NEW id \in Ids, DeleteRecord(t, id), NEW i \in Ids  PROVE OneKind(i)'
  <2>1. /\ wasm' = wasm /\ cache' = cache /\ snapshot' = snapshot /\ db'[i] \in {db[i], NoRecord}
        /\ \A u \in MemoryCalls : calls'[u] = calls[u] \/ calls'[u].record = NoRecord
    BY <1>0, <1>2 DEF DeleteRecord, Holding, SoundStores
  <2>2. \A k \in RecordKinds : IsKind(i, k) => IsKind(i, k)'
    BY <2>1, OfNone DEF IsKind
  <2> QED  BY <1>0, <2>2, KindMoves
<1>3. ASSUME NEW t \in MemoryCalls, InMemoryStep(t), NEW i \in Ids  PROVE OneKind(i)'
  BY <1>0, <1>3, KindInMemory, KindMoves
<1>4. ASSUME NEW t \in MemoryCalls, IndexingStep(t), NEW i \in Ids  PROVE OneKind(i)'
  <2>1. /\ wasm' = wasm /\ cache' = cache /\ db' = db /\ snapshot' = snapshot
        /\ \A u \in MemoryCalls : u # t => calls'[u] = calls[u]
        /\ calls'[t] = IdleCall \/ (calls'[t].id = calls[t].id /\ calls'[t].record = calls[t].record)
    BY <1>0, <1>4, IndexingStays DEF IndexingStep
  <2>2. \A k \in RecordKinds : IsKind(i, k) => IsKind(i, k)'
    BY <2>1, OfNone DEF IsKind, IdleCall
  <2> QED  BY <1>0, <2>2, KindMoves
<1>5. ASSUME Boot, NEW i \in Ids  PROVE OneKind(i)'
  <2>1. /\ wasm'[i] \in {db'[i], NoRecord} /\ cache'[i] \in {db'[i], NoRecord}
        /\ db'[i] \in Sound \cup {NoRecord}
    BY <1>0, <1>5, BootSweeps, ParsedIs DEF Holding, SoundStores
  <2>2. calls' = calls /\ snapshot' = snapshot /\ phase = "down"
    BY <1>5 DEF Boot
  <2>3. \A u \in MemoryCalls : calls[u] = IdleCall /\ snapshot[u][i] = NoRecord
    BY <1>0, <2>2 DEF Holding, ReadsHeld, IdleCall, Nothing
  <2>4. PICK k \in RecordKinds : Of(db'[i], k)
    BY <2>1 DEF Of, RecordKinds, Sound, MemoryRecord, NoRecord
  <2>5. IsKind(i, k)'
    BY <2>1, <2>2, <2>3, <2>4, OfNone DEF IsKind, IdleCall
  <2> QED  BY <2>5 DEF OneKind
<1>6. ASSUME Crash, NEW i \in Ids  PROVE OneKind(i)'
  <2>1. /\ wasm'[i] = NoRecord /\ cache'[i] = NoRecord /\ db' = db
        /\ \A u \in MemoryCalls : calls'[u].record = NoRecord /\ snapshot'[u][i] = NoRecord
    BY <1>6 DEF Crash, Nothing, IdleCall
  <2>2. \A k \in RecordKinds : IsKind(i, k) => IsKind(i, k)'
    BY <2>1, OfNone DEF IsKind
  <2> QED  BY <1>0, <2>2, KindMoves
<1>7. \A i \in Ids : OneKind(i)'
  BY <1>1, <1>2, <1>3, <1>4, <1>5, <1>6, StepsAre
<1> QED  BY <1>0, <1>7, ReadsHeldStep DEF KindsInv

-----------------------------------------------------------------------------
\* The vectors of an id that nothing disturbed or blurred: one call at most works on them,
\* towards the row as it is, unless a deletion will follow.
TextOf(r) == IF r.kind = "session_note" /\ r.status = "active" THEN {r.text} ELSE {}

OneAtWork(id) == \A t, u \in MemoryCalls : On(t, id, Indexing) /\ On(u, id, Indexing) => t = u
TextSettled(id) ==
  ~InFlight(id, Indexing) /\ ~InFlight(id, Deleting) =>
    vectors[id] = TextOf(db[id]) \/ (vectors[id] = {} /\ Parsed(db[id]) = NoRecord)
WorksOnRow(id) ==
  \A t \in MemoryCalls : On(t, id, Indexing) => InFlight(id, Deleting) \/ db[id] = calls[t].record
Cleared(id) == \A t \in MemoryCalls : On(t, id, {"add"}) => vectors[id] = {}
GoneForGood(id) ==
  \A t \in MemoryCalls : On(t, id, {"unindex"}) /\ calls[t].record = NoRecord =>
    wasm[id] = NoRecord /\ ~InFlight(id, Writing)

VectorsFollow(id) ==
  OneAtWork(id) /\ TextSettled(id) /\ WorksOnRow(id) /\ Cleared(id) /\ GoneForGood(id)
VectorsInv == phase = "up" => \A id \in Ids : id \notin disturbed /\ id \notin blurred => VectorsFollow(id)

\* A step that leaves the vectors and the row of the id, and the calls that work on them.
LEMMA VectorsFrame ==
  ASSUME NEW id \in Ids, VectorsFollow(id), StoresFollow(id),
         \A u \in MemoryCalls : On(u, id, Indexing)' => calls'[u] = calls[u],
         \A u \in MemoryCalls : On(u, id, Indexing) => calls'[u] = calls[u],
         InFlight(id, Deleting)' <=> InFlight(id, Deleting),
         InFlight(id, Writing)' => InFlight(id, Writing),
         wasm[id] = NoRecord /\ db[id] = NoRecord => wasm'[id] = NoRecord,
         vectors'[id] = vectors[id], db'[id] = db[id]
  PROVE  VectorsFollow(id)'
<1>1. \A u \in MemoryCalls : On(u, id, Indexing)' <=> On(u, id, Indexing)
  BY DEF On
<1>2. InFlight(id, Indexing)' <=> InFlight(id, Indexing)
  BY <1>1, InFlightIsOn DEF InFlight, On
<1>3. OneAtWork(id)' /\ TextSettled(id)' /\ WorksOnRow(id)'
  BY <1>1, <1>2 DEF VectorsFollow, OneAtWork, TextSettled, WorksOnRow
<1>4. Cleared(id)'
  BY <1>1 DEF VectorsFollow, Cleared, On, Indexing
<1>5. GoneForGood(id)'
  <2> SUFFICES ASSUME NEW t \in MemoryCalls, On(t, id, {"unindex"})', calls'[t].record = NoRecord
               PROVE  wasm'[id] = NoRecord /\ ~InFlight(id, Writing)'
    BY DEF GoneForGood
  <2>1. calls'[t] = calls[t] /\ On(t, id, Indexing) /\ On(t, id, {"unindex"}) /\ calls[t].record = NoRecord
    BY DEF On, Indexing
  <2>2. wasm[id] = NoRecord /\ ~InFlight(id, Writing)
    BY <2>1 DEF VectorsFollow, GoneForGood
  <2>3. db[id] = NoRecord
    <3>1. InFlight(id, Deleting) => db[id] = NoRecord
      BY InFlightIsOn DEF StoresFollow, DeletedAlone
    <3> QED  BY <2>1, <3>1 DEF VectorsFollow, WorksOnRow
  <2> QED  BY <2>2, <2>3
<1> QED  BY <1>3, <1>4, <1>5 DEF VectorsFollow

LEMMA VectorsBegin ==
  ASSUME Holding, NEW t \in MemoryCalls, NEW id \in Ids, NEW r \in Sound, Begins(t, id, r),
         NEW i \in Ids, StoresFollow(i), VectorsFollow(i)
  PROVE  VectorsFollow(i)'
<1> DEFINE k == [pc |-> "cache", id |-> id, record |-> r]
<1>1. /\ calls[t].pc = "idle" /\ calls' = [calls EXCEPT ![t] = k] /\ wasm' = [wasm EXCEPT ![id] = r]
      /\ db' = db /\ vectors' = vectors
  BY DEF Begins, BeginCall, MayBegin
<1>2. calls'[t] = k /\ \A u \in MemoryCalls : u # t => calls'[u] = calls[u]
  BY <1>1 DEF Holding
<1>a. k.pc = "cache" /\ k.id = id
  OBVIOUS
<1> HIDE DEF k
<1>3. \A u \in MemoryCalls : On(u, i, Indexing)' => calls'[u] = calls[u]
  BY <1>2, <1>a DEF On, Indexing
<1>4. \A u \in MemoryCalls : On(u, i, Indexing) => calls'[u] = calls[u]
  BY <1>1, <1>2 DEF On, Indexing
<1>5. InFlight(i, Deleting)' <=> InFlight(i, Deleting)
  BY <1>1, <1>2, <1>a DEF InFlight, Deleting
<1>6. CASE i # id
  <2>1. InFlight(i, Writing)' => InFlight(i, Writing)
    BY <1>2, <1>6, <1>a DEF InFlight
  <2>2. wasm'[i] = wasm[i]
    BY <1>1, <1>6 DEF Holding, SoundStores
  <2> QED  BY <1>1, <1>3, <1>4, <1>5, <2>1, <2>2, VectorsFrame
<1>7. CASE i = id
  <2>1. \A u \in MemoryCalls : On(u, i, {"unindex"}) => calls[u].record # NoRecord
    <3>1. CASE FreshId(id)
      BY <1>7, <3>1 DEF FreshId, InFlight, On, Indexing
    <3>2. CASE wasm[id] # NoRecord
      BY <1>7, <3>2 DEF VectorsFollow, GoneForGood
    <3> QED  BY <3>1, <3>2 DEF Begins
  <2>2. \A u \in MemoryCalls : On(u, i, Indexing)' <=> On(u, i, Indexing)
    BY <1>3, <1>4 DEF On
  <2>3. InFlight(i, Indexing)' <=> InFlight(i, Indexing)
    BY <2>2 DEF InFlight, On
  <2>4. OneAtWork(i)' /\ TextSettled(i)' /\ WorksOnRow(i)'
    BY <1>1, <1>3, <1>5, <2>2, <2>3 DEF VectorsFollow, OneAtWork, TextSettled, WorksOnRow
  <2>5. Cleared(i)'
    BY <1>1, <1>3, <2>2 DEF VectorsFollow, Cleared, On, Indexing
  <2>6. GoneForGood(i)'
    BY <1>3, <2>1 DEF GoneForGood, On, Indexing
  <2> QED  BY <2>4, <2>5, <2>6 DEF VectorsFollow
<1> QED  BY <1>6, <1>7

LEMMA VectorsDelete ==
  ASSUME Holding, NEW t \in MemoryCalls, NEW id \in Ids, DeleteRecord(t, id),
         NEW i \in Ids, StoresFollow(i), VectorsFollow(i)
  PROVE  VectorsFollow(i)'
<1> DEFINE k == [pc |-> "forget", id |-> id, record |-> NoRecord]
<1>1. /\ calls[t].pc = "idle" /\ calls' = [calls EXCEPT ![t] = k] /\ db' = [db EXCEPT ![id] = NoRecord]
      /\ wasm' = wasm /\ vectors' = vectors
  BY DEF DeleteRecord, MayBegin
<1>2. calls'[t] = k /\ \A u \in MemoryCalls : u # t => calls'[u] = calls[u]
  BY <1>1 DEF Holding
<1>a. k.pc = "forget" /\ k.id = id
  OBVIOUS
<1> HIDE DEF k
<1>3. \A u \in MemoryCalls : On(u, i, Indexing)' => calls'[u] = calls[u]
  BY <1>2, <1>a DEF On, Indexing
<1>4. \A u \in MemoryCalls : On(u, i, Indexing) => calls'[u] = calls[u]
  BY <1>1, <1>2 DEF On, Indexing
<1>5. InFlight(i, Writing)' => InFlight(i, Writing)
  BY <1>2, <1>a DEF InFlight, Writing
<1>6. CASE i # id
  <2>1. InFlight(i, Deleting)' <=> InFlight(i, Deleting)
    BY <1>1, <1>2, <1>6, <1>a DEF InFlight, Deleting
  <2>2. db'[i] = db[i]
    BY <1>1, <1>6 DEF Holding, SoundStores
  <2> QED  BY <1>1, <1>3, <1>4, <1>5, <2>1, <2>2, VectorsFrame
<1>7. CASE i = id
  <2>1. InFlight(i, Deleting)'
    BY <1>2, <1>7, <1>a DEF InFlight, Deleting
  <2>2. \A u \in MemoryCalls : On(u, i, Indexing)' <=> On(u, i, Indexing)
    BY <1>3, <1>4 DEF On
  <2>3. OneAtWork(i)' /\ TextSettled(i)' /\ WorksOnRow(i)'
    BY <2>1, <2>2 DEF VectorsFollow, OneAtWork, TextSettled, WorksOnRow
  <2>4. Cleared(i)'
    BY <1>1, <1>3, <2>2 DEF VectorsFollow, Cleared, On, Indexing
  <2>5. GoneForGood(i)'
    BY <1>1, <1>3, <1>5 DEF VectorsFollow, GoneForGood, On, Indexing
  <2> QED  BY <2>3, <2>4, <2>5 DEF VectorsFollow
<1> QED  BY <1>6, <1>7

\* When no call works on the vectors, a step that makes none of them start has nothing
\* to show but the text.
LEMMA VectorsIdle ==
  ASSUME NEW id, \A u \in MemoryCalls : ~On(u, id, Indexing)', TextSettled(id)'
  PROVE  VectorsFollow(id)'
BY DEF VectorsFollow, OneAtWork, WorksOnRow, Cleared, GoneForGood, On, Indexing

\* A call that takes up the vectors when no other works on them.
LEMMA VectorsTaken ==
  ASSUME NEW id, NEW t \in MemoryCalls, \A u \in MemoryCalls : On(u, id, Indexing)' => u = t,
         On(t, id, {"embed", "unindex"})', InFlight(id, Deleting)' \/ db'[id] = calls'[t].record,
         calls'[t].record = NoRecord => wasm'[id] = NoRecord /\ ~InFlight(id, Writing)'
  PROVE  VectorsFollow(id)'
<1>1. InFlight(id, Indexing)'
  BY DEF InFlight, On, Indexing
<1>2. OneAtWork(id)' /\ TextSettled(id)' /\ WorksOnRow(id)'
  BY <1>1 DEF OneAtWork, TextSettled, WorksOnRow
<1>3. Cleared(id)' /\ GoneForGood(id)'
  BY DEF Cleared, GoneForGood, On, Indexing
<1> QED  BY <1>2, <1>3 DEF VectorsFollow

LEMMA VectorsPersist ==
  ASSUME Holding, Queueing, NEW t \in MemoryCalls, Persist(t), NEW i \in Ids, i \notin blurred',
         StoresFollow(i), VectorsFollow(i), OneKind(i)
  PROVE  VectorsFollow(i)'
<1> DEFINE id == calls[t].id
           r == calls[t].record
<1>1. /\ Turn(t, "persist") /\ db' = [db EXCEPT ![id] = r] /\ wasm' = wasm /\ vectors' = vectors
  BY DEF Persist, memory
<1>2. PICK k \in CallStates :
           /\ k.pc \notin InMemory /\ calls' = [calls EXCEPT ![t] = k] /\ ticks' = Tail(ticks)
           /\ id \in Ids /\ r \in Sound
           /\ \/ k = IdleCall /\ r.kind # "session_note" /\ blurred' = blurred
              \/ /\ r.kind = "session_note" /\ blurred' = Blurring(id)
                 /\ k.pc = IF r.status = "archived" THEN "unindex" ELSE "embed"
                 /\ k.id = id /\ k.record = r
  BY PersistLeaves
<1>3. /\ calls[t].pc = "persist" /\ calls'[t] = k /\ \A u \in MemoryCalls : u # t => calls'[u] = calls[u]
  BY <1>1, <1>2, Leaves
<1>4. InFlight(i, Deleting)' <=> InFlight(i, Deleting)
  BY <1>2, <1>3 DEF InFlight, Deleting, InMemory
<1>5. InFlight(i, Writing)' => InFlight(i, Writing)
  BY <1>2, <1>3 DEF InFlight, Writing, InMemory
<1>6. CASE i # id
  <2>1. \A u \in MemoryCalls : On(u, i, Indexing)' => calls'[u] = calls[u]
    BY <1>2, <1>3, <1>6 DEF On, Indexing, IdleCall
  <2>2. \A u \in MemoryCalls : On(u, i, Indexing) => calls'[u] = calls[u]
    BY <1>3 DEF On, Indexing
  <2>3. db'[i] = db[i]
    BY <1>1, <1>6 DEF Holding, SoundStores
  <2> QED  BY <1>1, <1>4, <1>5, <2>1, <2>2, <2>3, VectorsFrame
<1>7. CASE i = id
  <2>1. db'[i] = r /\ On(t, i, Writing) /\ InFlight(i, Writing)
    BY <1>1, <1>2, <1>3, <1>7 DEF Holding, SoundStores, On, Writing, InFlight
  <2>2. CASE k = IdleCall /\ r.kind # "session_note"
    <3>1. PICK d \in RecordKinds : IsKind(i, d)
      BY DEF OneKind
    <3>2. d = r.kind
      BY <1>2, <1>7, <3>1 DEF IsKind, Of, Sound, MemoryRecord
    <3>3. \A u \in MemoryCalls : ~On(u, i, Indexing)
      <4> SUFFICES ASSUME NEW u \in MemoryCalls, On(u, i, Indexing)  PROVE FALSE
        OBVIOUS
      <4>1. CallIs(calls[u]) /\ Of(calls[u].record, d)
        BY <3>1 DEF Holding, On, IsKind
      <4>2. calls[u].pc = "unindex" /\ calls[u].record = NoRecord
        BY <2>2, <3>2, <4>1 DEF CallIs, On, Indexing, Of, Writing, Deleting, Embedding, IdleCall
      <4> QED  BY <2>1, <4>2 DEF VectorsFollow, GoneForGood, On
    <3>4. \A u \in MemoryCalls : ~On(u, i, Indexing)'
      BY <1>3, <2>2, <3>3 DEF On, Indexing, IdleCall
    <3>5. TextOf(db[i]) = {} /\ TextOf(r) = {}
      BY <2>2, <3>1, <3>2 DEF IsKind, Of, TextOf
    <3>6. TextSettled(i)'
      BY <1>1, <1>4, <2>1, <3>3, <3>5, InFlightIsOn DEF VectorsFollow, TextSettled
    <3> QED  BY <3>4, <3>6, VectorsIdle
  <2>3. CASE /\ r.kind = "session_note" /\ blurred' = Blurring(id)
             /\ k.pc = (IF r.status = "archived" THEN "unindex" ELSE "embed")
             /\ k.id = id /\ k.record = r
    <3>1. ~InFlight(i, Indexing)
      BY <1>7, <2>3 DEF Blurring
    <3>2. \A u \in MemoryCalls : On(u, i, Indexing)' => u = t
      BY <1>3, <3>1 DEF InFlight, On
    <3>3. On(t, i, {"embed", "unindex"})' /\ calls'[t].record = r /\ r # NoRecord
      BY <1>3, <1>7, <2>3 DEF On, NoRecord
    <3> QED  BY <2>1, <3>2, <3>3, VectorsTaken
  <2> QED  BY <1>2, <2>2, <2>3
<1> QED  BY <1>6, <1>7

LEMMA VectorsUncache ==
  ASSUME Holding, Queueing, NEW t \in MemoryCalls, Uncache(t), NEW i \in Ids, i \notin blurred',
         StoresFollow(i), VectorsFollow(i)
  PROVE  VectorsFollow(i)'
<1> DEFINE id == calls[t].id
<1>1. /\ calls[t].pc = "uncache" /\ blurred' = Blurring(id) /\ GoOn(t, "unindex")
      /\ wasm' = wasm /\ db' = db /\ vectors' = vectors
  BY DEF Uncache, Turn
<1>2. /\ calls' = [calls EXCEPT ![t] = Goes(t, "unindex")] /\ Goes(t, "unindex").pc = "unindex"
      /\ Goes(t, "unindex").id = id /\ Goes(t, "unindex").record = calls[t].record
      /\ id \in Ids /\ calls[t].record = NoRecord
  BY <1>1, GoesOn, CallAt DEF Indexing, Deleting
<1>3. /\ calls'[t].pc = "unindex" /\ calls'[t].id = id /\ calls'[t].record = NoRecord
      /\ \A u \in MemoryCalls : u # t => calls'[u] = calls[u]
  BY <1>2 DEF Holding
<1>5. InFlight(i, Writing)' => InFlight(i, Writing)
  BY <1>3 DEF InFlight, Writing
<1>6. CASE i # id
  <2>1. \A u \in MemoryCalls : On(u, i, Indexing)' => calls'[u] = calls[u]
    BY <1>3, <1>6 DEF On
  <2>2. \A u \in MemoryCalls : On(u, i, Indexing) => calls'[u] = calls[u]
    BY <1>3, <1>6 DEF On
  <2>3. InFlight(i, Deleting)' <=> InFlight(i, Deleting)
    BY <1>3, <1>6 DEF InFlight
  <2> QED  BY <1>1, <1>5, <2>1, <2>2, <2>3, VectorsFrame
<1>7. CASE i = id
  <2>1. ~InFlight(i, Indexing)
    BY <1>1, <1>7 DEF Blurring
  <2>2. \A u \in MemoryCalls : On(u, i, Indexing)' => u = t
    BY <1>3, <2>1 DEF InFlight, On
  <2>3. db[i] = NoRecord /\ \A u \in MemoryCalls : u # t => ~On(u, i, InMemory)
    BY <1>1, <1>7 DEF StoresFollow, DeletedAlone, On, Deleting
  <2>4. ~InFlight(i, Writing \cup {"forget"})
    BY <1>1, <2>3 DEF InFlight, On, InMemory, Writing
  <2>5. wasm[i] = NoRecord
    BY <2>3, <2>4, ParsedIs DEF StoresFollow, ModuleSettled
  <2>6. ~InFlight(i, Writing)'
    BY <1>5, <2>4 DEF InFlight
  <2>7. On(t, i, {"embed", "unindex"})'
    BY <1>3, <1>7 DEF On
  <2> QED  BY <1>1, <1>3, <2>2, <2>3, <2>5, <2>6, <2>7, VectorsTaken
<1> QED  BY <1>6, <1>7

\* The other steps in memory leave every vector.
LEMMA VectorsInMemory ==
  ASSUME Holding, Queueing, NEW t \in MemoryCalls,
         SetCache(t) \/ RollBack(t) \/ Restore(t) \/ RollBackFails(t) \/ DropFromCache(t) \/ Forget(t),
         NEW i \in Ids, StoresFollow(i), VectorsFollow(i)
  PROVE  VectorsFollow(i)'
<1> USE DEF Indexing, Deleting, Writing, InMemory
<1>1. /\ calls[t].pc \notin Indexing /\ calls[t].pc # "uncache" /\ calls[t].pc # "idle"
      /\ db' = db /\ vectors' = vectors
  BY DEF SetCache, RollBack, Restore, RollBackFails, DropFromCache, Forget, Turn, memory, history
<1>2. \A u \in MemoryCalls : u # t => calls'[u] = calls[u]
  BY DEF SetCache, RollBack, Restore, RollBackFails, DropFromCache, Forget, GoOn, End, Holding
<1>3. /\ calls'[t].pc \notin Indexing
      /\ On(t, i, Deleting)' <=> On(t, i, Deleting)
      /\ On(t, i, Writing)' => On(t, i, Writing)
  <2>1. CASE Restore(t) \/ DropFromCache(t)
    BY <2>1 DEF Restore, DropFromCache, Turn, End, Holding, IdleCall, On
  <2>2. CASE SetCache(t)
    BY <2>2, Requeues DEF SetCache, On
  <2>3. CASE RollBack(t)
    BY <2>3, Requeues DEF RollBack, On
  <2>4. CASE RollBackFails(t)
    BY <2>4, Requeues DEF RollBackFails, On
  <2>5. CASE Forget(t)
    BY <2>5, Requeues DEF Forget, On
  <2> QED  BY <2>1, <2>2, <2>3, <2>4, <2>5
<1>4. \A u \in MemoryCalls : On(u, i, Indexing)' => calls'[u] = calls[u]
  BY <1>2, <1>3 DEF On
<1>5. \A u \in MemoryCalls : On(u, i, Indexing) => calls'[u] = calls[u]
  BY <1>1, <1>2 DEF On
<1>6. InFlight(i, Deleting)' <=> InFlight(i, Deleting)
  BY <1>2, <1>3 DEF InFlight, On
<1>7. InFlight(i, Writing)' => InFlight(i, Writing)
  BY <1>2, <1>3 DEF InFlight, On
<1>8. wasm'[i] \in {wasm[i], db[i], NoRecord}
  BY ParsedIs DEF SetCache, RollBack, Restore, RollBackFails, DropFromCache, Forget, Holding, SoundStores
<1> QED  BY <1>1, <1>4, <1>5, <1>6, <1>7, <1>8, VectorsFrame

LEMMA VectorsIndexing ==
  ASSUME Holding, Queueing, NEW t \in MemoryCalls, IndexingStep(t), NEW i \in Ids, i \notin blurred',
         StoresFollow(i), VectorsFollow(i)
  PROVE  VectorsFollow(i)'
<1> DEFINE id == calls[t].id
<1>1. /\ calls[t].pc \in Indexing /\ id \in Ids /\ calls[t].pc # "idle"
      /\ calls'[t].pc \notin InMemory /\ (calls'[t] = IdleCall \/ calls'[t].id = id)
      /\ \A u \in MemoryCalls : u # t => calls'[u] = calls[u]
      /\ wasm' = wasm /\ db' = db
  BY IndexingStays DEF IndexingStep, Indexing
<1>2. \A u \in MemoryCalls : calls[u].pc \in InMemory \/ calls'[u].pc \in InMemory => calls'[u] = calls[u]
  BY <1>1 DEF Indexing, InMemory
<1>3. InFlight(i, Deleting)' <=> InFlight(i, Deleting)
  BY <1>2 DEF InFlight, Deleting, InMemory
<1>4. InFlight(i, Writing)' <=> InFlight(i, Writing)
  BY <1>2 DEF InFlight, Writing, InMemory
<1>6. CASE i # id
  <2>1. \A u \in MemoryCalls : On(u, i, Indexing)' => calls'[u] = calls[u]
    BY <1>1, <1>6 DEF On, IdleCall, Indexing
  <2>2. \A u \in MemoryCalls : On(u, i, Indexing) => calls'[u] = calls[u]
    BY <1>1, <1>6 DEF On
  <2>3. vectors'[i] = vectors[i]
    BY <1>6 DEF IndexingStep, EmbedNote, Clear, AddVector, Unindex, IndexFails, Indexed, Holding
  <2> QED  BY <1>1, <1>3, <1>4, <2>1, <2>2, <2>3, VectorsFrame
<1>7. CASE i = id
  <2>1. On(t, i, Indexing) /\ \A u \in MemoryCalls : On(u, i, Indexing) => u = t
    BY <1>1, <1>7 DEF VectorsFollow, OneAtWork, On
  <2>2. \A u \in MemoryCalls : On(u, i, Indexing)' => u = t
    BY <1>1, <2>1 DEF On
  <2>3. InFlight(i, Deleting) \/ db[i] = calls[t].record
    BY <2>1 DEF VectorsFollow, WorksOnRow
  <2>4. CASE EmbedNote(t) \/ Clear(t)
    <3>1. /\ calls[t].pc \in Embedding /\ calls[t].record \in Sound
          /\ calls'[t].record = calls[t].record /\ calls'[t].id = i
          /\ calls'[t].pc = "clear" \/ (calls'[t].pc = "add" /\ vectors'[i] = {})
      <4>1. CASE EmbedNote(t)
        <5>1. calls[t].pc = "embed" /\ calls' = [calls EXCEPT ![t] = [calls[t] EXCEPT !.pc = "clear"]]
          BY <4>1 DEF EmbedNote, Indexed, Holding
        <5> QED  BY <1>7, <5>1, CallAt, CallMoves DEF Embedding, Indexing, Holding
      <4>2. CASE Clear(t)
        <5>1. /\ calls[t].pc = "clear" /\ calls' = [calls EXCEPT ![t] = [calls[t] EXCEPT !.pc = "add"]]
              /\ vectors'[i] = {}
          BY <1>7, <4>2 DEF Clear, Indexed, Holding
        <5> QED  BY <1>7, <5>1, CallAt, CallMoves DEF Embedding, Indexing, Holding
      <4> QED  BY <2>4, <4>1, <4>2
    <3>2. OneAtWork(i)' /\ WorksOnRow(i)'
      BY <1>1, <1>3, <2>2, <2>3, <3>1 DEF OneAtWork, WorksOnRow
    <3>3. InFlight(i, Indexing)'
      BY <3>1 DEF InFlight, Indexing
    <3>4. Cleared(i)' /\ GoneForGood(i)' /\ TextSettled(i)'
      BY <2>2, <3>1, <3>3 DEF Cleared, GoneForGood, TextSettled, On, Indexing
    <3> QED  BY <3>2, <3>4 DEF VectorsFollow
  <2>5. CASE AddVector(t) \/ Unindex(t)
    <3>1. \A u \in MemoryCalls : ~On(u, i, Indexing)'
      <4>1. calls'[t] = IdleCall
        BY <2>5 DEF AddVector, Unindex, Indexed, Holding
      <4> QED  BY <2>2, <4>1 DEF On, IdleCall, Indexing
    <3>2. db[i] = calls[t].record => vectors'[i] = TextOf(calls[t].record)
      <4>1. CASE AddVector(t)
        <5>1. calls[t].pc = "add" /\ vectors'[i] = vectors[i] \cup {calls[t].record.text}
          BY <1>7, <4>1 DEF AddVector, Indexed, Holding
        <5>2. vectors[i] = {}
          BY <1>7, <5>1 DEF VectorsFollow, Cleared, On
        <5>3. calls[t].record.kind = "session_note" /\ calls[t].record.status = "active"
          BY <1>1, <5>1, CallAt DEF Embedding
        <5> QED  BY <5>1, <5>2, <5>3 DEF TextOf
      <4>2. CASE Unindex(t)
        <5>1. calls[t].pc = "unindex" /\ vectors'[i] = {}
          BY <1>7, <4>2 DEF Unindex, Indexed, Holding
        <5>2. CallIs(calls[t])
          BY DEF Holding
        <5>3. TextOf(calls[t].record) = {}
          BY <5>1, <5>2 DEF CallIs, TextOf, NoRecord, IdleCall, Writing, Deleting, Embedding
        <5> QED  BY <5>1, <5>3
      <4> QED  BY <2>5, <4>1, <4>2
    <3>3. TextSettled(i)'
      BY <1>1, <1>3, <2>3, <3>2 DEF TextSettled
    <3> QED  BY <3>1, <3>3, VectorsIdle
  <2>6. CASE IndexFails(t)
    BY <1>7, <2>6 DEF IndexFails
  <2> QED  BY <2>4, <2>5, <2>6 DEF IndexingStep
<1> QED  BY <1>6, <1>7

LEMMA VectorsBoot ==
  ASSUME Holding, Boot, NEW i \in Ids, i \notin blurred'
  PROVE  VectorsFollow(i)'
<1>1. PICK failed \in SUBSET Ids, pruned \in BOOLEAN :
       /\ failed \subseteq ActiveNotes(Loaded(db))
       /\ vectors' = [id \in Ids |->
                        IF id \in ActiveNotes(Loaded(db)) \ failed THEN {db[id].text}
                        ELSE IF id \notin ActiveNotes(Loaded(db)) /\ pruned THEN {} ELSE vectors[id]]
       /\ blurred' = failed \cup {id \in Ids \ ActiveNotes(Loaded(db)) : ~pruned /\ vectors[id] # {}}
  BY DEF Boot
<1>2. \A t \in MemoryCalls : calls'[t] = IdleCall
  BY DEF Boot, Holding
<1>3. \A t \in MemoryCalls : ~On(t, i, Indexing)'
  BY <1>2 DEF On, IdleCall, Indexing
<1>4. vectors'[i] = TextOf(db'[i]) \/ (vectors'[i] = {} /\ Parsed(db'[i]) = NoRecord)
  <2>1. CASE i \in ActiveNotes(Loaded(db))
    <3>1. vectors'[i] = {db[i].text} /\ db[i].kind = "session_note" /\ db[i].status = "active"
      BY <1>1, <2>1, LoadedNotes DEF ActiveNotes
    <3>2. db'[i] = db[i]
      BY <3>1, BootSweeps
    <3> QED  BY <3>1, <3>2 DEF TextOf
  <2>2. CASE i \notin ActiveNotes(Loaded(db))
    <3>1. vectors'[i] = {}
      BY <1>1, <2>2
    <3>2. db'[i].kind = "session_note" => db'[i] = db[i]
      BY BootSweeps
    <3>3. CASE Parsed(db[i]) = db[i]
      <4>1. i \notin ActiveNotes(db)
        BY <2>2, <3>3, ParsedIs DEF ActiveNotes
      <4> QED  BY <3>1, <3>2, <4>1 DEF TextOf, ActiveNotes
    <3>4. CASE Parsed(db[i]) # db[i]
      <4>1. Parsed(db[i]) = NoRecord
        BY <3>4, ParsedIs
      <4> QED  BY <3>1, <3>2, <4>1 DEF TextOf
    <3> QED  BY <3>3, <3>4
  <2> QED  BY <2>1, <2>2
<1> QED  BY <1>3, <1>4, VectorsIdle DEF TextSettled

LEMMA HistoryGrows ==
  ASSUME Holding, Queueing, phase = "up", MemoryNext, ~Crash
  PROVE  disturbed \subseteq disturbed' /\ blurred \subseteq blurred'
<1>1. ~Boot
  BY DEF Boot
<1>2. CASE \E t \in MemoryCalls, id \in Ids : Writes(t, id)
  BY <1>2, WritesBegin DEF Begins, BeginCall
<1>3. CASE \E t \in MemoryCalls, id \in Ids : DeleteRecord(t, id)
  BY <1>3 DEF DeleteRecord
<1>4. CASE \E t \in MemoryCalls : InMemoryStep(t)
  BY <1>4 DEF InMemoryStep, SetCache, Persist, RollBack, Restore, RollBackFails, DropFromCache, Forget,
              Uncache, Blurring, history
<1>5. CASE \E t \in MemoryCalls : IndexingStep(t)
  BY <1>5 DEF IndexingStep, EmbedNote, Clear, AddVector, Unindex, IndexFails, Indexed, history
<1> QED  BY <1>1, <1>2, <1>3, <1>4, <1>5, StepsAre

LEMMA VectorsStep ==
  ASSUME MemoryInv, KindsInv, VectorsInv, MemoryNext
  PROVE  VectorsInv'
<1>0. Holding /\ Queueing
  BY DEF MemoryInv
<1>1. CASE Boot
  BY <1>0, <1>1, VectorsBoot DEF VectorsInv
<1>2. CASE Crash
  BY <1>2 DEF Crash, VectorsInv
<1>3. CASE ~Boot /\ ~Crash
  <2>1. phase = "up"
    <3>1. CASE \E t \in MemoryCalls, id \in Ids : Writes(t, id) \/ DeleteRecord(t, id)
      BY <1>0, <3>1, WritesBegin DEF Begins, MayBegin, DeleteRecord
    <3>2. CASE \E t \in MemoryCalls : InMemoryStep(t) \/ IndexingStep(t)
      <4>1. \E t \in MemoryCalls : calls[t].pc # "idle"
        BY <3>2 DEF InMemoryStep, SetCache, Persist, RollBack, Restore, RollBackFails, DropFromCache,
           Forget, Uncache, Turn, IndexingStep, EmbedNote, Clear, AddVector, Unindex, IndexFails, Indexing
      <4> QED  BY <1>0, <4>1, CallAt
    <3> QED  BY <1>3, <3>1, <3>2, StepsAre
  <2> SUFFICES ASSUME NEW i \in Ids, i \notin disturbed', i \notin blurred'  PROVE VectorsFollow(i)'
    BY DEF VectorsInv
  <2>2. StoresFollow(i) /\ VectorsFollow(i) /\ OneKind(i)
    BY <1>0, <1>3, <2>1, HistoryGrows DEF MemoryInv, StoresInv, VectorsInv, KindsInv
  <2>3. CASE \E t \in MemoryCalls, id \in Ids : Writes(t, id)
    BY <1>0, <2>2, <2>3, WritesBegin, VectorsBegin
  <2>4. CASE \E t \in MemoryCalls, id \in Ids : DeleteRecord(t, id)
    BY <1>0, <2>2, <2>4, VectorsDelete
  <2>5. CASE \E t \in MemoryCalls : InMemoryStep(t)
    BY <1>0, <2>2, <2>5, VectorsPersist, VectorsUncache, VectorsInMemory DEF InMemoryStep
  <2>6. CASE \E t \in MemoryCalls : IndexingStep(t)
    BY <1>0, <2>2, <2>6, VectorsIndexing
  <2> QED  BY <1>3, <2>3, <2>4, <2>5, <2>6, StepsAre
<1> QED  BY <1>1, <1>2, <1>3

NotesInv == MemoryInv /\ KindsInv /\ VectorsInv

LEMMA NotesAlways == MemorySpec => []NotesInv
<1>1. MemoryInit => NotesInv
  <2> SUFFICES ASSUME MemoryInit  PROVE NotesInv
    OBVIOUS
  <2>1. ReadsHeld
    BY DEF MemoryInit, ReadsHeld
  <2>2. \A id \in Ids : IsKind(id, "todo")
    BY OfNone DEF MemoryInit, IsKind, Nothing, IdleCall
  <2> QED  BY <2>1, <2>2, MemoryInitInv DEF NotesInv, KindsInv, OneKind, RecordKinds, VectorsInv, MemoryInit
<1>2. NotesInv /\ [MemoryNext]_memoryVars => NotesInv'
  <2>1. ASSUME NotesInv, MemoryNext  PROVE NotesInv'
    <3>1. MemoryInv'
      BY <2>1, HoldingStep, QueueingStep, StoresStep DEF NotesInv, MemoryInv
    <3> QED  BY <2>1, <3>1, KindsStep, VectorsStep DEF NotesInv
  <2>2. ASSUME NotesInv, UNCHANGED memoryVars  PROVE NotesInv'
    <3>1. MemoryInv'
      BY <2>2, MemoryStutters DEF NotesInv
    <3>2. KindsInv'
      BY <2>2 DEF memoryVars, NotesInv, KindsInv, ReadsHeld, OneKind, IsKind
    <3>3. \A id \in Ids : VectorsFollow(id) => VectorsFollow(id)'
      BY <2>2 DEF memoryVars, VectorsFollow, OneAtWork, TextSettled, WorksOnRow, Cleared, GoneForGood, On, InFlight
    <3>4. VectorsInv'
      BY <2>2, <3>3 DEF memoryVars, NotesInv, VectorsInv
    <3> QED  BY <3>1, <3>2, <3>4 DEF NotesInv
  <2> QED  BY <2>1, <2>2
<1> QED  BY <1>1, <1>2, PTL DEF MemorySpec

\* When nothing is in progress the vector collection has the present text of every active
\* note and nothing of other ids; of a note whose row does not parse it may have nothing.
THEOREM VectorsAlwaysFollow == MemorySpec => []VectorsFollowNotes
<1>1. NotesInv => VectorsFollowNotes
  <2> SUFFICES ASSUME NotesInv, Quiet, \A t \in MemoryCalls : calls[t].pc = "idle",
                      NEW id \in Ids \ (disturbed \cup blurred)
               PROVE  \/ vectors[id] = IF id \in ActiveNotes(db) THEN {db[id].text} ELSE {}
                      \/ vectors[id] = {} /\ Parsed(db[id]) = NoRecord
    BY DEF VectorsFollowNotes
  <2>1. VectorsFollow(id)
    BY DEF NotesInv, VectorsInv, Quiet
  <2>2. ~InFlight(id, Indexing) /\ ~InFlight(id, Deleting)
    BY DEF InFlight, Indexing, Deleting
  <2> QED  BY <2>1, <2>2 DEF VectorsFollow, TextSettled, TextOf, ActiveNotes
<1> QED  BY <1>1, NotesAlways, PTL

=============================================================================
