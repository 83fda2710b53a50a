------------------------- MODULE TerminalClientProofs -------------------------
(***************************************************************************)
(* Proofs about the terminal client, what it shows of a session and its     *)
(* prompt.                                                                  *)
(***************************************************************************)
EXTENDS TerminalClient, PromptEditor, FiniteSetTheorems, SequenceTheorems, WellFoundedInduction, TLAPS

(* Recursive functions, by induction over the naturals (from their           *)
(* well-foundedness): what is computed over 0..N step by step exists, and    *)
(* stays in a set that every step stays in.                                  *)

LEMMA LeastNatural ==
  ASSUME NEW S, S \subseteq Nat, S # {}
  PROVE  \E n \in S : \A m \in S : n <= m
<1>1. PICK n \in S : \A m \in S : ~(<<m, n>> \in OpToRel(<, Nat))
  BY NatLessThanWellFounded, WFMin
<1>2. ASSUME NEW m \in S  PROVE n <= m
  <2>1. m \in Nat /\ n \in Nat
    OBVIOUS
  <2>2. ~(m < n)
    BY <1>1, <2>1 DEF OpToRel
  <2> QED  BY <2>1, <2>2
<1> QED BY <1>2

LEMMA SetInduction ==
  ASSUME NEW S, 0 \in S, \A n \in Nat : n \in S => n + 1 \in S
  PROVE  Nat \subseteq S
<1> SUFFICES ASSUME Nat \ S # {} PROVE FALSE
  OBVIOUS
<1>1. PICK n \in Nat \ S : \A m \in Nat \ S : n <= m
  BY LeastNatural
<1>2. n # 0
  BY <1>1
<1>3. n - 1 \in Nat /\ n - 1 \in S
  BY <1>1, <1>2
<1> QED BY <1>1, <1>3

\* A function on 0..N that each value gives the next one of.
Follows(f, N, v, next) == f[0] = v /\ \A n \in 1..N : f[n] = next[<<n, f[n - 1]>>]

LEMMA RecursionExists ==
  ASSUME NEW N \in Nat, NEW V, NEW v \in V, NEW next \in [(1..N) \X V -> V]
  PROVE  \E f \in [0..N -> V] : Follows(f, N, v, next)
<1> USE DEF Follows
<1> DEFINE S == {k \in Nat : k <= N => \E f \in [0..k -> V] : Follows(f, k, v, next)}
<1>1. 0 \in S
  <2> DEFINE f == [n \in 0..0 |-> v]
  <2>1. f \in [0..0 -> V] /\ Follows(f, 0, v, next)
    OBVIOUS
  <2> QED  BY <2>1
<1>2. \A k \in Nat : k \in S => k + 1 \in S
  <2> SUFFICES ASSUME NEW k \in Nat, k + 1 <= N, NEW f \in [0..k -> V], Follows(f, k, v, next)
               PROVE  \E g \in [0..(k + 1) -> V] : Follows(g, k + 1, v, next)
    OBVIOUS
  <2> DEFINE w == next[<<k + 1, f[k]>>]
             g == [n \in 0..(k + 1) |-> IF n <= k THEN f[n] ELSE w]
  <2>1. w \in V
    <3>1. <<k + 1, f[k]>> \in (1..N) \X V
      OBVIOUS
    <3> QED  BY <3>1
  <2>2. /\ g \in [0..(k + 1) -> V] /\ g[k + 1] = w
        /\ \A n \in 0..k : g[n] = f[n]
    <3> HIDE DEF w
    <3> QED  BY <2>1
  <2> HIDE DEF g
  <2>3. ASSUME NEW n \in 1..(k + 1)  PROVE g[n] = next[<<n, g[n - 1]>>]
    <3>1. n - 1 \in 0..k /\ g[n - 1] = f[n - 1]
      BY <2>2
    <3>2. CASE n = k + 1
      BY <2>2, <3>1, <3>2
    <3>3. CASE n # k + 1
      <4>1. n \in 1..k /\ n \in 0..k
        BY <3>3
      <4> QED  BY <2>2, <3>1, <4>1
    <3> QED  BY <3>2, <3>3
  <2>4. g[0] = v
    BY <2>2
  <2> QED  BY <2>2, <2>3, <2>4
<1>3. N \in S
  BY <1>1, <1>2, SetInduction
<1> QED BY <1>3

LEMMA StaysIn ==
  ASSUME NEW N \in Nat, NEW V, NEW g, g[0] \in V, \A n \in 1..N : g[n - 1] \in V => g[n] \in V
  PROVE  \A n \in 0..N : g[n] \in V
<1> DEFINE S == {n \in Nat : n <= N => g[n] \in V}
<1>1. 0 \in S
  OBVIOUS
<1>2. \A n \in Nat : n \in S => n + 1 \in S
  <2> SUFFICES ASSUME NEW n \in Nat, g[n] \in V, n + 1 <= N  PROVE g[n + 1] \in V
    OBVIOUS
  <2> DEFINE m == n + 1
  <2>1. m \in 1..N /\ m - 1 = n
    OBVIOUS
  <2> HIDE DEF m
  <2>2. g[m] \in V
    BY <2>1
  <2> QED  BY <2>2 DEF m
<1>3. Nat \subseteq S
  <2> HIDE DEF S
  <2> QED  BY <1>1, <1>2, SetInduction
<1> QED  BY <1>3

-----------------------------------------------------------------------------
(* Selections: each position picked is there once, and nothing else.          *)

Taken(s, I, n, w) == IF n \in I THEN Append(w, s[n]) ELSE w

IsUpto(s, I, f) == f = [n \in 0..Len(s) |-> IF n = 0 THEN <<>> ELSE Taken(s, I, n, f[n - 1])]

\* at names the position of each element of w.
PickedAt(s, J, w, at) ==
  /\ at \in [DOMAIN w -> J]
  /\ \A k \in DOMAIN w : w[k] = s[at[k]]
  /\ \A k, l \in DOMAIN w : at[k] = at[l] => k = l
  /\ \A i \in J : \E k \in DOMAIN w : at[k] = i

HasPicked(s, I, n, w) == \E at : PickedAt(s, (1..n) \cap I, w, at)

PicksInto(S, s, I, f) ==
  /\ f \in [0..Len(s) -> Seq(S)]
  /\ f[0] = <<>>
  /\ \A n \in 1..Len(s) : f[n] = Taken(s, I, n, f[n - 1])
  /\ Picked(s, I) = f[Len(s)]

LEMMA UptoIs ==
  ASSUME NEW S, NEW s \in Seq(S), NEW I
  PROVE  \E f : PicksInto(S, s, I, f)
<1> DEFINE N == Len(s)
           V == Seq(S)
           step == [p \in (1..N) \X V |-> Taken(s, I, p[1], p[2])]
           g == CHOOSE f : IsUpto(s, I, f)
<1>1. N \in Nat /\ <<>> \in V /\ \A n \in 1..N : s[n] \in S
  OBVIOUS
<1>2. step \in [(1..N) \X V -> V]
  <2>1. ASSUME NEW p \in (1..N) \X V  PROVE (Taken(s, I, p[1], p[2])) \in V
    <3>1. p[1] \in 1..N /\ p[2] \in V /\ s[p[1]] \in S
      BY <1>1
    <3> QED  BY <3>1 DEF Taken
  <2> QED  BY <2>1
<1>3. \A n \in 1..N : \A w \in V : step[<<n, w>>] = Taken(s, I, n, w)
  OBVIOUS
<1>4. Picked(s, I) = g[N]
  BY DEF Picked, IsUpto, Taken
<1> HIDE DEF V, step, g
<1>5. PICK f \in [0..N -> V] : Follows(f, N, <<>>, step)
  <2> HIDE DEF N
  <2> QED  BY <1>1, <1>2, RecursionExists
<1>6. f[0] = <<>> /\ \A n \in 1..N : f[n] = Taken(s, I, n, f[n - 1])
  <2> SUFFICES ASSUME NEW n \in 1..N
               PROVE  f[n] = Taken(s, I, n, f[n - 1])
    BY <1>5 DEF Follows
  <2>1. f[n - 1] \in V
    <3> HIDE DEF N
    <3> QED  BY <1>1
  <2> QED  BY <1>3, <1>5, <2>1 DEF Follows
<1>7. IsUpto(s, I, f)
  <2> DEFINE h == [n \in 0..N |-> IF n = 0 THEN <<>> ELSE Taken(s, I, n, f[n - 1])]
  <2>1. \A n \in 0..N : f[n] = h[n]
    BY <1>1, <1>6
  <2>2. f = h
    <3>1. f = [n \in 0..N |-> f[n]] /\ h = [n \in 0..N |-> h[n]]
      OBVIOUS
    <3> HIDE DEF h
    <3> QED  BY <2>1, <3>1
  <2> QED  BY <2>2 DEF IsUpto
<1>8. IsUpto(s, I, g)
  BY <1>7 DEF g
<1>9. g[0] = <<>> /\ \A n \in 1..N : g[n] = Taken(s, I, n, g[n - 1])
  BY <1>1, <1>8, SMTT(60) DEF IsUpto
<1>10. g \in [0..N -> V]
  <2>1. \A n \in 1..N : g[n - 1] \in V => g[n] \in V
    <3> SUFFICES ASSUME NEW n \in 1..N, g[n - 1] \in V  PROVE g[n] \in V
      OBVIOUS
    <3>1. Taken(s, I, n, g[n - 1]) \in V
      <4>1. s[n] \in S
        BY <1>1
      <4> QED  BY <4>1 DEF V, Taken
    <3> QED  BY <1>9, <3>1
  <2>2. \A n \in 0..N : g[n] \in V
    <3> HIDE DEF N
    <3> QED  BY <1>1, <1>9, <2>1, StaysIn
  <2>3. g = [n \in 0..N |-> g[n]]
    BY <1>8 DEF IsUpto
  <2> QED  BY <2>2, <2>3
<1>11. PicksInto(S, s, I, g)
  BY <1>4, <1>9, <1>10 DEF V, PicksInto
<1> QED  BY <1>11

LEMMA PickedNext ==
  ASSUME NEW S, NEW s \in Seq(S), NEW I, NEW n \in Nat, n + 1 <= Len(s), NEW w \in Seq(S),
         HasPicked(s, I, n, w)
  PROVE  HasPicked(s, I, n + 1, Taken(s, I, n + 1, w))
<1>0. PICK at : PickedAt(s, (1..n) \cap I, w, at)
  BY DEF HasPicked
<1> SUFFICES \E after : PickedAt(s, (1..(n + 1)) \cap I, Taken(s, I, n + 1, w), after)
  BY DEF HasPicked
<1> USE <1>0
<1> USE DEF PickedAt, Taken
<1>1. CASE n + 1 \notin I
  <2>1. (1..(n + 1)) \cap I = (1..n) \cap I
    BY <1>1
  <2>2. Taken(s, I, n + 1, w) = w
    BY <1>1
  <2> HIDE DEF PickedAt, Taken
  <2> QED  BY <1>0, <2>1, <2>2
<1>2. CASE n + 1 \in I
  <2> DEFINE x == s[n + 1]
             v == Append(w, x)
             after == [k \in 1..(Len(w) + 1) |-> IF k <= Len(w) THEN at[k] ELSE n + 1]
             J == (1..n) \cap I
             K == (1..(n + 1)) \cap I
  <2>1. x \in S /\ v \in Seq(S) /\ DOMAIN v = 1..(Len(w) + 1) /\ Len(w) \in Nat /\ DOMAIN w = 1..Len(w)
    OBVIOUS
  <2>2. v[Len(w) + 1] = x /\ \A k \in 1..Len(w) : v[k] = w[k]
    OBVIOUS
  <2>3. K = J \cup {n + 1} /\ n + 1 \notin J
    BY <1>2
  <2>4. /\ after[Len(w) + 1] = n + 1
        /\ \A k \in 1..Len(w) : after[k] = at[k] /\ at[k] \in J
    <3>1. at \in [1..Len(w) -> J]
      BY <2>1
    <3> HIDE DEF J
    <3> QED  BY <2>1, <3>1, SMTT(60)
  <2>5. after \in [1..(Len(w) + 1) -> K]
    BY <2>1, <2>3, <2>4
  <2> HIDE DEF v, after, J, K, x
  <2>6. \A k \in DOMAIN v : v[k] = s[after[k]]
    BY <2>1, <2>2, <2>4 DEF x
  <2>7. \A k, l \in DOMAIN v : after[k] = after[l] => k = l
    BY <2>1, <2>3, <2>4, SMTT(60)
  <2>8. \A i \in K : \E k \in DOMAIN v : after[k] = i
    <3> SUFFICES ASSUME NEW i \in K  PROVE \E k \in DOMAIN v : after[k] = i
      OBVIOUS
    <3>1. CASE i \in J
      <4>1. PICK k \in DOMAIN w : at[k] = i
        BY <3>1 DEF J
      <4> QED  BY <2>1, <2>4, <4>1, SMTT(60)
    <3>2. CASE i = n + 1
      BY <2>1, <2>4, <3>2, SMTT(60)
    <3> QED  BY <2>3, <3>1, <3>2
  <2>9. PickedAt(s, K, v, after)
    BY <2>1, <2>5, <2>6, <2>7, <2>8
  <2>10. Taken(s, I, n + 1, w) = v
    BY <1>2 DEF v, x
  <2> HIDE DEF PickedAt, Taken
  <2> QED  BY <2>9, <2>10 DEF K
<1> QED  BY <1>1, <1>2

LEMMA PickedIs ==
  ASSUME NEW S, NEW s \in Seq(S), NEW I
  PROVE  /\ Picked(s, I) \in Seq(S)
         /\ \E at : PickedAt(s, DOMAIN s \cap I, Picked(s, I), at)
<1>1. PICK f : PicksInto(S, s, I, f)
  BY UptoIs
<1> DEFINE N == Len(s)
           T == {n \in Nat : n <= N => HasPicked(s, I, n, f[n])}
<1>2. N \in Nat /\ DOMAIN s = 1..N
  OBVIOUS
<1>3. 0 \in T
  <2>1. PickedAt(s, (1..0) \cap I, <<>>, <<>>)
    BY DEF PickedAt
  <2> QED  BY <1>1, <2>1 DEF HasPicked, PicksInto
<1>4. ASSUME NEW n \in Nat, n + 1 <= N, HasPicked(s, I, n, f[n])  PROVE HasPicked(s, I, n + 1, f[n + 1])
  <2> DEFINE m == n + 1
  <2>1. m \in 1..N /\ m - 1 = n /\ n \in 0..N
    BY <1>2, <1>4
  <2>2. f[m] = Taken(s, I, m, f[m - 1])
    <3> HIDE DEF m
    <3> QED  BY <1>1, <2>1 DEF PicksInto
  <2>3. f[n] \in Seq(S)
    BY <1>1, <2>1 DEF PicksInto
  <2> HIDE DEF m
  <2>4. f[m] = Taken(s, I, m, f[n])
    BY <2>1, <2>2
  <2>5. HasPicked(s, I, n + 1, Taken(s, I, n + 1, f[n]))
    <3> HIDE DEF N
    <3> QED  BY <1>2, <1>4, <2>3, PickedNext DEF N
  <2> QED  BY <2>4, <2>5 DEF m
<1>5. \A n \in Nat : n \in T => n + 1 \in T
  <2> HIDE DEF N
  <2> QED  BY <1>2, <1>4
<1>6. HasPicked(s, I, N, f[N])
  <2>1. Nat \subseteq T
    <3> HIDE DEF T
    <3> QED  BY <1>3, <1>5, SetInduction
  <2> HIDE DEF N
  <2> QED  BY <1>2, <2>1
<1>7. f[N] \in Seq(S) /\ Picked(s, I) = f[N]
  BY <1>1, <1>2 DEF PicksInto
<1> QED  BY <1>2, <1>6, <1>7 DEF HasPicked

-----------------------------------------------------------------------------
(* The prompt.  What is selected lies within the text it was made on, which   *)
(* every change of the text takes away.                                       *)

Selection == [originStart: Nat, originEnd: Nat, activeStart: Nat, activeEnd: Nat,
              dragged: BOOLEAN, basis: Seq(Glyphs)]

Within(s, t) ==
  /\ s \in Selection
  /\ s.originStart <= s.originEnd /\ s.originEnd <= Len(t)
  /\ s.activeStart <= s.activeEnd /\ s.activeEnd <= Len(t)
  /\ s.basis = t

PromptHolds(t, c, s) ==
  /\ t \in Seq(Glyphs)
  /\ c \in 0..Len(t)
  /\ s # NoSelection => Within(s, t)

Palettes == [selected: Nat, open: BOOLEAN, pressed: Int]

EditorInv == PromptHolds(text, cursor, selection) /\ palette \in Palettes

LEMMA MinIs ==
  ASSUME NEW S, S \subseteq Nat, S # {}
  PROVE  Min(S) \in S
<1>1. \E n \in S : \A m \in S : n <= m
  BY LeastNatural
<1> QED  BY <1>1 DEF Min

LEMMA MaxIs ==
  ASSUME NEW b \in Nat, NEW S, S \subseteq 0..b, S # {}
  PROVE  Max(S) \in S
<1> DEFINE T == {b - x : x \in S}
<1>1. T \subseteq Nat /\ T # {}
  <2>1. ASSUME NEW x \in S  PROVE b - x \in Nat
    <3>1. x \in 0..b
      OBVIOUS
    <3> QED  BY <3>1
  <2>2. PICK x : x \in S
    OBVIOUS
  <2>3. b - x \in T
    BY <2>2
  <2> QED  BY <2>1, <2>3
<1>2. PICK y \in T : \A z \in T : y <= z
  <2> HIDE DEF T
  <2> QED  BY <1>1, LeastNatural
<1>3. PICK x \in S : y = b - x
  OBVIOUS
<1>4. ASSUME NEW z \in S  PROVE x >= z
  <2>1. b - z \in T /\ x \in Nat /\ z \in Nat
    OBVIOUS
  <2> HIDE DEF T
  <2>2. y <= b - z
    BY <1>2, <2>1
  <2> QED  BY <1>3, <2>1, <2>2
<1>5. \E n \in S : \A m \in S : n >= m
  BY <1>4
<1> QED  BY <1>5 DEF Max

LEMMA WordsAreNear ==
  ASSUME NEW c \in 0..Len(text), text \in Seq(Glyphs)
  PROVE  PreviousWord(c) \in 0..c /\ NextWord(c) \in c..Len(text)
<1> DEFINE A == {i \in 0..c : \A k \in (i + 1)..c : IsBlank(k)}
           q == Min(A)
           B == {i \in 0..q : \A k \in (i + 1)..q : ~IsBlank(k)}
           C == {i \in c..Len(text) : \A k \in (c + 1)..i : ~IsBlank(k)}
           r == Max(C)
           D == {i \in r..Len(text) : \A k \in (r + 1)..i : IsBlank(k)}
<1>1. A \subseteq Nat /\ c \in A
  OBVIOUS
<1>2. q \in A
  <2> HIDE DEF A
  <2> QED  BY <1>1, MinIs
<1>3. q \in 0..c
  BY <1>2
<1>4. PreviousWord(c) = Min(B) /\ NextWord(c) = Max(D)
  BY DEF PreviousWord, NextWord
<1>5. Min(B) \in 0..c
  <2> HIDE DEF q
  <2>1. B \subseteq 0..q /\ q \in B /\ B \subseteq Nat
    BY <1>3
  <2> HIDE DEF B
  <2>2. Min(B) \in B
    BY <2>1, MinIs
  <2>3. Min(B) \in 0..q
    BY <2>1, <2>2
  <2> QED  BY <1>3, <2>3
<1>6. C \subseteq 0..Len(text) /\ c \in C /\ Len(text) \in Nat
  OBVIOUS
<1>7. r \in C
  <2> HIDE DEF C
  <2> QED  BY <1>6, MaxIs
<1>8. r \in c..Len(text)
  BY <1>7
<1>9. Max(D) \in c..Len(text)
  <2> HIDE DEF r
  <2>1. D \subseteq r..Len(text) /\ r \in D
    BY <1>6, <1>8
  <2>2. r..Len(text) \subseteq 0..Len(text) /\ r..Len(text) \subseteq c..Len(text)
    BY <1>6, <1>8
  <2> HIDE DEF D
  <2>3. Max(D) \in D
    BY <1>6, <2>1, <2>2, MaxIs
  <2> QED  BY <2>1, <2>2, <2>3
<1> QED  BY <1>4, <1>5, <1>9

LEMMA TrailingIs ==
  ASSUME cursor \in Nat
  PROVE  Trailing \in 0..cursor
<1> DEFINE A == {i \in 0..cursor : \A k \in (i + 1)..cursor : text[k] = Backslash}
<1>1. A \subseteq 0..cursor /\ cursor \in A /\ A \subseteq Nat
  OBVIOUS
<1>2. Trailing = cursor - Min(A)
  BY DEF Trailing
<1> HIDE DEF A
<1>3. Min(A) \in A
  BY <1>1, MinIs
<1>4. Min(A) \in 0..cursor
  BY <1>1, <1>3
<1> QED  BY <1>2, <1>4

LEMMA CutIs ==
  ASSUME text \in Seq(Glyphs), NEW from \in Nat, NEW to \in Nat, from <= to, to <= Len(text)
  PROVE  Cut(from, to) \in Seq(Glyphs) /\ Len(Cut(from, to)) = Len(text) - (to - from)
<1> DEFINE a == SubSeq(text, 1, from)
           b == SubSeq(text, to + 1, Len(text))
<1>1. a \in Seq(Glyphs) /\ Len(a) = from
  OBVIOUS
<1>2. b \in Seq(Glyphs) /\ Len(b) = Len(text) - to
  OBVIOUS
<1>3. Cut(from, to) = a \o b
  BY DEF Cut
<1> HIDE DEF a, b
<1>4. a \o b \in Seq(Glyphs) /\ Len(a \o b) = Len(a) + Len(b)
  BY <1>1, <1>2, ConcatProperties
<1> QED  BY <1>1, <1>2, <1>3, <1>4

LEMMA InsertIs ==
  ASSUME NEW t \in Seq(Glyphs), NEW s \in Seq(Glyphs), NEW c \in 0..Len(t)
  PROVE  Insert(s, c, t) \in Seq(Glyphs) /\ Len(Insert(s, c, t)) = Len(t) + Len(s)
<1> DEFINE a == SubSeq(t, 1, c)
           b == SubSeq(t, c + 1, Len(t))
<1>1. a \in Seq(Glyphs) /\ Len(a) = c
  OBVIOUS
<1>2. b \in Seq(Glyphs) /\ Len(b) = Len(t) - c
  OBVIOUS
<1>3. Insert(s, c, t) = a \o s \o b
  BY DEF Insert
<1> HIDE DEF a, b
<1>4. a \o s \in Seq(Glyphs) /\ Len(a \o s) = c + Len(s)
  BY <1>1, ConcatProperties
<1>5. (a \o s) \o b \in Seq(Glyphs) /\ Len((a \o s) \o b) = Len(a \o s) + Len(b)
  BY <1>2, <1>4, ConcatProperties
<1> QED  BY <1>2, <1>3, <1>4, <1>5

LEMMA RangeIs ==
  ASSUME NEW s, NEW t \in Seq(Glyphs), Within(s, t)
  PROVE  From(s) \in Nat /\ To(s) \in Nat /\ From(s) <= To(s) /\ To(s) <= Len(t)
<1>1. s.originStart \in Nat /\ s.originEnd \in Nat /\ s.activeStart \in Nat /\ s.activeEnd \in Nat /\ Len(t) \in Nat
  BY DEF Within, Selection
<1> QED  BY <1>1 DEF Within, From, To

LEMMA PutHolds ==
  ASSUME NEW t \in Seq(Glyphs), NEW c \in 0..Len(t), Put(t, c)
  PROVE  PromptHolds(text', cursor', selection')
BY DEF Put, PromptHolds

Item == [command: Seq(Glyphs), insertion: Seq(Glyphs)]

LEMMA ItemsAre ==
  Items \in Seq(Item)
<1> DEFINE starting == {j \in DOMAIN Commands : IsPrefix(text, Commands[j].command)}
           is == {j \in DOMAIN Commands : Commands[j].command = text}
           a == Picked(Commands, is)
           b == Picked(Commands, starting \ is)
<1>1. a \in Seq(Item) /\ b \in Seq(Item)
  <2> HIDE DEF starting, is
  <2>1. Commands \in Seq(Item)
    BY EditorAssumption DEF Item
  <2> QED  BY <2>1, PickedIs
<1>2. Items = IF ~palette.open THEN <<>> ELSE a \o b
  BY DEF Items
<1> HIDE DEF starting, is, a, b
<1> QED  BY <1>1, <1>2

LEMMA InsertHolds ==
  ASSUME EditorInv, NEW c \in Characters, InsertText(<<c>>)
  PROVE  EditorInv'
<1> DEFINE d == IF Selected THEN From(selection) ELSE cursor
           t == IF Selected THEN Cut(From(selection), To(selection)) ELSE text
           s == <<c>>
<1>1. s \in Seq(Glyphs) /\ Len(s) = 1
  BY DEF Glyphs
<1>2. Put(Insert(s, d, t), d + Len(s)) /\ Reset
  BY DEF InsertText
<1>3. t \in Seq(Glyphs) /\ d \in 0..Len(t)
  <2>1. CASE Selected
    <3>1. selection # NoSelection /\ Within(selection, text) /\ text \in Seq(Glyphs)
      BY <2>1 DEF Selected, Dragged, EditorInv, PromptHolds
    <3>2. /\ From(selection) \in Nat /\ To(selection) \in Nat /\ From(selection) <= To(selection)
          /\ To(selection) <= Len(text)
      BY <3>1, RangeIs
    <3>3. /\ Cut(From(selection), To(selection)) \in Seq(Glyphs)
          /\ Len(Cut(From(selection), To(selection))) = Len(text) - (To(selection) - From(selection))
      BY <3>1, <3>2, CutIs
    <3> QED  BY <2>1, <3>1, <3>2, <3>3
  <2>2. CASE ~Selected
    BY <2>2 DEF EditorInv, PromptHolds
  <2> QED  BY <2>1, <2>2
<1> HIDE DEF d, t, s
<1>4. Insert(s, d, t) \in Seq(Glyphs) /\ Len(Insert(s, d, t)) = Len(t) + Len(s)
  BY <1>1, <1>3, InsertIs
<1>5. d + Len(s) \in 0..Len(Insert(s, d, t))
  BY <1>1, <1>3, <1>4
<1>6. PromptHolds(text', cursor', selection')
  BY <1>2, <1>4, <1>5, PutHolds
<1>7. palette' \in Palettes
  BY <1>2 DEF Reset, EditorInv, Palettes
<1> QED  BY <1>6, <1>7 DEF EditorInv

LEMMA DrainHolds ==
  ASSUME EditorInv, NEW from \in Nat, NEW to \in Nat, from <= to, to <= Len(text), Drain(from, to)
  PROVE  PromptHolds(text', cursor', selection')
<1>1. text \in Seq(Glyphs)
  BY DEF EditorInv, PromptHolds
<1>2. Cut(from, to) \in Seq(Glyphs) /\ Len(Cut(from, to)) = Len(text) - (to - from)
  BY <1>1, CutIs
<1>3. from \in 0..Len(Cut(from, to))
  BY <1>1, <1>2
<1> QED  BY <1>2, <1>3, PutHolds DEF Drain

LEMMA DrainSelectedHolds ==
  ASSUME EditorInv, Selected, Drain(From(selection), To(selection))
  PROVE  PromptHolds(text', cursor', selection')
<1>1. Within(selection, text) /\ text \in Seq(Glyphs)
  BY DEF Selected, Dragged, EditorInv, PromptHolds
<1>2. /\ From(selection) \in Nat /\ To(selection) \in Nat /\ From(selection) <= To(selection)
      /\ To(selection) <= Len(text)
  BY <1>1, RangeIs
<1> QED  BY <1>2, DrainHolds

LEMMA ResetHolds ==
  ASSUME EditorInv, Reset
  PROVE  palette' \in Palettes
BY DEF Reset, EditorInv, Palettes

LEMMA DropHolds ==
  ASSUME EditorInv, selection' = NoSelection, UNCHANGED <<text, cursor>>
  PROVE  PromptHolds(text', cursor', selection')
BY DEF EditorInv, PromptHolds

LEMMA EraseHolds ==
  ASSUME EditorInv, NEW edge, NEW from, NEW to, Erase(edge, from, to),
         edge \/ (from \in Nat /\ to \in Nat /\ from <= to /\ to <= Len(text))
  PROVE  EditorInv'
<1>1. CASE Selected /\ Drain(From(selection), To(selection)) /\ Reset
  BY <1>1, DrainSelectedHolds, ResetHolds DEF EditorInv
<1>2. CASE ~Selected /\ edge /\ selection' = NoSelection /\ UNCHANGED <<text, cursor, palette>>
  BY <1>2, DropHolds DEF EditorInv
<1>3. CASE ~Selected /\ ~edge /\ Drain(from, to) /\ Reset
  BY <1>3, DrainHolds, ResetHolds DEF EditorInv
<1> QED  BY <1>1, <1>2, <1>3 DEF Erase

LEMMA MoveToHolds ==
  ASSUME EditorInv, NEW c \in 0..Len(text), MoveTo(c)
  PROVE  PromptHolds(text', cursor', selection')
<1>1. text \in Seq(Glyphs)
  BY DEF EditorInv, PromptHolds
<1> QED  BY <1>1, PutHolds DEF MoveTo

LEMMA MoveHolds ==
  ASSUME EditorInv, Move
  PROVE  EditorInv'
<1>1. text \in Seq(Glyphs) /\ cursor \in 0..Len(text) /\ Len(text) \in Nat
  BY DEF EditorInv, PromptHolds
<1>2. Dragged => From(selection) \in 0..Len(text) /\ To(selection) \in 0..Len(text)
  <2> SUFFICES ASSUME Dragged  PROVE From(selection) \in 0..Len(text) /\ To(selection) \in 0..Len(text)
    OBVIOUS
  <2>1. Within(selection, text)
    BY DEF Dragged, EditorInv, PromptHolds
  <2>2. /\ From(selection) \in Nat /\ To(selection) \in Nat /\ From(selection) <= To(selection)
        /\ To(selection) <= Len(text)
    BY <1>1, <2>1, RangeIs
  <2> QED  BY <1>1, <2>2
<1>3. \E c \in 0..Len(text) : MoveTo(c)
  <2>1. CASE MoveLeft
    <3> DEFINE c == IF Dragged THEN From(selection) ELSE IF cursor = 0 THEN 0 ELSE cursor - 1
    <3>1. c \in 0..Len(text)
      BY <1>1, <1>2
    <3>2. MoveTo(c)
      BY <2>1 DEF MoveLeft
    <3> QED  BY <3>1, <3>2
  <2>2. CASE MoveRight
    <3> DEFINE c == IF Dragged THEN To(selection) ELSE Least(cursor + 1, Len(text))
    <3>1. c \in 0..Len(text)
      BY <1>1, <1>2 DEF Least
    <3>2. MoveTo(c)
      BY <2>2 DEF MoveRight
    <3> QED  BY <3>1, <3>2
  <2>3. PreviousWord(cursor) \in 0..cursor /\ NextWord(cursor) \in cursor..Len(text)
    BY <1>1, WordsAreNear
  <2>4. PreviousWord(cursor) \in 0..Len(text) /\ NextWord(cursor) \in 0..Len(text)
    BY <1>1, <2>3
  <2>5. 0 \in 0..Len(text) /\ Len(text) \in 0..Len(text)
    BY <1>1
  <2> QED  BY <2>1, <2>2, <2>4, <2>5 DEF Move
<1>4. PromptHolds(text', cursor', selection')
  BY <1>3, MoveToHolds
<1> QED  BY <1>4 DEF Move, EditorInv

LEMMA CompleteHolds ==
  ASSUME EditorInv, NEW item \in Nat, item < Len(Items), NEW pressed \in Int, Complete(item, pressed)
  PROVE  EditorInv'
<1> DEFINE t == Items[item + 1].insertion
<1>1. t \in Seq(Glyphs)
  <2>1. Items[item + 1] \in Item
    BY ItemsAre
  <2> QED  BY <2>1 DEF Item
<1>2. Put(t, Len(t)) /\ palette' = [selected |-> 0, open |-> FALSE, pressed |-> pressed]
  BY DEF Complete
<1> HIDE DEF t
<1>3. Len(t) \in 0..Len(t)
  BY <1>1
<1>4. PromptHolds(text', cursor', selection')
  BY <1>1, <1>2, <1>3, PutHolds
<1>5. palette' \in Palettes
  BY <1>2 DEF Palettes
<1> QED  BY <1>4, <1>5 DEF EditorInv

LEMMA SelectHolds ==
  ASSUME EditorInv, SelectCommand
  PROVE  EditorInv'
<1>1. palette.selected \in Nat /\ palette.pressed \in Int
  BY DEF EditorInv, Palettes
<1> QED  BY <1>1, CompleteHolds DEF SelectCommand

LEMMA NavigateHolds ==
  ASSUME EditorInv, Navigate
  PROVE  EditorInv'
<1> DEFINE last == Max({0, Len(Items) - 1})
<1>1. \A a, b \in Int : Max({a, b}) \in {a, b}
  <2> SUFFICES ASSUME NEW a \in Int, NEW b \in Int  PROVE Max({a, b}) \in {a, b}
    OBVIOUS
  <2>1. \E x \in {a, b} : \A y \in {a, b} : x >= y
    <3>1. CASE a >= b
      BY <3>1
    <3>2. CASE ~(a >= b)
      BY <3>2
    <3> QED  BY <3>1, <3>2
  <2> QED  BY <2>1 DEF Max
<1>2. palette \in Palettes /\ palette.selected \in Nat
  BY DEF EditorInv, Palettes
<1>3. \A a \in Int : Max({0, a}) \in Nat
  <2> SUFFICES ASSUME NEW a \in Int  PROVE Max({0, a}) \in Nat
    OBVIOUS
  <2>1. CASE a \in Nat
    BY <1>1, <2>1
  <2>2. CASE a \notin Nat
    <3>1. \E x \in {0, a} : \A y \in {0, a} : x >= y
      BY <2>2
    <3>2. Max({0, a}) \in {0, a} /\ \A y \in {0, a} : Max({0, a}) >= y
      BY <3>1 DEF Max
    <3> QED  BY <2>2, <3>2
  <2> QED  BY <2>1, <2>2
<1>4. Len(Items) \in Nat
  BY ItemsAre
<1>5. last \in Nat
  BY <1>3, <1>4
<1>6. Max({0, palette.selected - 1}) \in Nat /\ Least(palette.selected + 1, last) \in Nat
  <2> HIDE DEF last
  <2> QED  BY <1>2, <1>3, <1>5 DEF Least
<1>7. PICK selected \in {Max({0, palette.selected - 1}), Least(palette.selected + 1, last)} :
        palette' = [palette EXCEPT !.selected = selected]
  BY DEF Navigate
<1>8. palette' \in Palettes
  <2>1. selected \in Nat
    BY <1>6, <1>7
  <2> QED  BY <1>2, <1>7, <2>1 DEF Palettes
<1> QED  BY <1>8 DEF Navigate, EditorInv, PromptHolds, Within

LEMMA SubmitHolds ==
  ASSUME EditorInv, SubmitPrompt
  PROVE  EditorInv'
<1>1. CASE SelectCommand
  BY <1>1, SelectHolds
<1>2. text \in Seq(Glyphs) /\ cursor \in 0..Len(text) /\ Len(text) \in Nat
  BY DEF EditorInv, PromptHolds
<1>3. CASE Trailing % 2 = 1 /\ Put(Insert(<<Newline>>, cursor - 1, Cut(cursor - 1, cursor)), cursor) /\ Reset
  <2>1. Trailing \in 0..cursor
    BY <1>2, TrailingIs
  <2>2. cursor >= 1
    BY <1>2, <1>3, <2>1
  <2> DEFINE t == Cut(cursor - 1, cursor)
             s == <<Newline>>
             d == cursor - 1
  <2>3. t \in Seq(Glyphs) /\ Len(t) = Len(text) - 1
    <3>1. cursor - 1 \in Nat /\ cursor \in Nat /\ cursor - 1 <= cursor /\ cursor <= Len(text)
      BY <1>2, <2>2
    <3>2. Cut(cursor - 1, cursor) \in Seq(Glyphs) /\ Len(Cut(cursor - 1, cursor)) = Len(text) - (cursor - (cursor - 1))
      BY <1>2, <3>1, CutIs
    <3> QED  BY <1>2, <3>2
  <2>4. s \in Seq(Glyphs) /\ Len(s) = 1
    BY DEF Glyphs
  <2>5. d \in 0..Len(t)
    BY <1>2, <2>2, <2>3
  <2>6. Put(Insert(s, d, t), cursor)
    BY <1>3
  <2> HIDE DEF t, s, d
  <2>7. Insert(s, d, t) \in Seq(Glyphs) /\ Len(Insert(s, d, t)) = Len(t) + Len(s)
    BY <2>3, <2>4, <2>5, InsertIs
  <2>8. cursor \in 0..Len(Insert(s, d, t))
    BY <1>2, <2>3, <2>4, <2>7
  <2>9. PromptHolds(text', cursor', selection')
    BY <2>6, <2>7, <2>8, PutHolds
  <2> QED  BY <1>3, <2>9, ResetHolds DEF EditorInv
<1>4. CASE UNCHANGED editorVars
  BY <1>4 DEF editorVars, EditorInv, PromptHolds, Within
<1>5. CASE Put(<<>>, 0) /\ Reset
  <2>1. <<>> \in Seq(Glyphs) /\ 0 \in 0..Len(<<>>)
    OBVIOUS
  <2>2. PromptHolds(text', cursor', selection')
    BY <1>5, <2>1, PutHolds
  <2> QED  BY <1>5, <2>2, ResetHolds DEF EditorInv
<1> QED  BY <1>1, <1>3, <1>4, <1>5 DEF SubmitPrompt

LEMMA PaletteExcept ==
  ASSUME NEW p \in Palettes, NEW n \in Nat, NEW k \in Int
  PROVE  /\ [p EXCEPT !.selected = n, !.pressed = k] \in Palettes
         /\ [p EXCEPT !.pressed = k, !.selected = n] \in Palettes
         /\ [p EXCEPT !.open = FALSE, !.pressed = k] \in Palettes
<1>1. [p EXCEPT !.selected = n] \in Palettes /\ [p EXCEPT !.open = FALSE] \in Palettes
      /\ [p EXCEPT !.pressed = k] \in Palettes
  BY DEF Palettes
<1>2. \A q \in Palettes : [q EXCEPT !.pressed = k] \in Palettes /\ [q EXCEPT !.selected = n] \in Palettes
  BY DEF Palettes
<1>3. [p EXCEPT !.selected = n, !.pressed = k] = [[p EXCEPT !.selected = n] EXCEPT !.pressed = k]
      /\ [p EXCEPT !.pressed = k, !.selected = n] = [[p EXCEPT !.pressed = k] EXCEPT !.selected = n]
      /\ [p EXCEPT !.open = FALSE, !.pressed = k] = [[p EXCEPT !.open = FALSE] EXCEPT !.pressed = k]
  OBVIOUS
<1> QED  BY <1>1, <1>2, <1>3

LEMMA PassesHolds ==
  ASSUME EditorInv, Passes
  PROVE  palette' \in Palettes
BY DEF Passes, EditorInv, Palettes, Unpressed

LEMMA PaletteHolds ==
  ASSUME EditorInv, palette' \in Palettes, UNCHANGED <<text, cursor, selection>>
  PROVE  EditorInv'
BY DEF EditorInv, PromptHolds, Within

LEMMA CellIs ==
  ASSUME text \in Seq(Glyphs), NEW c \in Positions
  PROVE  c \in Nat /\ CellEnd(c) \in Nat /\ c <= CellEnd(c) /\ CellEnd(c) <= Len(text) /\ c <= Len(text)
BY DEF Positions, CellEnd, Least

LEMMA ExtendedIs ==
  ASSUME EditorInv, selection # NoSelection, NEW c \in Positions, NEW moved \in BOOLEAN
  PROVE  /\ Within(Extended(c, moved), text)
         /\ c \in 0..Len(text) /\ CellEnd(c) \in 0..Len(text)
<1>1. Within(selection, text) /\ text \in Seq(Glyphs)
  BY DEF EditorInv, PromptHolds
<1>2. c \in Nat /\ CellEnd(c) \in Nat /\ c <= CellEnd(c) /\ CellEnd(c) <= Len(text) /\ c <= Len(text)
  BY <1>1, CellIs
<1>3. Extended(c, moved) \in Selection
  BY <1>1, <1>2 DEF Extended, Within, Selection
<1>4. /\ Extended(c, moved).originStart = selection.originStart
      /\ Extended(c, moved).originEnd = selection.originEnd
      /\ Extended(c, moved).activeStart = c
      /\ Extended(c, moved).activeEnd = CellEnd(c)
      /\ Extended(c, moved).basis = selection.basis
  BY <1>1 DEF Extended, Within, Selection
<1>5. Len(text) \in Nat
  BY <1>1
<1> QED  BY <1>1, <1>2, <1>3, <1>4, <1>5 DEF Within

LEMMA PressHolds ==
  ASSUME EditorInv, NEW c \in Positions, PressPrompt(c)
  PROVE  EditorInv'
<1>1. text \in Seq(Glyphs) /\ text' = text /\ cursor' = c
  BY DEF EditorInv, PromptHolds, PressPrompt
<1>2. c \in Nat /\ CellEnd(c) \in Nat /\ c <= CellEnd(c) /\ CellEnd(c) <= Len(text) /\ c <= Len(text)
  BY <1>1, CellIs
<1>3. selection' = [originStart |-> c, originEnd |-> CellEnd(c), activeStart |-> c,
                    activeEnd |-> CellEnd(c), dragged |-> FALSE, basis |-> text]
  BY DEF PressPrompt
<1>4. Within(selection', text)
  BY <1>1, <1>2, <1>3 DEF Within, Selection
<1>5. PromptHolds(text', cursor', selection')
  BY <1>1, <1>2, <1>4 DEF PromptHolds
<1>6. palette' \in Palettes
  BY PassesHolds DEF PressPrompt
<1> QED  BY <1>5, <1>6 DEF EditorInv

LEMMA DragHolds ==
  ASSUME EditorInv, NEW c \in Positions, DragPrompt(c)
  PROVE  EditorInv'
<1>1. Within(Extended(c, TRUE), text) /\ c \in 0..Len(text) /\ CellEnd(c) \in 0..Len(text)
  BY ExtendedIs DEF DragPrompt
<1>2. cursor' \in 0..Len(text) /\ selection' = Extended(c, TRUE) /\ text' = text /\ text \in Seq(Glyphs)
  BY <1>1 DEF DragPrompt, EditorInv, PromptHolds
<1>3. PromptHolds(text', cursor', selection')
  BY <1>1, <1>2 DEF PromptHolds
<1>4. palette' \in Palettes
  BY PassesHolds DEF DragPrompt
<1> QED  BY <1>3, <1>4 DEF EditorInv

LEMMA ReleaseHolds ==
  ASSUME EditorInv, NEW c \in Positions, NEW moved \in BOOLEAN, ReleasePrompt(c, moved)
  PROVE  EditorInv'
<1>1. Within(Extended(c, moved), text) /\ c \in 0..Len(text) /\ CellEnd(c) \in 0..Len(text)
  BY ExtendedIs DEF ReleasePrompt
<1>2. cursor' \in 0..Len(text) /\ selection' \in {Extended(c, moved), NoSelection} /\ text' = text /\ text \in Seq(Glyphs)
  BY <1>1 DEF ReleasePrompt, EditorInv, PromptHolds
<1>3. PromptHolds(text', cursor', selection')
  BY <1>1, <1>2 DEF PromptHolds
<1>4. palette' \in Palettes
  BY PassesHolds DEF ReleasePrompt
<1> QED  BY <1>3, <1>4 DEF EditorInv

LEMMA PaletteReleaseHolds ==
  ASSUME EditorInv, NEW item \in Nat, PaletteRelease(item)
  PROVE  EditorInv'
<1>1. CASE item < Len(Items) /\ Complete(item, Unpressed)
  <2>1. Unpressed \in Int
    BY DEF Unpressed
  <2> QED  BY <1>1, <2>1, CompleteHolds
<1>2. CASE /\ palette' = [palette EXCEPT !.pressed = Unpressed,
                                         !.selected = IF item = palette.pressed THEN item ELSE @]
           /\ UNCHANGED <<text, cursor, selection>>
  <2>1. palette' \in Palettes
    <3> DEFINE n == IF item = palette.pressed THEN item ELSE palette.selected
    <3>1. palette \in Palettes /\ n \in Nat /\ Unpressed \in Int
      BY DEF EditorInv, Palettes, Unpressed
    <3>2. palette' = [palette EXCEPT !.pressed = Unpressed, !.selected = n]
      BY <1>2
    <3> HIDE DEF n
    <3> QED  BY <3>1, <3>2, PaletteExcept
  <2> QED  BY <1>2, <2>1, PaletteHolds
<1> QED  BY <1>1, <1>2 DEF PaletteRelease

LEMMA MouseHolds ==
  ASSUME EditorInv, Mouse
  PROVE  EditorInv'
<1>1. CASE PressScrollbar
  BY <1>1, PassesHolds, DropHolds DEF PressScrollbar, EditorInv
<1>2. CASE ReleaseScrollbar
  BY <1>2, PassesHolds, PaletteHolds DEF ReleaseScrollbar
<1>3. CASE PressTranscript
  BY <1>3, PassesHolds, PaletteHolds DEF PressTranscript
<1>4. CASE DragTranscript
  BY <1>4, PassesHolds, PaletteHolds DEF DragTranscript
<1>5. CASE PressElsewhere
  BY <1>5, PassesHolds, DropHolds DEF PressElsewhere, EditorInv
<1>6. CASE PaletteDismiss
  <2>1. palette' \in Palettes
    <3>1. palette \in Palettes /\ palette' = [palette EXCEPT !.open = FALSE, !.pressed = Unpressed]
      BY <1>6 DEF PaletteDismiss, EditorInv
    <3>2. Unpressed \in Int
      BY DEF Unpressed
    <3> QED  BY <3>1, <3>2, PaletteExcept
  <2> QED  BY <1>6, <2>1, PaletteHolds DEF PaletteDismiss
<1>7. ASSUME NEW item \in 0..(Len(Commands) - 1), PalettePress(item)  PROVE EditorInv'
  <2>1. item \in Nat
    OBVIOUS
  <2>2. palette' \in Palettes
    <3>1. palette \in Palettes /\ palette' = [palette EXCEPT !.selected = item, !.pressed = item]
      BY <1>7 DEF PalettePress, EditorInv
    <3>2. item \in Int
      BY <2>1
    <3> QED  BY <2>1, <3>1, <3>2, PaletteExcept
  <2> QED  BY <1>7, <2>2, PaletteHolds DEF PalettePress
<1>8. ASSUME NEW item \in 0..(Len(Commands) - 1), PaletteRelease(item)  PROVE EditorInv'
  <2>1. item \in Nat
    OBVIOUS
  <2> QED  BY <1>8, <2>1, PaletteReleaseHolds
<1>9. ASSUME NEW moved \in BOOLEAN, ReleaseTranscript(moved)  PROVE EditorInv'
  BY <1>9, PassesHolds, PaletteHolds DEF ReleaseTranscript
<1> QED
  BY <1>1, <1>2, <1>3, <1>4, <1>5, <1>6, <1>7, <1>8, <1>9, PressHolds, DragHolds, ReleaseHolds DEF Mouse

LEMMA EditorStep ==
  ASSUME EditorInv, [EditorNext]_editorVars
  PROVE  EditorInv'
<1>0. text \in Seq(Glyphs) /\ cursor \in 0..Len(text) /\ Len(text) \in Nat
  BY DEF EditorInv, PromptHolds
<1>1. ASSUME NEW c \in Characters, InsertText(<<c>>)  PROVE EditorInv'
  BY <1>1, InsertHolds
<1>2. CASE Backspace
  <2>1. cursor = 0 \/ (cursor - 1 \in Nat /\ cursor \in Nat /\ cursor - 1 <= cursor /\ cursor <= Len(text))
    BY <1>0
  <2> QED  BY <1>2, <2>1, EraseHolds DEF Backspace
<1>3. CASE Delete
  <2>1. cursor = Len(text) \/ (cursor \in Nat /\ cursor + 1 \in Nat /\ cursor <= cursor + 1 /\ cursor + 1 <= Len(text))
    BY <1>0
  <2> QED  BY <1>3, <2>1, EraseHolds DEF Delete
<1>4. CASE DeleteWordLeft
  <2>1. PreviousWord(cursor) \in 0..cursor
    BY <1>0, WordsAreNear
  <2>2. PreviousWord(cursor) \in Nat /\ cursor \in Nat /\ PreviousWord(cursor) <= cursor /\ cursor <= Len(text)
    BY <1>0, <2>1
  <2> QED  BY <1>4, <2>2, EraseHolds DEF DeleteWordLeft
<1>5. CASE CutSelection
  <2>1. CASE Selected
    BY <1>5, <2>1, DrainSelectedHolds, ResetHolds DEF CutSelection, EditorInv
  <2>2. CASE ~Selected
    BY <1>5, <2>2, DropHolds DEF CutSelection, EditorInv
  <2> QED  BY <2>1, <2>2
<1>6. CASE Clear
  <2>1. <<>> \in Seq(Glyphs) /\ 0 \in 0..Len(<<>>)
    OBVIOUS
  <2>2. PromptHolds(text', cursor', selection')
    BY <1>6, <2>1, PutHolds DEF Clear
  <2> QED  BY <1>6, <2>2, ResetHolds DEF Clear, EditorInv
<1>7. CASE MoveVertical
  <2>1. PICK c \in 0..Len(text) : MoveTo(c)
    BY <1>7 DEF MoveVertical, Positions
  <2>2. PromptHolds(text', cursor', selection')
    BY <2>1, MoveToHolds
  <2> QED  BY <1>7, <2>2 DEF MoveVertical, EditorInv
<1>8. CASE CopyOrQuit \/ SwitchSession
  BY <1>8, PaletteHolds DEF CopyOrQuit, SwitchSession, EditorInv
<1>9. CASE Cancel
  <2>1. palette' \in Palettes
    <3>1. palette \in Palettes /\ palette' = [palette EXCEPT !.open = FALSE]
      BY <1>9 DEF Cancel, EditorInv
    <3> QED  BY <3>1 DEF Palettes
  <2>2. UNCHANGED <<text, cursor>> /\ selection' \in {selection, NoSelection}
    BY <1>9 DEF Cancel
  <2>3. CASE selection' = selection
    BY <2>1, <2>2, <2>3, PaletteHolds
  <2>4. CASE selection' = NoSelection
    BY <2>1, <2>2, <2>4, DropHolds DEF EditorInv
  <2> QED  BY <2>2, <2>3, <2>4
<1>10. CASE UNCHANGED editorVars
  BY <1>10, PaletteHolds DEF editorVars, EditorInv
<1> QED
  BY <1>1, <1>2, <1>3, <1>4, <1>5, <1>6, <1>7, <1>8, <1>9, <1>10, MoveHolds, NavigateHolds, SelectHolds,
     SubmitHolds, MouseHolds
  DEF EditorNext

\* For any characters and commands, whatever is typed, removed, dragged, completed and submitted:
\* the cursor is within the prompt, and what is selected was selected in the prompt as it is, so that
\* no cut falls out of the text.
THEOREM SelectionAlwaysCurrent == EditorSpec => []SelectionIsCurrent
<1>1. EditorInit => EditorInv
  <2> SUFFICES ASSUME EditorInit  PROVE EditorInv
    OBVIOUS
  <2>1. <<>> \in Seq(Glyphs) /\ 0 \in 0..Len(<<>>)
    OBVIOUS
  <2>2. PromptHolds(text, cursor, selection)
    BY <2>1 DEF EditorInit, PromptHolds
  <2>3. palette \in Palettes
    BY DEF EditorInit, Palettes, Unpressed
  <2> QED  BY <2>2, <2>3 DEF EditorInv
<1>2. EditorInv /\ [EditorNext]_editorVars => EditorInv'
  BY EditorStep
<1>3. EditorInv => SelectionIsCurrent
  <2> SUFFICES ASSUME EditorInv  PROVE SelectionIsCurrent
    OBVIOUS
  <2>1. text \in Seq(Glyphs) /\ cursor \in Positions
    BY DEF EditorInv, PromptHolds, Positions
  <2>2. ASSUME selection # NoSelection
        PROVE  /\ selection.basis = text
               /\ 0 <= From(selection) /\ From(selection) <= To(selection) /\ To(selection) <= Len(text)
    <3>1. Within(selection, text)
      BY <2>2 DEF EditorInv, PromptHolds
    <3>2. /\ From(selection) \in Nat /\ To(selection) \in Nat /\ From(selection) <= To(selection)
          /\ To(selection) <= Len(text)
      BY <2>1, <3>1, RangeIs
    <3> QED  BY <3>1, <3>2 DEF Within
  <2> QED  BY <2>1, <2>2 DEF SelectionIsCurrent
<1> QED  BY <1>1, <1>2, <1>3, PTL DEF EditorSpec

-----------------------------------------------------------------------------
(* Sequences of exchanges, no two of one submission.                          *)

Distinct(xs) == \A i, j \in DOMAIN xs : xs[i].sub = xs[j].sub => i = j

Without(xs, i) == SubSeq(xs, 1, i - 1) \o SubSeq(xs, i + 1, Len(xs))

LEMMA AppendDistinct ==
  ASSUME NEW G, NEW xs \in Seq(G), Distinct(xs), NEW x \in G, \A i \in DOMAIN xs : xs[i].sub # x.sub
  PROVE  Append(xs, x) \in Seq(G) /\ Distinct(Append(xs, x))
<1> DEFINE ys == Append(xs, x)
<1>1. /\ ys \in Seq(G) /\ Len(ys) = Len(xs) + 1 /\ DOMAIN ys = 1..(Len(xs) + 1)
      /\ Len(xs) \in Nat /\ DOMAIN xs = 1..Len(xs)
      /\ ys[Len(xs) + 1] = x /\ \A i \in 1..Len(xs) : ys[i] = xs[i]
  OBVIOUS
<1> HIDE DEF ys
<1>2. ASSUME NEW i \in DOMAIN ys, NEW j \in DOMAIN ys, ys[i].sub = ys[j].sub  PROVE i = j
  <2>1. CASE i \in DOMAIN xs /\ j \in DOMAIN xs
    BY <1>1, <1>2, <2>1 DEF Distinct
  <2>2. CASE i = Len(xs) + 1 \/ j = Len(xs) + 1
    <3>1. CASE i \in DOMAIN xs
      BY <1>1, <1>2, <2>2, <3>1
    <3>2. CASE j \in DOMAIN xs
      BY <1>1, <1>2, <2>2, <3>2
    <3> QED  BY <1>1, <2>2, <3>1, <3>2
  <2> QED  BY <1>1, <2>1, <2>2
<1> QED  BY <1>1, <1>2 DEF ys, Distinct

LEMMA ConcatDistinct ==
  ASSUME NEW G, NEW xs \in Seq(G), NEW ys \in Seq(G), Distinct(xs), Distinct(ys),
         \A i \in DOMAIN xs, j \in DOMAIN ys : xs[i].sub # ys[j].sub
  PROVE  xs \o ys \in Seq(G) /\ Distinct(xs \o ys)
<1> DEFINE zs == xs \o ys
           m == Len(xs)
           n == Len(ys)
<1>1. /\ zs \in Seq(G) /\ Len(zs) = m + n /\ DOMAIN zs = 1..(m + n) /\ m \in Nat /\ n \in Nat
      /\ DOMAIN xs = 1..m /\ DOMAIN ys = 1..n
      /\ \A i \in 1..(m + n) : zs[i] = IF i <= m THEN xs[i] ELSE ys[i - m]
  BY ConcatProperties
<1>2. ASSUME NEW i \in DOMAIN zs, NEW j \in DOMAIN zs, zs[i].sub = zs[j].sub  PROVE i = j
  <2> HIDE DEF zs, m, n
  <2>1. CASE i <= m /\ j <= m
    <3>1. i \in DOMAIN xs /\ j \in DOMAIN xs /\ zs[i] = xs[i] /\ zs[j] = xs[j]
      BY <1>1, <2>1
    <3> QED  BY <1>2, <3>1 DEF Distinct
  <2>2. CASE ~(i <= m) /\ ~(j <= m)
    <3>1. i - m \in DOMAIN ys /\ j - m \in DOMAIN ys /\ zs[i] = ys[i - m] /\ zs[j] = ys[j - m]
      BY <1>1, <2>2
    <3>2. i - m = j - m
      BY <1>2, <3>1 DEF Distinct
    <3> QED  BY <1>1, <3>2
  <2>3. CASE i <= m /\ ~(j <= m)
    <3>1. i \in DOMAIN xs /\ j - m \in DOMAIN ys /\ zs[i] = xs[i] /\ zs[j] = ys[j - m]
      BY <1>1, <2>3
    <3> QED  BY <1>2, <3>1
  <2>4. CASE ~(i <= m) /\ j <= m
    <3>1. i - m \in DOMAIN ys /\ j \in DOMAIN xs /\ zs[i] = ys[i - m] /\ zs[j] = xs[j]
      BY <1>1, <2>4
    <3> QED  BY <1>2, <3>1
  <2> QED  BY <2>1, <2>2, <2>3, <2>4
<1> QED  BY <1>1, <1>2 DEF Distinct

LEMMA ReplaceDistinct ==
  ASSUME NEW G, NEW xs \in Seq(G), Distinct(xs), NEW i \in DOMAIN xs, NEW x \in G,
         \A j \in DOMAIN xs : xs[j].sub = x.sub => j = i
  PROVE  [xs EXCEPT ![i] = x] \in Seq(G) /\ Distinct([xs EXCEPT ![i] = x])
<1> DEFINE ys == [xs EXCEPT ![i] = x]
<1>1. ys \in Seq(G) /\ DOMAIN ys = DOMAIN xs /\ \A j \in DOMAIN xs : ys[j] = IF j = i THEN x ELSE xs[j]
  BY ExceptSeq
<1> HIDE DEF ys
<1>2. Distinct(ys)
  BY <1>1 DEF Distinct
<1> QED  BY <1>1, <1>2 DEF ys

LEMMA WithoutDistinct ==
  ASSUME NEW G, NEW xs \in Seq(G), Distinct(xs), NEW i \in DOMAIN xs
  PROVE  Without(xs, i) \in Seq(G) /\ Distinct(Without(xs, i))
<1> DEFINE a == SubSeq(xs, 1, i - 1)
           b == SubSeq(xs, i + 1, Len(xs))
           n == Len(xs)
<1>1. n \in Nat /\ DOMAIN xs = 1..n /\ i \in 1..n
  OBVIOUS
<1>2. a \in Seq(G) /\ Len(a) = i - 1 /\ \A k \in 1..(i - 1) : a[k] = xs[k]
  BY <1>1
<1>3. b \in Seq(G) /\ Len(b) = n - i /\ \A k \in 1..(n - i) : b[k] = xs[k + i]
  BY <1>1
<1>4. Without(xs, i) = a \o b
  BY DEF Without
<1> HIDE DEF a, b, n
<1>5. DOMAIN a = 1..(i - 1) /\ DOMAIN b = 1..(n - i)
  BY <1>2, <1>3
<1>6. Distinct(a)
  <2>1. \A k \in DOMAIN a : k \in DOMAIN xs /\ a[k] = xs[k]
    BY <1>1, <1>2, <1>5
  <2> QED  BY <2>1 DEF Distinct
<1>7. Distinct(b)
  <2>1. \A k \in DOMAIN b : k + i \in DOMAIN xs /\ b[k] = xs[k + i]
    BY <1>1, <1>3, <1>5, SMTT(60)
  <2>2. ASSUME NEW k \in DOMAIN b, NEW l \in DOMAIN b, b[k].sub = b[l].sub  PROVE k = l
    <3>1. k + i = l + i
      BY <2>1, <2>2 DEF Distinct
    <3> QED  BY <1>1, <1>5, <3>1
  <2> QED  BY <2>2 DEF Distinct
<1>8. ASSUME NEW k \in DOMAIN a, NEW l \in DOMAIN b  PROVE a[k].sub # b[l].sub
  <2>1. k \in DOMAIN xs /\ l + i \in DOMAIN xs /\ k # l + i
    BY <1>1, <1>5
  <2>2. a[k] = xs[k] /\ b[l] = xs[l + i]
    BY <1>2, <1>3, <1>5
  <2> QED  BY <2>1, <2>2 DEF Distinct
<1>9. a \in Seq(G) /\ b \in Seq(G) /\ \A k \in DOMAIN a, l \in DOMAIN b : a[k].sub # b[l].sub
  BY <1>2, <1>3, <1>8
<1>10. a \o b \in Seq(G) /\ Distinct(a \o b)
  BY <1>6, <1>7, <1>9, ConcatDistinct
<1> QED  BY <1>4, <1>10

LEMMA PickedDistinct ==
  ASSUME NEW G, NEW xs \in Seq(G), Distinct(xs), NEW I
  PROVE  /\ Picked(xs, I) \in Seq(G) /\ Distinct(Picked(xs, I))
         /\ \A k \in DOMAIN Picked(xs, I) : \E i \in DOMAIN xs \cap I : Picked(xs, I)[k] = xs[i]
<1>1. Picked(xs, I) \in Seq(G)
  BY PickedIs
<1>2. PICK at : PickedAt(xs, DOMAIN xs \cap I, Picked(xs, I), at)
  BY PickedIs
<1> DEFINE w == Picked(xs, I)
<1> HIDE DEF w
<1>3. \A k \in DOMAIN w : at[k] \in DOMAIN xs \cap I /\ w[k] = xs[at[k]]
  BY <1>2 DEF w, PickedAt
<1>4. Distinct(w)
  <2>1. ASSUME NEW k \in DOMAIN w, NEW l \in DOMAIN w, w[k].sub = w[l].sub  PROVE k = l
    <3>1. at[k] = at[l]
      BY <1>3, <2>1 DEF Distinct
    <3> QED  BY <1>2, <3>1 DEF w, PickedAt
  <2> QED  BY <2>1 DEF Distinct
<1> QED  BY <1>1, <1>3, <1>4 DEF w

-----------------------------------------------------------------------------
(* The document.                                                               *)

Names == {"pending", "page", "sub", "prompt", "exchange"} \X Nat

Exchanges == [id: Names, sub: Names, prompt: Requests \cup {0},
              rows: SUBSET [from: {"page", "live"}, what: {"operation", "tool"}, status: {"running", "ended"}],
              answer: {"none", "interim", "final"}, status: {"running", "completed", "failed"}]

\* The id of an exchange determines its submission.
SubOf(id) == IF id[1] \in {"page", "exchange"} THEN <<"sub", id[2]>> ELSE id
Named(x)  == x.sub = SubOf(x.id)

Asked(r, s, reqs) == r \in Requests /\ reqs[r].session = s /\ reqs[r].state # "unsent"

Numbered(x, n)   == x.sub[1] = "pending" => x.sub[2] <= n
OfSession(x, s, reqs) == Bound(x) => Asked(x.sub[2], s, reqs)

Good(n, s, reqs)  == {x \in Exchanges : Named(x) /\ Numbered(x, n) /\ OfSession(x, s, reqs)}
Paged(s, reqs)    == {x \in Exchanges : Named(x) /\ x.sub[1] # "pending" /\ OfSession(x, s, reqs)}
Streams           == {t \in SUBSET (Names \X Nat) : IsFiniteSet(t)}

Documents == [exchanges: Seq(Exchanges), closed: SUBSET Names, resumable: SUBSET Names,
              seen: SUBSET (Requests \X Nat), streaming: Streams, pending: Nat]

DocumentsOf(s, reqs) ==
  {d \in Documents : d.exchanges \in Seq(Good(d.pending, s, reqs)) /\ Distinct(d.exchanges)}

PagesOf(s, reqs) == {xs \in Seq(Paged(s, reqs)) : Distinct(xs)}

LEMMA DocumentIs ==
  ASSUME NEW s, NEW reqs, NEW d \in DocumentsOf(s, reqs)
  PROVE  /\ d \in Documents /\ d.pending \in Nat
         /\ d.exchanges \in Seq(Good(d.pending, s, reqs)) /\ d.exchanges \in Seq(Exchanges)
         /\ Distinct(d.exchanges)
BY DEF DocumentsOf, Documents

\* A document with other exchanges, as good as those it had.
LEMMA ExchangesReplaced ==
  ASSUME NEW s, NEW reqs, NEW d \in DocumentsOf(s, reqs), NEW n \in Nat,
         NEW xs \in Seq(Good(n, s, reqs)), Distinct(xs)
  PROVE  [d EXCEPT !.pending = n, !.exchanges = xs] \in DocumentsOf(s, reqs)
<1>1. d \in Documents
  BY DocumentIs
<1>2. xs \in Seq(Exchanges)
  BY DEF Good
<1> DEFINE a == [d EXCEPT !.pending = n]
           b == [a EXCEPT !.exchanges = xs]
<1>3. a \in Documents /\ a.pending = n
  BY <1>1 DEF Documents
<1>4. [d EXCEPT !.pending = n, !.exchanges = xs] = b
  OBVIOUS
<1> HIDE DEF a
<1>5. b \in Documents /\ b.exchanges = xs /\ b.pending = n
  BY <1>2, <1>3 DEF Documents
<1> HIDE DEF b
<1>6. b \in DocumentsOf(s, reqs)
  BY <1>5 DEF DocumentsOf
<1> QED  BY <1>4, <1>6

LEMMA ExchangesChanged ==
  ASSUME NEW s, NEW reqs, NEW d \in DocumentsOf(s, reqs),
         NEW xs \in Seq(Good(d.pending, s, reqs)), Distinct(xs)
  PROVE  [d EXCEPT !.exchanges = xs] \in DocumentsOf(s, reqs)
<1>1. d \in Documents /\ d.pending \in Nat
  BY DocumentIs
<1>2. [d EXCEPT !.exchanges = xs] = [d EXCEPT !.pending = d.pending, !.exchanges = xs]
  BY <1>1 DEF Documents
<1> QED  BY <1>1, <1>2, ExchangesReplaced

\* What else a document holds is not about its exchanges.
LEMMA RestChanged ==
  ASSUME NEW s, NEW reqs, NEW d \in DocumentsOf(s, reqs), NEW e \in Documents,
         e.exchanges = d.exchanges, e.pending = d.pending
  PROVE  e \in DocumentsOf(s, reqs)
BY DEF DocumentsOf

LEMMA GoodLater ==
  ASSUME NEW s, NEW reqs, NEW n \in Nat, NEW m \in Nat, n <= m
  PROVE  Good(n, s, reqs) \subseteq Good(m, s, reqs)
<1> SUFFICES ASSUME NEW x \in Good(n, s, reqs)  PROVE x \in Good(m, s, reqs)
  OBVIOUS
<1>1. x \in Exchanges /\ Named(x) /\ OfSession(x, s, reqs) /\ Numbered(x, n)
  BY DEF Good
<1>2. x.sub[2] \in Nat
  BY <1>1 DEF Exchanges, Names
<1>3. Numbered(x, m)
  BY <1>1, <1>2 DEF Numbered
<1> QED  BY <1>1, <1>3 DEF Good

LEMMA PagedGood ==
  ASSUME NEW s, NEW reqs, NEW n
  PROVE  Paged(s, reqs) \subseteq Good(n, s, reqs)
BY DEF Paged, Good, Numbered

LEMMA PositionIs ==
  ASSUME NEW d, NEW field, NEW value, Position(d, field, value) # {}
  PROVE  /\ The(Position(d, field, value)) \in DOMAIN d.exchanges
         /\ d.exchanges[The(Position(d, field, value))][field] = value
BY DEF The, Position

LEMMA BeginKeeps ==
  ASSUME NEW s, NEW reqs, NEW d \in DocumentsOf(s, reqs), NEW prompt \in Requests \cup {0}
  PROVE  BeginExchange(d, prompt) \in DocumentsOf(s, reqs)
<1> DEFINE n == d.pending + 1
           x == Exchange(<<"pending", n>>, <<"pending", n>>, prompt, {}, "none", "running")
           xs == Append(d.exchanges, x)
<1>1. d \in Documents /\ d.pending \in Nat /\ d.exchanges \in Seq(Good(d.pending, s, reqs)) /\ Distinct(d.exchanges)
  BY DocumentIs
<1>2. n \in Nat /\ d.pending <= n /\ ~(n <= d.pending)
  BY <1>1
<1>3. x \in Good(n, s, reqs)
  <2>1. x \in Exchanges
    BY <1>2 DEF Exchange, Exchanges, Names
  <2>2. Named(x)
    BY DEF Exchange, Named, SubOf
  <2>3. Numbered(x, n)
    BY <1>2 DEF Exchange, Numbered
  <2>4. OfSession(x, s, reqs)
    BY DEF Exchange, OfSession, Bound
  <2> QED  BY <2>1, <2>2, <2>3, <2>4 DEF Good
<1>4. d.exchanges \in Seq(Good(n, s, reqs))
  <2> HIDE DEF n
  <2>1. Good(d.pending, s, reqs) \subseteq Good(n, s, reqs)
    BY <1>1, <1>2, GoodLater
  <2> QED  BY <1>1, <2>1, SeqMonotonic
<1>5. \A i \in DOMAIN d.exchanges : d.exchanges[i].sub # x.sub
  <2> SUFFICES ASSUME NEW i \in DOMAIN d.exchanges, d.exchanges[i].sub = x.sub  PROVE FALSE
    OBVIOUS
  <2>1. d.exchanges[i] \in Good(d.pending, s, reqs)
    BY <1>1
  <2>2. Numbered(d.exchanges[i], d.pending)
    BY <2>1 DEF Good
  <2>3. x.sub[1] = "pending" /\ x.sub[2] = n
    BY DEF Exchange
  <2> HIDE DEF x, n
  <2>4. n <= d.pending
    BY <2>2, <2>3 DEF Numbered
  <2> QED  BY <1>2, <2>4
<1>6. xs \in Seq(Good(n, s, reqs)) /\ Distinct(xs)
  <2> HIDE DEF x, n
  <2> QED  BY <1>1, <1>3, <1>4, <1>5, AppendDistinct
<1>7. BeginExchange(d, prompt) = [d EXCEPT !.pending = n, !.exchanges = xs]
  BY <1>1 DEF BeginExchange, PendingId, Documents
<1> HIDE DEF n, xs
<1>8. [d EXCEPT !.pending = n, !.exchanges = xs] \in DocumentsOf(s, reqs)
  BY <1>2, <1>6, ExchangesReplaced
<1> QED  BY <1>7, <1>8

LEMMA TrackedIs ==
  ASSUME NEW s, NEW reqs, NEW d \in DocumentsOf(s, reqs), NEW page \in PagesOf(s, reqs)
  PROVE  /\ Tracked(d, page) \in DocumentsOf(s, reqs)
         /\ Tracked(d, page).exchanges = d.exchanges /\ Tracked(d, page).pending = d.pending
<1>1. d \in Documents
  BY DocumentIs
<1>2. \A status : Submissions(page, status) \in SUBSET Names
  <2> SUFFICES ASSUME NEW status, NEW i \in DOMAIN page  PROVE page[i].sub \in Names
    BY DEF Submissions
  <2>1. page[i] \in Paged(s, reqs)
    BY DEF PagesOf
  <2> QED  BY <2>1 DEF Paged, Exchanges
<1> DEFINE c == d.closed \cup Submissions(page, {"completed", "failed"})
           r == d.resumable \cup Submissions(page, {"running"})
           a == [d EXCEPT !.closed = c]
           b == [a EXCEPT !.resumable = r]
<1>3. c \in SUBSET Names /\ r \in SUBSET Names
  BY <1>1, <1>2 DEF Documents
<1>4. Tracked(d, page) = b
  BY DEF Tracked
<1> HIDE DEF c, r
<1>5. a \in Documents /\ a.exchanges = d.exchanges /\ a.pending = d.pending
  BY <1>1, <1>3 DEF Documents
<1> HIDE DEF a
<1>6. b \in Documents /\ b.exchanges = d.exchanges /\ b.pending = d.pending
  BY <1>3, <1>5 DEF Documents
<1> HIDE DEF b
<1>7. b \in DocumentsOf(s, reqs)
  BY <1>6, RestChanged
<1> QED  BY <1>4, <1>6, <1>7

LEMMA FreshIs ==
  ASSUME NEW s, NEW reqs, NEW d \in DocumentsOf(s, reqs), NEW page \in PagesOf(s, reqs)
  PROVE  /\ Fresh(d, page) \in PagesOf(s, reqs)
         /\ \A i \in DOMAIN d.exchanges, k \in DOMAIN Fresh(d, page) :
              d.exchanges[i].sub # Fresh(d, page)[k].sub
<1> DEFINE I == {i \in DOMAIN page : ~ContainsExchange(d, page[i])}
<1>1. page \in Seq(Paged(s, reqs)) /\ Distinct(page)
  BY DEF PagesOf
<1>2. Fresh(d, page) = Picked(page, I)
  BY DEF Fresh
<1>3. \A i \in I : \A k \in DOMAIN d.exchanges : d.exchanges[k].sub # page[i].sub
  BY DEF ContainsExchange, HasSubmission, Position
<1> HIDE DEF I
<1>4. /\ Picked(page, I) \in Seq(Paged(s, reqs)) /\ Distinct(Picked(page, I))
      /\ \A k \in DOMAIN Picked(page, I) : \E i \in DOMAIN page \cap I : Picked(page, I)[k] = page[i]
  BY <1>1, PickedDistinct
<1>5. ASSUME NEW i \in DOMAIN d.exchanges, NEW k \in DOMAIN Picked(page, I)
      PROVE  d.exchanges[i].sub # Picked(page, I)[k].sub
  <2>1. PICK j \in DOMAIN page \cap I : Picked(page, I)[k] = page[j]
    BY <1>4
  <2> QED  BY <1>3, <2>1
<1> QED  BY <1>2, <1>4, <1>5 DEF PagesOf

LEMMA SnapshotKeeps ==
  ASSUME NEW s, NEW reqs, NEW d \in DocumentsOf(s, reqs), NEW page \in PagesOf(s, reqs)
  PROVE  /\ InstallSnapshot(d, page) \in DocumentsOf(s, reqs)
         /\ PrependSnapshot(d, page) \in DocumentsOf(s, reqs)
<1> DEFINE new == Fresh(d, page)
           e == Tracked(d, new)
           G == Good(d.pending, s, reqs)
<1>1. new \in PagesOf(s, reqs) /\ \A i \in DOMAIN d.exchanges, k \in DOMAIN new : d.exchanges[i].sub # new[k].sub
  BY FreshIs
<1>2. e \in DocumentsOf(s, reqs) /\ e.exchanges = d.exchanges /\ e.pending = d.pending
  <2> HIDE DEF new
  <2> QED  BY <1>1, TrackedIs
<1>3. InstallSnapshot(d, page) = [e EXCEPT !.exchanges = e.exchanges \o new]
      /\ PrependSnapshot(d, page) = [e EXCEPT !.exchanges = new \o e.exchanges]
  BY DEF InstallSnapshot, PrependSnapshot
<1> HIDE DEF new, e
<1>4. d.exchanges \in Seq(G) /\ Distinct(d.exchanges) /\ d.pending \in Nat
  BY DocumentIs
<1>5. new \in Seq(G) /\ Distinct(new)
  <2>1. Paged(s, reqs) \subseteq G
    BY PagedGood
  <2>2. new \in Seq(Paged(s, reqs)) /\ Distinct(new)
    BY <1>1 DEF PagesOf
  <2> HIDE DEF G
  <2> QED  BY <2>1, <2>2, SeqMonotonic
<1> HIDE DEF G
<1>6. d.exchanges \o new \in Seq(G) /\ Distinct(d.exchanges \o new)
  BY <1>1, <1>4, <1>5, ConcatDistinct
<1>7. new \o d.exchanges \in Seq(G) /\ Distinct(new \o d.exchanges)
  <2>1. \A k \in DOMAIN new, i \in DOMAIN d.exchanges : new[k].sub # d.exchanges[i].sub
    BY <1>1
  <2> QED  BY <1>4, <1>5, <2>1, ConcatDistinct
<1>8. [e EXCEPT !.exchanges = d.exchanges \o new] \in DocumentsOf(s, reqs)
  BY <1>2, <1>6, ExchangesChanged DEF G
<1>9. [e EXCEPT !.exchanges = new \o d.exchanges] \in DocumentsOf(s, reqs)
  BY <1>2, <1>7, ExchangesChanged DEF G
<1> QED  BY <1>2, <1>3, <1>8, <1>9

\* What a sequence of exchanges shows of each: its id, its submission and its prompt.
Shown(xs) == {<<xs[i].id, xs[i].sub, xs[i].prompt>> : i \in DOMAIN xs}

\* More exchanges, which show no prompt.
Continues(S, T) == S \subseteq T /\ \A t \in T \ S : t[3] = 0

LEMMA ContinuesOn ==
  ASSUME NEW S, NEW T, NEW U, Continues(S, T), Continues(T, U)
  PROVE  Continues(S, U)
BY DEF Continues

AddsLast(box, x, new) ==
  /\ \A i \in DOMAIN new : (i \in DOMAIN box /\ new[i] = box[i]) \/ (i = Len(box) + 1 /\ new[i] = x)
  /\ \A i \in DOMAIN box : i \in DOMAIN new /\ new[i] = box[i]
  /\ Len(box) <= Len(new)

LEMMA AppendAddsLast ==
  ASSUME NEW T, NEW box \in Seq(T), NEW x \in T
  PROVE  Append(box, x) \in Seq(T) /\ AddsLast(box, x, Append(box, x))
<1> DEFINE new == Append(box, x)
           n == Len(box)
<1>1. /\ new \in Seq(T) /\ Len(new) = n + 1 /\ new[n + 1] = x /\ \A i \in 1..n : new[i] = box[i]
      /\ n \in Nat /\ DOMAIN box = 1..n /\ DOMAIN new = 1..(n + 1)
  BY AppendProperties
<1> HIDE DEF new, n
<1>2. AddsLast(box, x, new)
  <2>1. ASSUME NEW i \in DOMAIN new
        PROVE  (i \in DOMAIN box /\ new[i] = box[i]) \/ (i = n + 1 /\ new[i] = x)
    <3>1. i \in 1..(n + 1) /\ n \in Nat
      BY <1>1
    <3>2. i \in 1..n \/ i = n + 1
      BY <3>1
    <3> QED  BY <1>1, <3>2
  <2>2. ASSUME NEW i \in DOMAIN box  PROVE i \in DOMAIN new /\ new[i] = box[i]
    BY <1>1
  <2>3. n <= Len(new)
    BY <1>1
  <2> QED  BY <2>1, <2>2, <2>3 DEF AddsLast, n
<1> QED  BY <1>1, <1>2 DEF new

LEMMA ShownAdds ==
  ASSUME NEW xs, NEW x, NEW ys, AddsLast(xs, x, ys)
  PROVE  Shown(xs) \subseteq Shown(ys) /\ Shown(ys) \subseteq Shown(xs) \cup {<<x.id, x.sub, x.prompt>>}
BY DEF AddsLast, Shown

\* An exchange of a document that is changed, but for its id and submission.
Altered(d, i, x) == [d EXCEPT !.exchanges = [d.exchanges EXCEPT ![i] = x]]

LEMMA AlteredKeeps ==
  ASSUME NEW s, NEW reqs, NEW d \in DocumentsOf(s, reqs), NEW i \in DOMAIN d.exchanges, NEW x \in Exchanges,
         x.id = d.exchanges[i].id, x.sub = d.exchanges[i].sub
  PROVE  /\ Altered(d, i, x) \in DocumentsOf(s, reqs)
         /\ Altered(d, i, x).exchanges[i] = x /\ DOMAIN Altered(d, i, x).exchanges = DOMAIN d.exchanges
         /\ \A field, value : field \in {"id", "sub"} =>
              Position(Altered(d, i, x), field, value) = Position(d, field, value)
         /\ x.prompt = d.exchanges[i].prompt => Shown(Altered(d, i, x).exchanges) = Shown(d.exchanges)
<1> DEFINE G == Good(d.pending, s, reqs)
           xs == d.exchanges
           ys == [xs EXCEPT ![i] = x]
<1>1. d \in Documents /\ xs \in Seq(G) /\ Distinct(xs)
  BY DocumentIs
<1>2. x \in G
  <2>1. xs[i] \in G
    BY <1>1
  <2> QED  BY <2>1 DEF Good, Named, Numbered, OfSession, Bound
<1>3. \A j \in DOMAIN xs : xs[j].sub = x.sub => j = i
  BY <1>1 DEF Distinct
<1> HIDE DEF G
<1>4. ys \in Seq(G) /\ Distinct(ys)
  <2> HIDE DEF xs
  <2> QED  BY <1>1, <1>2, <1>3, ReplaceDistinct DEF xs
<1>5. DOMAIN ys = DOMAIN xs /\ ys[i] = x /\ \A j \in DOMAIN xs : ys[j].id = xs[j].id /\ ys[j].sub = xs[j].sub
  <2>1. DOMAIN ys = DOMAIN xs /\ \A j \in DOMAIN xs : ys[j] = IF j = i THEN x ELSE xs[j]
    OBVIOUS
  <2> HIDE DEF ys, xs
  <2> QED  BY <2>1 DEF xs
<1>6. Altered(d, i, x) = [d EXCEPT !.exchanges = ys]
  BY DEF Altered
<1>11. \A j \in DOMAIN xs : ys[j] = IF j = i THEN x ELSE xs[j]
  OBVIOUS
<1> HIDE DEF ys
<1>7. [d EXCEPT !.exchanges = ys] \in DocumentsOf(s, reqs)
  BY <1>4, ExchangesChanged DEF G
<1>8. [d EXCEPT !.exchanges = ys].exchanges = ys
  BY <1>1 DEF Documents
<1>9. ASSUME NEW field \in {"id", "sub"}, NEW value
      PROVE  Position(Altered(d, i, x), field, value) = Position(d, field, value)
  <2>1. Altered(d, i, x).exchanges = ys
    BY <1>6, <1>8
  <2>2. \A j \in DOMAIN xs : ys[j][field] = xs[j][field]
    BY <1>5
  <2> QED  BY <1>5, <2>1, <2>2 DEF Position
<1>10. ASSUME x.prompt = d.exchanges[i].prompt  PROVE Shown(Altered(d, i, x).exchanges) = Shown(d.exchanges)
  <2>1. Altered(d, i, x).exchanges = ys
    BY <1>6, <1>8
  <2>2. \A j \in DOMAIN xs : ys[j].prompt = xs[j].prompt
    BY <1>5, <1>10, <1>11
  <2> QED  BY <1>5, <2>1, <2>2 DEF Shown
<1> QED  BY <1>5, <1>6, <1>7, <1>8, <1>9, <1>10

LEMMA ExchangeAt ==
  ASSUME NEW s, NEW reqs, NEW d \in DocumentsOf(s, reqs), NEW i \in DOMAIN d.exchanges
  PROVE  d.exchanges[i] \in Exchanges
BY DocumentIs

LEMMA StreamingKeeps ==
  ASSUME NEW s, NEW reqs, NEW d \in DocumentsOf(s, reqs), NEW t \in Streams
  PROVE  /\ [d EXCEPT !.streaming = t] \in DocumentsOf(s, reqs)
         /\ [d EXCEPT !.streaming = t].exchanges = d.exchanges
<1>1. d \in Documents
  BY DocumentIs
<1> DEFINE e == [d EXCEPT !.streaming = t]
<1>2. e \in Documents /\ e.exchanges = d.exchanges /\ e.pending = d.pending
  BY <1>1 DEF Documents
<1> HIDE DEF e
<1> QED  BY <1>2, RestChanged DEF e

LEMMA StreamsOf ==
  ASSUME NEW s, NEW reqs, NEW d \in DocumentsOf(s, reqs)
  PROVE  d.streaming \in SUBSET (Names \X Nat) /\ IsFiniteSet(d.streaming)
<1>1. d \in Documents
  BY DocumentIs
<1> QED  BY <1>1 DEF Documents, Streams

LEMMA SomeStreams ==
  ASSUME NEW t \in Streams, NEW u \in SUBSET t
  PROVE  u \in Streams
BY FS_Subset DEF Streams

LEMMA RenamedStreams ==
  ASSUME NEW t \in Streams, NEW from, NEW to \in Names
  PROVE  {<<IF x[1] = from THEN to ELSE x[1], x[2]>> : x \in t} \in Streams
<1> DEFINE f == [x \in t |-> <<IF x[1] = from THEN to ELSE x[1], x[2]>>]
           u == {<<IF x[1] = from THEN to ELSE x[1], x[2]>> : x \in t}
<1>1. f \in Surjection(t, u)
  BY DEF Surjection
<1>2. IsFiniteSet(t)
  BY DEF Streams
<1>3. u \in SUBSET (Names \X Nat)
  BY DEF Streams
<1> HIDE DEF f, u
<1>4. IsFiniteSet(u)
  BY <1>1, <1>2, FS_Surjection
<1> QED  BY <1>3, <1>4 DEF Streams, u

LEMMA MergedKeeps ==
  ASSUME NEW s, NEW reqs, NEW d \in DocumentsOf(s, reqs), NEW i \in DOMAIN d.exchanges, NEW j \in DOMAIN d.exchanges
  PROVE  Merged(d, i, j).doc \in DocumentsOf(s, reqs) /\ Merged(d, i, j).id \in Names
<1> DEFINE x == [d.exchanges[j] EXCEPT !.prompt = IF @ = 0 THEN d.exchanges[i].prompt ELSE @]
           all == [d.exchanges EXCEPT ![j] = x]
           a == Altered(d, j, x)
<1>1. d.exchanges[i] \in Exchanges /\ d.exchanges[j] \in Exchanges /\ d \in Documents
  BY ExchangeAt, DocumentIs
<1>2. x \in Exchanges /\ x.id = d.exchanges[j].id /\ x.sub = d.exchanges[j].sub
  BY <1>1 DEF Exchanges
<1>3. a.exchanges = all
  BY <1>1 DEF Altered, Documents
<1>4. Merged(d, i, j).doc = [d EXCEPT !.exchanges = Without(all, i)]
  BY DEF Merged, Without
<1>5. [d EXCEPT !.exchanges = Without(all, i)] = [a EXCEPT !.exchanges = Without(all, i)]
  BY <1>1 DEF Altered, Documents
<1>6. Merged(d, i, j).id \in Names
  BY <1>1 DEF Merged, Exchanges
<1> HIDE DEF x, all
<1>7. a \in DocumentsOf(s, reqs) /\ DOMAIN a.exchanges = DOMAIN d.exchanges
  BY <1>2, AlteredKeeps
<1> HIDE DEF a
<1> DEFINE G == Good(a.pending, s, reqs)
<1>8. all \in Seq(G) /\ Distinct(all) /\ i \in DOMAIN all
  BY <1>3, <1>7, DocumentIs
<1> HIDE DEF G
<1>9. Without(all, i) \in Seq(G) /\ Distinct(Without(all, i))
  BY <1>8, WithoutDistinct
<1>10. [a EXCEPT !.exchanges = Without(all, i)] \in DocumentsOf(s, reqs)
  BY <1>7, <1>9, ExchangesChanged DEF G
<1> QED  BY <1>4, <1>5, <1>6, <1>10

LEMMA RenamedKeeps ==
  ASSUME NEW s, NEW reqs, NEW d \in DocumentsOf(s, reqs), NEW i \in DOMAIN d.exchanges,
         NEW r, Asked(r, s, reqs), Position(d, "sub", <<"sub", r>>) = {}
  PROVE  Renamed(d, i, <<"sub", r>>).doc \in DocumentsOf(s, reqs) /\ Renamed(d, i, <<"sub", r>>).id \in Names
<1> DEFINE sub == <<"sub", r>>
           id == <<"exchange", r>>
           x == [[d.exchanges[i] EXCEPT !.id = id] EXCEPT !.sub = sub]
           xs == [d.exchanges EXCEPT ![i] = x]
           t == {<<IF y[1] = d.exchanges[i].sub THEN sub ELSE y[1], y[2]>> : y \in d.streaming}
           a == [d EXCEPT !.exchanges = xs]
           G == Good(d.pending, s, reqs)
<1>1. d.exchanges[i] \in Exchanges /\ d \in Documents /\ d.exchanges \in Seq(G) /\ Distinct(d.exchanges)
  BY ExchangeAt, DocumentIs
<1>2. r \in Nat /\ sub \in Names /\ id \in Names
  BY DEF Asked, Names, Requests
<1>3. x \in Exchanges /\ x.sub = sub /\ x.id = id
  <2> HIDE DEF sub, id
  <2> QED  BY <1>1, <1>2 DEF Exchanges
<1>4. x \in G
  <2> HIDE DEF x
  <2>1. Named(x)
    BY <1>3 DEF Named, SubOf
  <2>2. Numbered(x, d.pending)
    BY <1>3 DEF Numbered
  <2>3. OfSession(x, s, reqs)
    BY <1>3 DEF OfSession
  <2> QED  BY <1>3, <2>1, <2>2, <2>3 DEF Good
<1>5. \A j \in DOMAIN d.exchanges : d.exchanges[j].sub # sub
  BY DEF Position
<1>6. Renamed(d, i, sub).id \in Names
  BY <1>2 DEF Renamed
<1>7. Renamed(d, i, sub).doc = [a EXCEPT !.streaming = t]
  <2>1. [d EXCEPT !.exchanges[i].id = id, !.exchanges[i].sub = sub, !.streaming = t] = [a EXCEPT !.streaming = t]
    BY <1>1 DEF Documents
  <2>2. Renamed(d, i, sub).doc = [d EXCEPT !.exchanges[i].id = id, !.exchanges[i].sub = sub, !.streaming = t]
    BY DEF Renamed
  <2> QED  BY <2>1, <2>2
<1> HIDE DEF G, x, sub
<1>8. xs \in Seq(G) /\ Distinct(xs)
  BY <1>1, <1>3, <1>4, <1>5, ReplaceDistinct
<1> HIDE DEF xs
<1>9. a \in DocumentsOf(s, reqs)
  BY <1>8, ExchangesChanged DEF G
<1>10. t \in Streams
  <2>1. d.streaming \in Streams
    BY <1>1 DEF Documents
  <2> QED  BY <1>2, <2>1, RenamedStreams
<1> HIDE DEF a, t
<1>11. [a EXCEPT !.streaming = t] \in DocumentsOf(s, reqs)
  BY <1>9, <1>10, StreamingKeeps
<1> QED  BY <1>6, <1>7, <1>11 DEF sub

LEMMA BindKeeps ==
  ASSUME NEW s, NEW reqs, NEW d \in DocumentsOf(s, reqs), NEW xid, NEW r, Asked(r, s, reqs)
  PROVE  /\ Bind(d, xid, <<"sub", r>>).doc \in DocumentsOf(s, reqs)
         /\ Bind(d, xid, <<"sub", r>>).id \in Names \cup {xid}
<1> DEFINE sub == <<"sub", r>>
           source == Position(d, "id", xid)
           target == Position(d, "sub", sub)
<1>1. CASE source = {} \/ target = source
  BY <1>1 DEF Bind
<1>2. CASE source # {} /\ target # source /\ target # {}
  <2>1. Bind(d, xid, sub) = Merged(d, The(source), The(target))
    BY <1>2 DEF Bind
  <2>2. The(source) \in DOMAIN d.exchanges /\ The(target) \in DOMAIN d.exchanges
    BY <1>2, PositionIs
  <2> HIDE DEF source, target, sub
  <2> QED  BY <2>1, <2>2, MergedKeeps DEF sub
<1>3. CASE source # {} /\ target # source /\ target = {}
  <2>1. Bind(d, xid, sub) = Renamed(d, The(source), sub)
    BY <1>3 DEF Bind
  <2>2. The(source) \in DOMAIN d.exchanges
    BY <1>3, PositionIs
  <2> HIDE DEF source
  <2> QED  BY <1>3, <2>1, <2>2, RenamedKeeps
<1> QED  BY <1>1, <1>2, <1>3

LEMMA AnswerKeeps ==
  ASSUME NEW s, NEW reqs, NEW d \in DocumentsOf(s, reqs), NEW xid, NEW answer \in {"interim", "final"}
  PROVE  /\ SetAssistant(d, xid, answer) \in DocumentsOf(s, reqs)
         /\ \A sub : Position(d, "sub", sub) # {} => Position(SetAssistant(d, xid, answer), "sub", sub) # {}
         /\ Shown(SetAssistant(d, xid, answer).exchanges) = Shown(d.exchanges)
<1> DEFINE at == Position(d, "id", xid)
           i == The(at)
           x == [[d.exchanges[i] EXCEPT !.answer = answer] EXCEPT !.status = "completed"]
           a == Altered(d, i, x)
           t == {y \in d.streaming : y[1] # d.exchanges[i].sub}
<1>1. CASE at = {}
  BY <1>1 DEF SetAssistant
<1>2. CASE at # {}
  <2>1. i \in DOMAIN d.exchanges
    BY <1>2, PositionIs
  <2>2. d.exchanges[i] \in Exchanges /\ d \in Documents
    <3> HIDE DEF i
    <3> QED  BY <2>1, ExchangeAt, DocumentIs
  <2>3. SetAssistant(d, xid, answer) = [a EXCEPT !.streaming = t]
    <3>1. SetAssistant(d, xid, answer) =
            [d EXCEPT !.exchanges[i].answer = answer, !.exchanges[i].status = "completed", !.streaming = t]
      BY <1>2 DEF SetAssistant
    <3> HIDE DEF i
    <3>2. [d EXCEPT !.exchanges[i].answer = answer, !.exchanges[i].status = "completed", !.streaming = t]
            = [a EXCEPT !.streaming = t]
      BY <2>1, <2>2 DEF Altered, Documents
    <3> QED  BY <3>1, <3>2
  <2> HIDE DEF i
  <2>4. /\ x \in Exchanges /\ x.id = d.exchanges[i].id /\ x.sub = d.exchanges[i].sub
        /\ x.prompt = d.exchanges[i].prompt
    BY <2>2 DEF Exchanges
  <2>5. t \in Streams
    <3>1. d.streaming \in Streams /\ t \in SUBSET d.streaming
      BY <2>2 DEF Documents
    <3> QED  BY <3>1, SomeStreams
  <2> HIDE DEF x, t
  <2>6. /\ a \in DocumentsOf(s, reqs) /\ \A sub : Position(a, "sub", sub) = Position(d, "sub", sub)
        /\ Shown(a.exchanges) = Shown(d.exchanges)
    BY <2>1, <2>4, AlteredKeeps
  <2> HIDE DEF a
  <2>7. [a EXCEPT !.streaming = t] \in DocumentsOf(s, reqs) /\ [a EXCEPT !.streaming = t].exchanges = a.exchanges
    BY <2>5, <2>6, StreamingKeeps
  <2>8. \A sub : Position([a EXCEPT !.streaming = t], "sub", sub) = Position(a, "sub", sub)
    BY <2>7 DEF Position
  <2> QED  BY <2>3, <2>6, <2>7, <2>8
<1> QED  BY <1>1, <1>2

\* The events of a session that submissions have emitted.
Heard(s) == {e \in Requests \X Nat : Asked(e[1], s, requests) /\ Kind(e) \in EventKinds}

LEMMA EnsuredKeeps ==
  ASSUME NEW s, NEW reqs, NEW d \in DocumentsOf(s, reqs), NEW r, Asked(r, s, reqs)
  PROVE  /\ Ensured(d, <<"sub", r>>) \in DocumentsOf(s, reqs)
         /\ Position(Ensured(d, <<"sub", r>>), "sub", <<"sub", r>>) # {}
         /\ Continues(Shown(d.exchanges), Shown(Ensured(d, <<"sub", r>>).exchanges))
<1> DEFINE sub == <<"sub", r>>
           id == <<"exchange", r>>
           x == Exchange(id, sub, 0, {}, "none", "running")
           xs == Append(d.exchanges, x)
           G == Good(d.pending, s, reqs)
<1>1. CASE HasSubmission(d, sub)
  BY <1>1 DEF Ensured, HasSubmission, Continues
<1>2. CASE ~HasSubmission(d, sub)
  <2>1. d \in Documents /\ d.exchanges \in Seq(G) /\ Distinct(d.exchanges)
    BY DocumentIs
  <2>2. r \in Nat /\ sub \in Names /\ id \in Names
    BY DEF Asked, Names, Requests
  <2>3. x \in Exchanges /\ x.sub = sub /\ x.id = id /\ x.prompt = 0
    <3> HIDE DEF sub, id
    <3> QED  BY <2>2 DEF Exchange, Exchanges
  <2>4. Ensured(d, sub) = [d EXCEPT !.exchanges = xs]
    BY <1>2 DEF Ensured
  <2>5. x \in G
    <3> HIDE DEF x
    <3>1. Named(x)
      BY <2>3 DEF Named, SubOf
    <3>2. Numbered(x, d.pending)
      BY <2>3 DEF Numbered
    <3>3. OfSession(x, s, reqs)
      BY <2>3 DEF OfSession
    <3> QED  BY <2>3, <3>1, <3>2, <3>3 DEF Good
  <2>6. \A j \in DOMAIN d.exchanges : d.exchanges[j].sub # x.sub
    BY <1>2, <2>3 DEF HasSubmission, Position
  <2> HIDE DEF G, x, sub, id
  <2>7. xs \in Seq(G) /\ Distinct(xs)
    BY <2>1, <2>5, <2>6, AppendDistinct
  <2>8. [d EXCEPT !.exchanges = xs] \in DocumentsOf(s, reqs)
    BY <2>7, ExchangesChanged DEF G
  <2>9. Position([d EXCEPT !.exchanges = xs], "sub", sub) # {}
    <3>1. [d EXCEPT !.exchanges = xs].exchanges = xs
      BY <2>1 DEF Documents
    <3>2. Len(xs) \in DOMAIN xs /\ xs[Len(xs)] = x
      BY <2>1, <2>5
    <3>3. xs[Len(xs)].sub = sub
      BY <2>3, <3>2
    <3> HIDE DEF xs
    <3> QED  BY <3>1, <3>2, <3>3 DEF Position
  <2>10. Continues(Shown(d.exchanges), Shown([d EXCEPT !.exchanges = xs].exchanges))
    <3>1. [d EXCEPT !.exchanges = xs].exchanges = xs
      BY <2>1 DEF Documents
    <3>2. AddsLast(d.exchanges, x, xs)
      BY <2>1, <2>5, AppendAddsLast
    <3> HIDE DEF xs
    <3> QED  BY <2>3, <3>1, <3>2, ShownAdds DEF Continues
  <2> QED  BY <2>4, <2>8, <2>9, <2>10 DEF sub
<1> QED  BY <1>1, <1>2

LEMMA SeenKeeps ==
  ASSUME NEW s, NEW reqs, NEW d \in DocumentsOf(s, reqs), NEW e \in Requests \X Nat
  PROVE  /\ [d EXCEPT !.seen = @ \cup {e}] \in DocumentsOf(s, reqs)
         /\ \A sub : Position([d EXCEPT !.seen = @ \cup {e}], "sub", sub) = Position(d, "sub", sub)
         /\ [d EXCEPT !.seen = @ \cup {e}].exchanges = d.exchanges
<1>1. d \in Documents
  BY DocumentIs
<1> DEFINE b == [d EXCEPT !.seen = @ \cup {e}]
<1>2. b \in Documents /\ b.exchanges = d.exchanges /\ b.pending = d.pending
  BY <1>1 DEF Documents
<1> HIDE DEF b
<1>3. b \in DocumentsOf(s, reqs)
  BY <1>2, RestChanged
<1>4. \A sub : Position(b, "sub", sub) = Position(d, "sub", sub)
  BY <1>2 DEF Position
<1> QED  BY <1>2, <1>3, <1>4 DEF b

RowKinds == [from: {"page", "live"}, what: {"operation", "tool"}, status: {"running", "ended"}]

LEMMA PutKeeps ==
  ASSUME NEW s, NEW reqs, NEW d \in DocumentsOf(s, reqs), NEW i \in DOMAIN d.exchanges,
         NEW what \in {"operation", "tool"}, NEW rowStatus \in {"running", "ended"},
         NEW status \in {"running", "completed", "failed"}
  PROVE  /\ PutRow(d, i, what, rowStatus) \in DocumentsOf(s, reqs)
         /\ Marked(PutRow(d, i, what, rowStatus), i, status) \in DocumentsOf(s, reqs)
         /\ \A sub : Position(PutRow(d, i, what, rowStatus), "sub", sub) = Position(d, "sub", sub)
         /\ \A sub : Position(Marked(PutRow(d, i, what, rowStatus), i, status), "sub", sub) = Position(d, "sub", sub)
         /\ Shown(PutRow(d, i, what, rowStatus).exchanges) = Shown(d.exchanges)
         /\ Shown(Marked(PutRow(d, i, what, rowStatus), i, status).exchanges) = Shown(d.exchanges)
<1> DEFINE rows == Upserted(d.exchanges[i].rows, what, rowStatus)
           x == [d.exchanges[i] EXCEPT !.rows = rows]
           a == Altered(d, i, x)
           y == [a.exchanges[i] EXCEPT !.status = status]
           b == Altered(a, i, y)
<1>1. d.exchanges[i] \in Exchanges /\ d \in Documents
  BY ExchangeAt, DocumentIs
<1>2. rows \in SUBSET RowKinds
  <2>1. d.exchanges[i].rows \in SUBSET RowKinds
    BY <1>1 DEF Exchanges, RowKinds
  <2>2. Row("live", what, rowStatus) \in RowKinds
    BY DEF Row, RowKinds
  <2> QED  BY <2>1, <2>2 DEF Upserted
<1>3. /\ x \in Exchanges /\ x.id = d.exchanges[i].id /\ x.sub = d.exchanges[i].sub
      /\ x.prompt = d.exchanges[i].prompt
  <2> HIDE DEF rows
  <2> QED  BY <1>1, <1>2 DEF Exchanges, RowKinds
<1>4. PutRow(d, i, what, rowStatus) = a
  BY <1>1 DEF Altered, PutRow
<1> HIDE DEF x, rows
<1>5. a \in DocumentsOf(s, reqs) /\ a.exchanges[i] = x /\ DOMAIN a.exchanges = DOMAIN d.exchanges
      /\ \A sub : Position(a, "sub", sub) = Position(d, "sub", sub)
      /\ Shown(a.exchanges) = Shown(d.exchanges)
  BY <1>3, AlteredKeeps
<1> HIDE DEF a
<1>6. i \in DOMAIN a.exchanges /\ a \in Documents
  BY <1>5, DocumentIs
<1>7. /\ y \in Exchanges /\ y.id = a.exchanges[i].id /\ y.sub = a.exchanges[i].sub
      /\ y.prompt = a.exchanges[i].prompt
  BY <1>3, <1>5 DEF Exchanges
<1>8. Marked(a, i, status) = b
  BY <1>6 DEF Altered, Marked
<1> HIDE DEF y
<1>9. /\ b \in DocumentsOf(s, reqs) /\ \A sub : Position(b, "sub", sub) = Position(a, "sub", sub)
      /\ Shown(b.exchanges) = Shown(a.exchanges)
  BY <1>5, <1>6, <1>7, AlteredKeeps
<1> HIDE DEF b
<1> QED  BY <1>3, <1>4, <1>5, <1>8, <1>9

LEMMA UpdatedKeeps ==
  ASSUME NEW s, NEW reqs, NEW d \in DocumentsOf(s, reqs), NEW e \in Requests \X Nat, Kind(e) \in EventKinds,
         Position(d, "sub", <<"sub", e[1]>>) # {}
  PROVE  /\ Updated(d, e) \in DocumentsOf(s, reqs)
         /\ Position(Updated(d, e), "sub", <<"sub", e[1]>>) # {}
         /\ Shown(Updated(d, e).exchanges) = Shown(d.exchanges)
<1> DEFINE sub == <<"sub", e[1]>>
           at == The(Position(d, "sub", sub))
<1>1. at \in DOMAIN d.exchanges
  BY PositionIs
<1>2. ASSUME NEW what \in {"operation", "tool"}, NEW rowStatus \in {"running", "ended"}
      PROVE  /\ PutRow(d, at, what, rowStatus) \in DocumentsOf(s, reqs)
             /\ Position(PutRow(d, at, what, rowStatus), "sub", sub) # {}
             /\ Shown(PutRow(d, at, what, rowStatus).exchanges) = Shown(d.exchanges)
  <2> HIDE DEF at
  <2> QED  BY <1>1, PutKeeps
<1>3. ASSUME NEW what \in {"operation", "tool"}, NEW status \in {"running", "completed", "failed"}
      PROVE  /\ Marked(PutRow(d, at, what, "ended"), at, status) \in DocumentsOf(s, reqs)
             /\ Position(Marked(PutRow(d, at, what, "ended"), at, status), "sub", sub) # {}
             /\ Shown(Marked(PutRow(d, at, what, "ended"), at, status).exchanges) = Shown(d.exchanges)
  <2> HIDE DEF at
  <2> QED  BY <1>1, PutKeeps
<1>4. CASE Kind(e) \in {"operation_start", "tool_start", "tool"}
  <2>1. Updated(d, e) \in {PutRow(d, at, "operation", "running"), PutRow(d, at, "tool", "running"),
                           PutRow(d, at, "tool", "ended")}
    BY <1>4 DEF Updated, Answers
  <2> QED  BY <1>2, <2>1
<1>5. CASE Kind(e) \in {"operation_error", "tool_error"}
  <2>1. Updated(d, e) \in {Marked(PutRow(d, at, "operation", "ended"), at, "failed"),
                           Marked(PutRow(d, at, "tool", "ended"), at, "failed")}
    BY <1>5 DEF Updated, Answers
  <2> QED  BY <1>3, <2>1
<1>6. CASE Kind(e) = "operation"
  <2>1. Updated(d, e) \in {Marked(PutRow(d, at, "operation", "ended"), at, "failed"),
                           Marked(PutRow(d, at, "operation", "ended"), at, "completed")}
    BY <1>6 DEF Updated, Answers
  <2> QED  BY <1>3, <2>1
<1>7. CASE Kind(e) = "text_delta"
  <2> DEFINE n == Cardinality({y \in d.streaming : y[1] = sub}) + 1
             t == d.streaming \cup {<<sub, n>>}
  <2>1. d.streaming \in Streams /\ d.streaming \in SUBSET (Names \X Nat) /\ IsFiniteSet(d.streaming)
    BY StreamsOf DEF Streams
  <2>2. n \in Nat
    <3>1. {y \in d.streaming : y[1] = sub} \in SUBSET d.streaming
      OBVIOUS
    <3>2. IsFiniteSet({y \in d.streaming : y[1] = sub})
      BY <2>1, <3>1, FS_Subset
    <3>3. Cardinality({y \in d.streaming : y[1] = sub}) \in Nat
      BY <3>2, FS_CardinalityType
    <3> QED  BY <3>3
  <2>3. sub \in Names
    BY DEF Names, Requests
  <2>4. Updated(d, e) = [d EXCEPT !.streaming = t]
    BY <1>7 DEF Updated, Streamed, Answers
  <2> HIDE DEF n
  <2>5. t \in Streams
    <3>1. IsFiniteSet(t)
      BY <2>1, FS_AddElement
    <3> QED  BY <2>1, <2>2, <2>3, <3>1 DEF Streams
  <2> HIDE DEF t
  <2>6. [d EXCEPT !.streaming = t] \in DocumentsOf(s, reqs) /\ [d EXCEPT !.streaming = t].exchanges = d.exchanges
    BY <2>5, StreamingKeeps
  <2> QED  BY <2>4, <2>6 DEF Position
<1>8. CASE Kind(e) \in Answers
  <2>1. Updated(d, e) = SetAssistant(d, d.exchanges[at].id, Kind(e))
    BY <1>8 DEF Updated, Answers
  <2>2. Kind(e) \in {"interim", "final"}
    BY <1>8 DEF Answers
  <2> QED  BY <2>1, <2>2, AnswerKeeps
<1> QED  BY <1>4, <1>5, <1>6, <1>7, <1>8 DEF EventKinds, Errors

LEMMA SealedKeeps ==
  ASSUME NEW s, NEW reqs, NEW d \in DocumentsOf(s, reqs), NEW sub \in Names
  PROVE  Sealed(d, sub) \in DocumentsOf(s, reqs) /\ Sealed(d, sub).exchanges = d.exchanges
<1>1. d \in Documents
  BY DocumentIs
<1> DEFINE a == [d EXCEPT !.resumable = @ \ {sub}]
           b == [a EXCEPT !.closed = @ \cup {sub}]
<1>2. a \in Documents /\ a.exchanges = d.exchanges /\ a.pending = d.pending
  BY <1>1 DEF Documents
<1>3. Sealed(d, sub) \in {d, b}
  <2>1. [d EXCEPT !.resumable = @ \ {sub}, !.closed = @ \cup {sub}] = b
    BY <1>1 DEF Documents
  <2> QED  BY <2>1 DEF Sealed
<1> HIDE DEF a
<1>4. b \in Documents /\ b.exchanges = d.exchanges /\ b.pending = d.pending
  BY <1>2 DEF Documents
<1> HIDE DEF b
<1>5. b \in DocumentsOf(s, reqs)
  BY <1>4, RestChanged
<1> QED  BY <1>3, <1>4, <1>5

LEMMA ApplyKeeps ==
  ASSUME NEW s, NEW d \in DocumentsOf(s, requests), NEW e \in Heard(s)
  PROVE  /\ ApplyEvent(d, e) \in DocumentsOf(s, requests)
         /\ Continues(Shown(d.exchanges), Shown(ApplyEvent(d, e).exchanges))
<1> DEFINE sub == <<"sub", e[1]>>
           a == Ensured(d, sub)
           b == [a EXCEPT !.seen = @ \cup {e}]
           c == Updated(b, e)
<1>1. e \in Requests \X Nat /\ Asked(e[1], s, requests) /\ Kind(e) \in EventKinds /\ sub \in Names
  BY DEF Heard, Names, Requests
<1>2. /\ a \in DocumentsOf(s, requests) /\ Position(a, "sub", sub) # {}
      /\ Continues(Shown(d.exchanges), Shown(a.exchanges))
  BY <1>1, EnsuredKeeps
<1>3. ApplyEvent(d, e) \in {d, Sealed(c, sub)}
  BY DEF ApplyEvent
<1> HIDE DEF a
<1>4. b \in DocumentsOf(s, requests) /\ Position(b, "sub", sub) # {} /\ b.exchanges = a.exchanges
  BY <1>1, <1>2, SeenKeeps
<1> HIDE DEF b
<1>5. c \in DocumentsOf(s, requests) /\ Shown(c.exchanges) = Shown(b.exchanges)
  BY <1>1, <1>4, UpdatedKeeps
<1> HIDE DEF c, sub
<1>6. Sealed(c, sub) \in DocumentsOf(s, requests) /\ Sealed(c, sub).exchanges = c.exchanges
  BY <1>1, <1>5, SealedKeeps
<1>7. Continues(Shown(d.exchanges), Shown(Sealed(c, sub).exchanges))
  BY <1>2, <1>4, <1>5, <1>6
<1>8. Continues(Shown(d.exchanges), Shown(d.exchanges))
  BY DEF Continues
<1> QED  BY <1>3, <1>6, <1>7, <1>8

IsFolded(d, batch, f) ==
  f = [n \in 0..Len(batch) |-> IF n = 0 THEN d ELSE ApplyEvent(f[n - 1], batch[n])]

\* What the document is after each event of a batch.
Applied(d, batch, g) ==
  /\ g[0] = d
  /\ \A n \in 1..Len(batch) : g[n] = ApplyEvent(g[n - 1], batch[n])
  /\ ApplyEvents(d, batch) = g[Len(batch)]

LEMMA BatchSteps ==
  ASSUME NEW s, NEW d \in DocumentsOf(s, requests), NEW batch \in Seq(Heard(s))
  PROVE  \E g : /\ Applied(d, batch, g)
                /\ \A n \in 0..Len(batch) : /\ g[n] \in DocumentsOf(s, requests)
                                             /\ Continues(Shown(d.exchanges), Shown(g[n].exchanges))
<1> DEFINE N == Len(batch)
           V == {e \in DocumentsOf(s, requests) : Continues(Shown(d.exchanges), Shown(e.exchanges))}
           step == [p \in (1..N) \X V |-> ApplyEvent(p[2], batch[p[1]])]
           g == CHOOSE f : IsFolded(d, batch, f)
<1>1. N \in Nat /\ d \in V /\ \A n \in 1..N : batch[n] \in Heard(s)
  BY DEF Continues
<1>2. \A n \in 1..N : \A w \in V : ApplyEvent(w, batch[n]) \in V
  BY <1>1, ApplyKeeps, ContinuesOn
<1>3. step \in [(1..N) \X V -> V]
  BY <1>2
<1>4. \A n \in 1..N : \A w \in V : step[<<n, w>>] = ApplyEvent(w, batch[n])
  OBVIOUS
<1>5. ApplyEvents(d, batch) = g[N]
  BY DEF ApplyEvents, IsFolded
<1> HIDE DEF V, step, g
<1>6. PICK f \in [0..N -> V] : Follows(f, N, d, step)
  <2> HIDE DEF N
  <2> QED  BY <1>1, <1>3, RecursionExists
<1>7. f[0] = d /\ \A n \in 1..N : f[n] = ApplyEvent(f[n - 1], batch[n])
  <2> SUFFICES ASSUME NEW n \in 1..N  PROVE f[n] = ApplyEvent(f[n - 1], batch[n])
    BY <1>6 DEF Follows
  <2>1. f[n - 1] \in V
    <3> HIDE DEF N
    <3> QED  BY <1>1
  <2> QED  BY <1>4, <1>6, <2>1 DEF Follows
<1>8. IsFolded(d, batch, f)
  <2> DEFINE h == [n \in 0..N |-> IF n = 0 THEN d ELSE ApplyEvent(f[n - 1], batch[n])]
  <2>1. \A n \in 0..N : f[n] = h[n]
    BY <1>1, <1>7
  <2>2. f = h
    <3>1. f = [n \in 0..N |-> f[n]] /\ h = [n \in 0..N |-> h[n]]
      OBVIOUS
    <3> HIDE DEF h
    <3> QED  BY <2>1, <3>1
  <2> QED  BY <2>2 DEF IsFolded
<1>9. IsFolded(d, batch, g)
  BY <1>8 DEF g
<1>10. g[0] = d /\ \A n \in 1..N : g[n] = ApplyEvent(g[n - 1], batch[n])
  BY <1>1, <1>9 DEF IsFolded
<1>11. \A n \in 0..N : g[n] \in V
  <2> HIDE DEF N
  <2>1. \A n \in 1..N : g[n - 1] \in V => g[n] \in V
    BY <1>2, <1>10
  <2>2. g[0] \in V
    BY <1>1, <1>10
  <2> QED  BY <1>1, <2>1, <2>2, StaysIn
<1>12. Applied(d, batch, g)
  BY <1>5, <1>10 DEF Applied
<1>13. \A n \in 0..N : g[n] \in DocumentsOf(s, requests) /\ Continues(Shown(d.exchanges), Shown(g[n].exchanges))
  BY <1>11 DEF V
<1> QED  BY <1>12, <1>13

LEMMA BatchKeeps ==
  ASSUME NEW s, NEW d \in DocumentsOf(s, requests), NEW batch \in Seq(Heard(s))
  PROVE  /\ ApplyEvents(d, batch) \in DocumentsOf(s, requests)
         /\ Continues(Shown(d.exchanges), Shown(ApplyEvents(d, batch).exchanges))
<1>1. Len(batch) \in 0..Len(batch)
  OBVIOUS
<1> QED  BY <1>1, BatchSteps DEF Applied


-----------------------------------------------------------------------------
(* The gateway: who is in an inbox, and what is in a log.                      *)

RequestStates == {"unsent", "sent", "recorded", "running", "detached", "done"}

RequestKinds == [session: Sessions, origin: {"none", "user", "greeting", "elsewhere"},
                 state: RequestStates, plan: Plans \cup {<<>>}, delivered: BOOLEAN]

Elements(box) == {box[i] : i \in DOMAIN box}

\* The prompt q is in the inbox before c.
Before(q, c, box) == \E i, j \in DOMAIN box : i < j /\ box[i] = q /\ box[j] = c

\* An inbox has the prompts of its session that were received, once each.
Recorded(s, reqs, box) ==
  /\ \A i \in DOMAIN box : reqs[box[i]].session = s /\ reqs[box[i]].state \notin {"unsent", "sent"}
  /\ \A i, j \in DOMAIN box : box[i] = box[j] => i = j

\* A log has the events of submissions of its session, and the first one of each once.
Logged(s, reqs, entries) ==
  /\ \A i \in DOMAIN entries :
       /\ reqs[entries[i][1]].session = s
       /\ reqs[entries[i][1]].state \in {"running", "detached", "done"}
       /\ entries[i][2] \in DOMAIN reqs[entries[i][1]].plan
  /\ \A i, j \in DOMAIN entries :
       entries[i][1] = entries[j][1] /\ entries[i][2] = 1 /\ entries[j][2] = 1 => i = j

GatewayIs(reqs, boxes, logs) ==
  /\ reqs \in [Requests -> RequestKinds]
  /\ boxes \in [Sessions -> Seq(Requests)]
  /\ logs \in [Sessions -> Seq(Requests \X Nat)]
  /\ \A s \in Sessions : Recorded(s, reqs, boxes[s]) /\ Logged(s, reqs, logs[s])

\* What no step takes back: a prompt stays in its session, an inbox and a log grow.
Onward(reqs, next) ==
  \A r \in Requests : reqs[r].state # "unsent" =>
    next[r].session = reqs[r].session /\ next[r].state # "unsent"

Grown(boxes, logs, boxesLater, logsLater) ==
  \A s \in Sessions : /\ Elements(boxes[s]) \subseteq Elements(boxesLater[s])
                      /\ Len(logs[s]) <= Len(logsLater[s])

-----------------------------------------------------------------------------
(* The client: what it holds is of a session, and its document of the active one. *)

ResponseKinds == [request: Requests \cup {0}, command: BOOLEAN, exchange: Names \cup {<<>>},
                  expected: BOOLEAN]

ResponseIs(rsp, s, reqs) ==
  rsp \in ResponseKinds /\ (rsp.request # 0 => Asked(rsp.request, s, reqs))

CursorIs(r, s, boxes) ==
  r \in Requests \cup {0} /\ (r # 0 => s \in Sessions /\ r \in Elements(boxes[s]))

PageKinds == [exchanges: Seq(Exchanges), hasOlder: BOOLEAN, before: Requests \cup {0}]

HistoryKinds == [kind: {"none", "startup", "older", "switch"}, session: Sessions \cup {0},
                 cursor: Requests \cup {0}, stage: {"sent", "cut", "served"}, cut: Nat, page: PageKinds]

HistoryIs(h, reqs, boxes, logs) ==
  /\ h \in HistoryKinds
  /\ \/ h = NoHistory
     \/ /\ h.session \in Sessions
        /\ h.cut <= Len(logs[h.session])
        /\ CursorIs(h.cursor, h.session, boxes)
        /\ CursorIs(h.page.before, h.session, boxes)
        /\ h.page.exchanges \in PagesOf(h.session, reqs)

StreamIs(st, s) ==
  \/ st = NoStream
  \/ st \in [session: Sessions, offset: Nat \cup {Now}, at: Nat, live: BOOLEAN] /\ st.session = s

\* Before the session is known there is nothing to show.
PhaseIs(ph, s, d, rsp, h, o, st) ==
  /\ ph \in {"idle", "creating", "resuming"} =>
       d = EmptyDoc /\ rsp = NoResponse /\ h = NoHistory /\ o = 0 /\ st = NoStream
  /\ ph \in {"loading", "greeting", "complete"} => s \in Sessions

ClientInv ==
  /\ created \in Sessions
  /\ GatewayIs(requests, inbox, log)
  /\ doc \in DocumentsOf(session, requests)
  /\ ResponseIs(response, session, requests)
  /\ HistoryIs(history, requests, inbox, log)
  /\ CursorIs(older, session, inbox)
  /\ StreamIs(stream, session)
  /\ PhaseIs(phase, session, doc, response, history, older, stream)


\* How a request may change: what is recorded stays recorded, what runs keeps its plan.
Progress(old, new) ==
  /\ old.state # "unsent" => new.session = old.session /\ new.state # "unsent"
  /\ old.state \notin {"unsent", "sent"} => new.state \notin {"unsent", "sent"}
  /\ old.state \in {"running", "detached", "done"} =>
       new.state \in {"running", "detached", "done"} /\ new.plan = old.plan

LEMMA PlansAre ==
  ASSUME NEW reqs \in [Requests -> RequestKinds], NEW r \in Requests
  PROVE  reqs[r].plan \in Seq(EventKinds)
<1>1. reqs[r].plan \in Plans \cup {<<>>}
  BY DEF RequestKinds
<1>2. Plans \subseteq Seq(EventKinds)
  BY ChatTranscriptsAssumption
<1>3. <<>> \in Seq(EventKinds)
  OBVIOUS
<1> QED  BY <1>1, <1>2, <1>3

LEMMA RequestsChanged ==
  ASSUME NEW reqs, NEW boxes, NEW logs, GatewayIs(reqs, boxes, logs),
         NEW next \in [Requests -> RequestKinds], \A r \in Requests : Progress(reqs[r], next[r])
  PROVE  GatewayIs(next, boxes, logs) /\ Onward(reqs, next)
<1>1. Onward(reqs, next)
  BY DEF Onward, Progress
<1>2. ASSUME NEW s \in Sessions  PROVE Recorded(s, next, boxes[s])
  <2>1. Recorded(s, reqs, boxes[s]) /\ boxes[s] \in Seq(Requests)
    BY DEF GatewayIs
  <2>2. ASSUME NEW i \in DOMAIN boxes[s]
        PROVE  next[boxes[s][i]].session = s /\ next[boxes[s][i]].state \notin {"unsent", "sent"}
    <3> DEFINE q == boxes[s][i]
    <3>1. q \in Requests
      BY <2>1
    <3>2. reqs[q].session = s /\ reqs[q].state \notin {"unsent", "sent"}
      BY <2>1 DEF Recorded
    <3> HIDE DEF q
    <3>3. Progress(reqs[q], next[q])
      BY <3>1
    <3>4. next[q].session = s /\ next[q].state \notin {"unsent", "sent"}
      BY <3>2, <3>3 DEF Progress
    <3> QED  BY <3>4 DEF q
  <2> QED  BY <2>1, <2>2 DEF Recorded
<1>3. ASSUME NEW s \in Sessions  PROVE Logged(s, next, logs[s])
  <2>1. Logged(s, reqs, logs[s]) /\ logs[s] \in Seq(Requests \X Nat)
    BY DEF GatewayIs
  <2>2. ASSUME NEW i \in DOMAIN logs[s]
        PROVE  /\ next[logs[s][i][1]].session = s
               /\ next[logs[s][i][1]].state \in {"running", "detached", "done"}
               /\ logs[s][i][2] \in DOMAIN next[logs[s][i][1]].plan
    <3> DEFINE q == logs[s][i][1]
               n == logs[s][i][2]
    <3>1. q \in Requests
      BY <2>1
    <3>2. reqs[q].session = s /\ reqs[q].state \in {"running", "detached", "done"} /\ n \in DOMAIN reqs[q].plan
      BY <2>1 DEF Logged
    <3> HIDE DEF q, n
    <3>3. Progress(reqs[q], next[q])
      BY <3>1
    <3>4. next[q].session = s /\ next[q].state \in {"running", "detached", "done"} /\ n \in DOMAIN next[q].plan
      BY <3>2, <3>3 DEF Progress
    <3> QED  BY <3>4 DEF q, n
  <2> QED  BY <2>1, <2>2 DEF Logged
<1> QED  BY <1>1, <1>2, <1>3 DEF GatewayIs

\* One request changes.
LEMMA RequestChanged ==
  ASSUME NEW reqs, NEW boxes, NEW logs, GatewayIs(reqs, boxes, logs), NEW r \in Requests,
         NEW new \in RequestKinds, Progress(reqs[r], new)
  PROVE  /\ GatewayIs([reqs EXCEPT ![r] = new], boxes, logs)
         /\ Onward(reqs, [reqs EXCEPT ![r] = new])
<1> DEFINE next == [reqs EXCEPT ![r] = new]
<1>1. reqs \in [Requests -> RequestKinds]
  BY DEF GatewayIs
<1>2. next \in [Requests -> RequestKinds]
  BY <1>1
<1>3. ASSUME NEW q \in Requests  PROVE Progress(reqs[q], next[q])
  <2>1. CASE q = r
    BY <1>1, <2>1
  <2>2. CASE q # r
    <3>1. next[q] = reqs[q]
      BY <1>1, <2>2
    <3> QED  BY <3>1 DEF Progress
  <2> QED  BY <2>1, <2>2
<1> HIDE DEF next
<1>4. GatewayIs(next, boxes, logs) /\ Onward(reqs, next)
  BY <1>2, <1>3, RequestsChanged
<1> QED  BY <1>4 DEF next

LEMMA InboxChanged ==
  ASSUME NEW reqs, NEW boxes, NEW logs, GatewayIs(reqs, boxes, logs), NEW r \in Requests, NEW s \in Sessions,
         reqs[r].session = s, reqs[r].state \notin {"unsent", "sent"}, r \notin Elements(boxes[s])
  PROVE  /\ GatewayIs(reqs, [boxes EXCEPT ![s] = Append(@, r)], logs)
         /\ Grown(boxes, logs, [boxes EXCEPT ![s] = Append(@, r)], logs)
<1> DEFINE box == boxes[s]
           new == Append(box, r)
           next == [boxes EXCEPT ![s] = new]
<1>1. boxes \in [Sessions -> Seq(Requests)] /\ box \in Seq(Requests) /\ Recorded(s, reqs, box)
      /\ logs \in [Sessions -> Seq(Requests \X Nat)]
  BY DEF GatewayIs
<1>2. r \notin Elements(box)
  OBVIOUS
<1> HIDE DEF box
<1>3. /\ new \in Seq(Requests)
      /\ AddsLast(box, r, new)
  BY <1>1, AppendAddsLast
<1> HIDE DEF new
<1>4. Recorded(s, reqs, new)
  <2>1. \A i \in DOMAIN new : reqs[new[i]].session = s /\ reqs[new[i]].state \notin {"unsent", "sent"}
    BY <1>1, <1>3 DEF Recorded, AddsLast
  <2>2. ASSUME NEW i \in DOMAIN new, NEW j \in DOMAIN new, new[i] = new[j]  PROVE i = j
    BY <1>1, <1>2, <1>3, <2>2 DEF Recorded, Elements, AddsLast
  <2> QED  BY <2>1, <2>2 DEF Recorded
<1>5. Elements(box) \subseteq Elements(new)
  BY <1>3 DEF Elements, AddsLast
<1>6. /\ next \in [Sessions -> Seq(Requests)] /\ next[s] = new
      /\ \A t \in Sessions : t # s => next[t] = boxes[t]
  BY <1>1, <1>3
<1> HIDE DEF next
<1>7. GatewayIs(reqs, next, logs)
  BY <1>4, <1>6 DEF GatewayIs
<1>8. Grown(boxes, logs, next, logs)
  <2>1. ASSUME NEW t \in Sessions  PROVE Elements(boxes[t]) \subseteq Elements(next[t])
    BY <1>5, <1>6 DEF box
  <2>2. ASSUME NEW t \in Sessions  PROVE Len(logs[t]) <= Len(logs[t])
    BY <1>1
  <2> QED  BY <2>1, <2>2 DEF Grown
<1>9. [boxes EXCEPT ![s] = Append(@, r)] = next
  BY DEF next, new, box
<1> QED  BY <1>7, <1>8, <1>9

LEMMA LogChanged ==
  ASSUME NEW reqs, NEW boxes, NEW logs, GatewayIs(reqs, boxes, logs), NEW r \in Requests, NEW s \in Sessions,
         NEW n \in Nat, reqs[r].session = s, reqs[r].state \in {"running", "detached"}, n \in DOMAIN reqs[r].plan,
         n = 1 => \A i \in DOMAIN logs[s] : logs[s][i][1] # r
  PROVE  /\ GatewayIs(reqs, boxes, [logs EXCEPT ![s] = Append(@, <<r, n>>)])
         /\ Grown(boxes, logs, boxes, [logs EXCEPT ![s] = Append(@, <<r, n>>)])
<1> DEFINE entries == logs[s]
           e == <<r, n>>
           new == Append(entries, e)
           next == [logs EXCEPT ![s] = new]
<1>1. logs \in [Sessions -> Seq(Requests \X Nat)] /\ entries \in Seq(Requests \X Nat) /\ Logged(s, reqs, entries)
  BY DEF GatewayIs
<1>2. n = 1 => \A i \in DOMAIN entries : entries[i][1] # r
  OBVIOUS
<1>3. e \in Requests \X Nat /\ e[1] = r /\ e[2] = n
  OBVIOUS
<1> HIDE DEF entries, e
<1>4. /\ new \in Seq(Requests \X Nat)
      /\ AddsLast(entries, e, new)
  BY <1>1, <1>3, AppendAddsLast
<1> HIDE DEF new
<1>5. Logged(s, reqs, new)
  <2>1. \A i \in DOMAIN new :
          /\ reqs[new[i][1]].session = s /\ reqs[new[i][1]].state \in {"running", "detached", "done"}
          /\ new[i][2] \in DOMAIN reqs[new[i][1]].plan
    BY <1>1, <1>3, <1>4 DEF Logged, AddsLast
  <2>2. ASSUME NEW i \in DOMAIN new, NEW j \in DOMAIN new,
               new[i][1] = new[j][1], new[i][2] = 1, new[j][2] = 1
        PROVE  i = j
    <3>1. CASE i \in DOMAIN entries /\ new[i] = entries[i] /\ j \in DOMAIN entries /\ new[j] = entries[j]
      BY <1>1, <2>2, <3>1 DEF Logged
    <3>2. CASE i = Len(entries) + 1 /\ new[i] = e /\ j \in DOMAIN entries /\ new[j] = entries[j]
      BY <1>2, <1>3, <2>2, <3>2
    <3>3. CASE j = Len(entries) + 1 /\ new[j] = e /\ i \in DOMAIN entries /\ new[i] = entries[i]
      BY <1>2, <1>3, <2>2, <3>3
    <3>4. CASE i = Len(entries) + 1 /\ j = Len(entries) + 1
      BY <3>4
    <3> QED  BY <1>4, <3>1, <3>2, <3>3, <3>4 DEF AddsLast
  <2> QED  BY <2>1, <2>2 DEF Logged
<1>6. /\ next \in [Sessions -> Seq(Requests \X Nat)] /\ next[s] = new
      /\ \A t \in Sessions : t # s => next[t] = logs[t]
  BY <1>1, <1>4
<1> HIDE DEF next
<1>7. GatewayIs(reqs, boxes, next)
  BY <1>5, <1>6 DEF GatewayIs
<1>8. Grown(boxes, logs, boxes, next)
  <2>1. ASSUME NEW t \in Sessions  PROVE Len(logs[t]) <= Len(next[t])
    <3>1. CASE t = s
      BY <1>4, <1>6, <3>1 DEF entries, AddsLast
    <3>2. CASE t # s
      BY <1>1, <1>6, <3>2
    <3> QED  BY <3>1, <3>2
  <2> QED  BY <2>1 DEF Grown
<1>9. [logs EXCEPT ![s] = Append(@, <<r, n>>)] = next
  BY DEF next, new, entries, e
<1> QED  BY <1>7, <1>8, <1>9

LEMMA SameGrown ==
  ASSUME NEW reqs, NEW boxes, NEW logs, GatewayIs(reqs, boxes, logs)
  PROVE  Grown(boxes, logs, boxes, logs) /\ Onward(reqs, reqs)
<1>1. ASSUME NEW s \in Sessions  PROVE Len(logs[s]) <= Len(logs[s])
  <2>1. logs[s] \in Seq(Requests \X Nat)
    BY DEF GatewayIs
  <2> QED  BY <2>1
<1> QED  BY <1>1 DEF Grown, Onward

LEMMA SentKeeps ==
  ASSUME GatewayIs(requests, inbox, log), NEW r \in Requests, requests[r].state = "unsent",
         NEW s \in Sessions, NEW origin \in {"user", "greeting", "elsewhere"}
  PROVE  /\ GatewayIs(Sent(r, s, origin), inbox, log)
         /\ Onward(requests, Sent(r, s, origin))
         /\ Asked(r, s, Sent(r, s, origin))
<1> DEFINE a == [requests[r] EXCEPT !.session = s]
           b == [a EXCEPT !.origin = origin]
           c == [b EXCEPT !.state = "sent"]
           next == [requests EXCEPT ![r] = c]
<1>1. requests \in [Requests -> RequestKinds]
  BY DEF GatewayIs
<1>2. c \in RequestKinds /\ c.session = s /\ c.state = "sent"
  <2>1. a \in RequestKinds /\ a.session = s
    BY <1>1 DEF RequestKinds
  <2> HIDE DEF a
  <2>2. b \in RequestKinds /\ b.session = s
    BY <2>1 DEF RequestKinds
  <2> HIDE DEF b
  <2> QED  BY <2>2 DEF RequestKinds, RequestStates
<1>3. Sent(r, s, origin) = next
  BY <1>1 DEF Sent
<1> HIDE DEF c
<1>4. Progress(requests[r], c)
  BY DEF Progress
<1>5. GatewayIs(next, inbox, log) /\ Onward(requests, next)
  BY <1>2, <1>4, RequestChanged
<1>6. Asked(r, s, next)
  BY <1>1, <1>2 DEF Asked
<1> QED  BY <1>3, <1>5, <1>6

\* A request goes on, and the inboxes and logs stay.
LEMMA StateKeeps ==
  ASSUME GatewayIs(requests, inbox, log), NEW r \in Requests, NEW state \in RequestStates \ {"unsent", "sent"},
         requests[r].state # "unsent",
         requests[r].state \in {"running", "detached", "done"} => state \in {"running", "detached", "done"}
  PROVE  /\ GatewayIs([requests EXCEPT ![r].state = state], inbox, log)
         /\ Onward(requests, [requests EXCEPT ![r].state = state])
         /\ [requests EXCEPT ![r].state = state][r].state = state
         /\ [requests EXCEPT ![r].state = state][r].session = requests[r].session
<1> DEFINE c == [requests[r] EXCEPT !.state = state]
           next == [requests EXCEPT ![r] = c]
<1>1. requests \in [Requests -> RequestKinds]
  BY DEF GatewayIs
<1>2. /\ c \in RequestKinds /\ c.session = requests[r].session /\ c.state = state
      /\ c.plan = requests[r].plan
  <2>1. requests[r] \in RequestKinds
    BY <1>1
  <2> QED  BY <2>1 DEF RequestKinds
<1>3. [requests EXCEPT ![r].state = state] = next
  BY <1>1
<1> HIDE DEF c
<1>4. Progress(requests[r], c)
  BY <1>2 DEF Progress
<1>5. GatewayIs(next, inbox, log) /\ Onward(requests, next)
  BY <1>2, <1>4, RequestChanged
<1>6. next[r] = c
  BY <1>1
<1> QED  BY <1>2, <1>3, <1>5, <1>6

LEMMA ReceiveKeeps ==
  ASSUME GatewayIs(requests, inbox, log), NEW r \in Requests, Receive(r)
  PROVE  /\ GatewayIs(requests', inbox', log')
         /\ Onward(requests, requests') /\ Grown(inbox, log, inbox', log')
<1> DEFINE next == [requests EXCEPT ![r].state = "recorded"]
           s == requests[r].session
<1>1. requests[r].state = "sent" /\ requests' = next /\ inbox' = [inbox EXCEPT ![s] = Append(@, r)] /\ log' = log
  BY DEF Receive
<1>2. requests \in [Requests -> RequestKinds] /\ s \in Sessions /\ Recorded(s, requests, inbox[s])
  <2>1. requests \in [Requests -> RequestKinds]
    BY DEF GatewayIs
  <2>2. s \in Sessions
    BY <2>1 DEF RequestKinds
  <2> QED  BY <2>1, <2>2 DEF GatewayIs
<1>3. r \notin Elements(inbox[s])
  BY <1>1, <1>2 DEF Recorded, Elements
<1>4. /\ GatewayIs(next, inbox, log) /\ Onward(requests, next)
      /\ next[r].state = "recorded" /\ next[r].session = s
  <2>1. "recorded" \in RequestStates \ {"unsent", "sent"}
    BY DEF RequestStates
  <2> QED  BY <1>1, <2>1, StateKeeps
<1> HIDE DEF next, s
<1>5. /\ GatewayIs(next, [inbox EXCEPT ![s] = Append(@, r)], log)
      /\ Grown(inbox, log, [inbox EXCEPT ![s] = Append(@, r)], log)
  BY <1>2, <1>3, <1>4, InboxChanged
<1> QED  BY <1>1, <1>4, <1>5

LEMMA EmitKeeps ==
  ASSUME GatewayIs(requests, inbox, log), NEW r \in Requests, Emit(r)
  PROVE  /\ GatewayIs(requests', inbox', log')
         /\ Onward(requests, requests') /\ Grown(inbox, log, inbox', log')
<1> DEFINE s == requests[r].session
           entries == log[s]
           of == {i \in 1..Len(entries) : entries[i][1] = r}
           n == NextEvent(r)
<1>1. /\ requests[r].state \in {"running", "detached"} /\ n \in DOMAIN requests[r].plan
      /\ log' = [log EXCEPT ![s] = Append(@, <<r, n>>)] /\ requests' = requests /\ inbox' = inbox
  BY DEF Emit, Plan
<1>2. requests \in [Requests -> RequestKinds] /\ s \in Sessions /\ entries \in Seq(Requests \X Nat)
  <2>1. requests \in [Requests -> RequestKinds] /\ log \in [Sessions -> Seq(Requests \X Nat)]
    BY DEF GatewayIs
  <2>2. s \in Sessions
    BY <2>1 DEF RequestKinds
  <2> QED  BY <2>1, <2>2
<1>3. n = Cardinality(of) + 1
  BY DEF NextEvent, Emitted
<1>4. Len(entries) \in Nat /\ DOMAIN entries = 1..Len(entries)
  BY <1>2
<1>5. IsFiniteSet(of) /\ Cardinality(of) \in Nat
  <2>1. IsFiniteSet(1..Len(entries))
    BY <1>4, FS_Interval
  <2>2. of \subseteq 1..Len(entries)
    OBVIOUS
  <2> HIDE DEF of
  <2> QED  BY <2>1, <2>2, FS_Subset, FS_CardinalityType
<1>6. n = 1 => \A i \in DOMAIN entries : entries[i][1] # r
  <2> SUFFICES ASSUME n = 1  PROVE of = {}
    BY <1>4
  <2> HIDE DEF of, n
  <2>1. Cardinality(of) = 0
    BY <1>3, <1>5
  <2> QED  BY <1>5, <2>1, FS_EmptySet
<1>7. n \in Nat
  <2> HIDE DEF n, of
  <2> QED  BY <1>3, <1>5
<1> HIDE DEF n
<1>8. /\ GatewayIs(requests, inbox, [log EXCEPT ![s] = Append(@, <<r, n>>)])
      /\ Grown(inbox, log, inbox, [log EXCEPT ![s] = Append(@, <<r, n>>)])
  <2>1. n = 1 => \A i \in DOMAIN log[s] : log[s][i][1] # r
    BY <1>6
  <2>2. requests[r].session = s
    OBVIOUS
  <2> HIDE DEF s, entries
  <2> QED  BY <1>1, <1>2, <1>7, <2>1, <2>2, LogChanged
<1>9. Onward(requests, requests)
  BY SameGrown
<1> QED  BY <1>1, <1>8, <1>9

LEMMA CrashKeeps ==
  ASSUME GatewayIs(requests, inbox, log), Crash
  PROVE  GatewayIs(requests', inbox, log) /\ Onward(requests, requests')
<1> DEFINE Later(q) == IF requests[q].state \in {"sent", "recorded"} THEN "done"
                       ELSE IF requests[q].state = "running" THEN "detached" ELSE requests[q].state
           next == [q \in Requests |-> [requests[q] EXCEPT !.state = Later(q)]]
<1>1. requests \in [Requests -> RequestKinds]
  BY DEF GatewayIs
<1>2. requests' = next
  BY DEF Crash
<1>3. ASSUME NEW q \in Requests  PROVE next[q] \in RequestKinds /\ Progress(requests[q], next[q])
  <2> DEFINE old == requests[q]
             state == Later(q)
             new == [old EXCEPT !.state = state]
  <2>1. old \in RequestKinds
    BY <1>1
  <2>2. state \in RequestStates
    BY <2>1 DEF RequestKinds, RequestStates
  <2>3. /\ old.state # "unsent" => state # "unsent"
        /\ old.state \notin {"unsent", "sent"} => state \notin {"unsent", "sent"}
        /\ old.state \in {"running", "detached", "done"} => state \in {"running", "detached", "done"}
    BY <2>1 DEF RequestKinds, RequestStates
  <2>4. next[q] = new
    OBVIOUS
  <2> HIDE DEF old, state, next
  <2>5. new \in RequestKinds /\ new.state = state /\ new.session = old.session /\ new.plan = old.plan
    BY <2>1, <2>2 DEF RequestKinds
  <2> HIDE DEF new
  <2>6. Progress(old, new)
    BY <2>3, <2>5 DEF Progress
  <2> QED  BY <2>4, <2>5, <2>6 DEF old
<1>4. next \in [Requests -> RequestKinds]
  <2>1. \A q \in Requests : next[q] \in RequestKinds
    BY <1>3
  <2>2. next = [q \in Requests |-> next[q]]
    OBVIOUS
  <2> HIDE DEF next
  <2> QED  BY <2>1, <2>2
<1> HIDE DEF next
<1>5. GatewayIs(next, inbox, log) /\ Onward(requests, next)
  BY <1>3, <1>4, RequestsChanged
<1> QED  BY <1>2, <1>5

\* Admission gives the request its plan, settling it its delivery.
LEMMA AdmitKeeps ==
  ASSUME GatewayIs(requests, inbox, log), NEW r \in Requests, Admit(r) \/ Settle(r)
  PROVE  GatewayIs(requests', inbox, log) /\ Onward(requests, requests')
<1>1. requests \in [Requests -> RequestKinds] /\ requests[r] \in RequestKinds
  BY DEF GatewayIs
<1>2. CASE Admit(r)
  <2>1. PICK plan \in Plans : requests' = [requests EXCEPT ![r].state = "running", ![r].plan = plan]
    BY <1>2 DEF Admit
  <2> DEFINE b == [requests[r] EXCEPT !.state = "running"]
             c == [b EXCEPT !.plan = plan]
  <2>2. requests[r].state = "recorded"
    BY <1>2 DEF Admit
  <2>3. b \in RequestKinds /\ b.session = requests[r].session /\ b.state = "running"
    BY <1>1 DEF RequestKinds, RequestStates
  <2>4. requests' = [requests EXCEPT ![r] = c]
    BY <1>1, <2>1
  <2> HIDE DEF b
  <2>5. c \in RequestKinds /\ c.session = requests[r].session /\ c.state = "running"
    BY <2>3 DEF RequestKinds
  <2> HIDE DEF c
  <2>6. Progress(requests[r], c)
    BY <2>2, <2>5 DEF Progress
  <2> QED  BY <2>4, <2>5, <2>6, RequestChanged
<1>3. CASE Settle(r)
  <2> DEFINE b == [requests[r] EXCEPT !.state = "done"]
             c == [b EXCEPT !.delivered = TRUE]
  <2>1. requests' = [requests EXCEPT ![r].state = "done", ![r].delivered = TRUE]
    BY <1>3 DEF Settle
  <2>2. requests[r].state = "running"
    BY <1>3 DEF Settle
  <2>3. b \in RequestKinds /\ b.session = requests[r].session /\ b.state = "done" /\ b.plan = requests[r].plan
    BY <1>1 DEF RequestKinds, RequestStates
  <2>4. requests' = [requests EXCEPT ![r] = c]
    BY <1>1, <2>1
  <2> HIDE DEF b
  <2>5. c \in RequestKinds /\ c.session = requests[r].session /\ c.state = "done" /\ c.plan = requests[r].plan
    BY <2>3 DEF RequestKinds
  <2> HIDE DEF c
  <2>6. Progress(requests[r], c)
    BY <2>2, <2>5 DEF Progress
  <2> QED  BY <2>4, <2>5, <2>6, RequestChanged
<1> QED  BY <1>2, <1>3

LEMMA ServerKeeps ==
  ASSUME created \in Sessions, GatewayIs(requests, inbox, log), ServerStep
  PROVE  /\ created' = created /\ GatewayIs(requests', inbox', log')
         /\ Onward(requests, requests') /\ Grown(inbox, log, inbox', log')
<1>1. Grown(inbox, log, inbox, log) /\ Onward(requests, requests)
  BY SameGrown
<1>2. ASSUME NEW r \in Requests, NEW s \in Sessions, SendElsewhere(r, s)
      PROVE  created' = created /\ GatewayIs(requests', inbox, log) /\ Onward(requests, requests') /\ inbox' = inbox /\ log' = log
  <2>1. requests[r].state = "unsent" /\ requests' = Sent(r, s, "elsewhere") /\ created' = created /\ inbox' = inbox /\ log' = log
    BY <1>2 DEF SendElsewhere, IsNext
  <2> QED  BY <2>1, SentKeeps
<1>3. ASSUME NEW r \in Requests, Receive(r)
      PROVE  created' = created /\ GatewayIs(requests', inbox', log') /\ Onward(requests, requests') /\ Grown(inbox, log, inbox', log')
  <2>1. created' = created
    BY <1>3 DEF Receive
  <2> QED  BY <1>3, <2>1, ReceiveKeeps
<1>4. ASSUME NEW r \in Requests, Refuse(r)
      PROVE  created' = created /\ GatewayIs(requests', inbox, log) /\ Onward(requests, requests') /\ inbox' = inbox /\ log' = log
  <2>1. /\ requests[r].state = "recorded" /\ requests' = [requests EXCEPT ![r].state = "done"]
        /\ created' = created /\ inbox' = inbox /\ log' = log
    BY <1>4 DEF Refuse
  <2>2. "done" \in RequestStates \ {"unsent", "sent"}
    BY DEF RequestStates
  <2> QED  BY <2>1, <2>2, StateKeeps
<1>5. ASSUME NEW r \in Requests, Admit(r) \/ Settle(r)
      PROVE  created' = created /\ GatewayIs(requests', inbox, log) /\ Onward(requests, requests') /\ inbox' = inbox /\ log' = log
  <2>1. created' = created /\ inbox' = inbox /\ log' = log
    BY <1>5 DEF Admit, Settle
  <2> QED  BY <1>5, <2>1, AdmitKeeps
<1>6. ASSUME NEW r \in Requests, Emit(r)
      PROVE  created' = created /\ GatewayIs(requests', inbox', log') /\ Onward(requests, requests') /\ Grown(inbox, log, inbox', log')
  <2>1. created' = created
    BY <1>6 DEF Emit
  <2> QED  BY <1>6, <2>1, EmitKeeps
<1>7. ASSUME NEW r \in Requests, TimeOut(r)
      PROVE  created' = created /\ requests' = requests /\ inbox' = inbox /\ log' = log
  BY <1>7 DEF TimeOut
<1>8. ASSUME Crash
      PROVE  created' = created /\ GatewayIs(requests', inbox, log) /\ Onward(requests, requests') /\ inbox' = inbox /\ log' = log
  <2>1. created' = created /\ inbox' = inbox /\ log' = log
    BY <1>8 DEF Crash
  <2> QED  BY <1>8, <2>1, CrashKeeps
<1> QED  BY <1>1, <1>2, <1>3, <1>4, <1>5, <1>6, <1>7, <1>8 DEF ServerStep

-----------------------------------------------------------------------------
(* A page: its prompts are of the session, and no submission is given to two.  *)

Once(xs) == \A i, j \in DOMAIN xs : xs[i] = xs[j] => i = j

LEMMA SubSeqOnce ==
  ASSUME NEW T, NEW xs \in Seq(T), Once(xs), NEW m \in 1..(Len(xs) + 1), NEW n \in (m - 1)..Len(xs)
  PROVE  /\ SubSeq(xs, m, n) \in Seq(T) /\ Once(SubSeq(xs, m, n)) /\ Len(SubSeq(xs, m, n)) = n - m + 1
         /\ Elements(SubSeq(xs, m, n)) \subseteq Elements(xs)
<1> DEFINE ys == SubSeq(xs, m, n)
<1>1. /\ ys \in Seq(T) /\ Len(ys) = n - m + 1 /\ DOMAIN ys = 1..(n - m + 1)
      /\ m \in Nat /\ n \in Nat /\ DOMAIN xs = 1..Len(xs)
      /\ \A i \in 1..(n - m + 1) : ys[i] = xs[m + i - 1] /\ m + i - 1 \in 1..Len(xs)
  OBVIOUS
<1> HIDE DEF ys
<1>2. Once(ys)
  <2>1. ASSUME NEW i \in DOMAIN ys, NEW j \in DOMAIN ys, ys[i] = ys[j]  PROVE i = j
    <3>1. m + i - 1 = m + j - 1
      BY <1>1, <2>1 DEF Once
    <3> QED  BY <1>1, <3>1
  <2> QED  BY <2>1 DEF Once
<1>3. Elements(ys) \subseteq Elements(xs)
  <2>1. \A i \in DOMAIN ys : \E k \in DOMAIN xs : ys[i] = xs[k]
    BY <1>1
  <2> QED  BY <2>1 DEF Elements
<1> QED  BY <1>1, <1>2, <1>3 DEF ys

LEMMA PickedOnce ==
  ASSUME NEW T, NEW xs \in Seq(T), NEW I
  PROVE  /\ Picked(xs, I) \in Seq(T)
         /\ Once(xs) => Once(Picked(xs, I))
         /\ Elements(Picked(xs, I)) = {xs[i] : i \in DOMAIN xs \cap I}
<1> DEFINE w == Picked(xs, I)
<1>1. w \in Seq(T)
  BY PickedIs
<1>2. PICK at : PickedAt(xs, DOMAIN xs \cap I, w, at)
  BY PickedIs
<1> HIDE DEF w
<1>3. \A k \in DOMAIN w : at[k] \in DOMAIN xs \cap I /\ w[k] = xs[at[k]]
  BY <1>2 DEF PickedAt
<1>4. Once(xs) => Once(w)
  <2> SUFFICES ASSUME Once(xs), NEW k \in DOMAIN w, NEW l \in DOMAIN w, w[k] = w[l]  PROVE k = l
    BY DEF Once
  <2>1. at[k] = at[l]
    BY <1>3 DEF Once
  <2> QED  BY <1>2, <2>1 DEF PickedAt
<1>5. Elements(w) \subseteq {xs[i] : i \in DOMAIN xs \cap I}
  BY <1>3 DEF Elements
<1>6. ASSUME NEW i \in DOMAIN xs \cap I  PROVE xs[i] \in Elements(w)
  <2>1. PICK k \in DOMAIN w : at[k] = i
    BY <1>2 DEF PickedAt
  <2>2. xs[i] = w[k]
    BY <1>3, <2>1
  <2> QED  BY <2>2 DEF Elements
<1> QED  BY <1>1, <1>4, <1>5, <1>6 DEF w

LEMMA OlderIs ==
  ASSUME GatewayIs(requests, inbox, log), NEW s \in Sessions, NEW r, CursorIs(r, s, inbox)
  PROVE  /\ Older(s, r) \in Seq(Requests) /\ Once(Older(s, r))
         /\ Elements(Older(s, r)) \subseteq Elements(inbox[s])
         /\ r # 0 => \A q \in Elements(Older(s, r)) : Before(q, r, inbox[s])
<1> DEFINE box == inbox[s]
<1>1. box \in Seq(Requests) /\ Once(box)
  BY DEF GatewayIs, Recorded, Once
<1>2. CASE r = 0
  BY <1>1, <1>2 DEF Older
<1>3. CASE r # 0
  <2> DEFINE k == CHOOSE i \in DOMAIN inbox[s] : inbox[s][i] = r
  <2>1. r \in Elements(box)
    BY <1>3 DEF CursorIs
  <2>2. k \in DOMAIN box /\ box[k] = r
    BY <2>1 DEF Elements
  <2>3. Older(s, r) = SubSeq(box, 1, k - 1)
    BY <1>3 DEF Older
  <2> HIDE DEF k, box
  <2>4. 1 \in 1..(Len(box) + 1) /\ k - 1 \in (1 - 1)..Len(box)
    BY <1>1, <2>2
  <2> DEFINE m == 1
             n == k - 1
  <2>5. m \in 1..(Len(box) + 1) /\ n \in (m - 1)..Len(box)
    BY <2>4
  <2>6. Older(s, r) = SubSeq(box, m, n)
    BY <2>3
  <2> HIDE DEF m, n
  <2>7. SubSeq(box, m, n) \in Seq(Requests) /\ Once(SubSeq(box, m, n)) /\ Elements(SubSeq(box, m, n)) \subseteq Elements(box)
    BY <1>1, <2>5, SubSeqOnce
  <2>8. ASSUME NEW q \in Elements(SubSeq(box, 1, k - 1))  PROVE Before(q, r, box)
    <3>1. Len(box) \in Nat /\ DOMAIN box = 1..Len(box) /\ k - 1 \in 0..Len(box)
      BY <1>1, <2>2
    <3>2. DOMAIN SubSeq(box, 1, k - 1) = 1..(k - 1) /\ \A i \in 1..(k - 1) : SubSeq(box, 1, k - 1)[i] = box[i]
      BY <1>1, <3>1
    <3>3. PICK i \in 1..(k - 1) : q = box[i]
      BY <3>2 DEF Elements
    <3>4. i \in DOMAIN box /\ i < k
      BY <2>2, <3>1, <3>3
    <3> QED  BY <2>2, <3>3, <3>4 DEF Before
  <2> QED  BY <1>3, <2>3, <2>6, <2>7, <2>8 DEF box
<1> QED  BY <1>2, <1>3

LEMMA BuildersAre ==
  ASSUME GatewayIs(requests, inbox, log), NEW s \in Sessions, NEW cut \in Nat, cut <= Len(log[s]),
         NEW b \in Builders(s, cut)
  PROVE  b \in Requests /\ Asked(b, s, requests)
<1>1. log[s] \in Seq(Requests \X Nat) /\ Logged(s, requests, log[s])
  BY DEF GatewayIs
<1>2. PICK i \in 1..cut : b = log[s][i][1]
  BY DEF Builders
<1>3. i \in DOMAIN log[s]
  BY <1>1, <1>2
<1>4. b \in Requests /\ requests[b].session = s /\ requests[b].state \in {"running", "detached", "done"}
  BY <1>1, <1>2, <1>3 DEF Logged
<1> QED  BY <1>4 DEF Asked

\* The submissions the prompts P are given are among B, and no two get the same.
Matching(match, P, B) ==
  /\ \A r \in P : match[r] = 0 \/ match[r] \in B
  /\ \A q, r \in P : match[q] = match[r] /\ match[q] # 0 => q = r

LEMMA LooseAre ==
  ASSUME GatewayIs(requests, inbox, log), NEW s \in Sessions, NEW cut \in Nat, cut <= Len(log[s]), NEW exact
  PROVE  LET loose == FirstEvents(s, cut, exact)
         IN  /\ loose \in Seq(Requests \X Nat)
             /\ \A k \in DOMAIN loose : loose[k][1] \in Builders(s, cut) /\ loose[k][1] \notin exact
             /\ \A k, l \in DOMAIN loose : loose[k][1] = loose[l][1] => k = l
<1> DEFINE entries == log[s]
           I == {i \in 1..cut : entries[i][2] = 1 /\ entries[i][1] \notin exact}
           loose == Picked(entries, I)
<1>1. entries \in Seq(Requests \X Nat) /\ Logged(s, requests, entries)
  BY DEF GatewayIs
<1>2. FirstEvents(s, cut, exact) = loose
  BY DEF FirstEvents
<1>3. loose \in Seq(Requests \X Nat)
  BY <1>1, PickedIs
<1>4. PICK at : PickedAt(entries, DOMAIN entries \cap I, loose, at)
  BY <1>1, PickedIs
<1> HIDE DEF loose
<1>5. \A k \in DOMAIN loose : at[k] \in DOMAIN entries \cap I /\ loose[k] = entries[at[k]]
  BY <1>4 DEF PickedAt
<1>6. ASSUME NEW k \in DOMAIN loose  PROVE loose[k][1] \in Builders(s, cut) /\ loose[k][1] \notin exact
  BY <1>5 DEF Builders
<1>7. ASSUME NEW k \in DOMAIN loose, NEW l \in DOMAIN loose, loose[k][1] = loose[l][1]  PROVE k = l
  <2>1. at[k] \in DOMAIN entries /\ at[l] \in DOMAIN entries /\ entries[at[k]][2] = 1 /\ entries[at[l]][2] = 1
    BY <1>5
  <2>2. entries[at[k]][1] = entries[at[l]][1]
    BY <1>5, <1>7
  <2> HIDE DEF entries
  <2>3. at[k] = at[l]
    BY <1>1, <2>1, <2>2 DEF Logged
  <2> QED  BY <1>4, <2>3 DEF PickedAt
<1> QED  BY <1>2, <1>3, <1>6, <1>7

LEMMA CorrelatedIs ==
  ASSUME GatewayIs(requests, inbox, log), NEW s \in Sessions, NEW cut \in Nat, cut <= Len(log[s]),
         NEW prompts \in Seq(Requests)
  PROVE  Matching(Correlated(prompts, s, cut), Elements(prompts), Builders(s, cut))
<1> DEFINE P == Elements(prompts)
           exact == P \cap {r \in Requests : requests[r].delivered}
           rest == Picked(prompts, {i \in DOMAIN prompts : prompts[i] \notin exact})
           loose == FirstEvents(s, cut, exact)
           at(r) == CHOOSE i \in DOMAIN rest : rest[i] = r
           match == Correlated(prompts, s, cut)
<1>1. \A r \in P : match[r] = IF r \in exact THEN IF r \in Builders(s, cut) THEN r ELSE 0
                              ELSE IF Len(rest) # Len(loose) THEN 0 ELSE loose[at(r)][1]
  BY DEF Correlated, Elements
<1>2. /\ loose \in Seq(Requests \X Nat)
      /\ \A k \in DOMAIN loose : loose[k][1] \in Builders(s, cut) /\ loose[k][1] \notin exact
      /\ \A k, l \in DOMAIN loose : loose[k][1] = loose[l][1] => k = l
  <2> HIDE DEF exact
  <2> QED  BY LooseAre
<1>3. rest \in Seq(Requests) /\ \A r \in P \ exact : r \in Elements(rest)
  <2> DEFINE I == {i \in DOMAIN prompts : prompts[i] \notin exact}
  <2>1. Picked(prompts, I) \in Seq(Requests) /\ Elements(Picked(prompts, I)) = {prompts[i] : i \in DOMAIN prompts \cap I}
    BY PickedOnce
  <2>2. \A r \in P \ exact : r \in {prompts[i] : i \in DOMAIN prompts \cap I}
    BY DEF Elements
  <2> QED  BY <2>1, <2>2
<1>4. ASSUME NEW r \in P \ exact  PROVE at(r) \in DOMAIN rest /\ rest[at(r)] = r
  <2> HIDE DEF rest
  <2>1. \E i \in DOMAIN rest : rest[i] = r
    BY <1>3 DEF Elements
  <2> QED  BY <2>1
<1> HIDE DEF rest, loose, match, exact, at
<1>5. Len(rest) = Len(loose) => DOMAIN rest = DOMAIN loose
  BY <1>2, <1>3
<1>6. ASSUME NEW r \in P  PROVE match[r] = 0 \/ match[r] \in Builders(s, cut)
  <2>1. CASE r \in exact \/ Len(rest) # Len(loose)
    BY <1>1, <2>1
  <2>2. CASE r \notin exact /\ Len(rest) = Len(loose)
    <3>1. at(r) \in DOMAIN loose /\ match[r] = loose[at(r)][1]
      BY <1>1, <1>4, <1>5, <2>2
    <3> QED  BY <1>2, <3>1
  <2> QED  BY <2>1, <2>2
<1>7. ASSUME NEW q \in P, NEW r \in P, match[q] = match[r], match[q] # 0  PROVE q = r
  <2>1. CASE q \in exact /\ r \in exact
    BY <1>1, <1>7, <2>1
  <2>2. CASE q \notin exact /\ r \notin exact
    <3>1. Len(rest) = Len(loose) /\ match[q] = loose[at(q)][1] /\ match[r] = loose[at(r)][1]
      BY <1>1, <1>7, <2>2
    <3>2. at(q) \in DOMAIN loose /\ at(r) \in DOMAIN loose
      BY <1>4, <1>5, <2>2, <3>1
    <3>3. at(q) = at(r)
      BY <1>2, <1>7, <3>1, <3>2
    <3> QED  BY <1>4, <2>2, <3>3
  <2>3. CASE q \in exact /\ r \notin exact
    <3>1. match[q] = q /\ Len(rest) = Len(loose) /\ match[r] = loose[at(r)][1]
      BY <1>1, <1>7, <2>3
    <3>2. loose[at(r)][1] \notin exact
      BY <1>2, <1>4, <1>5, <2>3, <3>1
    <3> QED  BY <1>7, <2>3, <3>1, <3>2
  <2>4. CASE q \notin exact /\ r \in exact
    <3>1. match[r] = r /\ Len(rest) = Len(loose) /\ match[q] = loose[at(q)][1]
      BY <1>1, <1>7, <2>4
    <3>2. loose[at(q)][1] \notin exact
      BY <1>2, <1>4, <1>5, <2>4, <3>1
    <3> QED  BY <1>7, <2>4, <3>1, <3>2
  <2> QED  BY <2>1, <2>2, <2>3, <2>4
<1> QED  BY <1>6, <1>7 DEF Matching, match

LEMMA ProjectedIs ==
  ASSUME GatewayIs(requests, inbox, log), NEW s \in Sessions, NEW cut \in Nat, cut <= Len(log[s]),
         NEW r \in Requests, NEW b, b = 0 \/ b \in Builders(s, cut)
  PROVE  /\ Projected(r, b, s, cut) \in Paged(s, requests)
         /\ Projected(r, b, s, cut).sub = IF b = 0 THEN <<"prompt", r>> ELSE <<"sub", b>>
         /\ Projected(r, b, s, cut).prompt \in {0, r}
<1> DEFINE done == SubSeq(Plan(b), 1, Emitted(b, s, cut))
           x == Projected(r, b, s, cut)
<1>1. r \in Nat /\ PublicPrompt(r) \in Requests \cup {0} /\ PublicPrompt(r) \in {0, r}
  BY DEF Requests, PublicPrompt
<1>2. CASE b = 0
  <2>1. x = Exchange(<<"prompt", r>>, <<"prompt", r>>, r, {}, "none", "running")
    BY <1>2 DEF Projected
  <2> HIDE DEF x
  <2>2. x \in Exchanges /\ x.id = <<"prompt", r>> /\ x.sub = <<"prompt", r>> /\ x.prompt = r
    BY <1>1, <2>1 DEF Exchange, Exchanges, Names
  <2>3. Named(x) /\ x.sub[1] # "pending" /\ OfSession(x, s, requests)
    BY <2>2 DEF Named, SubOf, OfSession, Bound
  <2> QED  BY <1>2, <2>2, <2>3 DEF Paged, x
<1>3. CASE b # 0
  <2>1. b \in Requests /\ Asked(b, s, requests) /\ b \in Nat
    BY <1>3, BuildersAre DEF Requests
  <2>2. x = Exchange(<<"page", b>>, <<"sub", b>>, PublicPrompt(r), Rows(done), Answer(done), Status(done))
    BY <1>3 DEF Projected
  <2>3. Rows(done) \in SUBSET RowKinds
    <3> HIDE DEF done
    <3> QED  BY DEF Rows, Row, RowKinds
  <2>4. Answer(done) \in {"none", "interim", "final"}
    <3> HIDE DEF done
    <3> QED  BY DEF Answer
  <2>5. Status(done) \in {"running", "completed", "failed"}
    <3> HIDE DEF done
    <3> QED  BY DEF Status
  <2> HIDE DEF done, x
  <2>6. x \in Exchanges /\ x.id = <<"page", b>> /\ x.sub = <<"sub", b>> /\ x.prompt = PublicPrompt(r)
    BY <1>1, <2>1, <2>2, <2>3, <2>4, <2>5 DEF Exchange, Exchanges, Names, RowKinds
  <2>7. Named(x) /\ x.sub[1] # "pending" /\ OfSession(x, s, requests)
    BY <2>1, <2>6 DEF Named, SubOf, OfSession, Bound
  <2> QED  BY <1>1, <1>3, <2>6, <2>7 DEF Paged, x
<1> QED  BY <1>2, <1>3

LEMMA NewestIs ==
  ASSUME NEW T, NEW xs \in Seq(T), Once(xs), NEW n \in Nat \ {0}
  PROVE  /\ Newest(xs, n) \in Seq(T) /\ Once(Newest(xs, n)) /\ Elements(Newest(xs, n)) \subseteq Elements(xs)
         /\ Len(xs) > n => 1 \in DOMAIN Newest(xs, n)
<1> DEFINE m == IF Len(xs) > n THEN Len(xs) - n + 1 ELSE 1
           l == Len(xs)
<1>1. m \in 1..(Len(xs) + 1) /\ l \in (m - 1)..Len(xs) /\ (Len(xs) > n => l - m + 1 = n)
  OBVIOUS
<1>2. Newest(xs, n) = SubSeq(xs, m, l)
  BY DEF Newest
<1> HIDE DEF m, l
<1>3. /\ SubSeq(xs, m, l) \in Seq(T) /\ Once(SubSeq(xs, m, l)) /\ Len(SubSeq(xs, m, l)) = l - m + 1
      /\ Elements(SubSeq(xs, m, l)) \subseteq Elements(xs)
  BY <1>1, SubSeqOnce
<1>4. Len(xs) > n => 1 \in DOMAIN SubSeq(xs, m, l)
  BY <1>1, <1>3
<1> QED  BY <1>2, <1>3, <1>4

\* The exchanges of a page, from the prompts chosen and the submissions they are given.
LEMMA ChosenIs ==
  ASSUME GatewayIs(requests, inbox, log), NEW s \in Sessions, NEW cut \in Nat, cut <= Len(log[s]),
         NEW chosen \in Seq(Requests), Once(chosen), NEW match,
         Matching(match, Elements(chosen), Builders(s, cut))
  PROVE  LET xs == [i \in DOMAIN chosen |-> Projected(chosen[i], match[chosen[i]], s, cut)]
         IN  xs \in PagesOf(s, requests) /\ \A t \in Shown(xs) : t[3] = 0 \/ t[3] \in Elements(chosen)
<1> DEFINE xs == [i \in DOMAIN chosen |-> Projected(chosen[i], match[chosen[i]], s, cut)]
           SubFor(r) == IF match[r] = 0 THEN <<"prompt", r>> ELSE <<"sub", match[r]>>
<1>1. ASSUME NEW i \in DOMAIN chosen
      PROVE  xs[i] \in Paged(s, requests) /\ xs[i].sub = SubFor(chosen[i]) /\ xs[i].prompt \in {0, chosen[i]}
  <2> DEFINE r == chosen[i]
             b == match[r]
  <2>1. r \in Requests /\ (b = 0 \/ b \in Builders(s, cut))
    BY DEF Matching, Elements
  <2>2. xs[i] = Projected(r, b, s, cut)
    OBVIOUS
  <2> HIDE DEF r, b, xs
  <2>3. /\ Projected(r, b, s, cut) \in Paged(s, requests)
        /\ Projected(r, b, s, cut).sub = IF b = 0 THEN <<"prompt", r>> ELSE <<"sub", b>>
        /\ Projected(r, b, s, cut).prompt \in {0, r}
    BY <2>1, ProjectedIs
  <2> QED  BY <2>2, <2>3 DEF b, r
<1>2. DOMAIN xs = DOMAIN chosen /\ DOMAIN chosen = 1..Len(chosen) /\ Len(chosen) \in Nat
      /\ xs = [i \in 1..Len(chosen) |-> xs[i]]
  OBVIOUS
<1>3. xs \in Seq(Paged(s, requests))
  <2>1. \A i \in 1..Len(chosen) : xs[i] \in Paged(s, requests)
    BY <1>1, <1>2
  <2> HIDE DEF xs
  <2> QED  BY <1>2, <2>1
<1> HIDE DEF xs
<1>4. Distinct(xs)
  <2> SUFFICES ASSUME NEW i \in DOMAIN chosen, NEW j \in DOMAIN chosen, xs[i].sub = xs[j].sub  PROVE i = j
    BY <1>2 DEF Distinct
  <2> DEFINE q == chosen[i]
             r == chosen[j]
  <2>1. q \in Elements(chosen) /\ r \in Elements(chosen)
    BY DEF Elements
  <2>2. SubFor(q) = SubFor(r)
    BY <1>1
  <2> HIDE DEF q, r
  <2>3. q = r
    <3>1. CASE match[q] = 0 /\ match[r] = 0
      BY <2>2, <3>1
    <3>2. CASE match[q] # 0 /\ match[r] # 0
      <4>1. match[q] = match[r]
        BY <2>2, <3>2
      <4> QED  BY <2>1, <3>2, <4>1 DEF Matching
    <3>3. CASE match[q] # 0 /\ match[r] = 0
      <4>1. <<"sub", match[q]>> = <<"prompt", r>>
        BY <2>2, <3>3
      <4> QED  BY <4>1
    <3>4. CASE match[q] = 0 /\ match[r] # 0
      <4>1. <<"prompt", q>> = <<"sub", match[r]>>
        BY <2>2, <3>4
      <4> QED  BY <4>1
    <3> QED  BY <3>1, <3>2, <3>3, <3>4
  <2> QED  BY <2>3 DEF q, r, Once
<1>5. ASSUME NEW t \in Shown(xs)  PROVE t[3] = 0 \/ t[3] \in Elements(chosen)
  <2>1. PICK i \in DOMAIN chosen : t = <<xs[i].id, xs[i].sub, xs[i].prompt>>
    BY <1>2 DEF Shown
  <2>2. t[3] = xs[i].prompt
    BY <2>1
  <2>3. t[3] = 0 \/ t[3] = chosen[i]
    BY <1>1, <2>2
  <2> QED  BY <2>3 DEF Elements
<1> QED  BY <1>3, <1>4, <1>5 DEF PagesOf, xs

LEMMA PageIs ==
  ASSUME GatewayIs(requests, inbox, log), NEW s \in Sessions, NEW cut \in Nat, cut <= Len(log[s]),
         NEW from, CursorIs(from, s, inbox)
  PROVE  /\ Page(s, cut, from) \in PageKinds
         /\ Page(s, cut, from).exchanges \in PagesOf(s, requests)
         /\ CursorIs(Page(s, cut, from).before, s, inbox)
         /\ Page(s, cut, from).before = 0 \/ Page(s, cut, from).before \in Elements(Older(s, from))
         /\ \A t \in Shown(Page(s, cut, from).exchanges) : t[3] = 0 \/ t[3] \in Elements(Older(s, from))
<1> DEFINE prompts == Older(s, from)
           match == Correlated(prompts, s, cut)
           I == {i \in DOMAIN prompts : match[prompts[i]] # 0 \/ PublicPrompt(prompts[i]) # 0}
           entries == Picked(prompts, I)
           chosen == Newest(entries, PageLimit)
           more == Len(entries) > PageLimit
           xs == [i \in DOMAIN chosen |-> Projected(chosen[i], match[chosen[i]], s, cut)]
           before == IF more THEN chosen[1] ELSE 0
<1>1. Page(s, cut, from) = [exchanges |-> xs, hasOlder |-> more, before |-> before]
  BY DEF Page
<1>2. /\ prompts = Older(s, from)
      /\ prompts \in Seq(Requests) /\ Once(prompts) /\ Elements(prompts) \subseteq Elements(inbox[s])
  BY OlderIs
<1> HIDE DEF prompts
<1>3. Matching(match, Elements(prompts), Builders(s, cut))
  BY <1>2, CorrelatedIs
<1> HIDE DEF match
<1>4. entries \in Seq(Requests) /\ Once(entries) /\ Elements(entries) \subseteq Elements(prompts)
  <2>1. Elements(entries) = {prompts[i] : i \in DOMAIN prompts \cap I} /\ entries \in Seq(Requests) /\ Once(entries)
    <3> HIDE DEF I
    <3> QED  BY <1>2, PickedOnce
  <2>2. {prompts[i] : i \in DOMAIN prompts \cap I} \subseteq Elements(prompts)
    BY DEF Elements
  <2> QED  BY <2>1, <2>2
<1> HIDE DEF entries
<1>5. /\ chosen \in Seq(Requests) /\ Once(chosen) /\ Elements(chosen) \subseteq Elements(entries)
      /\ Len(entries) > PageLimit => 1 \in DOMAIN chosen
  <2>1. PageLimit \in Nat \ {0}
    BY ChatTranscriptsAssumption
  <2> QED  BY <1>4, <2>1, NewestIs
<1> HIDE DEF chosen
<1>6. Matching(match, Elements(chosen), Builders(s, cut))
  <2>1. Elements(chosen) \subseteq Elements(prompts)
    BY <1>4, <1>5
  <2> QED  BY <1>3, <2>1 DEF Matching
<1>7. xs \in PagesOf(s, requests) /\ \A t \in Shown(xs) : t[3] = 0 \/ t[3] \in Elements(prompts)
  <2>1. xs \in PagesOf(s, requests) /\ \A t \in Shown(xs) : t[3] = 0 \/ t[3] \in Elements(chosen)
    BY <1>5, <1>6, ChosenIs
  <2> HIDE DEF xs
  <2> QED  BY <1>4, <1>5, <2>1
<1> HIDE DEF xs
<1>8. CursorIs(before, s, inbox) /\ (before = 0 \/ before \in Elements(prompts))
  <2>1. CASE more
    <3>1. chosen[1] \in Elements(chosen) /\ chosen[1] \in Requests
      BY <1>5, <2>1 DEF Elements
    <3>2. chosen[1] \in Elements(inbox[s]) /\ chosen[1] \in Elements(prompts)
      BY <1>2, <1>4, <1>5, <3>1
    <3>3. before = chosen[1]
      BY <2>1
    <3> HIDE DEF before
    <3> QED  BY <3>1, <3>2, <3>3 DEF CursorIs
  <2>2. CASE ~more
    BY <2>2 DEF CursorIs
  <2> QED  BY <2>1, <2>2
<1>9. before \in Requests \cup {0}
  BY <1>8 DEF CursorIs
<1>10. more \in BOOLEAN
  OBVIOUS
<1> HIDE DEF before, more
<1>11. xs \in Seq(Exchanges)
  BY <1>7, SeqMonotonic DEF PagesOf, Paged
<1> QED  BY <1>1, <1>2, <1>7, <1>8, <1>9, <1>10, <1>11 DEF PageKinds

-----------------------------------------------------------------------------
(* What the client holds stays right while the gateway goes on.                *)

LEMMA OnwardKeeps ==
  ASSUME NEW reqs, NEW next, Onward(reqs, next)
  PROVE  /\ \A r, s : Asked(r, s, reqs) => Asked(r, s, next)
         /\ \A s : DocumentsOf(s, reqs) \subseteq DocumentsOf(s, next)
         /\ \A s : PagesOf(s, reqs) \subseteq PagesOf(s, next)
<1>1. ASSUME NEW r, NEW s, Asked(r, s, reqs)  PROVE Asked(r, s, next)
  BY <1>1 DEF Onward, Asked
<1>2. \A s, n : Good(n, s, reqs) \subseteq Good(n, s, next)
  BY <1>1 DEF Good, OfSession
<1>3. \A s : Paged(s, reqs) \subseteq Paged(s, next)
  BY <1>1 DEF Paged, OfSession
<1>4. ASSUME NEW s, NEW d \in DocumentsOf(s, reqs)  PROVE d \in DocumentsOf(s, next)
  <2>1. d.exchanges \in Seq(Good(d.pending, s, next))
    <3>1. d.exchanges \in Seq(Good(d.pending, s, reqs)) /\ Good(d.pending, s, reqs) \subseteq Good(d.pending, s, next)
      BY <1>2, DocumentIs
    <3> QED  BY <3>1, SeqMonotonic
  <2> QED  BY <2>1, DocumentIs DEF DocumentsOf
<1>5. ASSUME NEW s, NEW xs \in PagesOf(s, reqs)  PROVE xs \in PagesOf(s, next)
  <2>1. xs \in Seq(Paged(s, reqs)) /\ Distinct(xs) /\ Paged(s, reqs) \subseteq Paged(s, next)
    BY <1>3 DEF PagesOf
  <2>2. xs \in Seq(Paged(s, next))
    BY <2>1, SeqMonotonic
  <2> QED  BY <2>1, <2>2 DEF PagesOf
<1> QED  BY <1>1, <1>4, <1>5

LEMMA GrownKeeps ==
  ASSUME NEW boxes, NEW logs, NEW boxesLater, NEW logsLater, Grown(boxes, logs, boxesLater, logsLater),
         NEW r, NEW s, CursorIs(r, s, boxes)
  PROVE  CursorIs(r, s, boxesLater)
BY DEF Grown, CursorIs

LEMMA CarriedOver ==
  ASSUME ClientInv, GatewayIs(requests', inbox', log'), Onward(requests, requests'),
         Grown(inbox, log, inbox', log')
  PROVE  /\ doc \in DocumentsOf(session, requests')
         /\ ResponseIs(response, session, requests')
         /\ HistoryIs(history, requests', inbox', log')
         /\ CursorIs(older, session, inbox')
<1>1. doc \in DocumentsOf(session, requests')
  BY OnwardKeeps DEF ClientInv
<1>2. ResponseIs(response, session, requests')
  BY OnwardKeeps DEF ClientInv, ResponseIs
<1>3. CursorIs(older, session, inbox')
  BY GrownKeeps DEF ClientInv
<1>4. HistoryIs(history, requests', inbox', log')
  <2>1. HistoryIs(history, requests, inbox, log)
    BY DEF ClientInv
  <2>2. CASE history = NoHistory
    BY <2>1, <2>2 DEF HistoryIs
  <2>3. CASE history # NoHistory
    <3> DEFINE s == history.session
    <3>1. /\ history \in HistoryKinds /\ s \in Sessions /\ history.cut <= Len(log[s])
          /\ CursorIs(history.cursor, s, inbox) /\ CursorIs(history.page.before, s, inbox)
          /\ history.page.exchanges \in PagesOf(s, requests)
      BY <2>1, <2>3 DEF HistoryIs
    <3>2. CursorIs(history.cursor, s, inbox') /\ CursorIs(history.page.before, s, inbox')
      BY <3>1, GrownKeeps
    <3>3. history.page.exchanges \in PagesOf(s, requests')
      BY <3>1, OnwardKeeps
    <3>4. history.cut <= Len(log'[s])
      <4>1. Len(log[s]) <= Len(log'[s])
        BY <3>1 DEF Grown
      <4>2. log[s] \in Seq(Requests \X Nat) /\ log'[s] \in Seq(Requests \X Nat)
        BY <3>1 DEF ClientInv, GatewayIs
      <4>3. history.cut \in Nat /\ Len(log[s]) \in Nat /\ Len(log'[s]) \in Nat
        BY <3>1, <4>2 DEF HistoryKinds
      <4> QED  BY <3>1, <4>1, <4>3
    <3> QED  BY <3>1, <3>2, <3>3, <3>4 DEF HistoryIs
  <2> QED  BY <2>2, <2>3
<1> QED  BY <1>1, <1>2, <1>3, <1>4

LEMMA EmptyIs ==
  ASSUME NEW s, NEW reqs
  PROVE  EmptyDoc \in DocumentsOf(s, reqs) /\ <<>> \in PagesOf(s, reqs)
<1>1. EmptyDoc \in Documents
  <2>1. {} \in SUBSET (Names \X Nat) /\ IsFiniteSet({})
    BY FS_EmptySet
  <2>2. {} \in Streams
    BY <2>1 DEF Streams
  <2>3. <<>> \in Seq(Exchanges)
    OBVIOUS
  <2> DEFINE none == <<>>
             A == Seq(Exchanges)
             B == SUBSET Names
             C == SUBSET (Requests \X Nat)
             d == [exchanges |-> none, closed |-> {}, resumable |-> {}, seen |-> {}, streaming |-> {}, pending |-> 0]
  <2>4. none \in A /\ {} \in B /\ {} \in C
    BY <2>3
  <2>5. EmptyDoc = d
    BY DEF EmptyDoc
  <2>6. Documents = [exchanges: A, closed: B, resumable: B, seen: C, streaming: Streams, pending: Nat]
    BY DEF Documents
  <2> HIDE DEF none, A, B, C
  <2>7. d \in [exchanges: A, closed: B, resumable: B, seen: C, streaming: Streams, pending: Nat]
    BY <2>2, <2>4
  <2> QED  BY <2>5, <2>6, <2>7
<1>2. EmptyDoc.exchanges = <<>>
  BY DEF EmptyDoc
<1>3. Distinct(<<>>) /\ <<>> \in Seq(Good(EmptyDoc.pending, s, reqs)) /\ <<>> \in Seq(Paged(s, reqs))
  BY DEF Distinct
<1> QED  BY <1>1, <1>2, <1>3 DEF DocumentsOf, PagesOf

LEMMA NothingIs ==
  ASSUME NEW s, NEW reqs, NEW boxes, NEW logs
  PROVE  /\ ResponseIs(NoResponse, s, reqs) /\ HistoryIs(NoHistory, reqs, boxes, logs)
         /\ CursorIs(0, s, boxes) /\ StreamIs(NoStream, s)
<1>1. ResponseIs(NoResponse, s, reqs)
  BY DEF ResponseIs, NoResponse, ResponseKinds
<1>2. NoHistory \in HistoryKinds
  <2>1. <<>> \in Seq(Exchanges)
    OBVIOUS
  <2> QED  BY <2>1 DEF NoHistory, HistoryKinds, PageKinds
<1> QED  BY <1>1, <1>2 DEF HistoryIs, CursorIs, StreamIs

LEMMA HistoryBegins ==
  ASSUME NEW reqs, NEW boxes, NEW logs, GatewayIs(reqs, boxes, logs), NEW s \in Sessions,
         NEW kind \in {"startup", "older", "switch"}, NEW r, CursorIs(r, s, boxes)
  PROVE  HistoryIs(RequestHistory(kind, s, r), reqs, boxes, logs)
<1> DEFINE a == [NoHistory EXCEPT !.kind = kind]
           b == [a EXCEPT !.session = s]
           h == [b EXCEPT !.cursor = r]
<1>1. RequestHistory(kind, s, r) = h
  BY DEF RequestHistory
<1>2. NoHistory \in HistoryKinds
  BY NothingIs DEF HistoryIs
<1>3. r \in Requests \cup {0} /\ s \in Sessions \cup {0}
  BY DEF CursorIs
<1>4. /\ h \in HistoryKinds /\ h.session = s /\ h.cursor = r /\ h.cut = 0
      /\ h.page.exchanges = <<>> /\ h.page.before = 0
  <2>1. NoHistory.cut = 0 /\ NoHistory.page.exchanges = <<>> /\ NoHistory.page.before = 0
    BY DEF NoHistory
  <2>2. a \in HistoryKinds /\ a.cut = 0 /\ a.page = NoHistory.page
    BY <1>2, <2>1 DEF HistoryKinds
  <2> HIDE DEF a
  <2>3. b \in HistoryKinds /\ b.session = s /\ b.cut = 0 /\ b.page = NoHistory.page
    BY <1>3, <2>2 DEF HistoryKinds
  <2> HIDE DEF b
  <2>4. h \in HistoryKinds /\ h.session = s /\ h.cursor = r /\ h.cut = 0 /\ h.page = NoHistory.page
    BY <1>3, <2>3 DEF HistoryKinds
  <2> HIDE DEF h
  <2> QED  BY <2>1, <2>4
<1>5. 0 <= Len(logs[s])
  <2>1. logs[s] \in Seq(Requests \X Nat)
    BY DEF GatewayIs
  <2> QED  BY <2>1
<1>6. CursorIs(0, s, boxes) /\ <<>> \in PagesOf(s, reqs)
  BY EmptyIs, NothingIs
<1> HIDE DEF h
<1> QED  BY <1>1, <1>4, <1>5, <1>6 DEF HistoryIs

LEMMA AttachedIs ==
  ASSUME NEW s \in Sessions, NEW offset \in Nat \cup {Now}
  PROVE  StreamIs(Attached(s, offset), s)
BY DEF Attached, StreamIs

\* The next exchange of a document, and the response that waits for it.
LEMMA PendingIs ==
  ASSUME NEW s, NEW reqs, NEW d \in DocumentsOf(s, reqs)
  PROVE  PendingId(d) \in Names
<1>1. d.pending + 1 \in Nat
  BY DocumentIs
<1> QED  BY <1>1 DEF PendingId, Names

LEMMA WaitsFor ==
  ASSUME NEW s, NEW reqs, NEW d, PendingId(d) \in Names, NEW r, Asked(r, s, reqs)
  PROVE  ResponseIs([NoResponse EXCEPT !.request = r, !.exchange = PendingId(d)], s, reqs)
<1> DEFINE x == PendingId(d)
           a == [NoResponse EXCEPT !.request = r]
           rsp == [a EXCEPT !.exchange = x]
<1>1. [NoResponse EXCEPT !.request = r, !.exchange = PendingId(d)] = rsp
  OBVIOUS
<1>2. x \in Names /\ r \in Requests
  BY DEF Asked
<1> HIDE DEF x
<1>3. a \in ResponseKinds /\ a.request = r
  <2>1. NoResponse \in ResponseKinds
    BY DEF NoResponse, ResponseKinds
  <2> QED  BY <1>2, <2>1 DEF ResponseKinds
<1> HIDE DEF a
<1>4. rsp \in ResponseKinds /\ rsp.request = r
  BY <1>2, <1>3 DEF ResponseKinds
<1> QED  BY <1>1, <1>4 DEF ResponseIs

-----------------------------------------------------------------------------
(* Each step of the client.                                                    *)

Steady == created' = created /\ requests' = requests /\ inbox' = inbox /\ log' = log

LEMMA GatewayStep ==
  ASSUME ClientInv, Gateway
  PROVE  ClientInv'
<1>1. /\ created' = created /\ GatewayIs(requests', inbox', log')
      /\ Onward(requests, requests') /\ Grown(inbox, log, inbox', log')
  BY ServerKeeps DEF Gateway, ClientInv
<1>2. /\ phase' = phase /\ session' = session /\ doc' = doc /\ response' = response /\ history' = history
      /\ older' = older /\ stream' = stream
  BY DEF Gateway, client
<1>3. /\ doc \in DocumentsOf(session, requests') /\ ResponseIs(response, session, requests')
      /\ HistoryIs(history, requests', inbox', log') /\ CursorIs(older, session, inbox')
  BY <1>1, CarriedOver
<1> QED  BY <1>1, <1>2, <1>3 DEF ClientInv

LEMMA LaunchStep ==
  ASSUME ClientInv, Launch \/ LifecycleFails
  PROVE  ClientInv'
<1>1. /\ Steady /\ session' = session /\ doc' = doc /\ response' = response /\ history' = history
      /\ older' = older /\ stream' = stream
  BY DEF Launch, LifecycleFails, server, Steady
<1>2. phase \in {"idle", "creating", "resuming"} /\ phase' \in {"creating", "resuming", "failed"}
  BY DEF Launch, LifecycleFails, FailStartup
<1>3. PhaseIs(phase', session, doc, response, history, older, stream)
  BY <1>2 DEF ClientInv, PhaseIs
<1> QED  BY <1>1, <1>3 DEF ClientInv, Steady

LEMMA SessionCreatedStep ==
  ASSUME ClientInv, SessionCreated
  PROVE  ClientInv'
<1> DEFINE s == created + 1
<1>1. s \in Sessions
  BY ChatTranscriptsAssumption DEF SessionCreated, ClientInv, Sessions
<1>2. PICK r \in Requests :
        /\ IsNext(r) /\ requests' = Sent(r, s, "greeting") /\ session' = s /\ stream' = Attached(s, Now)
        /\ phase' = "greeting" /\ doc' = BeginExchange(doc, 0)
        /\ response' = [NoResponse EXCEPT !.request = r, !.exchange = PendingId(doc)]
  BY DEF SessionCreated, FreshStartup
<1>3. /\ created' = s /\ inbox' = inbox /\ log' = log /\ history' = history /\ older' = older
  BY DEF SessionCreated
<1>4. doc = EmptyDoc /\ history = NoHistory /\ older = 0
  BY DEF SessionCreated, ClientInv, PhaseIs
<1> HIDE DEF s
<1>5. GatewayIs(requests', inbox, log) /\ Asked(r, s, requests')
  <2>1. requests[r].state = "unsent"
    BY <1>2 DEF IsNext
  <2> QED  BY <1>1, <1>2, <2>1, SentKeeps DEF ClientInv
<1>6. doc \in DocumentsOf(s, requests')
  BY <1>4, EmptyIs
<1>7. doc' \in DocumentsOf(s, requests')
  <2>1. 0 \in Requests \cup {0}
    OBVIOUS
  <2> QED  BY <1>2, <1>6, <2>1, BeginKeeps
<1>8. ResponseIs(response', s, requests')
  <2>1. PendingId(doc) \in Names
    BY <1>6, PendingIs
  <2> QED  BY <1>2, <1>5, <2>1, WaitsFor
<1>9. HistoryIs(history', requests', inbox', log') /\ CursorIs(older', s, inbox')
  BY <1>3, <1>4, NothingIs
<1>10. StreamIs(stream', s)
  BY <1>1, <1>2, AttachedIs
<1>11. PhaseIs(phase', s, doc', response', history', older', stream')
  BY <1>1, <1>2 DEF PhaseIs
<1> QED  BY <1>1, <1>2, <1>3, <1>5, <1>7, <1>8, <1>9, <1>10, <1>11 DEF ClientInv

LEMMA SessionResumedStep ==
  ASSUME ClientInv, SessionResumed
  PROVE  ClientInv'
<1>1. /\ Steady /\ session' = 1 /\ doc' = doc /\ response' = response /\ older' = older /\ stream' = stream
      /\ history' = RequestHistory("startup", 1, 0) /\ phase' = "loading"
  BY DEF SessionResumed, server, Steady
<1>2. doc = EmptyDoc /\ response = NoResponse /\ older = 0 /\ stream = NoStream
  BY DEF SessionResumed, ClientInv, PhaseIs
<1>3. 1 \in Sessions
  BY ChatTranscriptsAssumption DEF Sessions
<1>4. GatewayIs(requests, inbox, log)
  BY DEF ClientInv
<1>5. doc \in DocumentsOf(1, requests)
  BY <1>2, EmptyIs
<1>6. ResponseIs(response, 1, requests) /\ CursorIs(older, 1, inbox) /\ StreamIs(stream, 1) /\ CursorIs(0, 1, inbox)
  BY <1>2, NothingIs
<1>7. HistoryIs(history', requests, inbox, log)
  BY <1>1, <1>3, <1>4, <1>6, HistoryBegins
<1>8. PhaseIs(phase', 1, doc', response', history', older', stream')
  BY <1>1, <1>3 DEF PhaseIs
<1> QED  BY <1>1, <1>4, <1>5, <1>6, <1>7, <1>8 DEF ClientInv, Steady

LEMMA SubmitStep ==
  ASSUME ClientInv, NEW r \in Requests, Submit(r)
  PROVE  ClientInv'
<1>1. /\ requests' = Sent(r, session, "user") /\ doc' = BeginExchange(doc, r)
      /\ response' = [NoResponse EXCEPT !.request = r, !.exchange = PendingId(doc)]
      /\ created' = created /\ inbox' = inbox /\ log' = log /\ phase' = phase /\ session' = session
      /\ history' = history /\ older' = older /\ stream' = stream
  BY DEF Submit
<1>2. phase \in {"greeting", "complete"} /\ requests[r].state = "unsent"
  BY DEF Submit, Unlocked, IsNext
<1>3. session \in Sessions
  BY <1>2 DEF ClientInv, PhaseIs
<1>4. GatewayIs(requests', inbox, log) /\ Onward(requests, requests') /\ Asked(r, session, requests')
  BY <1>1, <1>2, <1>3, SentKeeps DEF ClientInv
<1>5. Grown(inbox, log, inbox, log)
  BY SameGrown DEF ClientInv
<1>6. /\ doc \in DocumentsOf(session, requests') /\ HistoryIs(history, requests', inbox', log')
      /\ CursorIs(older, session, inbox')
  BY <1>1, <1>4, <1>5, CarriedOver
<1>7. doc' \in DocumentsOf(session, requests')
  BY <1>1, <1>6, BeginKeeps
<1>8. ResponseIs(response', session, requests')
  <2>1. PendingId(doc) \in Names
    BY <1>6, PendingIs
  <2> QED  BY <1>1, <1>4, <2>1, WaitsFor
<1>9. PhaseIs(phase', session, doc', response', history', older', stream')
  BY <1>1, <1>2, <1>3 DEF PhaseIs
<1> QED  BY <1>1, <1>4, <1>6, <1>7, <1>8, <1>9 DEF ClientInv

\* Nothing is awaited before the session is known.
LEMMA KnownBy ==
  ASSUME ClientInv, response # NoResponse \/ history # NoHistory \/ stream # NoStream \/ older # 0
  PROVE  phase \notin {"idle", "creating", "resuming"}
BY DEF ClientInv, PhaseIs

LEMMA SubmitCommandStep ==
  ASSUME ClientInv, SubmitCommand
  PROVE  ClientInv'
<1> DEFINE x == PendingId(doc)
           a == [NoResponse EXCEPT !.command = TRUE]
           rsp == [a EXCEPT !.exchange = x]
<1>1. /\ doc' = BeginExchange(doc, 0) /\ response' = rsp
      /\ Steady /\ phase' = phase /\ session' = session /\ history' = history /\ older' = older /\ stream' = stream
  BY DEF SubmitCommand, server, Steady
<1>2. phase \in {"greeting", "complete"}
  BY DEF SubmitCommand, Unlocked
<1>3. doc \in DocumentsOf(session, requests)
  BY DEF ClientInv
<1>4. doc' \in DocumentsOf(session, requests)
  <2>1. 0 \in Requests \cup {0}
    OBVIOUS
  <2> QED  BY <1>1, <1>3, <2>1, BeginKeeps
<1>5. x \in Names
  BY <1>3, PendingIs
<1> HIDE DEF x
<1>6. a \in ResponseKinds /\ a.request = 0
  <2>1. NoResponse \in ResponseKinds /\ NoResponse.request = 0
    BY DEF NoResponse, ResponseKinds
  <2> QED  BY <2>1 DEF ResponseKinds
<1> HIDE DEF a
<1>7. rsp \in ResponseKinds /\ rsp.request = 0
  BY <1>5, <1>6 DEF ResponseKinds
<1> HIDE DEF rsp
<1>8. ResponseIs(response', session, requests)
  BY <1>1, <1>7 DEF ResponseIs
<1>9. PhaseIs(phase', session, doc', response', history', older', stream')
  BY <1>1, <1>2 DEF ClientInv, PhaseIs
<1> QED  BY <1>1, <1>4, <1>8, <1>9 DEF ClientInv, Steady

\* A response has come, whatever it says.
LEMMA AfterResponse ==
  ASSUME ClientInv, response # NoResponse, response' = NoResponse,
         phase' = phase \/ phase' = "failed" \/ (phase = "greeting" /\ phase' = "complete"),
         session' = session \/ session' \in Sessions
  PROVE  /\ PhaseIs(phase', session', doc', response', history', older', stream')
         /\ ResponseIs(response', session', requests')
<1>1. phase \notin {"idle", "creating", "resuming"}
  BY KnownBy
<1>2. PhaseIs(phase', session', doc', response', history', older', stream')
  BY <1>1 DEF ClientInv, PhaseIs
<1> QED  BY <1>2, NothingIs

LEMMA PollReplyStep ==
  ASSUME ClientInv, PollReply
  PROVE  ClientInv'
<1> DEFINE r == response.request
           bound == Bind(doc, response.exchange, <<"sub", r>>)
<1>1. /\ r # 0 /\ doc' = SetAssistant(bound.doc, bound.id, "final") /\ response' = NoResponse
      /\ Steady /\ session' = session /\ history' = history /\ older' = older /\ stream' = stream
      /\ phase' = phase \/ (phase = "greeting" /\ phase' = "complete")
  BY DEF PollReply, ReplyApplied, AfterReply, server, Steady
<1>2. response # NoResponse
  BY <1>1 DEF NoResponse
<1>3. Asked(r, session, requests) /\ doc \in DocumentsOf(session, requests)
  BY <1>1 DEF ClientInv, ResponseIs
<1> HIDE DEF r
<1>4. bound.doc \in DocumentsOf(session, requests)
  BY <1>3, BindKeeps
<1> HIDE DEF bound
<1>5. doc' \in DocumentsOf(session, requests)
  BY <1>1, <1>4, AnswerKeeps
<1>6. /\ PhaseIs(phase', session', doc', response', history', older', stream')
      /\ ResponseIs(response', session', requests')
  BY <1>1, <1>2, AfterResponse
<1> QED  BY <1>1, <1>5, <1>6 DEF ClientInv, Steady

LEMMA PollErrorStep ==
  ASSUME ClientInv, PollError
  PROVE  ClientInv'
<1>1. /\ response' = NoResponse /\ doc' = doc
      /\ Steady /\ session' = session /\ history' = history /\ older' = older /\ stream' = stream
      /\ phase' = phase \/ phase' = "failed"
  BY DEF PollError, FailStartup, server, Steady
<1>2. response # NoResponse
  BY DEF PollError, NoResponse
<1>3. /\ PhaseIs(phase', session', doc', response', history', older', stream')
      /\ ResponseIs(response', session', requests')
  BY <1>1, <1>2, AfterResponse
<1> QED  BY <1>1, <1>3 DEF ClientInv, Steady

LEMMA CommandAnsweredStep ==
  ASSUME ClientInv, CommandAnswered
  PROVE  ClientInv'
<1>1. /\ doc' = SetAssistant(doc, response.exchange, "final") /\ response' = NoResponse
      /\ Steady /\ session' = session /\ history' = history /\ older' = older /\ stream' = stream
      /\ phase' = phase \/ (phase = "greeting" /\ phase' = "complete")
  BY DEF CommandAnswered, AfterReply, server, Steady
<1>2. response # NoResponse
  BY DEF CommandAnswered, NoResponse
<1>3. doc' \in DocumentsOf(session, requests)
  BY <1>1, AnswerKeeps DEF ClientInv
<1>4. /\ PhaseIs(phase', session', doc', response', history', older', stream')
      /\ ResponseIs(response', session', requests')
  BY <1>1, <1>2, AfterResponse
<1> QED  BY <1>1, <1>3, <1>4 DEF ClientInv, Steady

LEMMA NewSessionStep ==
  ASSUME ClientInv, NewSession
  PROVE  ClientInv'
<1> DEFINE s == created + 1
<1>1. s \in Sessions
  BY ChatTranscriptsAssumption DEF NewSession, ClientInv, Sessions
<1>2. /\ created' = s /\ session' = s /\ doc' = EmptyDoc /\ older' = 0 /\ response' = NoResponse
      /\ stream' = NoStream \/ stream' = Attached(s, Now)
      /\ requests' = requests /\ inbox' = inbox /\ log' = log /\ history' = history
      /\ phase' = phase \/ (phase = "greeting" /\ phase' = "complete")
  BY DEF NewSession, AfterReply
<1>3. response # NoResponse
  BY DEF NewSession, NoResponse
<1> HIDE DEF s
<1>4. doc' \in DocumentsOf(s, requests)
  BY <1>2, EmptyIs
<1>5. CursorIs(older', s, inbox)
  BY <1>2, NothingIs
<1>6. StreamIs(stream', s)
  <2>1. Now \in Nat \cup {Now}
    OBVIOUS
  <2> QED  BY <1>1, <1>2, <2>1, NothingIs, AttachedIs
<1>7. /\ PhaseIs(phase', session', doc', response', history', older', stream')
      /\ ResponseIs(response', session', requests')
  BY <1>1, <1>2, <1>3, AfterResponse
<1> QED  BY <1>1, <1>2, <1>4, <1>5, <1>6, <1>7 DEF ClientInv

LEMMA ResumeSessionStep ==
  ASSUME ClientInv, NEW s \in Sessions, ResumeSession(s)
  PROVE  ClientInv'
<1>1. /\ Steady /\ session' = s /\ doc' = EmptyDoc /\ older' = 0 /\ response' = NoResponse /\ stream' = NoStream
      /\ history' = RequestHistory("switch", s, 0)
      /\ phase' = phase \/ (phase = "greeting" /\ phase' = "complete")
  BY DEF ResumeSession, AfterReply, server, Steady
<1>2. response # NoResponse
  BY DEF ResumeSession, NoResponse
<1>3. GatewayIs(requests, inbox, log)
  BY DEF ClientInv
<1>4. doc' \in DocumentsOf(s, requests)
  BY <1>1, EmptyIs
<1>5. CursorIs(older', s, inbox) /\ StreamIs(stream', s) /\ CursorIs(0, s, inbox)
  BY <1>1, NothingIs
<1>6. HistoryIs(history', requests, inbox, log)
  BY <1>1, <1>3, <1>5, HistoryBegins
<1>7. /\ PhaseIs(phase', session', doc', response', history', older', stream')
      /\ ResponseIs(response', session', requests')
  BY <1>1, <1>2, AfterResponse
<1> QED  BY <1>1, <1>3, <1>4, <1>5, <1>6, <1>7 DEF ClientInv, Steady

LEMMA RequestOlderStep ==
  ASSUME ClientInv, RequestOlderPage
  PROVE  ClientInv'
<1>1. /\ Steady /\ phase' = phase /\ session' = session /\ doc' = doc /\ response' = response /\ older' = older
      /\ stream' = stream /\ history' = RequestHistory("older", session, older)
  BY DEF RequestOlderPage, server, Steady
<1>2. phase = "complete" /\ session \in Sessions
  BY DEF RequestOlderPage, ClientInv, PhaseIs
<1>3. GatewayIs(requests, inbox, log) /\ CursorIs(older, session, inbox)
  BY DEF ClientInv
<1>4. HistoryIs(history', requests, inbox, log)
  BY <1>1, <1>2, <1>3, HistoryBegins
<1>5. PhaseIs(phase', session', doc', response', history', older', stream')
  BY <1>1, <1>2 DEF PhaseIs
<1> QED  BY <1>1, <1>4, <1>5 DEF ClientInv, Steady

\* What a history request in progress is about.
LEMMA HistoryHas ==
  ASSUME ClientInv, history # NoHistory
  PROVE  /\ history \in HistoryKinds /\ history.session \in Sessions /\ history.cut \in Nat
         /\ history.cut <= Len(log[history.session])
         /\ CursorIs(history.cursor, history.session, inbox)
         /\ CursorIs(history.page.before, history.session, inbox)
         /\ history.page.exchanges \in PagesOf(history.session, requests)
         /\ phase \notin {"idle", "creating", "resuming"}
BY KnownBy DEF ClientInv, HistoryIs, HistoryKinds

LEMMA ReadMetaStep ==
  ASSUME ClientInv, ReadMeta
  PROVE  ClientInv'
<1> DEFINE n == Len(log[history.session])
           a == [history EXCEPT !.stage = "cut"]
           h == [a EXCEPT !.cut = n]
<1>1. /\ Steady /\ phase' = phase /\ session' = session /\ doc' = doc /\ response' = response /\ older' = older
      /\ stream' = stream /\ history' = h
  BY DEF ReadMeta, server, Steady
<1>2. history # NoHistory
  BY DEF ReadMeta, NoHistory
<1>3. /\ history \in HistoryKinds /\ history.session \in Sessions
      /\ CursorIs(history.cursor, history.session, inbox)
      /\ CursorIs(history.page.before, history.session, inbox)
      /\ history.page.exchanges \in PagesOf(history.session, requests)
      /\ phase \notin {"idle", "creating", "resuming"}
  BY <1>2, HistoryHas
<1>4. n \in Nat
  <2>1. log[history.session] \in Seq(Requests \X Nat)
    BY <1>3 DEF ClientInv, GatewayIs
  <2> QED  BY <2>1
<1>5. n <= Len(log[history.session])
  BY <1>4
<1> HIDE DEF n
<1>6. a \in HistoryKinds /\ a.session = history.session /\ a.cursor = history.cursor /\ a.page = history.page
  BY <1>3 DEF HistoryKinds
<1> HIDE DEF a
<1>7. /\ h \in HistoryKinds /\ h.session = history.session /\ h.cursor = history.cursor
      /\ h.page = history.page /\ h.cut = n
  BY <1>4, <1>6 DEF HistoryKinds
<1> HIDE DEF h
<1>8. HistoryIs(h, requests, inbox, log)
  BY <1>3, <1>5, <1>7 DEF HistoryIs
<1>9. PhaseIs(phase', session', doc', response', history', older', stream')
  BY <1>1, <1>3 DEF ClientInv, PhaseIs
<1> QED  BY <1>1, <1>8, <1>9 DEF ClientInv, Steady

LEMMA ServePageStep ==
  ASSUME ClientInv, ServePage
  PROVE  ClientInv'
<1> DEFINE page == Page(history.session, history.cut, history.cursor)
           a == [history EXCEPT !.stage = "served"]
           h == [a EXCEPT !.page = page]
<1>1. /\ Steady /\ phase' = phase /\ session' = session /\ doc' = doc /\ response' = response /\ older' = older
      /\ stream' = stream /\ history' = h
  BY DEF ServePage, server, Steady
<1>2. history # NoHistory
  BY DEF ServePage, NoHistory
<1>3. /\ history \in HistoryKinds /\ history.session \in Sessions /\ history.cut \in Nat
      /\ history.cut <= Len(log[history.session])
      /\ CursorIs(history.cursor, history.session, inbox)
      /\ phase \notin {"idle", "creating", "resuming"}
  BY <1>2, HistoryHas
<1>4. page \in PageKinds /\ page.exchanges \in PagesOf(history.session, requests)
      /\ CursorIs(page.before, history.session, inbox)
  BY <1>3, PageIs DEF ClientInv
<1> HIDE DEF page
<1>5. /\ a \in HistoryKinds /\ a.session = history.session /\ a.cursor = history.cursor /\ a.cut = history.cut
  BY <1>3 DEF HistoryKinds
<1> HIDE DEF a
<1>6. /\ h \in HistoryKinds /\ h.session = history.session /\ h.cursor = history.cursor
      /\ h.page = page /\ h.cut = history.cut
  BY <1>4, <1>5 DEF HistoryKinds
<1> HIDE DEF h
<1>7. HistoryIs(h, requests, inbox, log)
  BY <1>3, <1>4, <1>6 DEF HistoryIs
<1>8. PhaseIs(phase', session', doc', response', history', older', stream')
  BY <1>1, <1>3 DEF ClientInv, PhaseIs
<1> QED  BY <1>1, <1>7, <1>8 DEF ClientInv, Steady

LEMMA InstallPageStep ==
  ASSUME ClientInv, InstallPage
  PROVE  ClientInv'
<1> DEFINE xs == history.page.exchanges
<1>1. /\ Steady /\ session' = session /\ response' = response /\ history' = NoHistory
      /\ older' = history.page.before \/ older' = 0
      /\ doc' = PrependSnapshot(doc, xs) \/ doc' = InstallSnapshot(doc, xs)
      /\ stream' = Attached(session, history.cut) \/ stream' = stream
      /\ phase' = phase \/ phase' = "complete"
  BY DEF InstallPage, server, Steady
<1>2. history # NoHistory /\ history.session = session
  BY DEF InstallPage, PageMatches, NoHistory
<1>3. /\ session \in Sessions /\ history.cut \in Nat /\ CursorIs(history.page.before, session, inbox)
      /\ xs \in PagesOf(session, requests) /\ phase \notin {"idle", "creating", "resuming"}
  BY <1>2, HistoryHas
<1> HIDE DEF xs
<1>4. doc' \in DocumentsOf(session, requests)
  BY <1>1, <1>3, SnapshotKeeps DEF ClientInv
<1>5. CursorIs(older', session, inbox) /\ HistoryIs(history', requests, inbox, log)
  BY <1>1, <1>3, NothingIs
<1>6. StreamIs(stream', session)
  <2>1. history.cut \in Nat \cup {Now}
    BY <1>3
  <2> QED  BY <1>1, <1>3, <2>1, AttachedIs DEF ClientInv
<1>7. PhaseIs(phase', session', doc', response', history', older', stream')
  BY <1>1, <1>3 DEF PhaseIs
<1> QED  BY <1>1, <1>4, <1>5, <1>6, <1>7 DEF ClientInv, Steady

LEMMA HistoryFailsStep ==
  ASSUME ClientInv, HistoryFails
  PROVE  ClientInv'
<1>1. /\ Steady /\ session' = session /\ doc' = doc /\ response' = response /\ history' = NoHistory
      /\ older' = older /\ stream' = stream /\ (phase' = phase \/ phase' = "failed")
  BY DEF HistoryFails, server, Steady
<1>2. phase \notin {"idle", "creating", "resuming"}
  BY KnownBy DEF HistoryFails, NoHistory
<1>3. HistoryIs(history', requests, inbox, log)
  BY <1>1, NothingIs
<1>4. PhaseIs(phase', session', doc', response', history', older', stream')
  BY <1>1, <1>2 DEF ClientInv, PhaseIs
<1> QED  BY <1>1, <1>3, <1>4 DEF ClientInv, Steady

-----------------------------------------------------------------------------
(* The stream: what it brings is of the session.                               *)

LEMMA LogHeard ==
  ASSUME GatewayIs(requests, inbox, log), NEW s \in Sessions
  PROVE  log[s] \in Seq(Heard(s))
<1>1. log[s] \in Seq(Requests \X Nat) /\ Logged(s, requests, log[s]) /\ requests \in [Requests -> RequestKinds]
  BY DEF GatewayIs
<1>2. ASSUME NEW i \in DOMAIN log[s]  PROVE log[s][i] \in Heard(s)
  <2> DEFINE e == log[s][i]
             plan == requests[e[1]].plan
  <2>1. e \in Requests \X Nat /\ e[1] \in Requests
    BY <1>1
  <2>2. requests[e[1]].session = s /\ requests[e[1]].state \in {"running", "detached", "done"} /\ e[2] \in DOMAIN plan
    BY <1>1 DEF Logged
  <2> HIDE DEF e
  <2>3. plan \in Seq(EventKinds)
    BY <1>1, <2>1, PlansAre
  <2>4. Kind(e) = plan[e[2]]
    BY DEF Kind, Plan
  <2> HIDE DEF plan
  <2>5. Kind(e) \in EventKinds
    BY <2>2, <2>3, <2>4
  <2>6. Asked(e[1], s, requests)
    BY <2>1, <2>2 DEF Asked
  <2> QED  BY <2>1, <2>5, <2>6 DEF Heard, e
<1>3. Len(log[s]) \in Nat /\ DOMAIN log[s] = 1..Len(log[s]) /\ log[s] = [i \in 1..Len(log[s]) |-> log[s][i]]
  BY <1>1
<1> QED  BY <1>2, <1>3

LEMMA HandleEventsIs ==
  ASSUME ClientInv, NEW batch \in Seq(Heard(session)), HandleEvents(batch)
  PROVE  doc' \in DocumentsOf(session, requests) /\ ResponseIs(response', session, requests)
<1>1. doc \in DocumentsOf(session, requests) /\ ResponseIs(response, session, requests)
  BY DEF ClientInv
<1>2. CASE ~Binds(batch)
  BY <1>1, <1>2, BatchKeeps DEF HandleEvents
<1>3. CASE Binds(batch)
  <2> DEFINE new == Unknown(doc, batch)
             r == new[1][1]
             bound == Bind(doc, response.exchange, <<"sub", r>>)
             a == [response EXCEPT !.exchange = bound.id]
             rsp == [a EXCEPT !.expected = TRUE]
  <2>1. doc' = ApplyEvents(bound.doc, batch) /\ response' = rsp
    BY <1>3 DEF HandleEvents
  <2>2. new \in Seq(Heard(session)) /\ new # <<>>
    BY <1>3, PickedIs DEF Unknown, Binds
  <2>3. Asked(r, session, requests)
    <3> HIDE DEF new
    <3>1. new[1] \in Heard(session)
      BY <2>2
    <3> QED  BY <3>1 DEF Heard
  <2> HIDE DEF r
  <2>4. bound.doc \in DocumentsOf(session, requests) /\ bound.id \in Names \cup {response.exchange}
    BY <1>1, <2>3, BindKeeps
  <2> HIDE DEF bound
  <2>5. doc' \in DocumentsOf(session, requests)
    BY <2>1, <2>4, BatchKeeps
  <2>6. response \in ResponseKinds /\ bound.id \in Names \cup {<<>>}
    BY <1>1, <2>4 DEF ResponseIs, ResponseKinds
  <2>7. a \in ResponseKinds /\ a.request = response.request
    BY <2>6 DEF ResponseKinds
  <2> HIDE DEF a
  <2>8. rsp \in ResponseKinds /\ rsp.request = response.request
    BY <2>7 DEF ResponseKinds
  <2> HIDE DEF rsp
  <2>9. ResponseIs(response', session, requests)
    BY <1>1, <2>1, <2>8 DEF ResponseIs
  <2> QED  BY <2>5, <2>9
<1> QED  BY <1>2, <1>3

StreamKinds == [session: Sessions, offset: Nat \cup {Now}, at: Nat, live: BOOLEAN]

LEMMA StreamHas ==
  ASSUME ClientInv, stream # NoStream
  PROVE  /\ stream \in StreamKinds /\ stream.session = session /\ session \in Sessions
         /\ phase \notin {"idle", "creating", "resuming"}
         /\ log[session] \in Seq(Heard(session)) /\ Len(log[session]) \in Nat
<1>1. stream \in StreamKinds /\ stream.session = session
  BY DEF ClientInv, StreamIs, StreamKinds
<1>2. session \in Sessions
  BY <1>1 DEF StreamKinds
<1>3. log[session] \in Seq(Heard(session))
  BY <1>2, LogHeard DEF ClientInv
<1>4. Len(log[session]) \in Nat
  BY <1>3
<1> QED  BY <1>1, <1>2, <1>3, <1>4, KnownBy

\* A reading of the stream that leaves it with the same session.
LEMMA StreamRead ==
  ASSUME ClientInv, stream # NoStream, stream' \in StreamKinds, stream'.session = session,
         Steady, phase' = phase, session' = session, history' = history, older' = older,
         doc' \in DocumentsOf(session, requests), ResponseIs(response', session, requests)
  PROVE  ClientInv'
<1>1. StreamIs(stream', session)
  BY DEF StreamIs, StreamKinds
<1>2. PhaseIs(phase', session', doc', response', history', older', stream')
  BY StreamHas DEF ClientInv, PhaseIs
<1> QED  BY <1>1, <1>2 DEF ClientInv, Steady

\* The catch-up read: events of the session.
LEMMA ConnectReads ==
  ASSUME ClientInv, Connect
  PROVE  \E batch \in Seq(Heard(session)) : HandleEvents(batch)
<1> DEFINE entries == log[session]
           n == Len(entries)
           m == Behind + 1
           batch == SubSeq(entries, m, n)
<1>1. stream # NoStream
  BY DEF Connect
<1>2. stream \in StreamKinds /\ stream.session = session /\ entries \in Seq(Heard(session)) /\ n \in Nat
  BY <1>1, StreamHas
<1>3. HandleEvents(batch)
  BY <1>2 DEF Connect
<1>4. m \in Nat /\ 1 <= m
  <2>1. Behind \in Nat
    BY <1>2 DEF Behind, Now, StreamKinds
  <2> QED  BY <2>1
<1> HIDE DEF m
<1>5. batch \in Seq(Heard(session))
  <2>1. \A i \in m..n : entries[i] \in Heard(session)
    BY <1>2, <1>4
  <2> HIDE DEF entries, n
  <2> QED  BY <1>2, <1>4, <2>1, SubSeqProperties
<1> QED  BY <1>3, <1>5

LEMMA ConnectStep ==
  ASSUME ClientInv, Connect
  PROVE  ClientInv'
<1> DEFINE n == Len(log[session])
           a == [stream EXCEPT !.offset = n]
           b == [a EXCEPT !.at = n]
           c == [b EXCEPT !.live = TRUE]
<1>1. stream # NoStream
  BY DEF Connect
<1>2. stream \in StreamKinds /\ stream.session = session /\ n \in Nat
  BY <1>1, StreamHas
<1>3. stream' = c /\ Steady /\ phase' = phase /\ session' = session /\ history' = history /\ older' = older
  BY <1>2 DEF Connect, server, Steady
<1> HIDE DEF n
<1>4. doc' \in DocumentsOf(session, requests) /\ ResponseIs(response', session, requests)
  BY ConnectReads, HandleEventsIs
<1>5. a \in StreamKinds /\ a.session = session
  BY <1>2 DEF StreamKinds
<1> HIDE DEF a
<1>6. b \in StreamKinds /\ b.session = session
  BY <1>2, <1>5 DEF StreamKinds
<1> HIDE DEF b
<1>7. c \in StreamKinds /\ c.session = session
  BY <1>6 DEF StreamKinds
<1> HIDE DEF c
<1> QED  BY <1>1, <1>3, <1>4, <1>7, StreamRead

\* The next event of the live connection.
LEMMA DeliverReads ==
  ASSUME ClientInv, Deliver
  PROVE  \E batch \in Seq(Heard(session)) : HandleEvents(batch)
<1> DEFINE entries == log[session]
           n == stream.at + 1
           e == entries[n]
<1>1. stream # NoStream
  BY DEF Deliver, NoStream
<1>2. /\ stream \in StreamKinds /\ stream.session = session /\ entries \in Seq(Heard(session))
      /\ Len(entries) \in Nat
  BY <1>1, StreamHas
<1>3. HandleEvents(<<e>>) /\ stream.at < Len(entries)
  BY <1>2 DEF Deliver
<1>4. n \in 1..Len(entries)
  BY <1>2, <1>3 DEF StreamKinds
<1>5. e \in Heard(session)
  <2> HIDE DEF entries
  <2> QED  BY <1>2, <1>4
<1> HIDE DEF e, n
<1>6. <<e>> \in Seq(Heard(session))
  BY <1>5
<1> QED  BY <1>3, <1>6

LEMMA DeliverStep ==
  ASSUME ClientInv, Deliver
  PROVE  ClientInv'
<1> DEFINE n == stream.at + 1
           c == [stream EXCEPT !.at = n]
<1>1. stream # NoStream
  BY DEF Deliver, NoStream
<1>2. stream \in StreamKinds /\ stream.session = session
  BY <1>1, StreamHas
<1>3. stream' = c /\ Steady /\ phase' = phase /\ session' = session /\ history' = history /\ older' = older
  BY <1>2 DEF Deliver, server, Steady
<1>4. n \in Nat
  BY <1>2 DEF StreamKinds
<1> HIDE DEF n
<1>5. doc' \in DocumentsOf(session, requests) /\ ResponseIs(response', session, requests)
  BY DeliverReads, HandleEventsIs
<1>6. c \in StreamKinds /\ c.session = session
  BY <1>2, <1>4 DEF StreamKinds
<1> HIDE DEF c
<1> QED  BY <1>1, <1>3, <1>5, <1>6, StreamRead

LEMMA CloseStep ==
  ASSUME ClientInv, Close \/ Break
  PROVE  ClientInv'
<1>0. stream.live
  BY DEF Close, Break
<1>1. stream # NoStream
  BY <1>0 DEF NoStream
<1>2. stream \in StreamKinds /\ stream.session = session
  BY <1>1, StreamHas
<1>3. /\ Steady /\ phase' = phase /\ session' = session /\ history' = history /\ older' = older
      /\ doc' = doc /\ response' = response
  BY DEF Close, Break, Steady
<1> DEFINE a == [stream EXCEPT !.live = FALSE]
           b == [a EXCEPT !.at = 0]
<1>4. a \in StreamKinds /\ a.session = session /\ a.offset = stream.offset
  BY <1>2 DEF StreamKinds
<1>5. b \in StreamKinds /\ b.session = session /\ b.offset = stream.offset
  <2> HIDE DEF a
  <2> QED  BY <1>4 DEF StreamKinds
<1>6. CASE Close
  <2>1. PICK offset \in stream.offset..stream.at : stream' = [b EXCEPT !.offset = offset]
    BY <1>6 DEF Close
  <2>2. offset \in Nat \cup {Now}
    BY <1>2 DEF StreamKinds, Now
  <2> HIDE DEF b
  <2>3. [b EXCEPT !.offset = offset] \in StreamKinds /\ [b EXCEPT !.offset = offset].session = session
    BY <1>5, <2>2 DEF StreamKinds
  <2>4. stream' \in StreamKinds /\ stream'.session = session
    BY <2>1, <2>3
  <2> QED  BY <1>1, <1>3, <2>4, StreamRead DEF ClientInv
<1>7. CASE Break
  <2>1. stream' = b
    BY <1>7 DEF Break
  <2> HIDE DEF b
  <2> QED  BY <1>1, <1>3, <1>5, <2>1, StreamRead DEF ClientInv
<1> QED  BY <1>6, <1>7

-----------------------------------------------------------------------------
LEMMA ClientInitially ==
  ASSUME Init
  PROVE  ClientInv
<1>1. /\ created = 1 /\ requests = [r \in Requests |-> Unsent]
      /\ inbox = [s \in Sessions |-> <<>>] /\ log = [s \in Sessions |-> <<>>]
      /\ session = 0 /\ doc = EmptyDoc /\ response = NoResponse /\ history = NoHistory /\ older = 0
      /\ stream = NoStream /\ phase = "idle"
  BY DEF Init, ServerInit
<1>2. 1 \in Sessions
  BY ChatTranscriptsAssumption DEF Sessions
<1>3. GatewayIs(requests, inbox, log)
  <2>1. Unsent \in RequestKinds
    BY <1>2 DEF Unsent, RequestKinds, RequestStates
  <2>2. requests \in [Requests -> RequestKinds]
    BY <1>1, <2>1
  <2>3. inbox \in [Sessions -> Seq(Requests)] /\ log \in [Sessions -> Seq(Requests \X Nat)]
    BY <1>1
  <2>4. \A s \in Sessions : Recorded(s, requests, inbox[s]) /\ Logged(s, requests, log[s])
    BY <1>1 DEF Recorded, Logged
  <2> QED  BY <2>2, <2>3, <2>4 DEF GatewayIs
<1>4. doc \in DocumentsOf(session, requests)
  BY <1>1, EmptyIs
<1>5. /\ ResponseIs(response, session, requests) /\ HistoryIs(history, requests, inbox, log)
      /\ CursorIs(older, session, inbox) /\ StreamIs(stream, session)
  BY <1>1, NothingIs
<1>6. PhaseIs(phase, session, doc, response, history, older, stream)
  BY <1>1 DEF PhaseIs
<1> QED  BY <1>1, <1>2, <1>3, <1>4, <1>5, <1>6 DEF ClientInv

LEMMA ClientStutters ==
  ASSUME ClientInv, UNCHANGED vars
  PROVE  ClientInv'
BY DEF ClientInv, vars, server, client

\* At every moment the inboxes, the logs, the history in progress, the stream and the
\* document are each of one session, and the document and the stream of the active one:
\* whatever the order of replies, events, pages, switches, timeouts and restarts.
THEOREM ClientIsOfOneSession == Spec => []ClientInv
<1>1. ASSUME ClientInv, Next  PROVE ClientInv'
  BY <1>1, GatewayStep, LaunchStep, SessionCreatedStep, SessionResumedStep, SubmitStep, SubmitCommandStep,
     PollReplyStep, PollErrorStep, CommandAnsweredStep, NewSessionStep, ResumeSessionStep, RequestOlderStep,
     ReadMetaStep, ServePageStep, InstallPageStep, HistoryFailsStep, ConnectStep, DeliverStep, CloseStep DEF Next
<1>2. ClientInv /\ [Next]_vars => ClientInv'
  BY <1>1, ClientStutters
<1> QED  BY <1>2, ClientInitially, PTL DEF Spec

LEMMA ExchangesAreOne ==
  ASSUME ClientInv
  PROVE  OneExchangeEach
<1>1. Distinct(doc.exchanges) /\ doc.exchanges \in Seq(Good(doc.pending, session, requests))
  BY DocumentIs DEF ClientInv
<1>2. ASSUME NEW i \in DOMAIN doc.exchanges, NEW j \in DOMAIN doc.exchanges,
             doc.exchanges[i].id = doc.exchanges[j].id
      PROVE  doc.exchanges[i].sub = doc.exchanges[j].sub
  <2>1. doc.exchanges[i] \in Good(doc.pending, session, requests) /\ doc.exchanges[j] \in Good(doc.pending, session, requests)
    BY <1>1
  <2>2. Named(doc.exchanges[i]) /\ Named(doc.exchanges[j])
    BY <2>1 DEF Good
  <2> QED  BY <1>2, <2>2 DEF Named
<1> QED  BY <1>1, <1>2 DEF OneExchangeEach, Distinct

\* However the reply, the stream and the pages of history race, and through every
\* binding and merge of exchanges, no submission is shown twice and no id is given twice.
THEOREM NothingIsShownTwice == Spec => []OneExchangeEach
<1>1. ClientInv => OneExchangeEach
  BY ExchangesAreOne
<1> QED  BY <1>1, ClientIsOfOneSession, PTL

LEMMA RowsAreOfSession ==
  ASSUME ClientInv
  PROVE  RowsOfActiveSession
<1>1. doc.exchanges \in Seq(Good(doc.pending, session, requests))
  BY DocumentIs DEF ClientInv
<1>2. ASSUME NEW i \in DOMAIN doc.exchanges, Bound(doc.exchanges[i])
      PROVE  requests[doc.exchanges[i].sub[2]].session = session
  <2>1. doc.exchanges[i] \in Good(doc.pending, session, requests)
    BY <1>1
  <2> QED  BY <1>2, <2>1 DEF Good, OfSession, Asked
<1>3. stream # NoStream => stream.session = session
  BY DEF ClientInv, StreamIs
<1> QED  BY <1>2, <1>3 DEF RowsOfActiveSession

\* A switch of sessions leaves nothing of the old one: every bound exchange on the
\* screen is of a prompt of the active session, and the stream is that session's.
THEOREM NothingIsLeftOfOtherSessions == Spec => []RowsOfActiveSession
<1>1. ClientInv => RowsOfActiveSession
  BY RowsAreOfSession
<1> QED  BY <1>1, ClientIsOfOneSession, PTL

LEMMA ConcatHas ==
  ASSUME NEW G, NEW xs \in Seq(G), NEW ys \in Seq(G)
  PROVE  Shown(xs \o ys) = Shown(xs) \cup Shown(ys)
<1> DEFINE zs == xs \o ys
           m == Len(xs)
           n == Len(ys)
<1>1. /\ zs \in Seq(G) /\ Len(zs) = m + n /\ DOMAIN zs = 1..(m + n) /\ m \in Nat /\ n \in Nat
      /\ DOMAIN xs = 1..m /\ DOMAIN ys = 1..n
      /\ \A i \in 1..(m + n) : zs[i] = IF i <= m THEN xs[i] ELSE ys[i - m]
  BY ConcatProperties
<1> HIDE DEF zs, m, n
<1>2. ASSUME NEW i \in DOMAIN zs
      PROVE  (i \in DOMAIN xs /\ zs[i] = xs[i]) \/ (i - m \in DOMAIN ys /\ zs[i] = ys[i - m])
  BY <1>1
<1>3. \A i \in DOMAIN xs : i \in DOMAIN zs /\ zs[i] = xs[i]
  BY <1>1
<1>4. ASSUME NEW j \in DOMAIN ys  PROVE m + j \in DOMAIN zs /\ zs[m + j] = ys[j]
  <2>1. j \in Nat /\ 1 <= j /\ j <= n
    BY <1>1
  <2>2. m + j \in 1..(m + n) /\ ~(m + j <= m) /\ (m + j) - m = j
    BY <1>1, <2>1
  <2> QED  BY <1>1, <2>2
<1>5. Shown(zs) \subseteq Shown(xs) \cup Shown(ys)
  BY <1>2 DEF Shown
<1>6. Shown(xs) \subseteq Shown(zs)
  BY <1>3 DEF Shown
<1>7. Shown(ys) \subseteq Shown(zs)
  BY <1>4 DEF Shown
<1> QED  BY <1>5, <1>6, <1>7 DEF zs


-----------------------------------------------------------------------------
(* The prompts in the document.  Of what an exchange shows, its place is left  *)
(* out: no two exchanges have one submission.                                 *)

Shows == Names \X Names \X (Requests \cup {0})

\* What the document of a session may show.
ShownIn(T) ==
  /\ T \subseteq Shows
  /\ \A t \in T : t[2] = SubOf(t[1])
  /\ \A t, u \in T : t[2] = u[2] => t = u

LEMMA ShownIs ==
  ASSUME NEW s, NEW reqs, NEW d \in DocumentsOf(s, reqs)
  PROVE  ShownIn(Shown(d.exchanges))
<1> DEFINE xs == d.exchanges
<1>1. Distinct(xs) /\ \A i \in DOMAIN xs : xs[i] \in Good(d.pending, s, reqs)
  BY DocumentIs
<1> HIDE DEF xs
<1>2. \A i \in DOMAIN xs : xs[i].id \in Names /\ xs[i].sub \in Names /\ xs[i].prompt \in Requests \cup {0}
  BY <1>1 DEF Good, Exchanges
<1>3. \A i \in DOMAIN xs : xs[i].sub = SubOf(xs[i].id)
  BY <1>1 DEF Good, Named
<1>4. Shown(xs) \subseteq Shows
  BY <1>2 DEF Shown, Shows
<1>5. ASSUME NEW t \in Shown(xs)  PROVE t[2] = SubOf(t[1])
  BY <1>3 DEF Shown
<1>6. ASSUME NEW t \in Shown(xs), NEW u \in Shown(xs), t[2] = u[2]  PROVE t = u
  <2>1. PICK i \in DOMAIN xs : t = <<xs[i].id, xs[i].sub, xs[i].prompt>>
    BY DEF Shown
  <2>2. PICK j \in DOMAIN xs : u = <<xs[j].id, xs[j].sub, xs[j].prompt>>
    BY DEF Shown
  <2>3. i = j
    BY <1>1, <1>6, <2>1, <2>2 DEF Distinct
  <2> QED  BY <2>1, <2>2, <2>3
<1> QED  BY <1>4, <1>5, <1>6 DEF ShownIn, xs

LEMMA BeginShows ==
  ASSUME NEW s, NEW reqs, NEW d \in DocumentsOf(s, reqs), NEW prompt \in Requests \cup {0}
  PROVE  /\ Shown(BeginExchange(d, prompt).exchanges)
              = Shown(d.exchanges) \cup {<<PendingId(d), PendingId(d), prompt>>}
         /\ \A t \in Shown(d.exchanges) : t[1] # PendingId(d)
<1> DEFINE n == d.pending + 1
           x == Exchange(<<"pending", n>>, <<"pending", n>>, prompt, {}, "none", "running")
           xs == d.exchanges
           ys == Append(xs, x)
<1>1. /\ d \in Documents /\ d.pending \in Nat /\ xs \in Seq(Exchanges) /\ n \in Nat /\ ~(n <= d.pending)
      /\ \A i \in DOMAIN xs : xs[i] \in Good(d.pending, s, reqs)
  BY DocumentIs
<1>2. BeginExchange(d, prompt).exchanges = ys
  BY <1>1 DEF BeginExchange, PendingId, Documents
<1>3. x.id = PendingId(d) /\ x.sub = PendingId(d) /\ x.prompt = prompt
  BY DEF Exchange, PendingId
<1>4. x \in Exchanges
  BY <1>1 DEF Exchange, Exchanges, Names
<1>5. /\ DOMAIN ys = DOMAIN xs \cup {Len(xs) + 1}
      /\ \A i \in DOMAIN xs : ys[i] = xs[i]
      /\ ys[Len(xs) + 1] = x
  <2> HIDE DEF x, n
  <2>1. /\ Len(ys) = Len(xs) + 1 /\ ys[Len(xs) + 1] = x /\ \A i \in 1..Len(xs) : ys[i] = xs[i]
        /\ Len(xs) \in Nat /\ DOMAIN xs = 1..Len(xs) /\ DOMAIN ys = 1..(Len(xs) + 1)
    BY <1>1, <1>4
  <2> HIDE DEF ys, xs
  <2> QED  BY <2>1
<1>6. Shown(ys) = Shown(xs) \cup {<<x.id, x.sub, x.prompt>>}
  <2> HIDE DEF ys, xs, x
  <2> QED  BY <1>5 DEF Shown
<1>7. ASSUME NEW i \in DOMAIN xs  PROVE xs[i].id # PendingId(d)
  <2> SUFFICES ASSUME xs[i].id = PendingId(d)  PROVE FALSE
    OBVIOUS
  <2>1. Named(xs[i]) /\ Numbered(xs[i], d.pending)
    BY <1>1 DEF Good
  <2>2. xs[i].sub = <<"pending", n>>
    BY <2>1 DEF Named, SubOf, PendingId
  <2>3. xs[i].sub[1] = "pending" /\ xs[i].sub[2] = n
    BY <2>2
  <2> HIDE DEF n, xs
  <2>4. n <= d.pending
    BY <2>1, <2>3 DEF Numbered
  <2> QED  BY <1>1, <2>4
<1>8. \A t \in Shown(xs) : t[1] # PendingId(d)
  <2> HIDE DEF xs
  <2> QED  BY <1>7 DEF Shown
<1> QED  BY <1>2, <1>3, <1>6, <1>8

\* A page adds some of what it shows, under ids and submissions that are new.
LEMMA SnapshotShows ==
  ASSUME NEW s, NEW reqs, NEW d \in DocumentsOf(s, reqs), NEW page \in PagesOf(s, reqs),
         NEW e \in {InstallSnapshot(d, page), PrependSnapshot(d, page)}
  PROVE  /\ Shown(d.exchanges) \subseteq Shown(e.exchanges)
         /\ Shown(e.exchanges) \subseteq Shown(d.exchanges) \cup Shown(page)
<1> DEFINE new == Fresh(d, page)
           c == Tracked(d, new)
           xs == d.exchanges
<1>1. new \in PagesOf(s, reqs)
  BY FreshIs
<1>2. c \in DocumentsOf(s, reqs) /\ c.exchanges = xs
  <2> HIDE DEF new
  <2> QED  BY <1>1, TrackedIs
<1>3. /\ InstallSnapshot(d, page) = [c EXCEPT !.exchanges = c.exchanges \o new]
      /\ PrependSnapshot(d, page) = [c EXCEPT !.exchanges = new \o c.exchanges]
  BY DEF InstallSnapshot, PrependSnapshot
<1>4. \A k \in DOMAIN new : \E i \in DOMAIN page : new[k] = page[i]
  <2> DEFINE I == {i \in DOMAIN page : ~ContainsExchange(d, page[i])}
  <2>1. page \in Seq(Paged(s, reqs)) /\ Distinct(page)
    BY DEF PagesOf
  <2>2. new = Picked(page, I)
    BY DEF Fresh
  <2> HIDE DEF I, new
  <2> QED  BY <2>1, <2>2, PickedDistinct
<1> HIDE DEF new, c
<1>5. c \in Documents /\ xs \in Seq(Exchanges) /\ new \in Seq(Exchanges)
  <2>1. new \in Seq(Exchanges)
    BY <1>1, SeqMonotonic DEF PagesOf, Paged
  <2> QED  BY <1>2, <2>1, DocumentIs
<1>6. e.exchanges \in {xs \o new, new \o xs}
  BY <1>2, <1>3, <1>5 DEF Documents
<1>7. Shown(new) \subseteq Shown(page)
  BY <1>4 DEF Shown
<1> HIDE DEF xs
<1>8. Shown(xs \o new) = Shown(xs) \cup Shown(new) /\ Shown(new \o xs) = Shown(xs) \cup Shown(new)
  BY <1>5, ConcatHas
<1> QED  BY <1>6, <1>7, <1>8 DEF xs

ShowOf(x) == <<x.id, x.sub, x.prompt>>

LEMMA ReplacedShows ==
  ASSUME NEW G, NEW xs \in Seq(G), Distinct(xs), NEW i \in DOMAIN xs, NEW x \in G
  PROVE  Shown([xs EXCEPT ![i] = x]) = (Shown(xs) \ {ShowOf(xs[i])}) \cup {ShowOf(x)}
<1> DEFINE ys == [xs EXCEPT ![i] = x]
<1>1. DOMAIN ys = DOMAIN xs /\ \A j \in DOMAIN xs : ys[j] = IF j = i THEN x ELSE xs[j]
  BY ExceptSeq
<1> HIDE DEF ys
<1>2. ASSUME NEW j \in DOMAIN xs, j # i  PROVE ShowOf(xs[j]) # ShowOf(xs[i])
  BY <1>2 DEF Distinct, ShowOf
<1>3. Shown(ys) \subseteq (Shown(xs) \ {ShowOf(xs[i])}) \cup {ShowOf(x)}
  <2> SUFFICES ASSUME NEW j \in DOMAIN ys
               PROVE  ShowOf(ys[j]) \in (Shown(xs) \ {ShowOf(xs[i])}) \cup {ShowOf(x)}
    BY DEF Shown, ShowOf
  <2>1. CASE j = i
    BY <1>1, <2>1
  <2>2. CASE j # i
    <3>1. ys[j] = xs[j] /\ j \in DOMAIN xs
      BY <1>1, <2>2
    <3>2. ShowOf(xs[j]) \in Shown(xs)
      BY <3>1 DEF Shown, ShowOf
    <3> QED  BY <1>2, <2>2, <3>1, <3>2
  <2> QED  BY <2>1, <2>2
<1>4. ASSUME NEW j \in DOMAIN xs, ShowOf(xs[j]) # ShowOf(xs[i])  PROVE ShowOf(xs[j]) \in Shown(ys)
  <2>1. ys[j] = xs[j] /\ j \in DOMAIN ys
    BY <1>1, <1>4
  <2> QED  BY <2>1 DEF Shown, ShowOf
<1>5. ShowOf(x) \in Shown(ys)
  <2>1. ys[i] = x /\ i \in DOMAIN ys
    BY <1>1
  <2> QED  BY <2>1 DEF Shown, ShowOf
<1>6. Shown(xs) \ {ShowOf(xs[i])} \subseteq Shown(ys)
  <2> SUFFICES ASSUME NEW t \in Shown(xs), t # ShowOf(xs[i])  PROVE t \in Shown(ys)
    OBVIOUS
  <2>1. PICK j \in DOMAIN xs : t = ShowOf(xs[j])
    BY DEF Shown, ShowOf
  <2> QED  BY <1>4, <2>1
<1> QED  BY <1>3, <1>5, <1>6 DEF ys

LEMMA WithoutShows ==
  ASSUME NEW G, NEW xs \in Seq(G), Distinct(xs), NEW i \in DOMAIN xs
  PROVE  Shown(Without(xs, i)) = Shown(xs) \ {ShowOf(xs[i])}
<1> DEFINE a == SubSeq(xs, 1, i - 1)
           b == SubSeq(xs, i + 1, Len(xs))
           n == Len(xs)
<1>1. n \in Nat /\ DOMAIN xs = 1..n /\ i \in 1..n
  OBVIOUS
<1>2. a \in Seq(G) /\ Len(a) = i - 1 /\ \A k \in 1..(i - 1) : a[k] = xs[k]
  BY <1>1
<1>3. b \in Seq(G) /\ Len(b) = n - i /\ \A k \in 1..(n - i) : b[k] = xs[k + i]
  BY <1>1
<1>4. Without(xs, i) = a \o b
  BY DEF Without
<1> HIDE DEF a, b, n
<1>5. DOMAIN a = 1..(i - 1) /\ DOMAIN b = 1..(n - i)
  BY <1>2, <1>3
<1>6. Shown(Without(xs, i)) = Shown(a) \cup Shown(b)
  BY <1>2, <1>3, <1>4, ConcatHas
<1>7. \A k \in DOMAIN a : k \in DOMAIN xs /\ k # i /\ a[k] = xs[k]
  BY <1>1, <1>2, <1>5
<1>8. \A k \in DOMAIN b : k + i \in DOMAIN xs /\ k + i # i /\ b[k] = xs[k + i]
  BY <1>1, <1>3, <1>5, SMTT(60)
<1>9. ASSUME NEW j \in DOMAIN xs, j # i
      PROVE  (j \in DOMAIN a /\ a[j] = xs[j]) \/ (j - i \in DOMAIN b /\ b[j - i] = xs[j])
  <2>1. CASE j < i
    <3>1. j \in 1..(i - 1)
      BY <1>1, <2>1
    <3> QED  BY <1>2, <1>5, <3>1
  <2>2. CASE ~(j < i)
    <3>1. j - i \in 1..(n - i) /\ (j - i) + i = j
      BY <1>1, <1>9, <2>2
    <3> QED  BY <1>3, <1>5, <3>1
  <2> QED  BY <2>1, <2>2
<1>10. ASSUME NEW j \in DOMAIN xs, j # i  PROVE ShowOf(xs[j]) # ShowOf(xs[i]) /\ ShowOf(xs[j]) \in Shown(xs)
  BY <1>10 DEF Distinct, ShowOf, Shown
<1>11. Shown(a) \subseteq Shown(xs) \ {ShowOf(xs[i])} /\ Shown(b) \subseteq Shown(xs) \ {ShowOf(xs[i])}
  <2>1. ASSUME NEW k \in DOMAIN a  PROVE ShowOf(a[k]) \in Shown(xs) \ {ShowOf(xs[i])}
    BY <1>7, <1>10
  <2>2. ASSUME NEW k \in DOMAIN b  PROVE ShowOf(b[k]) \in Shown(xs) \ {ShowOf(xs[i])}
    BY <1>8, <1>10
  <2>3. Shown(a) = {ShowOf(a[k]) : k \in DOMAIN a} /\ Shown(b) = {ShowOf(b[k]) : k \in DOMAIN b}
    BY DEF Shown, ShowOf
  <2> QED  BY <2>1, <2>2, <2>3
<1>12. ASSUME NEW t \in Shown(xs), t # ShowOf(xs[i])  PROVE t \in Shown(a) \cup Shown(b)
  <2>1. PICK j \in DOMAIN xs : t = ShowOf(xs[j])
    BY DEF Shown, ShowOf
  <2>2. j # i
    BY <1>12, <2>1
  <2> QED  BY <1>9, <2>1, <2>2 DEF Shown, ShowOf
<1> QED  BY <1>6, <1>11, <1>12

\* What binding an exchange makes of what is shown: nothing, or the exchange is merged
\* into the one that has the submission, or it gets the submission.
StaysBound(T, U, xid, r, id) ==
  U = T /\ id = xid /\ \A t \in T : t[1] = xid => t[2] = <<"sub", r>>

MergesInto(T, U, xid, r, id) ==
  \E t, u \in T :
    /\ t # u /\ t[1] = xid /\ u[2] = <<"sub", r>> /\ id = u[1]
    /\ U = (T \ {t, u}) \cup {<<u[1], u[2], IF u[3] = 0 THEN t[3] ELSE u[3]>>}

GetsBound(T, U, xid, r, id) ==
  /\ \A u \in T : u[2] # <<"sub", r>>
  /\ id = <<"exchange", r>>
  /\ \E t \in T : t[1] = xid /\ U = (T \ {t}) \cup {<<id, <<"sub", r>>, t[3]>>}

LEMMA MergedShows ==
  ASSUME NEW s, NEW reqs, NEW d \in DocumentsOf(s, reqs), NEW i \in DOMAIN d.exchanges,
         NEW j \in DOMAIN d.exchanges, i # j, NEW r, d.exchanges[j].sub = <<"sub", r>>
  PROVE  MergesInto(Shown(d.exchanges), Shown(Merged(d, i, j).doc.exchanges), d.exchanges[i].id, r, Merged(d, i, j).id)
<1> DEFINE xs == d.exchanges
           x == [xs[j] EXCEPT !.prompt = IF @ = 0 THEN xs[i].prompt ELSE @]
           all == [xs EXCEPT ![j] = x]
           t == ShowOf(xs[i])
           u == ShowOf(xs[j])
<1>1. xs[i] \in Exchanges /\ xs[j] \in Exchanges /\ d \in Documents /\ xs \in Seq(Exchanges) /\ Distinct(xs)
  BY ExchangeAt, DocumentIs
<1>2. /\ x \in Exchanges /\ x.id = xs[j].id /\ x.sub = xs[j].sub
      /\ x.prompt = IF xs[j].prompt = 0 THEN xs[i].prompt ELSE xs[j].prompt
  BY <1>1 DEF Exchanges
<1>3. Merged(d, i, j).doc.exchanges = Without(all, i) /\ Merged(d, i, j).id = xs[j].id
  BY <1>1 DEF Merged, Without, Documents
<1>4. \A k \in DOMAIN xs : xs[k].sub = x.sub => k = j
  BY <1>1, <1>2 DEF Distinct
<1>5. xs[i].sub # xs[j].sub
  BY <1>1 DEF Distinct
<1> HIDE DEF x, xs
<1>6. all \in Seq(Exchanges) /\ Distinct(all)
  BY <1>1, <1>2, <1>4, ReplaceDistinct DEF xs
<1>7. Shown(all) = (Shown(xs) \ {u}) \cup {ShowOf(x)}
  BY <1>1, <1>2, ReplacedShows DEF xs
<1>8. DOMAIN all = DOMAIN xs /\ all[i] = xs[i]
  BY <1>1
<1> HIDE DEF all
<1>9. Shown(Without(all, i)) = Shown(all) \ {t}
  <2>1. i \in DOMAIN all
    BY <1>8 DEF xs
  <2> QED  BY <1>6, <1>8, <2>1, WithoutShows
<1>10. t # u /\ t # ShowOf(x) /\ t \in Shown(xs) /\ u \in Shown(xs)
  BY <1>2, <1>5 DEF ShowOf, Shown, xs
<1>11. ShowOf(x) = <<u[1], u[2], IF u[3] = 0 THEN t[3] ELSE u[3]>>
  BY <1>2 DEF ShowOf
<1>12. t[1] = d.exchanges[i].id /\ u[2] = <<"sub", r>> /\ Merged(d, i, j).id = u[1]
  BY <1>3 DEF ShowOf, xs
<1> HIDE DEF t, u
<1>13. Shown(Without(all, i)) = (Shown(xs) \ {t, u}) \cup {<<u[1], u[2], IF u[3] = 0 THEN t[3] ELSE u[3]>>}
  BY <1>7, <1>9, <1>10, <1>11
<1> QED  BY <1>3, <1>10, <1>12, <1>13 DEF MergesInto, xs

LEMMA RenamedShows ==
  ASSUME NEW s, NEW reqs, NEW d \in DocumentsOf(s, reqs), NEW i \in DOMAIN d.exchanges,
         NEW r, Asked(r, s, reqs), Position(d, "sub", <<"sub", r>>) = {}
  PROVE  GetsBound(Shown(d.exchanges), Shown(Renamed(d, i, <<"sub", r>>).doc.exchanges), d.exchanges[i].id, r,
                   Renamed(d, i, <<"sub", r>>).id)
<1> DEFINE sub == <<"sub", r>>
           id == <<"exchange", r>>
           xs == d.exchanges
           x == [[xs[i] EXCEPT !.id = id] EXCEPT !.sub = sub]
           ys == [xs EXCEPT ![i] = x]
<1>1. xs[i] \in Exchanges /\ d \in Documents /\ xs \in Seq(Exchanges) /\ Distinct(xs)
  BY ExchangeAt, DocumentIs
<1>2. r \in Nat /\ sub \in Names /\ id \in Names
  BY DEF Asked, Names, Requests
<1>3. x \in Exchanges /\ x.sub = sub /\ x.id = id /\ x.prompt = xs[i].prompt
  <2> HIDE DEF sub, id, xs
  <2> QED  BY <1>1, <1>2 DEF Exchanges
<1>4. Renamed(d, i, sub).doc.exchanges = ys /\ Renamed(d, i, sub).id = id
  BY <1>1 DEF Renamed, Documents
<1>5. \A j \in DOMAIN xs : xs[j].sub # sub
  BY DEF Position
<1> HIDE DEF x, sub, id
<1>6. Shown(ys) = (Shown(xs) \ {ShowOf(xs[i])}) \cup {ShowOf(x)}
  <2> HIDE DEF xs
  <2> QED  BY <1>1, <1>3, ReplacedShows DEF xs
<1>7. \A u \in Shown(xs) : u[2] # sub
  BY <1>5 DEF Shown
<1>8. ShowOf(x) = <<id, sub, ShowOf(xs[i])[3]>> /\ ShowOf(xs[i])[1] = xs[i].id /\ ShowOf(xs[i]) \in Shown(xs)
  BY <1>3 DEF ShowOf, Shown
<1> HIDE DEF ys, xs
<1> QED  BY <1>4, <1>6, <1>7, <1>8 DEF GetsBound, sub, id, xs

LEMMA BindShows ==
  ASSUME NEW s, NEW reqs, NEW d \in DocumentsOf(s, reqs), NEW xid, NEW r, Asked(r, s, reqs)
  PROVE  LET b == Bind(d, xid, <<"sub", r>>)
             T == Shown(d.exchanges)
             U == Shown(b.doc.exchanges)
         IN  StaysBound(T, U, xid, r, b.id) \/ MergesInto(T, U, xid, r, b.id) \/ GetsBound(T, U, xid, r, b.id)
<1> DEFINE sub == <<"sub", r>>
           source == Position(d, "id", xid)
           target == Position(d, "sub", sub)
           b == Bind(d, xid, sub)
           T == Shown(d.exchanges)
           U == Shown(b.doc.exchanges)
<1>1. CASE source = {} \/ target = source
  <2>1. b.doc = d /\ b.id = xid
    BY <1>1 DEF Bind
  <2>2. \A i \in DOMAIN d.exchanges : d.exchanges[i].id = xid => d.exchanges[i].sub = sub
    BY <1>1 DEF Position
  <2>3. \A t \in T : t[1] = xid => t[2] = sub
    BY <2>2 DEF Shown
  <2> HIDE DEF sub, b
  <2> QED  BY <2>1, <2>3 DEF StaysBound, sub, b
<1>2. CASE source # {} /\ target # source /\ target # {}
  <2> DEFINE i == The(source)
             j == The(target)
  <2>1. b = Merged(d, i, j)
    BY <1>2 DEF Bind
  <2>2. /\ i \in DOMAIN d.exchanges /\ d.exchanges[i].id = xid
        /\ j \in DOMAIN d.exchanges /\ d.exchanges[j].sub = sub
    <3>1. i \in DOMAIN d.exchanges /\ d.exchanges[i]["id"] = xid
      BY <1>2, PositionIs
    <3>2. j \in DOMAIN d.exchanges /\ d.exchanges[j]["sub"] = sub
      BY <1>2, PositionIs
    <3> HIDE DEF i, j
    <3> QED  BY <3>1, <3>2
  <2>3. i # j
    <3> SUFFICES ASSUME i = j  PROVE source = target
      BY <1>2
    <3>1. Distinct(d.exchanges) /\ \A k \in DOMAIN d.exchanges : d.exchanges[k].sub = SubOf(d.exchanges[k].id)
      <4>1. Distinct(d.exchanges) /\ \A k \in DOMAIN d.exchanges : d.exchanges[k] \in Good(d.pending, s, reqs)
        BY DocumentIs
      <4> QED  BY <4>1 DEF Good, Named
    <3> HIDE DEF i, j
    <3>2. \A k \in DOMAIN d.exchanges : d.exchanges[k].id = xid => d.exchanges[k].sub = sub
      BY <2>2, <3>1
    <3>3. \A k \in DOMAIN d.exchanges : d.exchanges[k].sub = sub => k = i
      BY <2>2, <3>1 DEF Distinct
    <3> QED  BY <2>2, <3>2, <3>3 DEF Position
  <2> HIDE DEF i, j, sub
  <2>4. MergesInto(T, Shown(Merged(d, i, j).doc.exchanges), d.exchanges[i].id, r, Merged(d, i, j).id)
    BY <2>2, <2>3, MergedShows DEF sub
  <2> QED  BY <2>1, <2>2, <2>4 DEF sub
<1>3. CASE source # {} /\ target # source /\ target = {}
  <2> DEFINE i == The(source)
  <2>1. b = Renamed(d, i, sub)
    BY <1>3 DEF Bind
  <2>2. i \in DOMAIN d.exchanges /\ d.exchanges[i].id = xid
    <3>1. i \in DOMAIN d.exchanges /\ d.exchanges[i]["id"] = xid
      BY <1>3, PositionIs
    <3> HIDE DEF i
    <3> QED  BY <3>1
  <2> HIDE DEF i
  <2>3. GetsBound(T, Shown(Renamed(d, i, sub).doc.exchanges), d.exchanges[i].id, r, Renamed(d, i, sub).id)
    BY <1>3, <2>2, RenamedShows
  <2> QED  BY <2>1, <2>2, <2>3
<1> QED  BY <1>1, <1>2, <1>3
-----------------------------------------------------------------------------
(* What binding, events and pages do to the prompts submitted here.            *)

\* One exchange shows the prompt.
Single(T, r) == \E t \in T : t[3] = r /\ \A u \in T : u[3] = r => u = t

\* No exchange does, since another one, with a prompt of its own, has the submission.
Lost(T, r, id) ==
  /\ \A t \in T : t[3] # r
  /\ \E t \in T : t[2] = <<"sub", r>> /\ t[3] # 0 /\ t[1] # id

KeptIn(T, mine, id) == \A r \in mine : Single(T, r) \/ Lost(T, r, id)

\* Prompts that are shown have been sent.
SentIn(T, reqs) == \A t \in T : t[3] # 0 => reqs[t[3]].state # "unsent"

\* The prompt that the exchange in progress shows.
PromptOf(rsp, mine) == IF rsp.request \in mine THEN rsp.request ELSE 0

WaitsIn(T, rsp, mine) ==
  rsp = NoResponse \/ \E t \in T : t[1] = rsp.exchange /\ t[3] = PromptOf(rsp, mine)

LEMMA IdsDiffer ==
  ASSUME NEW T, ShownIn(T), NEW t \in T, NEW u \in T, t[1] = u[1]
  PROVE  t = u
BY DEF ShownIn

LEMMA ContinuesKeeps ==
  ASSUME NEW T, NEW U, Continues(T, U), NEW mine, 0 \notin mine, NEW id, KeptIn(T, mine, id)
  PROVE  KeptIn(U, mine, id)
<1> SUFFICES ASSUME NEW r \in mine  PROVE Single(U, r) \/ Lost(U, r, id)
  BY DEF KeptIn
<1>1. r # 0
  OBVIOUS
<1>2. \A u \in U : u[3] = r => u \in T
  BY <1>1 DEF Continues
<1>3. CASE Single(T, r)
  BY <1>2, <1>3 DEF Single, Continues
<1>4. CASE Lost(T, r, id)
  BY <1>2, <1>4 DEF Lost, Continues
<1> QED  BY <1>3, <1>4 DEF KeptIn

LEMMA ContinuesWaits ==
  ASSUME NEW T, NEW U, Continues(T, U), NEW reqs, SentIn(T, reqs)
  PROVE  /\ SentIn(U, reqs)
         /\ \A rsp, mine : WaitsIn(T, rsp, mine) => WaitsIn(U, rsp, mine)
BY DEF Continues, SentIn, WaitsIn

LEMMA BeginKept ==
  ASSUME NEW T, NEW mine, 0 \notin mine, NEW id, KeptIn(T, mine, id), NEW new, NEW prompt,
         \A t \in T : t[1] # new, prompt # 0 => \A t \in T : t[3] # prompt, prompt = 0 \/ prompt \notin mine
  PROVE  KeptIn(T \cup {<<new, new, prompt>>}, IF prompt = 0 THEN mine ELSE mine \cup {prompt}, new)
<1> DEFINE x == <<new, new, prompt>>
           U == T \cup {x}
<1>1. x[3] = prompt
  OBVIOUS
<1> HIDE DEF x
<1>2. ASSUME NEW r \in mine  PROVE Single(U, r) \/ Lost(U, r, new)
  <2>1. r # prompt
    BY <1>2
  <2>2. CASE Single(T, r)
    BY <1>1, <2>1, <2>2 DEF Single
  <2>3. CASE Lost(T, r, id)
    BY <1>1, <2>1, <2>3 DEF Lost
  <2> QED  BY <1>2, <2>2, <2>3 DEF KeptIn
<1>3. ASSUME prompt # 0  PROVE Single(U, prompt)
  BY <1>1, <1>3 DEF Single
<1> QED  BY <1>2, <1>3 DEF KeptIn, x

\* A page adds no prompt submitted here.
LEMMA PageKept ==
  ASSUME NEW T, NEW U, NEW N, T \subseteq U, U \subseteq T \cup N, NEW mine, NEW id, KeptIn(T, mine, id),
         \A t \in N : t[3] \notin mine
  PROVE  KeptIn(U, mine, id)
<1> SUFFICES ASSUME NEW r \in mine  PROVE Single(U, r) \/ Lost(U, r, id)
  BY DEF KeptIn
<1>1. \A u \in U : u[3] = r => u \in T
  OBVIOUS
<1>2. CASE Single(T, r)
  BY <1>1, <1>2 DEF Single
<1>3. CASE Lost(T, r, id)
  BY <1>1, <1>3 DEF Lost
<1> QED  BY <1>2, <1>3 DEF KeptIn

\* An exchange that gets its submission goes on showing its prompt.
LEMMA GetsKept ==
  ASSUME NEW T, ShownIn(T), NEW U, NEW xid, NEW r, NEW id, GetsBound(T, U, xid, r, id),
         NEW mine, KeptIn(T, mine, xid), NEW next, next = id \/ next = <<>>
  PROVE  KeptIn(U, mine, next)
<1>1. PICK t \in T : t[1] = xid /\ U = (T \ {t}) \cup {<<id, <<"sub", r>>, t[3]>>}
  BY DEF GetsBound
<1> DEFINE x == <<id, <<"sub", r>>, t[3]>>
<1>2. x[3] = t[3] /\ U = (T \ {t}) \cup {x}
  BY <1>1
<1> HIDE DEF x
<1>3. ASSUME NEW q \in mine, Single(T, q)  PROVE Single(U, q)
  BY <1>2, <1>3 DEF Single
<1>4. ASSUME NEW q \in mine, Lost(T, q, xid)  PROVE Lost(U, q, next)
  <2>1. PICK w \in T : w[2] = <<"sub", q>> /\ w[3] # 0 /\ w[1] # xid
    BY <1>4 DEF Lost
  <2>2. w # t /\ w \in U
    BY <1>1, <1>2, <2>1
  <2>3. w[1] # next
    <3>1. w[1] \in Names /\ w[2] = SubOf(w[1]) /\ w[2] # <<"sub", r>>
      BY DEF ShownIn, Shows, GetsBound
    <3>2. w[1] # <<>>
      <4>1. <<>> \notin Names
        BY DEF Names
      <4> QED  BY <3>1, <4>1
    <3>3. ASSUME w[1] = id  PROVE FALSE
      <4>1. id = <<"exchange", r>>
        BY DEF GetsBound
      <4>2. w[2] = <<"sub", r>>
        BY <3>1, <3>3, <4>1 DEF SubOf
      <4> QED  BY <3>1, <4>2
    <3> QED  BY <3>2, <3>3
  <2>4. \A u \in U : u[3] # q
    BY <1>1, <1>2, <1>4 DEF Lost
  <2> QED  BY <2>1, <2>2, <2>3, <2>4 DEF Lost
<1> QED  BY <1>3, <1>4 DEF KeptIn

\* An exchange that is merged gives its prompt away, or loses it to a submission that
\* already shows one.
LEMMA MergesKept ==
  ASSUME NEW T, ShownIn(T), NEW U, NEW xid, NEW r, NEW id, MergesInto(T, U, xid, r, id),
         NEW mine, 0 \notin mine, KeptIn(T, mine, xid),
         \A t \in T : t[1] = xid => t[3] \in {0, r}
  PROVE  KeptIn(U, mine, <<>>)
<1>1. PICK t \in T, u \in T : /\ t # u /\ t[1] = xid /\ u[2] = <<"sub", r>> /\ id = u[1]
                              /\ U = (T \ {t, u}) \cup {<<u[1], u[2], IF u[3] = 0 THEN t[3] ELSE u[3]>>}
  BY DEF MergesInto
<1> DEFINE v == <<u[1], u[2], IF u[3] = 0 THEN t[3] ELSE u[3]>>
<1>2. /\ U = (T \ {t, u}) \cup {v} /\ v[1] = u[1] /\ v[2] = u[2]
      /\ v[3] = IF u[3] = 0 THEN t[3] ELSE u[3]
  BY <1>1
<1>3. u[3] # 0 => v = u
  <2>1. u \in Shows
    BY DEF ShownIn
  <2>2. u = <<u[1], u[2], u[3]>>
    BY <2>1 DEF Shows
  <2> QED  BY <2>2
<1> HIDE DEF v
<1>4. \A w \in T : w[1] # <<>>
  <2>1. <<>> \notin Names
    BY DEF Names
  <2> QED  BY <2>1 DEF ShownIn, Shows
<1>5. ASSUME NEW q \in mine, Single(T, q)  PROVE Single(U, q) \/ Lost(U, q, <<>>)
  <2>1. PICK w \in T : w[3] = q /\ \A x \in T : x[3] = q => x = w
    BY <1>5 DEF Single
  <2>2. q # 0
    OBVIOUS
  <2>3. CASE w = t /\ u[3] = 0
    <3>1. v[3] = q /\ \A x \in U : x[3] = q => x = v
      BY <1>2, <2>1, <2>3
    <3> QED  BY <1>2, <3>1 DEF Single
  <2>4. CASE w = t /\ u[3] # 0
    <3>1. q = r
      BY <1>1, <2>1, <2>2, <2>4
    <3>2. u[3] # q
      BY <1>1, <2>1, <2>4
    <3>3. \A x \in U : x[3] # q
      BY <1>2, <1>3, <2>1, <2>4, <3>2
    <3>4. v \in U /\ v[2] = <<"sub", q>> /\ v[3] # 0 /\ v[1] # <<>>
      BY <1>1, <1>2, <1>4, <2>4, <3>1
    <3> QED  BY <3>3, <3>4 DEF Lost
  <2>5. CASE w = u
    <3>1. v = w
      BY <1>3, <2>1, <2>2, <2>5
    <3>2. w \in U /\ \A x \in U : x[3] = q => x = w
      BY <1>2, <2>1, <3>1
    <3> QED  BY <2>1, <3>2 DEF Single
  <2>6. CASE w # t /\ w # u
    <3>1. v[3] # q
      BY <1>2, <2>1, <2>6
    <3>2. w \in U /\ \A x \in U : x[3] = q => x = w
      BY <1>2, <2>1, <2>6, <3>1
    <3> QED  BY <2>1, <3>2 DEF Single
  <2> QED  BY <2>3, <2>4, <2>5, <2>6
<1>6. ASSUME NEW q \in mine, Lost(T, q, xid)  PROVE Lost(U, q, <<>>)
  <2>1. PICK w \in T : w[2] = <<"sub", q>> /\ w[3] # 0 /\ w[1] # xid
    BY <1>6 DEF Lost
  <2>2. w # t
    BY <1>1, <2>1
  <2>3. w \in U
    BY <1>2, <1>3, <2>1, <2>2
  <2>4. v[3] # q
    BY <1>2, <1>6 DEF Lost
  <2>5. \A x \in U : x[3] # q
    BY <1>2, <1>6, <2>4 DEF Lost
  <2> QED  BY <1>4, <2>1, <2>3, <2>5 DEF Lost
<1> QED  BY <1>5, <1>6 DEF KeptIn

\* With nothing in progress, an exchange that has a submission keeps it.
LEMMA KeptAfter ==
  ASSUME NEW T, ShownIn(T), NEW mine, NEW id, KeptIn(T, mine, id)
  PROVE  KeptIn(T, mine, <<>>)
<1>1. \A w \in T : w[1] # <<>>
  <2>1. <<>> \notin Names
    BY DEF Names
  <2> QED  BY <2>1 DEF ShownIn, Shows
<1> QED  BY <1>1 DEF KeptIn, Lost

\* The reply ends the wait.
LEMMA ReplyKept ==
  ASSUME NEW T, ShownIn(T), NEW U, NEW rsp, NEW id, NEW mine, 0 \notin mine, KeptIn(T, mine, rsp.exchange),
         rsp # NoResponse, WaitsIn(T, rsp, mine),
         \/ StaysBound(T, U, rsp.exchange, rsp.request, id)
         \/ MergesInto(T, U, rsp.exchange, rsp.request, id)
         \/ GetsBound(T, U, rsp.exchange, rsp.request, id)
  PROVE  KeptIn(U, mine, <<>>)
<1>1. \A t \in T : t[1] = rsp.exchange => t[3] \in {0, rsp.request}
  <2>1. PICK t \in T : t[1] = rsp.exchange /\ t[3] = PromptOf(rsp, mine)
    BY DEF WaitsIn
  <2>2. t[3] \in {0, rsp.request}
    BY <2>1 DEF PromptOf
  <2> QED  BY <2>1, <2>2, IdsDiffer
<1>2. CASE StaysBound(T, U, rsp.exchange, rsp.request, id)
  BY <1>2, KeptAfter DEF StaysBound
<1>3. CASE MergesInto(T, U, rsp.exchange, rsp.request, id)
  BY <1>1, <1>3, MergesKept
<1>4. CASE GetsBound(T, U, rsp.exchange, rsp.request, id)
  BY <1>4, GetsKept
<1> QED  BY <1>2, <1>3, <1>4

LEMMA BindSent ==
  ASSUME NEW T, NEW U, NEW xid, NEW r, NEW id, NEW reqs, SentIn(T, reqs),
         StaysBound(T, U, xid, r, id) \/ MergesInto(T, U, xid, r, id) \/ GetsBound(T, U, xid, r, id)
  PROVE  SentIn(U, reqs)
<1>1. CASE StaysBound(T, U, xid, r, id)
  BY <1>1 DEF StaysBound
<1>2. CASE MergesInto(T, U, xid, r, id)
  <2>1. PICK t \in T, u \in T : U = (T \ {t, u}) \cup {<<u[1], u[2], IF u[3] = 0 THEN t[3] ELSE u[3]>>}
    BY <1>2 DEF MergesInto
  <2> DEFINE v == <<u[1], u[2], IF u[3] = 0 THEN t[3] ELSE u[3]>>
  <2>2. v[3] = t[3] \/ v[3] = u[3]
    OBVIOUS
  <2>3. U = (T \ {t, u}) \cup {v}
    BY <2>1
  <2> HIDE DEF v
  <2> QED  BY <2>2, <2>3 DEF SentIn
<1>3. CASE GetsBound(T, U, xid, r, id)
  <2>1. PICK t \in T : U = (T \ {t}) \cup {<<id, <<"sub", r>>, t[3]>>}
    BY <1>3 DEF GetsBound
  <2> DEFINE v == <<id, <<"sub", r>>, t[3]>>
  <2>2. v[3] = t[3] /\ U = (T \ {t}) \cup {v}
    BY <2>1
  <2> HIDE DEF v
  <2> QED  BY <2>2 DEF SentIn
<1> QED  BY <1>1, <1>2, <1>3

-----------------------------------------------------------------------------
(* What keeps the prompts submitted here apart from those of a page: no prompt *)
(* that a page may still bring was submitted into the present document.        *)

NoneBefore(mine, c, box) == \A r \in mine : ~Before(r, c, box)

\* The prompts submitted here are of the session, and there are none before it is known.
OwnIs(mine, ph, s, reqs) ==
  /\ \A r \in mine : Asked(r, s, reqs)
  /\ ph \in {"idle", "creating", "resuming"} => mine = {}

DocumentShows(T, mine, rsp, reqs) ==
  /\ SentIn(T, reqs)
  /\ WaitsIn(T, rsp, mine)
  /\ KeptIn(T, mine, rsp.exchange)

HistoryLeaves(h, s, mine, boxes) ==
  h # NoHistory /\ h.session = s =>
    /\ h.cursor = 0 => mine = {}
    /\ NoneBefore(mine, h.cursor, boxes[s])
    /\ NoneBefore(mine, h.page.before, boxes[s])
    /\ \A t \in Shown(h.page.exchanges) : t[3] \notin mine

PromptInv ==
  /\ OwnIs(own, phase, session, requests)
  /\ DocumentShows(Shown(doc.exchanges), own, response, requests)
  /\ SentIn(Shown(history.page.exchanges), requests)
  /\ NoneBefore(own, older, inbox[session])
  /\ HistoryLeaves(history, session, own, inbox)

LEMMA OwnAre ==
  ASSUME NEW mine, NEW ph, NEW s, NEW reqs, OwnIs(mine, ph, s, reqs)
  PROVE  mine \subseteq Requests /\ 0 \notin mine /\ \A r \in mine : reqs[r].state # "unsent"
<1>1. mine \subseteq Requests /\ \A r \in mine : reqs[r].state # "unsent"
  BY DEF OwnIs, Asked
<1>2. 0 \notin Requests
  BY DEF Requests
<1> QED  BY <1>1, <1>2

\* No prompt is before none.
LEMMA NoneBeforeNone ==
  ASSUME NEW box \in Seq(Requests), NEW mine
  PROVE  NoneBefore(mine, 0, box)
<1>1. \A j \in DOMAIN box : box[j] # 0
  <2>1. \A j \in DOMAIN box : box[j] \in Requests
    OBVIOUS
  <2> QED  BY <2>1 DEF Requests
<1> QED  BY <1>1 DEF NoneBefore, Before

\* A prompt received is after all those that are there.
LEMMA NoneBeforeLater ==
  ASSUME NEW box \in Seq(Requests), NEW x \in Requests, x \notin Elements(box),
         NEW c, c = 0 \/ c \in Elements(box), NEW mine, NoneBefore(mine, c, box)
  PROVE  NoneBefore(mine, c, Append(box, x))
<1> DEFINE n == Len(box)
           new == Append(box, x)
<1>1. /\ n \in Nat /\ DOMAIN box = 1..n /\ DOMAIN new = 1..(n + 1)
      /\ new[n + 1] = x /\ \A i \in 1..n : new[i] = box[i]
  OBVIOUS
<1>2. c # x
  BY DEF Requests
<1> HIDE DEF n, new
<1>3. ASSUME NEW r \in mine, Before(r, c, new)  PROVE FALSE
  <2>1. PICK i \in DOMAIN new, j \in DOMAIN new : i < j /\ new[i] = r /\ new[j] = c
    BY <1>3 DEF Before
  <2>2. j # n + 1
    BY <1>1, <1>2, <2>1
  <2>3. i \in DOMAIN box /\ j \in DOMAIN box
    BY <1>1, <2>1, <2>2
  <2>4. box[i] = r /\ box[j] = c
    BY <1>1, <2>1, <2>3
  <2>5. Before(r, c, box)
    BY <2>1, <2>3, <2>4 DEF Before
  <2> QED  BY <2>5 DEF NoneBefore
<1> QED  BY <1>3 DEF NoneBefore, new

\* What is before one that is before c is before c.
LEMMA BeforeOn ==
  ASSUME NEW box \in Seq(Requests), Once(box), NEW p, NEW q, NEW c, Before(p, q, box), Before(q, c, box)
  PROVE  Before(p, c, box)
<1>1. PICK i \in DOMAIN box, j \in DOMAIN box : i < j /\ box[i] = p /\ box[j] = q
  BY DEF Before
<1>2. PICK k \in DOMAIN box, l \in DOMAIN box : k < l /\ box[k] = q /\ box[l] = c
  BY DEF Before
<1>3. j = k
  BY <1>1, <1>2 DEF Once
<1>4. i < l
  BY <1>1, <1>2, <1>3
<1> QED  BY <1>1, <1>2, <1>4 DEF Before

LEMMA InboxIs ==
  ASSUME NEW reqs, NEW boxes, NEW logs, GatewayIs(reqs, boxes, logs), NEW s \in Sessions
  PROVE  /\ boxes[s] \in Seq(Requests) /\ Once(boxes[s])
         /\ \A q \in Elements(boxes[s]) : q \in Requests /\ reqs[q].state # "unsent"
<1>1. boxes[s] \in Seq(Requests) /\ Recorded(s, reqs, boxes[s])
  BY DEF GatewayIs
<1> QED  BY <1>1 DEF Recorded, Once, Elements

\* A page up to a cursor that no prompt submitted here precedes brings none of them.
LEMMA PageLeaves ==
  ASSUME GatewayIs(requests, inbox, log), NEW s \in Sessions, NEW cut \in Nat, cut <= Len(log[s]),
         NEW from, CursorIs(from, s, inbox)
  PROVE  /\ SentIn(Shown(Page(s, cut, from).exchanges), requests)
         /\ \A mine : (from = 0 => mine = {}) /\ 0 \notin mine /\ NoneBefore(mine, from, inbox[s]) =>
              /\ NoneBefore(mine, Page(s, cut, from).before, inbox[s])
              /\ \A t \in Shown(Page(s, cut, from).exchanges) : t[3] \notin mine
<1> DEFINE page == Page(s, cut, from)
           old == Elements(Older(s, from))
<1>1. /\ page.before = 0 \/ page.before \in old
      /\ \A t \in Shown(page.exchanges) : t[3] = 0 \/ t[3] \in old
  BY PageIs
<1>2. old \subseteq Elements(inbox[s]) /\ (from # 0 => \A q \in old : Before(q, from, inbox[s]))
  BY OlderIs
<1>3. /\ inbox[s] \in Seq(Requests) /\ Once(inbox[s])
      /\ \A q \in Elements(inbox[s]) : q \in Requests /\ requests[q].state # "unsent"
  BY InboxIs
<1> HIDE DEF page, old
<1>4. SentIn(Shown(page.exchanges), requests)
  BY <1>1, <1>2, <1>3 DEF SentIn
<1>5. ASSUME NEW mine, from = 0 => mine = {}, 0 \notin mine, NoneBefore(mine, from, inbox[s])
      PROVE  /\ NoneBefore(mine, page.before, inbox[s])
             /\ \A t \in Shown(page.exchanges) : t[3] \notin mine
  <2>1. CASE from = 0
    BY <1>5, <2>1 DEF NoneBefore
  <2>2. CASE from # 0
    <3>1. NoneBefore(mine, page.before, inbox[s])
      <4>1. CASE page.before = 0
        BY <1>3, <4>1, NoneBeforeNone
      <4>2. CASE page.before \in old
        <5>1. Before(page.before, from, inbox[s])
          BY <1>2, <2>2, <4>2
        <5> QED  BY <1>3, <1>5, <5>1, BeforeOn DEF NoneBefore
      <4> QED  BY <1>1, <4>1, <4>2
    <3>2. \A t \in Shown(page.exchanges) : t[3] \notin mine
      BY <1>1, <1>2, <1>5, <2>2 DEF NoneBefore
    <3> QED  BY <3>1, <3>2
  <2> QED  BY <2>1, <2>2
<1> QED  BY <1>4, <1>5 DEF page

-----------------------------------------------------------------------------
(* The prompts through each step.                                              *)

\* With none submitted here, all that is left to say is what the document shows.
LEMMA NoneSubmitted ==
  ASSUME NEW ph, NEW s, NEW reqs, NEW boxes, NEW c, NEW h, NEW T, NEW rsp
  PROVE  OwnIs({}, ph, s, reqs) /\ NoneBefore({}, c, boxes[s]) /\ HistoryLeaves(h, s, {}, boxes) /\ KeptIn(T, {}, rsp)
BY DEF OwnIs, NoneBefore, HistoryLeaves, KeptIn

LEMMA NothingShown ==
  ASSUME NEW mine, NEW reqs
  PROVE  /\ Shown(<<>>) = {} /\ Shown(NoHistory.page.exchanges) = {} /\ SentIn({}, reqs)
         /\ WaitsIn({}, NoResponse, mine)
         /\ \A boxes, s : HistoryLeaves(NoHistory, s, mine, boxes)
<1>1. Shown(<<>>) = {} /\ NoHistory.page.exchanges = <<>>
  BY DEF Shown, NoHistory
<1> QED  BY <1>1 DEF SentIn, WaitsIn, HistoryLeaves

\* Prompts that were sent remain so.
LEMMA SentOnward ==
  ASSUME NEW reqs, NEW next, Onward(reqs, next), NEW T, SentIn(T, reqs), \A t \in T : t[3] \in Requests \cup {0}
  PROVE  SentIn(T, next)
BY DEF Onward, SentIn

LEMMA PagedShows ==
  ASSUME NEW h, h \in HistoryKinds
  PROVE  \A t \in Shown(h.page.exchanges) : t[3] \in Requests \cup {0}
<1>1. h.page.exchanges \in Seq(Exchanges)
  BY DEF HistoryKinds, PageKinds
<1> DEFINE xs == h.page.exchanges
<1>2. \A i \in DOMAIN xs : xs[i].prompt \in Requests \cup {0}
  <2>1. \A i \in DOMAIN xs : xs[i] \in Exchanges
    BY <1>1
  <2> HIDE DEF xs
  <2> QED  BY <2>1 DEF Exchanges
<1> HIDE DEF xs
<1>3. \A t \in Shown(xs) : t[3] \in Requests \cup {0}
  BY <1>2 DEF Shown
<1> QED  BY <1>3 DEF xs

LEMMA HistoryKind ==
  ASSUME ClientInv
  PROVE  history \in HistoryKinds /\ \A t \in Shown(history.page.exchanges) : t[3] \in Requests \cup {0}
<1>1. history \in HistoryKinds
  BY DEF ClientInv, HistoryIs
<1> QED  BY <1>1, PagedShows

Early == {"idle", "creating", "resuming"}

LEMMA OwnOnward ==
  ASSUME NEW mine, NEW ph, NEW s, NEW reqs, OwnIs(mine, ph, s, reqs), NEW next, Onward(reqs, next),
         NEW later, later \in Early => ph \in Early
  PROVE  OwnIs(mine, later, s, next)
BY OnwardKeeps DEF OwnIs, Early

LEMMA ServerReceives ==
  ASSUME GatewayIs(requests, inbox, log), ServerStep, NEW s \in Sessions
  PROVE  inbox'[s] = inbox[s] \/ \E r \in Requests \ Elements(inbox[s]) : inbox'[s] = Append(inbox[s], r)
<1>1. inbox' = inbox \/ \E r \in Requests : Receive(r)
  BY DEF ServerStep, SendElsewhere, Refuse, Admit, Emit, Settle, TimeOut, Crash
<1>2. ASSUME NEW r \in Requests, Receive(r)
      PROVE  inbox'[s] = inbox[s] \/ (r \notin Elements(inbox[s]) /\ inbox'[s] = Append(inbox[s], r))
  <2>1. requests[r].state = "sent" /\ inbox' = [inbox EXCEPT ![requests[r].session] = Append(@, r)]
    BY <1>2 DEF Receive
  <2>2. inbox \in [Sessions -> Seq(Requests)] /\ Recorded(s, requests, inbox[s])
    BY DEF GatewayIs
  <2>3. r \notin Elements(inbox[s])
    BY <2>1, <2>2 DEF Recorded, Elements
  <2> QED  BY <2>1, <2>2, <2>3
<1> QED  BY <1>1, <1>2

LEMMA GatewayLeaves ==
  ASSUME GatewayIs(requests, inbox, log), ServerStep, NEW s \in Sessions, NEW c, CursorIs(c, s, inbox),
         NEW mine, NoneBefore(mine, c, inbox[s])
  PROVE  NoneBefore(mine, c, inbox'[s])
<1>1. inbox[s] \in Seq(Requests) /\ (c = 0 \/ c \in Elements(inbox[s]))
  BY InboxIs DEF CursorIs
<1>2. CASE inbox'[s] = inbox[s]
  BY <1>2
<1>3. ASSUME NEW r \in Requests \ Elements(inbox[s]), inbox'[s] = Append(inbox[s], r)
      PROVE  NoneBefore(mine, c, inbox'[s])
  BY <1>1, <1>3, NoneBeforeLater
<1> QED  BY <1>2, <1>3, ServerReceives

LEMMA GatewayPrompts ==
  ASSUME ClientInv, PromptInv, Gateway
  PROVE  PromptInv'
<1>1. /\ ServerStep /\ phase' = phase /\ session' = session /\ doc' = doc /\ response' = response
      /\ history' = history /\ older' = older /\ own' = own
  BY DEF Gateway, client
<1>2. Onward(requests, requests') /\ GatewayIs(requests, inbox, log) /\ CursorIs(older, session, inbox)
  BY <1>1, ServerKeeps DEF ClientInv
<1>3. OwnIs(own, phase, session, requests')
  BY <1>2, OwnOnward DEF PromptInv
<1>4. DocumentShows(Shown(doc.exchanges), own, response, requests')
  <2>1. \A t \in Shown(doc.exchanges) : t[3] \in Requests \cup {0}
    BY ShownIs DEF ClientInv, ShownIn, Shows
  <2> QED  BY <1>2, <2>1, SentOnward DEF PromptInv, DocumentShows
<1>5. SentIn(Shown(history.page.exchanges), requests')
  BY <1>2, HistoryKind, SentOnward DEF PromptInv
<1>6. NoneBefore(own, older, inbox'[session])
  <2>1. CASE own = {}
    BY <2>1 DEF NoneBefore
  <2>2. CASE own # {}
    <3>1. session \in Sessions
      <4>1. PICK r \in own : Asked(r, session, requests)
        BY <2>2 DEF PromptInv, OwnIs
      <4>2. requests \in [Requests -> RequestKinds]
        BY <1>2 DEF GatewayIs
      <4> QED  BY <4>1, <4>2 DEF Asked, RequestKinds
    <3> QED  BY <1>1, <1>2, <3>1, GatewayLeaves DEF PromptInv
  <2> QED  BY <2>1, <2>2
<1>7. HistoryLeaves(history, session, own, inbox')
  <2> SUFFICES ASSUME history # NoHistory, history.session = session
               PROVE  /\ history.cursor = 0 => own = {}
                      /\ NoneBefore(own, history.cursor, inbox'[session])
                      /\ NoneBefore(own, history.page.before, inbox'[session])
                      /\ \A t \in Shown(history.page.exchanges) : t[3] \notin own
    BY DEF HistoryLeaves
  <2>1. /\ history.cursor = 0 => own = {}
        /\ NoneBefore(own, history.cursor, inbox[session])
        /\ NoneBefore(own, history.page.before, inbox[session])
        /\ \A t \in Shown(history.page.exchanges) : t[3] \notin own
    BY DEF PromptInv, HistoryLeaves
  <2>2. /\ session \in Sessions /\ CursorIs(history.cursor, session, inbox)
        /\ CursorIs(history.page.before, session, inbox)
    BY HistoryHas
  <2> QED  BY <1>1, <1>2, <2>1, <2>2, GatewayLeaves
<1> QED  BY <1>1, <1>3, <1>4, <1>5, <1>6, <1>7 DEF PromptInv

\* The phase goes on, a request for history begins or fails: nothing that is shown changes.
LEMMA LaunchPrompts ==
  ASSUME ClientInv, PromptInv, Launch \/ LifecycleFails
  PROVE  PromptInv'
<1>1. /\ Steady /\ session' = session /\ doc' = doc /\ response' = response /\ history' = history
      /\ older' = older /\ own' = own
  BY DEF Launch, LifecycleFails, server, Steady
<1>2. phase \in Early
  BY DEF Launch, LifecycleFails, Early
<1>3. OwnIs(own', phase', session, requests)
  BY <1>1, <1>2 DEF PromptInv, OwnIs, Early
<1> QED  BY <1>1, <1>3 DEF PromptInv, Steady

\* With nothing submitted and nothing shown.
LEMMA BeginsEmpty ==
  ASSUME own' = {}, doc' = EmptyDoc, response' = NoResponse, SentIn(Shown(history'.page.exchanges), requests')
  PROVE  PromptInv'
<1>1. Shown(EmptyDoc.exchanges) = {} /\ SentIn({}, requests') /\ WaitsIn({}, NoResponse, {})
  BY NothingShown DEF EmptyDoc
<1>2. /\ OwnIs({}, phase', session', requests') /\ NoneBefore({}, older', inbox'[session'])
      /\ HistoryLeaves(history', session', {}, inbox') /\ KeptIn({}, {}, NoResponse.exchange)
  BY NoneSubmitted
<1> QED  BY <1>1, <1>2 DEF PromptInv, DocumentShows

LEMMA WaitsForNew ==
  ASSUME NEW T, NEW new, NEW rsp, NEW mine, NEW p, rsp.exchange = new, p = PromptOf(rsp, mine)
  PROVE  WaitsIn(T \cup {<<new, new, p>>}, rsp, mine)
<1> DEFINE t == <<new, new, p>>
<1>1. t[1] = rsp.exchange /\ t[3] = PromptOf(rsp, mine) /\ t \in T \cup {<<new, new, p>>}
  OBVIOUS
<1> QED  BY <1>1 DEF WaitsIn

LEMMA SessionCreatedPrompts ==
  ASSUME ClientInv, PromptInv, SessionCreated
  PROVE  PromptInv'
<1>1. PICK r \in Requests :
        /\ doc' = BeginExchange(doc, 0)
        /\ response' = [NoResponse EXCEPT !.request = r, !.exchange = PendingId(doc)]
  BY DEF SessionCreated, FreshStartup
<1>2. history' = history /\ own' = own
  BY DEF SessionCreated
<1>3. doc = EmptyDoc /\ history = NoHistory /\ own = {}
  BY DEF SessionCreated, ClientInv, PhaseIs, PromptInv, OwnIs
<1> DEFINE new == PendingId(doc)
           T == {<<new, new, 0>>}
<1>4. Shown(doc'.exchanges) = T
  <2>1. doc \in DocumentsOf(session, requests) /\ 0 \in Requests \cup {0}
    BY DEF ClientInv
  <2>2. Shown(doc'.exchanges) = Shown(doc.exchanges) \cup T
    BY <1>1, <2>1, BeginShows
  <2>3. Shown(doc.exchanges) = {}
    BY <1>3, NothingShown DEF EmptyDoc
  <2> QED  BY <2>2, <2>3
<1>5. response'.exchange = new
  BY <1>1 DEF NoResponse
<1> HIDE DEF new
<1>6. SentIn(T, requests') /\ WaitsIn(T, response', {})
  BY <1>5 DEF SentIn, WaitsIn, PromptOf
<1>7. SentIn(Shown(history'.page.exchanges), requests')
  BY <1>2, <1>3, NothingShown
<1>8. /\ OwnIs({}, phase', session', requests') /\ NoneBefore({}, older', inbox'[session'])
      /\ HistoryLeaves(history', session', {}, inbox') /\ KeptIn(T, {}, response'.exchange)
  BY NoneSubmitted
<1>9. own' = {}
  BY <1>2, <1>3
<1> HIDE DEF T
<1> QED  BY <1>4, <1>6, <1>7, <1>8, <1>9 DEF PromptInv, DocumentShows

LEMMA HistoryRequested ==
  ASSUME NEW kind, NEW s, NEW c
  PROVE  /\ RequestHistory(kind, s, c).session = s /\ RequestHistory(kind, s, c).cursor = c
         /\ RequestHistory(kind, s, c).page.before = 0
         /\ Shown(RequestHistory(kind, s, c).page.exchanges) = {}
<1>1. /\ RequestHistory(kind, s, c).page = NoHistory.page
      /\ RequestHistory(kind, s, c).session = s /\ RequestHistory(kind, s, c).cursor = c
  BY DEF RequestHistory, NoHistory
<1>2. NoHistory.page.before = 0
  BY DEF NoHistory
<1>3. Shown(NoHistory.page.exchanges) = {}
  BY NothingShown
<1> QED  BY <1>1, <1>2, <1>3

LEMMA SessionResumedPrompts ==
  ASSUME ClientInv, PromptInv, SessionResumed
  PROVE  PromptInv'
<1>1. doc' = doc /\ response' = response /\ own' = own /\ history' = RequestHistory("startup", 1, 0)
  BY DEF SessionResumed
<1>2. doc = EmptyDoc /\ response = NoResponse /\ own = {}
  BY DEF SessionResumed, ClientInv, PhaseIs, PromptInv, OwnIs
<1>3. SentIn(Shown(history'.page.exchanges), requests')
  BY <1>1, HistoryRequested, NothingShown
<1> QED  BY <1>1, <1>2, <1>3, BeginsEmpty

LEMMA SubmitPrompts ==
  ASSUME ClientInv, PromptInv, NEW r \in Requests, Submit(r)
  PROVE  PromptInv'
<1>1. /\ requests' = Sent(r, session, "user") /\ doc' = BeginExchange(doc, r)
      /\ response' = [NoResponse EXCEPT !.request = r, !.exchange = PendingId(doc)]
      /\ own' = own \cup {r} /\ inbox' = inbox /\ phase' = phase /\ session' = session
      /\ history' = history /\ older' = older
  BY DEF Submit
<1>2. /\ phase \in {"greeting", "complete"} /\ requests[r].state = "unsent"
      /\ history = NoHistory /\ response = NoResponse
  BY DEF Submit, Unlocked, IsNext
<1>3. session \in Sessions
  BY <1>2 DEF ClientInv, PhaseIs
<1>4. Onward(requests, requests') /\ Asked(r, session, requests')
  BY <1>1, <1>2, <1>3, SentKeeps DEF ClientInv
<1> DEFINE T == Shown(doc.exchanges)
           new == PendingId(doc)
           U == T \cup {<<new, new, r>>}
<1>5. Shown(doc'.exchanges) = U /\ \A t \in T : t[1] # new
  <2>1. doc \in DocumentsOf(session, requests) /\ r \in Requests \cup {0}
    BY DEF ClientInv
  <2> QED  BY <1>1, <2>1, BeginShows
<1>6. SentIn(T, requests) /\ KeptIn(T, own, response.exchange) /\ ShownIn(T)
  BY ShownIs DEF PromptInv, DocumentShows, ClientInv
<1>7. response'.exchange = new /\ response'.request = r
  BY <1>1 DEF NoResponse
<1> HIDE DEF T, new
<1>8. 0 \notin own /\ r \notin own /\ r # 0
  BY <1>2, OwnAre DEF PromptInv, Requests
<1>9. \A t \in T : t[3] # r
  BY <1>2, <1>6, <1>8 DEF SentIn
<1>10. KeptIn(U, own \cup {r}, new)
  <2>1. KeptIn(U, IF r = 0 THEN own ELSE own \cup {r}, new)
    BY <1>5, <1>6, <1>8, <1>9, BeginKept
  <2> QED  BY <1>8, <2>1
<1>11. SentIn(U, requests')
  <2>1. \A t \in T : t[3] \in Requests \cup {0}
    BY <1>6 DEF ShownIn, Shows
  <2>2. SentIn(T, requests')
    BY <1>4, <1>6, <2>1, SentOnward
  <2> QED  BY <1>4, <2>2 DEF SentIn, Asked
<1>12. WaitsIn(U, response', own \cup {r})
  <2>1. PromptOf(response', own \cup {r}) = r
    BY <1>7 DEF PromptOf
  <2> QED  BY <1>7, <2>1, WaitsForNew
<1>13. OwnIs(own \cup {r}, phase, session, requests')
  BY <1>2, <1>4, OnwardKeeps DEF PromptInv, OwnIs
<1>14. NoneBefore(own \cup {r}, older, inbox[session])
  <2>1. r \notin Elements(inbox[session])
    BY <1>2, <1>3, InboxIs DEF ClientInv
  <2>2. ~Before(r, older, inbox[session])
    BY <2>1 DEF Before, Elements
  <2> QED  BY <2>2 DEF PromptInv, NoneBefore
<1>15. SentIn(Shown(history'.page.exchanges), requests') /\ HistoryLeaves(history', session', own', inbox')
  BY <1>1, <1>2, NothingShown
<1> QED  BY <1>1, <1>5, <1>7, <1>10, <1>11, <1>12, <1>13, <1>14, <1>15 DEF PromptInv, DocumentShows

LEMMA SubmitCommandPrompts ==
  ASSUME ClientInv, PromptInv, SubmitCommand
  PROVE  PromptInv'
<1>1. /\ doc' = BeginExchange(doc, 0)
      /\ response' = [NoResponse EXCEPT !.command = TRUE, !.exchange = PendingId(doc)]
      /\ Steady /\ phase' = phase /\ session' = session /\ history' = history /\ older' = older /\ own' = own
  BY DEF SubmitCommand, server, Steady
<1> DEFINE T == Shown(doc.exchanges)
           new == PendingId(doc)
           U == T \cup {<<new, new, 0>>}
<1>2. Shown(doc'.exchanges) = U /\ \A t \in T : t[1] # new
  <2>1. doc \in DocumentsOf(session, requests) /\ 0 \in Requests \cup {0}
    BY DEF ClientInv
  <2> QED  BY <1>1, <2>1, BeginShows
<1>3. SentIn(T, requests) /\ KeptIn(T, own, response.exchange)
  BY DEF PromptInv, DocumentShows
<1>4. response'.exchange = new /\ response'.request = 0
  BY <1>1 DEF NoResponse
<1> HIDE DEF T, new
<1>5. 0 \notin own
  BY OwnAre DEF PromptInv
<1>6. KeptIn(U, own, new)
  <2>1. KeptIn(U, IF 0 = 0 THEN own ELSE own \cup {0}, new)
    BY <1>2, <1>3, <1>5, BeginKept
  <2> QED  BY <2>1
<1>7. SentIn(U, requests) /\ WaitsIn(U, response', own)
  <2>1. PromptOf(response', own) = 0
    BY <1>4, <1>5 DEF PromptOf
  <2>2. WaitsIn(U, response', own)
    BY <1>4, <2>1, WaitsForNew
  <2> QED  BY <1>3, <2>2 DEF SentIn
<1>8. DocumentShows(Shown(doc'.exchanges), own', response', requests')
  BY <1>1, <1>2, <1>4, <1>6, <1>7 DEF DocumentShows, Steady
<1> QED  BY <1>1, <1>8 DEF PromptInv, Steady

\* A response has come: the exchange that waited for it is like any other.
LEMMA ResponsePrompts ==
  ASSUME ClientInv, PromptInv, Steady, session' = session, history' = history, older' = older, own' = own,
         phase' \in Early => phase \in Early, response' = NoResponse,
         SentIn(Shown(doc'.exchanges), requests), KeptIn(Shown(doc'.exchanges), own, <<>>)
  PROVE  PromptInv'
<1>1. OwnIs(own, phase', session, requests)
  BY DEF PromptInv, OwnIs, Early
<1>2. DocumentShows(Shown(doc'.exchanges), own, NoResponse, requests)
  BY DEF DocumentShows, WaitsIn, NoResponse
<1> QED  BY <1>1, <1>2 DEF PromptInv, Steady

LEMMA PollReplyPrompts ==
  ASSUME ClientInv, PromptInv, PollReply
  PROVE  PromptInv'
<1> DEFINE r == response.request
           bound == Bind(doc, response.exchange, <<"sub", r>>)
           T == Shown(doc.exchanges)
           U == Shown(bound.doc.exchanges)
<1>1. /\ r # 0 /\ doc' = SetAssistant(bound.doc, bound.id, "final") /\ response' = NoResponse
      /\ Steady /\ session' = session /\ history' = history /\ older' = older /\ own' = own
      /\ phase' = phase \/ (phase = "greeting" /\ phase' = "complete")
  BY DEF PollReply, ReplyApplied, AfterReply, server, Steady
<1>2. phase' \in Early => phase \in Early
  BY <1>1 DEF Early
<1>3. response # NoResponse
  BY <1>1 DEF NoResponse
<1>4. Asked(r, session, requests) /\ doc \in DocumentsOf(session, requests)
  BY <1>1 DEF ClientInv, ResponseIs
<1>5. ShownIn(T) /\ SentIn(T, requests) /\ KeptIn(T, own, response.exchange) /\ WaitsIn(T, response, own)
  BY <1>4, ShownIs DEF PromptInv, DocumentShows
<1>6. \/ StaysBound(T, U, response.exchange, r, bound.id)
      \/ MergesInto(T, U, response.exchange, r, bound.id)
      \/ GetsBound(T, U, response.exchange, r, bound.id)
  <2> HIDE DEF r
  <2> QED  BY <1>4, BindShows
<1>7. bound.doc \in DocumentsOf(session, requests)
  <2> HIDE DEF r
  <2> QED  BY <1>4, BindKeeps
<1>8. 0 \notin own
  BY OwnAre DEF PromptInv
<1>9. Shown(doc'.exchanges) = U
  <2> HIDE DEF bound
  <2> QED  BY <1>1, <1>7, AnswerKeeps
<1> HIDE DEF T, U, bound
<1>10. KeptIn(U, own, <<>>)
  BY <1>3, <1>5, <1>6, <1>8, ReplyKept
<1>11. SentIn(U, requests)
  <2> HIDE DEF r
  <2> QED  BY <1>5, <1>6, BindSent
<1> HIDE DEF r
<1> QED  BY <1>1, <1>2, <1>9, <1>10, <1>11, ResponsePrompts

LEMMA PollErrorPrompts ==
  ASSUME ClientInv, PromptInv, PollError
  PROVE  PromptInv'
<1>1. /\ response' = NoResponse /\ doc' = doc
      /\ Steady /\ session' = session /\ history' = history /\ older' = older /\ own' = own
      /\ phase' = phase \/ phase' = "failed"
  BY DEF PollError, FailStartup, server, Steady
<1>2. phase' \in Early => phase \in Early
  BY <1>1 DEF Early
<1> DEFINE T == Shown(doc.exchanges)
<1>3. ShownIn(T) /\ SentIn(T, requests) /\ KeptIn(T, own, response.exchange)
  BY ShownIs DEF PromptInv, DocumentShows, ClientInv
<1> HIDE DEF T
<1>4. KeptIn(T, own, <<>>)
  BY <1>3, KeptAfter
<1> QED  BY <1>1, <1>2, <1>3, <1>4, ResponsePrompts DEF T

LEMMA CommandAnsweredPrompts ==
  ASSUME ClientInv, PromptInv, CommandAnswered
  PROVE  PromptInv'
<1>1. /\ doc' = SetAssistant(doc, response.exchange, "final") /\ response' = NoResponse
      /\ Steady /\ session' = session /\ history' = history /\ older' = older /\ own' = own
      /\ phase' = phase \/ (phase = "greeting" /\ phase' = "complete")
  BY DEF CommandAnswered, AfterReply, server, Steady
<1>2. phase' \in Early => phase \in Early
  BY <1>1 DEF Early
<1> DEFINE T == Shown(doc.exchanges)
<1>3. ShownIn(T) /\ SentIn(T, requests) /\ KeptIn(T, own, response.exchange)
  BY ShownIs DEF PromptInv, DocumentShows, ClientInv
<1>4. Shown(doc'.exchanges) = T
  BY <1>1, AnswerKeeps DEF ClientInv
<1> HIDE DEF T
<1>5. KeptIn(T, own, <<>>)
  BY <1>3, KeptAfter
<1> QED  BY <1>1, <1>2, <1>3, <1>4, <1>5, ResponsePrompts

LEMMA SwitchPrompts ==
  ASSUME ClientInv, PromptInv, NewSession \/ \E s \in Sessions : ResumeSession(s)
  PROVE  PromptInv'
<1>1. own' = {} /\ doc' = EmptyDoc /\ response' = NoResponse /\ requests' = requests
  BY DEF NewSession, ResumeSession, server
<1>2. history' = history \/ \E s \in Sessions : history' = RequestHistory("switch", s, 0)
  BY DEF NewSession, ResumeSession
<1>3. SentIn(Shown(history'.page.exchanges), requests')
  <2>1. CASE history' = history
    BY <1>1, <2>1 DEF PromptInv
  <2>2. CASE \E s \in Sessions : history' = RequestHistory("switch", s, 0)
    <3>1. Shown(history'.page.exchanges) = {}
      BY <2>2, HistoryRequested
    <3> QED  BY <3>1 DEF SentIn
  <2> QED  BY <1>2, <2>1, <2>2
<1> QED  BY <1>1, <1>3, BeginsEmpty

\* A step of a request for history changes neither the document nor what is awaited.
LEMMA HistoryPrompts ==
  ASSUME PromptInv, Steady, session' = session, doc' = doc, response' = response, older' = older, own' = own,
         phase' \in Early => phase \in Early,
         SentIn(Shown(history'.page.exchanges), requests), HistoryLeaves(history', session, own, inbox)
  PROVE  PromptInv'
<1>1. OwnIs(own, phase', session, requests)
  BY DEF PromptInv, OwnIs, Early
<1> QED  BY <1>1 DEF PromptInv, Steady

LEMMA RequestOlderPrompts ==
  ASSUME ClientInv, PromptInv, RequestOlderPage
  PROVE  PromptInv'
<1>1. /\ Steady /\ phase' = phase /\ session' = session /\ doc' = doc /\ response' = response /\ older' = older
      /\ own' = own /\ history' = RequestHistory("older", session, older)
  BY DEF RequestOlderPage, server, Steady
<1>2. older # 0 /\ session \in Sessions
  BY DEF RequestOlderPage, ClientInv, PhaseIs
<1>3. /\ history'.cursor = older /\ history'.page.before = 0 /\ Shown(history'.page.exchanges) = {}
  BY <1>1, HistoryRequested
<1>4. NoneBefore(own, 0, inbox[session])
  BY <1>2, InboxIs, NoneBeforeNone DEF ClientInv
<1>5. HistoryLeaves(history', session, own, inbox)
  BY <1>2, <1>3, <1>4 DEF PromptInv, HistoryLeaves
<1>6. SentIn(Shown(history'.page.exchanges), requests)
  BY <1>3 DEF SentIn
<1> QED  BY <1>1, <1>5, <1>6, HistoryPrompts

LEMMA ReadMetaPrompts ==
  ASSUME ClientInv, PromptInv, ReadMeta
  PROVE  PromptInv'
<1> DEFINE n == Len(log[history.session])
           h == [history EXCEPT !.stage = "cut", !.cut = n]
<1>1. /\ Steady /\ phase' = phase /\ session' = session /\ doc' = doc /\ response' = response /\ older' = older
      /\ own' = own /\ history' = h
  BY DEF ReadMeta, server, Steady
<1>2. history # NoHistory
  BY DEF ReadMeta, NoHistory
<1>3. h.session = history.session /\ h.cursor = history.cursor /\ h.page = history.page
  BY <1>2, HistoryHas DEF HistoryKinds
<1> HIDE DEF h
<1>4. HistoryLeaves(h, session, own, inbox)
  BY <1>2, <1>3 DEF PromptInv, HistoryLeaves
<1>5. SentIn(Shown(h.page.exchanges), requests)
  BY <1>3 DEF PromptInv
<1> QED  BY <1>1, <1>4, <1>5, HistoryPrompts

LEMMA ServePagePrompts ==
  ASSUME ClientInv, PromptInv, ServePage
  PROVE  PromptInv'
<1> DEFINE s == history.session
           page == Page(s, history.cut, history.cursor)
           h == [history EXCEPT !.stage = "served", !.page = page]
<1>1. /\ Steady /\ phase' = phase /\ session' = session /\ doc' = doc /\ response' = response /\ older' = older
      /\ own' = own /\ history' = h
  BY DEF ServePage, server, Steady
<1>2. history # NoHistory
  BY DEF ServePage, NoHistory
<1>3. /\ history \in HistoryKinds /\ s \in Sessions /\ history.cut \in Nat /\ history.cut <= Len(log[s])
      /\ CursorIs(history.cursor, s, inbox) /\ GatewayIs(requests, inbox, log)
  BY <1>2, HistoryHas DEF ClientInv
<1>4. h.session = s /\ h.cursor = history.cursor /\ h.page = page
  <2> HIDE DEF page
  <2> QED  BY <1>3 DEF HistoryKinds
<1>5. /\ SentIn(Shown(page.exchanges), requests)
      /\ (history.cursor = 0 => own = {}) /\ NoneBefore(own, history.cursor, inbox[s]) =>
           /\ NoneBefore(own, page.before, inbox[s])
           /\ \A t \in Shown(page.exchanges) : t[3] \notin own
  <2>1. 0 \notin own
    BY OwnAre DEF PromptInv
  <2> QED  BY <1>3, <2>1, PageLeaves
<1> HIDE DEF h, page
<1>6. HistoryLeaves(h, session, own, inbox)
  BY <1>2, <1>4, <1>5 DEF PromptInv, HistoryLeaves
<1> QED  BY <1>1, <1>4, <1>5, <1>6, HistoryPrompts

LEMMA HistoryFailsPrompts ==
  ASSUME ClientInv, PromptInv, HistoryFails
  PROVE  PromptInv'
<1>1. /\ Steady /\ session' = session /\ doc' = doc /\ response' = response /\ history' = NoHistory
      /\ older' = older /\ own' = own /\ (phase' = phase \/ phase' = "failed")
  BY DEF HistoryFails, server, Steady
<1>2. phase' \in Early => phase \in Early
  BY <1>1 DEF Early
<1> QED  BY <1>1, <1>2, NothingShown, HistoryPrompts

LEMMA InstallPagePrompts ==
  ASSUME ClientInv, PromptInv, InstallPage
  PROVE  PromptInv'
<1> DEFINE xs == history.page.exchanges
           T == Shown(doc.exchanges)
           U == Shown(doc'.exchanges)
<1>1. /\ Steady /\ session' = session /\ response' = response /\ history' = NoHistory /\ own' = own
      /\ older' = history.page.before \/ older' = 0
      /\ doc' \in {InstallSnapshot(doc, xs), PrependSnapshot(doc, xs)}
      /\ phase' = phase \/ phase' = "complete"
  BY DEF InstallPage, server, Steady
<1>2. history # NoHistory /\ history.session = session
  BY DEF InstallPage, PageMatches, NoHistory
<1>3. session \in Sessions /\ xs \in PagesOf(session, requests) /\ doc \in DocumentsOf(session, requests)
  BY <1>2, HistoryHas DEF ClientInv
<1>4. T \subseteq U /\ U \subseteq T \cup Shown(xs)
  <2> HIDE DEF xs
  <2> QED  BY <1>1, <1>3, SnapshotShows
<1>5. /\ NoneBefore(own, history.page.before, inbox[session]) /\ \A t \in Shown(xs) : t[3] \notin own
      /\ SentIn(Shown(xs), requests)
  BY <1>2 DEF PromptInv, HistoryLeaves
<1>6. SentIn(T, requests) /\ WaitsIn(T, response, own) /\ KeptIn(T, own, response.exchange)
  BY DEF PromptInv, DocumentShows
<1> HIDE DEF xs, T, U
<1>7. DocumentShows(U, own, response, requests)
  <2>1. KeptIn(U, own, response.exchange)
    BY <1>4, <1>5, <1>6, PageKept
  <2>2. SentIn(U, requests) /\ WaitsIn(U, response, own)
    BY <1>4, <1>5, <1>6 DEF SentIn, WaitsIn
  <2> QED  BY <2>1, <2>2 DEF DocumentShows
<1>8. NoneBefore(own, older', inbox[session])
  <2>1. NoneBefore(own, 0, inbox[session])
    BY <1>3, InboxIs, NoneBeforeNone DEF ClientInv
  <2> QED  BY <1>1, <1>5, <2>1
<1>9. OwnIs(own, phase', session, requests)
  BY <1>1 DEF PromptInv, OwnIs
<1>10. SentIn(Shown(history'.page.exchanges), requests) /\ HistoryLeaves(history', session, own, inbox)
  BY <1>1, NothingShown
<1> QED  BY <1>1, <1>7, <1>8, <1>9, <1>10 DEF PromptInv, Steady, U

-----------------------------------------------------------------------------
(* The stream: the exchange in progress takes a submission that no exchange of *)
(* the document has, and so keeps its prompt.                                  *)

LEMMA UnknownIs ==
  ASSUME NEW s, NEW d, NEW batch \in Seq(Heard(s)), Unknown(d, batch) # <<>>
  PROVE  /\ Asked(Unknown(d, batch)[1][1], s, requests)
         /\ \A t \in Shown(d.exchanges) : t[2] # <<"sub", Unknown(d, batch)[1][1]>>
<1> DEFINE I == {i \in DOMAIN batch : ~HasSubmission(d, <<"sub", batch[i][1]>>)
                   /\ Kind(batch[i]) \notin {"operation", "operation_error", "tool", "tool_error"}}
           new == Unknown(d, batch)
           e == new[1]
<1>1. new = Picked(batch, I)
  BY DEF Unknown
<1>2. \A i \in I : ~HasSubmission(d, <<"sub", batch[i][1]>>)
  OBVIOUS
<1> HIDE DEF I, new
<1>3. new \in Seq(Heard(s)) /\ Elements(new) = {batch[i] : i \in DOMAIN batch \cap I}
  BY <1>1, PickedOnce
<1>4. new # <<>>
  BY DEF new
<1>5. e \in Heard(s) /\ e \in Elements(new)
  BY <1>3, <1>4 DEF Elements
<1> HIDE DEF e
<1>6. ~HasSubmission(d, <<"sub", e[1]>>)
  BY <1>2, <1>3, <1>5
<1>7. \A t \in Shown(d.exchanges) : t[2] # <<"sub", e[1]>>
  BY <1>6 DEF HasSubmission, Position, Shown
<1> QED  BY <1>5, <1>7 DEF Heard, e, new

LEMMA WaitsBound ==
  ASSUME NEW T, ShownIn(T), NEW U, NEW rsp, NEW next, NEW r, NEW mine, rsp # NoResponse, WaitsIn(T, rsp, mine),
         GetsBound(T, U, rsp.exchange, r, next.exchange), next.request = rsp.request
  PROVE  WaitsIn(U, next, mine)
<1>1. PICK t \in T : t[1] = rsp.exchange /\ t[3] = PromptOf(rsp, mine)
  BY DEF WaitsIn
<1>2. PICK u \in T : u[1] = rsp.exchange /\ U = (T \ {u}) \cup {<<next.exchange, <<"sub", r>>, u[3]>>}
  BY DEF GetsBound
<1>3. t = u
  BY <1>1, <1>2, IdsDiffer
<1> DEFINE v == <<next.exchange, <<"sub", r>>, u[3]>>
<1>4. v[1] = next.exchange /\ v[3] = u[3] /\ v \in U
  BY <1>2
<1>5. PromptOf(next, mine) = PromptOf(rsp, mine)
  BY DEF PromptOf
<1> HIDE DEF v
<1> QED  BY <1>1, <1>3, <1>4, <1>5 DEF WaitsIn

LEMMA HandleEventsPrompts ==
  ASSUME ClientInv, PromptInv, NEW batch \in Seq(Heard(session)), HandleEvents(batch)
  PROVE  DocumentShows(Shown(doc'.exchanges), own, response', requests)
<1> DEFINE T == Shown(doc.exchanges)
<1>1. doc \in DocumentsOf(session, requests) /\ ShownIn(T) /\ 0 \notin own
  BY ShownIs, OwnAre DEF ClientInv, PromptInv
<1>2. SentIn(T, requests) /\ WaitsIn(T, response, own) /\ KeptIn(T, own, response.exchange)
  BY DEF PromptInv, DocumentShows
<1>3. ASSUME NEW d \in DocumentsOf(session, requests), NEW rsp, DocumentShows(Shown(d.exchanges), own, rsp, requests)
      PROVE  DocumentShows(Shown(ApplyEvents(d, batch).exchanges), own, rsp, requests)
  <2>1. Continues(Shown(d.exchanges), Shown(ApplyEvents(d, batch).exchanges))
    BY BatchKeeps
  <2> QED  BY <1>1, <1>3, <2>1, ContinuesKeeps, ContinuesWaits DEF DocumentShows
<1>4. CASE ~Binds(batch)
  <2>1. doc' = ApplyEvents(doc, batch) /\ response' = response
    BY <1>4 DEF HandleEvents
  <2> QED  BY <1>1, <1>3, <2>1 DEF PromptInv
<1>5. CASE Binds(batch)
  <2> DEFINE r == Unknown(doc, batch)[1][1]
             bound == Bind(doc, response.exchange, <<"sub", r>>)
             U == Shown(bound.doc.exchanges)
  <2>1. /\ doc' = ApplyEvents(bound.doc, batch)
        /\ response' = [response EXCEPT !.exchange = bound.id, !.expected = TRUE]
    BY <1>5 DEF HandleEvents
  <2>2. response # NoResponse /\ response \in ResponseKinds
    BY <1>5 DEF Binds, ClientInv, ResponseIs
  <2>3. Asked(r, session, requests) /\ \A t \in T : t[2] # <<"sub", r>>
    BY <1>5, UnknownIs DEF Binds
  <2> HIDE DEF r
  <2>4. bound.doc \in DocumentsOf(session, requests)
    BY <1>1, <2>3, BindKeeps
  <2>5. \/ StaysBound(T, U, response.exchange, r, bound.id)
        \/ MergesInto(T, U, response.exchange, r, bound.id)
        \/ GetsBound(T, U, response.exchange, r, bound.id)
    BY <1>1, <2>3, BindShows
  <2> HIDE DEF bound, U
  <2>6. response'.exchange = bound.id /\ response'.request = response.request
    BY <2>1, <2>2 DEF ResponseKinds
  <2> HIDE DEF T
  <2>7. GetsBound(T, U, response.exchange, r, bound.id)
    <3>1. ~MergesInto(T, U, response.exchange, r, bound.id)
      BY <2>3 DEF MergesInto
    <3>2. ~StaysBound(T, U, response.exchange, r, bound.id)
      BY <1>2, <2>2, <2>3 DEF StaysBound, WaitsIn
    <3> QED  BY <2>5, <3>1, <3>2
  <2>8. KeptIn(U, own, bound.id)
    BY <1>1, <1>2, <2>7, GetsKept
  <2>9. WaitsIn(U, response', own)
    BY <1>1, <1>2, <2>2, <2>6, <2>7, WaitsBound
  <2>10. SentIn(U, requests)
    BY <1>2, <2>7, BindSent
  <2>11. DocumentShows(U, own, response', requests)
    BY <2>6, <2>8, <2>9, <2>10 DEF DocumentShows
  <2> QED  BY <1>3, <2>1, <2>4, <2>11 DEF U
<1> QED  BY <1>4, <1>5

LEMMA StreamPrompts ==
  ASSUME ClientInv, PromptInv, Connect \/ Deliver
  PROVE  PromptInv'
<1>1. /\ Steady /\ phase' = phase /\ session' = session /\ history' = history /\ older' = older /\ own' = own
  BY DEF Connect, Deliver, server, Steady
<1>2. PICK batch \in Seq(Heard(session)) : HandleEvents(batch)
  BY ConnectReads, DeliverReads
<1>3. DocumentShows(Shown(doc'.exchanges), own, response', requests)
  BY <1>2, HandleEventsPrompts
<1> QED  BY <1>1, <1>3 DEF PromptInv, Steady

LEMMA ClosePrompts ==
  ASSUME PromptInv, Close \/ Break
  PROVE  PromptInv'
<1>1. /\ Steady /\ phase' = phase /\ session' = session /\ doc' = doc /\ response' = response
      /\ history' = history /\ older' = older /\ own' = own
  BY DEF Close, Break, Steady
<1> QED  BY <1>1 DEF PromptInv, Steady

LEMMA PromptsInitially ==
  ASSUME Init
  PROVE  PromptInv
<1>1. own = {} /\ doc = EmptyDoc /\ response = NoResponse /\ history = NoHistory
  BY DEF Init
<1>2. Shown(EmptyDoc.exchanges) = {} /\ SentIn({}, requests) /\ WaitsIn({}, NoResponse, {})
  BY NothingShown DEF EmptyDoc
<1>3. SentIn(Shown(NoHistory.page.exchanges), requests)
  BY NothingShown
<1>4. /\ OwnIs({}, phase, session, requests) /\ NoneBefore({}, older, inbox[session])
      /\ HistoryLeaves(NoHistory, session, {}, inbox) /\ KeptIn({}, {}, NoResponse.exchange)
  BY NoneSubmitted
<1> QED  BY <1>1, <1>2, <1>3, <1>4 DEF PromptInv, DocumentShows

LEMMA PromptsStutter ==
  ASSUME PromptInv, UNCHANGED vars
  PROVE  PromptInv'
BY DEF PromptInv, vars, server, client

\* A prompt submitted into the document is shown by one exchange, or its submission is
\* shown by another one, to which a page had given an older prompt.
LEMMA PromptsAreShown ==
  ASSUME ClientInv, PromptInv
  PROVE  PromptLostToPage
<1> DEFINE xs == doc.exchanges
           T == Shown(xs)
<1>1. Distinct(xs) /\ KeptIn(T, own, response.exchange)
  BY DocumentIs DEF ClientInv, PromptInv, DocumentShows
<1>2. ASSUME NEW r \in own, Single(T, r)
      PROVE  Cardinality(Position(doc, "prompt", r)) = 1
  <2>1. PICK t \in T : t[3] = r /\ \A u \in T : u[3] = r => u = t
    BY <1>2 DEF Single
  <2>2. PICK i \in DOMAIN xs : t = <<xs[i].id, xs[i].sub, xs[i].prompt>>
    BY DEF Shown
  <2>3. \A j \in DOMAIN xs : xs[j].prompt = r => j = i
    <3> SUFFICES ASSUME NEW j \in DOMAIN xs, xs[j].prompt = r  PROVE j = i
      OBVIOUS
    <3> DEFINE u == <<xs[j].id, xs[j].sub, xs[j].prompt>>
    <3>1. u \in T /\ u[3] = r
      BY DEF Shown
    <3>2. u = t
      BY <2>1, <3>1
    <3>3. xs[j].sub = xs[i].sub
      BY <2>2, <3>2
    <3> QED  BY <1>1, <3>3 DEF Distinct
  <2>4. Position(doc, "prompt", r) = {i}
    BY <2>1, <2>2, <2>3 DEF Position
  <2> QED  BY <2>4, FS_Singleton
<1>3. ASSUME NEW r \in own, Lost(T, r, response.exchange)
      PROVE  /\ Position(doc, "prompt", r) = {}
             /\ \E i \in Position(doc, "sub", <<"sub", r>>) : doc.exchanges[i].prompt \notin {0, r}
  <2>1. \A t \in T : t[3] # r
    BY <1>3 DEF Lost
  <2>2. PICK t \in T : t[2] = <<"sub", r>> /\ t[3] # 0
    BY <1>3 DEF Lost
  <2>3. PICK i \in DOMAIN xs : t = <<xs[i].id, xs[i].sub, xs[i].prompt>>
    BY DEF Shown
  <2>4. xs[i].sub = <<"sub", r>> /\ xs[i].prompt \notin {0, r}
    BY <2>1, <2>2, <2>3
  <2>5. ASSUME NEW j \in DOMAIN xs  PROVE xs[j].prompt # r
    <3> DEFINE u == <<xs[j].id, xs[j].sub, xs[j].prompt>>
    <3>1. u \in T /\ u[3] = xs[j].prompt
      BY DEF Shown
    <3> HIDE DEF u
    <3> QED  BY <2>1, <3>1
  <2> QED  BY <2>4, <2>5 DEF Position
<1> QED  BY <1>1, <1>2, <1>3 DEF PromptLostToPage, KeptIn

\* What the document shows, what is awaited and what the pages still to come may bring
\* agree about the prompts submitted here, at every moment.
THEOREM PromptsKept == Spec => []PromptInv
<1>1. ASSUME ClientInv, PromptInv, Next  PROVE PromptInv'
  BY <1>1, GatewayPrompts, LaunchPrompts, SessionCreatedPrompts, SessionResumedPrompts, SubmitPrompts,
     SubmitCommandPrompts, PollReplyPrompts, PollErrorPrompts, CommandAnsweredPrompts, SwitchPrompts,
     RequestOlderPrompts, ReadMetaPrompts, ServePagePrompts, InstallPagePrompts, HistoryFailsPrompts,
     StreamPrompts, ClosePrompts DEF Next
<1>2. ClientInv /\ PromptInv /\ [Next]_vars => PromptInv'
  BY <1>1, PromptsStutter
<1>3. Init => PromptInv
  BY PromptsInitially
<1> QED  BY <1>2, <1>3, ClientIsOfOneSession, PTL DEF Spec

\* A prompt submitted here stays in the document, once, through every binding, merge and
\* page of history; it is lost only where a page had given its submission to an older
\* prompt, and then that one is shown.
THEOREM PromptsAreNotLost == Spec => []PromptLostToPage
<1>1. ClientInv /\ PromptInv => PromptLostToPage
  BY PromptsAreShown
<1> QED  BY <1>1, ClientIsOfOneSession, PromptsKept, PTL

-----------------------------------------------------------------------------
(* The log: the events of a submission are in it one after the other, from the *)
(* first on.                                                                   *)

OfRequest(entries, r) == {i \in DOMAIN entries : entries[i][1] = r}

Rising(entries) ==
  \A i, j \in DOMAIN entries : i < j /\ entries[i][1] = entries[j][1] => entries[i][2] < entries[j][2]

\* The events there are of r are the first ones.
Counted(entries, r) == {entries[i][2] : i \in OfRequest(entries, r)} = 1..Cardinality(OfRequest(entries, r))

InOrder(entries) == Rising(entries) /\ \A r \in Requests : Counted(entries, r)

LEMMA OfRequestIs ==
  ASSUME NEW entries \in Seq(Requests \X Nat), NEW r
  PROVE  IsFiniteSet(OfRequest(entries, r)) /\ Cardinality(OfRequest(entries, r)) \in Nat
<1>1. Len(entries) \in Nat /\ DOMAIN entries = 1..Len(entries)
  OBVIOUS
<1>2. IsFiniteSet(DOMAIN entries)
  BY <1>1, FS_Interval
<1>3. OfRequest(entries, r) \subseteq DOMAIN entries
  BY DEF OfRequest
<1> QED  BY <1>2, <1>3, FS_Subset, FS_CardinalityType

LEMMA NextInOrder ==
  ASSUME NEW entries \in Seq(Requests \X Nat), InOrder(entries), NEW r \in Requests
  PROVE  InOrder(Append(entries, <<r, Cardinality(OfRequest(entries, r)) + 1>>))
<1> DEFINE of == OfRequest(entries, r)
           c == Cardinality(of)
           e == <<r, c + 1>>
           new == Append(entries, e)
           n == Len(entries)
<1>1. IsFiniteSet(of) /\ c \in Nat
  BY OfRequestIs
<1> HIDE DEF c
<1>2. e \in Requests \X Nat /\ e[1] = r /\ e[2] = c + 1
  BY <1>1
<1> HIDE DEF e
<1>3. /\ n \in Nat /\ DOMAIN entries = 1..n /\ DOMAIN new = 1..(n + 1) /\ new[n + 1] = e
      /\ \A i \in 1..n : new[i] = entries[i] /\ entries[i] \in Requests \X Nat
  BY <1>2
<1> HIDE DEF new, n
<1>4. {entries[i][2] : i \in of} = 1..c
  BY DEF InOrder, Counted, c
<1>5. \A i \in of : entries[i][2] \in 1..c
  BY <1>4
<1>6. Rising(new)
  <2> SUFFICES ASSUME NEW i \in DOMAIN new, NEW j \in DOMAIN new, i < j, new[i][1] = new[j][1]
               PROVE  new[i][2] < new[j][2]
    BY DEF Rising
  <2>1. i \in 1..n /\ new[i] = entries[i]
    BY <1>3
  <2>2. CASE j \in 1..n
    BY <1>3, <2>1, <2>2 DEF InOrder, Rising
  <2>3. CASE j = n + 1
    <3>1. i \in of /\ new[j] = e
      BY <1>2, <1>3, <2>1, <2>3 DEF OfRequest
    <3>2. entries[i][2] \in 1..c
      BY <1>5, <3>1
    <3> QED  BY <1>1, <1>2, <2>1, <3>1, <3>2
  <2> QED  BY <1>3, <2>2, <2>3
<1>7. ASSUME NEW q \in Requests  PROVE Counted(new, q)
  <2>1. CASE q = r
    <3>1. OfRequest(new, q) = of \cup {n + 1} /\ n + 1 \notin of
      BY <1>2, <1>3, <2>1 DEF OfRequest
    <3>2. Cardinality(OfRequest(new, q)) = c + 1
      <4> HIDE DEF of
      <4> QED  BY <1>1, <3>1, FS_AddElement DEF c
    <3>3. {new[i][2] : i \in OfRequest(new, q)} = {entries[i][2] : i \in of} \cup {c + 1}
      <4>1. \A i \in of : new[i] = entries[i]
        BY <1>3 DEF OfRequest
      <4>2. new[n + 1][2] = c + 1
        BY <1>2, <1>3
      <4> HIDE DEF of
      <4> QED  BY <3>1, <4>1, <4>2
    <3>4. 1..(c + 1) = (1..c) \cup {c + 1}
      BY <1>1
    <3> QED  BY <1>4, <3>2, <3>3, <3>4 DEF Counted
  <2>2. CASE q # r
    <3>1. OfRequest(new, q) = OfRequest(entries, q)
      BY <1>2, <1>3, <2>2 DEF OfRequest
    <3>2. \A i \in OfRequest(entries, q) : new[i] = entries[i]
      BY <1>3 DEF OfRequest
    <3>3. Counted(entries, q)
      BY DEF InOrder
    <3>4. {new[i][2] : i \in OfRequest(new, q)} = {entries[i][2] : i \in OfRequest(entries, q)}
      BY <3>1, <3>2
    <3> QED  BY <3>1, <3>3, <3>4 DEF Counted
  <2> QED  BY <2>1, <2>2
<1>8. InOrder(new)
  BY <1>6, <1>7 DEF InOrder
<1> QED  BY <1>8 DEF new, e, c

\* What precedes an event of a submission is before it in the log.
LEMMA NoGap ==
  ASSUME NEW entries \in Seq(Requests \X Nat), InOrder(entries), NEW n \in DOMAIN entries,
         NEW k \in 1..(entries[n][2])
  PROVE  \E m \in 1..n : entries[m] = <<entries[n][1], k>>
<1> DEFINE r == entries[n][1]
           of == OfRequest(entries, r)
           c == Cardinality(of)
<1>1. /\ Len(entries) \in Nat /\ DOMAIN entries = 1..Len(entries) /\ r \in Requests
      /\ \A i \in DOMAIN entries : entries[i] \in Requests \X Nat
  OBVIOUS
<1>2. c \in Nat
  BY OfRequestIs
<1>3. {entries[i][2] : i \in of} = 1..c
  BY <1>1 DEF InOrder, Counted
<1>4. n \in of
  BY DEF OfRequest
<1>5. entries[n][2] \in 1..c
  BY <1>3, <1>4
<1>6. k \in 1..c
  BY <1>2, <1>5
<1> HIDE DEF c
<1>7. PICK m \in of : entries[m][2] = k
  BY <1>3, <1>6
<1>8. m \in DOMAIN entries /\ entries[m][1] = r
  BY DEF OfRequest
<1>9. entries[m] = <<r, k>>
  BY <1>1, <1>7, <1>8
<1>10. ~(n < m)
  <2> SUFFICES ASSUME n < m  PROVE FALSE
    OBVIOUS
  <2>1. entries[n][2] < k
    BY <1>7, <1>8 DEF InOrder, Rising
  <2> QED  BY <1>2, <1>5, <2>1
<1>11. m \in 1..n
  BY <1>1, <1>8, <1>10
<1> QED  BY <1>9, <1>11

LEMMA EmitInOrder ==
  ASSUME GatewayIs(requests, inbox, log), \A s \in Sessions : InOrder(log[s]), ServerStep
  PROVE  \A s \in Sessions : InOrder(log'[s]) /\ (log'[s] = log[s] \/ \E e \in Requests \X Nat : log'[s] = Append(log[s], e))
<1>1. log' = log \/ \E r \in Requests : Emit(r)
  BY DEF ServerStep, SendElsewhere, Refuse, Admit, Receive, Settle, TimeOut, Crash
<1>2. ASSUME NEW r \in Requests, Emit(r), NEW s \in Sessions
      PROVE  InOrder(log'[s]) /\ (log'[s] = log[s] \/ \E e \in Requests \X Nat : log'[s] = Append(log[s], e))
  <2> DEFINE t == requests[r].session
             e == <<r, Cardinality(OfRequest(log[t], r)) + 1>>
  <2>1. log \in [Sessions -> Seq(Requests \X Nat)] /\ t \in Sessions
    <3>1. log \in [Sessions -> Seq(Requests \X Nat)] /\ requests \in [Requests -> RequestKinds]
      BY DEF GatewayIs
    <3> QED  BY <3>1 DEF RequestKinds
  <2>2. log[t] \in Seq(Requests \X Nat) /\ DOMAIN log[t] = 1..Len(log[t])
    BY <2>1
  <2>3. NextEvent(r) = Cardinality(OfRequest(log[t], r)) + 1
    BY <2>2 DEF NextEvent, Emitted, OfRequest
  <2>4. log' = [log EXCEPT ![t] = Append(@, e)]
    BY <1>2, <2>3 DEF Emit
  <2>5. e \in Requests \X Nat
    <3>1. Cardinality(OfRequest(log[t], r)) + 1 \in Nat
      <4>1. Cardinality(OfRequest(log[t], r)) \in Nat
        <5> HIDE DEF t
        <5> QED  BY <2>2, OfRequestIs
      <4> QED  BY <4>1
    <3> QED  BY <3>1
  <2>6. InOrder(Append(log[t], e))
    BY <2>1, <2>2, NextInOrder
  <2> HIDE DEF t, e
  <2>7. CASE s = t
    BY <2>1, <2>4, <2>5, <2>6, <2>7
  <2>8. CASE s # t
    BY <2>1, <2>4, <2>8
  <2> QED  BY <2>7, <2>8
<1> QED  BY <1>1, <1>2
-----------------------------------------------------------------------------
(* The replies: what is answered stays answered, and what is done stays done.  *)

Replies == {"none", "ok", "error"}

\* A prompt is answered when its submission has ended, and not by an error.
AnsweredBy(reply, asked) == reply = "ok" => asked.state = "done" /\ ~Has(asked.plan, {"operation_error"})

RepliesAre(given, reqs) ==
  given \in [Requests -> Replies] /\ \A r \in Requests : AnsweredBy(given[r], reqs[r])

\* What is done does not change any more, and a reply is not taken back.
SettledStay(given, reqs, givenLater, reqsLater) ==
  \A r \in Requests : /\ reqs[r].state = "done" => reqsLater[r] = reqs[r]
                      /\ given[r] # "none" => givenLater[r] = given[r]

LEMMA RequestsSettled ==
  ASSUME NEW reqs, NEW given, RepliesAre(given, reqs), NEW next,
         \A r \in Requests : reqs[r].state = "done" => next[r] = reqs[r]
  PROVE  RepliesAre(given, next) /\ SettledStay(given, reqs, given, next)
BY DEF RepliesAre, AnsweredBy, SettledStay

\* A request that is not done changes.
LEMMA RequestSettled ==
  ASSUME GatewayIs(requests, inbox, log), RepliesAre(replies, requests), NEW r \in Requests, NEW new,
         requests[r].state # "done"
  PROVE  /\ RepliesAre(replies, [requests EXCEPT ![r] = new])
         /\ SettledStay(replies, requests, replies, [requests EXCEPT ![r] = new])
<1>1. requests \in [Requests -> RequestKinds]
  BY DEF GatewayIs
<1>2. \A q \in Requests : requests[q].state = "done" => [requests EXCEPT ![r] = new][q] = requests[q]
  BY <1>1
<1> HIDE DEF GatewayIs
<1> QED  BY <1>2, RequestsSettled

\* The reply to a request that is not done comes as an error, or with its end.
LEMMA ReplySettled ==
  ASSUME NEW reqs, NEW r \in Requests, RepliesAre(replies, reqs), NEW reply \in {"ok", "error"},
         AnsweredBy(reply, reqs[r])
  PROVE  RepliesAre(Replied(r, reply), reqs) /\ SettledStay(replies, reqs, Replied(r, reply), reqs)
<1> DEFINE v == IF Awaited(r) THEN reply ELSE replies[r]
           next == [replies EXCEPT ![r] = v]
<1>1. replies \in [Requests -> Replies]
  BY DEF RepliesAre
<1>2. Replied(r, reply) = next
  BY <1>1 DEF Replied
<1>3. v \in Replies /\ AnsweredBy(v, reqs[r]) /\ (replies[r] # "none" => v = replies[r])
  BY <1>1 DEF Awaited, RepliesAre, Replies
<1> HIDE DEF v
<1>4. next \in [Requests -> Replies] /\ \A q \in Requests : next[q] = IF q = r THEN v ELSE replies[q]
  BY <1>1, <1>3
<1> HIDE DEF next
<1>5. RepliesAre(next, reqs)
  BY <1>3, <1>4 DEF RepliesAre
<1>6. SettledStay(replies, reqs, next, reqs)
  BY <1>3, <1>4 DEF SettledStay
<1> QED  BY <1>2, <1>5, <1>6

LEMMA CrashSettles ==
  ASSUME GatewayIs(requests, inbox, log), RepliesAre(replies, requests), Crash
  PROVE  RepliesAre(replies', requests') /\ SettledStay(replies, requests, replies', requests')
<1> DEFINE Later(q) == IF requests[q].state \in {"sent", "recorded"} THEN "done"
                       ELSE IF requests[q].state = "running" THEN "detached" ELSE requests[q].state
<1>1. requests \in [Requests -> RequestKinds] /\ replies \in [Requests -> Replies]
  BY DEF GatewayIs, RepliesAre
<1>2. /\ requests' = [q \in Requests |-> [requests[q] EXCEPT !.state = Later(q)]]
      /\ replies' = [q \in Requests |-> IF requests[q].state \in {"sent", "recorded", "running"} /\ Awaited(q)
                                        THEN "error" ELSE replies[q]]
  BY DEF Crash
<1>3. ASSUME NEW q \in Requests, requests[q].state = "done"  PROVE requests'[q] = requests[q]
  <2>1. Later(q) = requests[q].state
    BY <1>3
  <2>2. requests[q] \in RequestKinds
    BY <1>1
  <2>3. requests'[q] = [requests[q] EXCEPT !.state = requests[q].state]
    BY <1>2, <2>1
  <2> QED  BY <2>2, <2>3 DEF RequestKinds
<1>4. ASSUME NEW q \in Requests, replies[q] # "none"  PROVE replies'[q] = replies[q]
  BY <1>2, <1>4 DEF Awaited
<1>5. replies' \in [Requests -> Replies]
  BY <1>1, <1>2 DEF Replies
<1>6. ASSUME NEW q \in Requests  PROVE AnsweredBy(replies'[q], requests'[q])
  <2> SUFFICES ASSUME replies'[q] = "ok"  PROVE requests'[q].state = "done" /\ ~Has(requests'[q].plan, {"operation_error"})
    BY DEF AnsweredBy
  <2>1. replies[q] = "ok"
    BY <1>2
  <2>2. requests[q].state = "done" /\ ~Has(requests[q].plan, {"operation_error"})
    BY <2>1 DEF RepliesAre, AnsweredBy
  <2> QED  BY <1>3, <2>2
<1> QED  BY <1>3, <1>4, <1>5, <1>6 DEF RepliesAre, SettledStay

LEMMA SettleSettles ==
  ASSUME GatewayIs(requests, inbox, log), RepliesAre(replies, requests), NEW r \in Requests, Settle(r)
  PROVE  RepliesAre(replies', requests') /\ SettledStay(replies, requests, replies', requests')
<1> DEFINE b == [requests[r] EXCEPT !.state = "done"]
           c == [b EXCEPT !.delivered = TRUE]
           next == [requests EXCEPT ![r] = c]
           reply == IF Has(Plan(r), {"operation_error"}) THEN "error" ELSE "ok"
<1>1. requests \in [Requests -> RequestKinds] /\ requests[r] \in RequestKinds
  BY DEF GatewayIs
<1>2. requests[r].state = "running" /\ replies' = Replied(r, reply)
  BY DEF Settle
<1>3. requests' = next
  BY <1>1 DEF Settle
<1>4. b \in RequestKinds /\ b.state = "done" /\ b.plan = requests[r].plan
  BY <1>1 DEF RequestKinds, RequestStates
<1> HIDE DEF b
<1>5. c.state = "done" /\ c.plan = requests[r].plan
  BY <1>4 DEF RequestKinds
<1> HIDE DEF c
<1>6. next[r] = c
  BY <1>1
<1>7. reply \in {"ok", "error"} /\ AnsweredBy(reply, next[r])
  BY <1>5, <1>6 DEF AnsweredBy, Plan
<1>8. RepliesAre(replies, next) /\ SettledStay(replies, requests, replies, next)
  BY <1>2, RequestSettled
<1> HIDE DEF next, reply
<1>9. RepliesAre(replies', next) /\ SettledStay(replies, next, replies', next)
  BY <1>2, <1>7, <1>8, ReplySettled
<1>10. SettledStay(replies, requests, replies', next)
  BY <1>8, <1>9 DEF SettledStay
<1> QED  BY <1>3, <1>9, <1>10

LEMMA RefuseSettles ==
  ASSUME GatewayIs(requests, inbox, log), RepliesAre(replies, requests), NEW r \in Requests, Refuse(r)
  PROVE  RepliesAre(replies', requests') /\ SettledStay(replies, requests, replies', requests')
<1> DEFINE c == [requests[r] EXCEPT !.state = "done"]
           next == [requests EXCEPT ![r] = c]
<1>1. requests \in [Requests -> RequestKinds]
  BY DEF GatewayIs
<1>2. requests[r].state = "recorded" /\ replies' = Replied(r, "error")
  BY DEF Refuse
<1>3. requests' = next
  BY <1>1 DEF Refuse
<1> HIDE DEF c
<1>4. RepliesAre(replies, next) /\ SettledStay(replies, requests, replies, next)
  BY <1>2, RequestSettled
<1> HIDE DEF next
<1>5. AnsweredBy("error", next[r])
  BY DEF AnsweredBy
<1>6. RepliesAre(replies', next) /\ SettledStay(replies, next, replies', next)
  BY <1>2, <1>4, <1>5, ReplySettled
<1>7. SettledStay(replies, requests, replies', next)
  BY <1>4, <1>6 DEF SettledStay
<1> QED  BY <1>3, <1>6, <1>7

LEMMA SentSettles ==
  ASSUME GatewayIs(requests, inbox, log), RepliesAre(replies, requests), NEW r \in Requests, requests[r].state = "unsent",
         NEW s, NEW origin
  PROVE  /\ RepliesAre(replies, Sent(r, s, origin))
         /\ SettledStay(replies, requests, replies, Sent(r, s, origin))
<1> DEFINE c == [requests[r] EXCEPT !.session = s, !.origin = origin, !.state = "sent"]
<1>1. requests \in [Requests -> RequestKinds]
  BY DEF GatewayIs
<1>2. Sent(r, s, origin) = [requests EXCEPT ![r] = c]
  BY <1>1 DEF Sent
<1> HIDE DEF c
<1> QED  BY <1>2, RequestSettled

LEMMA ServerSettles ==
  ASSUME GatewayIs(requests, inbox, log), RepliesAre(replies, requests), ServerStep
  PROVE  RepliesAre(replies', requests') /\ SettledStay(replies, requests, replies', requests')
<1>0. requests \in [Requests -> RequestKinds]
  BY DEF GatewayIs
<1>1. ASSUME NEW r \in Requests, NEW s \in Sessions, SendElsewhere(r, s)
      PROVE  RepliesAre(replies', requests') /\ SettledStay(replies, requests, replies', requests')
  <2>1. requests[r].state = "unsent" /\ requests' = Sent(r, s, "elsewhere") /\ replies' = replies
    BY <1>1 DEF SendElsewhere, IsNext
  <2> QED  BY <2>1, SentSettles
<1>2. ASSUME NEW r \in Requests, Receive(r)
      PROVE  RepliesAre(replies', requests') /\ SettledStay(replies, requests, replies', requests')
  <2> DEFINE c == [requests[r] EXCEPT !.state = "recorded"]
  <2>1. requests[r].state = "sent" /\ requests' = [requests EXCEPT ![r] = c] /\ replies' = replies
    BY <1>0, <1>2 DEF Receive
  <2> HIDE DEF c
  <2> QED  BY <2>1, RequestSettled
<1>3. ASSUME NEW r \in Requests, Admit(r)
      PROVE  RepliesAre(replies', requests') /\ SettledStay(replies, requests, replies', requests')
  <2>1. PICK plan \in Plans : requests' = [requests EXCEPT ![r].state = "running", ![r].plan = plan]
    BY <1>3 DEF Admit
  <2> DEFINE c == [requests[r] EXCEPT !.state = "running", !.plan = plan]
  <2>2. requests[r].state = "recorded" /\ requests' = [requests EXCEPT ![r] = c] /\ replies' = replies
    BY <1>0, <1>3, <2>1 DEF Admit
  <2> HIDE DEF c
  <2> QED  BY <2>2, RequestSettled
<1>4. ASSUME NEW r \in Requests, Emit(r)
      PROVE  RepliesAre(replies', requests') /\ SettledStay(replies, requests, replies', requests')
  BY <1>4, RequestsSettled DEF Emit
<1>5. ASSUME NEW r \in Requests, TimeOut(r)
      PROVE  RepliesAre(replies', requests') /\ SettledStay(replies, requests, replies', requests')
  <2>1. replies' = Replied(r, "error") /\ requests' = requests
    BY <1>5 DEF TimeOut
  <2>2. AnsweredBy("error", requests[r])
    BY DEF AnsweredBy
  <2> QED  BY <2>1, <2>2, ReplySettled
<1> QED  BY <1>1, <1>2, <1>3, <1>4, <1>5, CrashSettles, SettleSettles, RefuseSettles DEF ServerStep
-----------------------------------------------------------------------------
(* The exchanges a document has, wherever they are in it.                      *)

LEMMA AppendElements ==
  ASSUME NEW G, NEW xs \in Seq(G), NEW x \in G
  PROVE  Elements(Append(xs, x)) \subseteq Elements(xs) \cup {x}
<1>1. AddsLast(xs, x, Append(xs, x))
  BY AppendAddsLast
<1> QED  BY <1>1 DEF AddsLast, Elements

LEMMA ConcatElements ==
  ASSUME NEW G, NEW xs \in Seq(G), NEW ys \in Seq(G)
  PROVE  Elements(xs \o ys) \subseteq Elements(xs) \cup Elements(ys)
<1> DEFINE zs == xs \o ys
           m == Len(xs)
           n == Len(ys)
<1>1. /\ DOMAIN zs = 1..(m + n) /\ m \in Nat /\ n \in Nat /\ DOMAIN xs = 1..m /\ DOMAIN ys = 1..n
      /\ \A i \in 1..(m + n) : zs[i] = IF i <= m THEN xs[i] ELSE ys[i - m]
  BY ConcatProperties
<1> HIDE DEF zs, m, n
<1>2. ASSUME NEW i \in DOMAIN zs
      PROVE  (i \in DOMAIN xs /\ zs[i] = xs[i]) \/ (i - m \in DOMAIN ys /\ zs[i] = ys[i - m])
  BY <1>1
<1>3. Elements(zs) \subseteq Elements(xs) \cup Elements(ys)
  BY <1>2 DEF Elements
<1> QED  BY <1>3 DEF zs

LEMMA WithoutElements ==
  ASSUME NEW G, NEW xs \in Seq(G), NEW i \in DOMAIN xs
  PROVE  Elements(Without(xs, i)) \subseteq Elements(xs)
<1> DEFINE a == SubSeq(xs, 1, i - 1)
           b == SubSeq(xs, i + 1, Len(xs))
           n == Len(xs)
<1>1. n \in Nat /\ DOMAIN xs = 1..n /\ i \in 1..n
  OBVIOUS
<1>2. a \in Seq(G) /\ Len(a) = i - 1 /\ \A k \in 1..(i - 1) : a[k] = xs[k]
  BY <1>1
<1>3. b \in Seq(G) /\ Len(b) = n - i /\ \A k \in 1..(n - i) : b[k] = xs[k + i]
  BY <1>1
<1>4. Without(xs, i) = a \o b
  BY DEF Without
<1> HIDE DEF a, b, n
<1>5. DOMAIN a = 1..(i - 1) /\ DOMAIN b = 1..(n - i)
  BY <1>2, <1>3
<1>6. Elements(Without(xs, i)) \subseteq Elements(a) \cup Elements(b)
  BY <1>2, <1>3, <1>4, ConcatElements
<1>7. \A k \in DOMAIN a : k \in DOMAIN xs /\ a[k] = xs[k]
  BY <1>1, <1>2, <1>5
<1>8. \A k \in DOMAIN b : k + i \in DOMAIN xs /\ b[k] = xs[k + i]
  BY <1>1, <1>3, <1>5, SMTT(60)
<1>9. Elements(a) \subseteq Elements(xs)
  BY <1>7 DEF Elements
<1>10. Elements(b) \subseteq Elements(xs)
  BY <1>8 DEF Elements
<1> QED  BY <1>6, <1>9, <1>10

LEMMA ReplacedElements ==
  ASSUME NEW G, NEW xs \in Seq(G), NEW i \in DOMAIN xs, NEW x \in G
  PROVE  \A y \in Elements([xs EXCEPT ![i] = x]) : y = x \/ \E j \in DOMAIN xs : j # i /\ y = xs[j]
<1> DEFINE ys == [xs EXCEPT ![i] = x]
<1>1. DOMAIN ys = DOMAIN xs /\ \A j \in DOMAIN xs : ys[j] = IF j = i THEN x ELSE xs[j]
  BY ExceptSeq
<1> HIDE DEF ys
<1>2. \A y \in Elements(ys) : y = x \/ \E j \in DOMAIN xs : j # i /\ y = xs[j]
  BY <1>1 DEF Elements
<1> QED  BY <1>2 DEF ys

\* What a document remembers of the stream and the pages.
Remembers(d, e) == e.seen = d.seen /\ e.closed = d.closed

\* The same exchange, but for its rows, status and answer.
Like(x, y) == y.id = x.id /\ y.sub = x.sub /\ y.prompt = x.prompt

LEMMA AlteredElements ==
  ASSUME NEW s, NEW reqs, NEW d \in DocumentsOf(s, reqs), NEW i \in DOMAIN d.exchanges, NEW x \in Exchanges
  PROVE  /\ Remembers(d, Altered(d, i, x))
         /\ \A y \in Elements(Altered(d, i, x).exchanges) :
              y = x \/ \E j \in DOMAIN d.exchanges : j # i /\ y = d.exchanges[j]
<1> DEFINE ys == [d.exchanges EXCEPT ![i] = x]
<1>1. d \in Documents /\ d.exchanges \in Seq(Exchanges)
  BY DocumentIs
<1>2. \A y \in Elements(ys) : y = x \/ \E j \in DOMAIN d.exchanges : j # i /\ y = d.exchanges[j]
  BY <1>1, ReplacedElements
<1>3. Altered(d, i, x) = [d EXCEPT !.exchanges = ys]
  BY DEF Altered
<1> HIDE DEF ys
<1>4. Altered(d, i, x).exchanges = ys /\ Remembers(d, Altered(d, i, x))
  BY <1>1, <1>3 DEF Documents, Remembers
<1> QED  BY <1>2, <1>4

\* No two exchanges have one id, nor one submission.
LEMMA ExchangesDiffer ==
  ASSUME NEW s, NEW reqs, NEW d \in DocumentsOf(s, reqs), NEW i \in DOMAIN d.exchanges, NEW j \in DOMAIN d.exchanges,
         d.exchanges[i].id = d.exchanges[j].id \/ d.exchanges[i].sub = d.exchanges[j].sub
  PROVE  i = j
<1>1. Distinct(d.exchanges) /\ \A k \in DOMAIN d.exchanges : d.exchanges[k] \in Good(d.pending, s, reqs)
  BY DocumentIs
<1>2. d.exchanges[i].sub = d.exchanges[j].sub
  BY <1>1 DEF Good, Named
<1> QED  BY <1>1, <1>2 DEF Distinct

LEMMA BeginTells ==
  ASSUME NEW s, NEW reqs, NEW d \in DocumentsOf(s, reqs), NEW prompt \in Requests \cup {0}
  PROVE  /\ Remembers(d, BeginExchange(d, prompt))
         /\ \A y \in Elements(BeginExchange(d, prompt).exchanges) : y \in Elements(d.exchanges) \/ y.prompt = prompt
<1> DEFINE n == d.pending + 1
           x == Exchange(<<"pending", n>>, <<"pending", n>>, prompt, {}, "none", "running")
           xs == d.exchanges
           ys == Append(xs, x)
<1>1. d \in Documents /\ d.pending \in Nat /\ xs \in Seq(Exchanges) /\ n \in Nat
  BY DocumentIs
<1>2. BeginExchange(d, prompt).exchanges = ys /\ Remembers(d, BeginExchange(d, prompt))
  BY <1>1 DEF BeginExchange, PendingId, Documents, Remembers
<1>3. x.prompt = prompt
  BY DEF Exchange
<1>4. x \in Exchanges
  BY <1>1 DEF Exchange, Exchanges, Names
<1>5. Elements(ys) \subseteq Elements(xs) \cup {x}
  <2> HIDE DEF x, xs
  <2> QED  BY <1>1, <1>4, AppendElements
<1> HIDE DEF x, xs, ys
<1>6. \A y \in Elements(ys) : y \in Elements(xs) \/ y.prompt = prompt
  BY <1>3, <1>5
<1> QED  BY <1>2, <1>6 DEF xs

LEMMA TrackedTells ==
  ASSUME NEW s, NEW reqs, NEW d \in DocumentsOf(s, reqs), NEW page
  PROVE  Tracked(d, page).seen = d.seen /\ d.closed \subseteq Tracked(d, page).closed
<1>1. d \in Documents
  BY DocumentIs
<1>2. Tracked(d, page).seen = d.seen
  BY <1>1 DEF Tracked, Documents
<1>3. Tracked(d, page).closed = d.closed \cup Submissions(page, {"completed", "failed"})
  BY <1>1 DEF Tracked, Documents
<1> QED  BY <1>2, <1>3

LEMMA SnapshotTells ==
  ASSUME NEW s, NEW reqs, NEW d \in DocumentsOf(s, reqs), NEW page \in PagesOf(s, reqs),
         NEW e \in {InstallSnapshot(d, page), PrependSnapshot(d, page)}
  PROVE  /\ e.seen = d.seen /\ d.closed \subseteq e.closed
         /\ Elements(e.exchanges) \subseteq Elements(d.exchanges) \cup Elements(page)
<1> DEFINE new == Fresh(d, page)
           c == Tracked(d, new)
           xs == d.exchanges
<1>1. new \in PagesOf(s, reqs)
  BY FreshIs
<1>2. c \in DocumentsOf(s, reqs) /\ c.exchanges = xs /\ c.seen = d.seen /\ d.closed \subseteq c.closed
  <2> HIDE DEF new
  <2> QED  BY <1>1, TrackedIs, TrackedTells
<1>3. /\ InstallSnapshot(d, page) = [c EXCEPT !.exchanges = c.exchanges \o new]
      /\ PrependSnapshot(d, page) = [c EXCEPT !.exchanges = new \o c.exchanges]
  BY DEF InstallSnapshot, PrependSnapshot
<1>4. \A k \in DOMAIN new : \E i \in DOMAIN page : new[k] = page[i]
  <2> DEFINE I == {i \in DOMAIN page : ~ContainsExchange(d, page[i])}
  <2>1. page \in Seq(Paged(s, reqs)) /\ Distinct(page)
    BY DEF PagesOf
  <2>2. new = Picked(page, I)
    BY DEF Fresh
  <2> HIDE DEF I, new
  <2> QED  BY <2>1, <2>2, PickedDistinct
<1> HIDE DEF new, c
<1>5. c \in Documents /\ xs \in Seq(Exchanges) /\ new \in Seq(Exchanges)
  <2>1. new \in Seq(Exchanges)
    BY <1>1, SeqMonotonic DEF PagesOf, Paged
  <2> QED  BY <1>2, <2>1, DocumentIs
<1>6. e.exchanges \in {xs \o new, new \o xs} /\ e.seen = c.seen /\ e.closed = c.closed
  BY <1>2, <1>3, <1>5 DEF Documents
<1>7. Elements(new) \subseteq Elements(page)
  BY <1>4 DEF Elements
<1> HIDE DEF xs
<1>8. /\ Elements(xs \o new) \subseteq Elements(xs) \cup Elements(new)
      /\ Elements(new \o xs) \subseteq Elements(xs) \cup Elements(new)
  BY <1>5, ConcatElements
<1> QED  BY <1>2, <1>6, <1>7, <1>8 DEF xs

\* The text of an answer goes to one exchange, and takes the place of what it had.
LEMMA AnswerTells ==
  ASSUME NEW s, NEW reqs, NEW d \in DocumentsOf(s, reqs), NEW xid, NEW answer \in {"interim", "final"}
  PROVE  /\ Remembers(d, SetAssistant(d, xid, answer))
         /\ \A y \in Elements(SetAssistant(d, xid, answer).exchanges) :
              \E x \in Elements(d.exchanges) : Like(x, y) /\ y.answer = IF x.id = xid THEN answer ELSE x.answer
<1> DEFINE at == Position(d, "id", xid)
           i == The(at)
           x == [[d.exchanges[i] EXCEPT !.answer = answer] EXCEPT !.status = "completed"]
           a == Altered(d, i, x)
           t == {y \in d.streaming : y[1] # d.exchanges[i].sub}
<1>1. CASE at = {}
  <2>1. SetAssistant(d, xid, answer) = d
    BY <1>1 DEF SetAssistant
  <2>2. \A y \in Elements(d.exchanges) : y.id # xid
    BY <1>1 DEF Position, Elements
  <2> QED  BY <2>1, <2>2 DEF Remembers, Like
<1>2. CASE at # {}
  <2>1. i \in DOMAIN d.exchanges /\ d.exchanges[i].id = xid
    <3>1. i \in DOMAIN d.exchanges /\ d.exchanges[i]["id"] = xid
      BY <1>2, PositionIs
    <3> HIDE DEF i
    <3> QED  BY <3>1
  <2>2. d.exchanges[i] \in Exchanges /\ d \in Documents
    <3> HIDE DEF i
    <3> QED  BY <2>1, ExchangeAt, DocumentIs
  <2>3. SetAssistant(d, xid, answer) = [a EXCEPT !.streaming = t]
    <3>1. SetAssistant(d, xid, answer) =
            [d EXCEPT !.exchanges[i].answer = answer, !.exchanges[i].status = "completed", !.streaming = t]
      BY <1>2 DEF SetAssistant
    <3> HIDE DEF i
    <3>2. [d EXCEPT !.exchanges[i].answer = answer, !.exchanges[i].status = "completed", !.streaming = t]
            = [a EXCEPT !.streaming = t]
      BY <2>1, <2>2 DEF Altered, Documents
    <3> QED  BY <3>1, <3>2
  <2> HIDE DEF i
  <2>4. x \in Exchanges /\ Like(d.exchanges[i], x) /\ x.answer = answer
    BY <2>2 DEF Exchanges, Like
  <2> HIDE DEF x, t
  <2>5. /\ Remembers(d, a)
        /\ \A y \in Elements(a.exchanges) : y = x \/ \E j \in DOMAIN d.exchanges : j # i /\ y = d.exchanges[j]
    BY <2>1, <2>4, AlteredElements
  <2>6. a \in Documents
    <3>1. a \in DocumentsOf(s, reqs)
      <4>1. x.id = d.exchanges[i].id /\ x.sub = d.exchanges[i].sub
        BY <2>4 DEF Like
      <4> QED  BY <2>1, <2>4, <4>1, AlteredKeeps
    <3> QED  BY <3>1, DocumentIs
  <2> HIDE DEF a
  <2> DEFINE b == [a EXCEPT !.streaming = t]
  <2>7. b.exchanges = a.exchanges /\ Remembers(a, b)
    BY <2>6 DEF Documents, Remembers
  <2> HIDE DEF b
  <2>8. ASSUME NEW y \in Elements(a.exchanges)
        PROVE  \E z \in Elements(d.exchanges) : Like(z, y) /\ y.answer = IF z.id = xid THEN answer ELSE z.answer
    <3>1. CASE y = x
      <4>1. d.exchanges[i] \in Elements(d.exchanges)
        BY <2>1 DEF Elements
      <4> QED  BY <2>1, <2>4, <3>1, <4>1
    <3>2. ASSUME NEW j \in DOMAIN d.exchanges, j # i, y = d.exchanges[j]
          PROVE  y \in Elements(d.exchanges) /\ y.id # xid
      BY <2>1, <3>2, ExchangesDiffer DEF Elements
    <3> QED  BY <2>5, <3>1, <3>2 DEF Like
  <2> QED  BY <2>3, <2>5, <2>7, <2>8 DEF Remembers, b
<1> QED  BY <1>1, <1>2

\* The exchange that binding changes takes no more than the prompt of the one bound.
LEMMA MergedTells ==
  ASSUME NEW s, NEW reqs, NEW d \in DocumentsOf(s, reqs), NEW i \in DOMAIN d.exchanges, NEW j \in DOMAIN d.exchanges
  PROVE  /\ Remembers(d, Merged(d, i, j).doc)
         /\ \A y \in Elements(Merged(d, i, j).doc.exchanges) :
              y \in Elements(d.exchanges) \/ y.prompt = d.exchanges[i].prompt
<1> DEFINE xs == d.exchanges
           x == [xs[j] EXCEPT !.prompt = IF @ = 0 THEN xs[i].prompt ELSE @]
           all == [xs EXCEPT ![j] = x]
<1>1. xs[i] \in Exchanges /\ xs[j] \in Exchanges /\ d \in Documents /\ xs \in Seq(Exchanges)
  BY ExchangeAt, DocumentIs
<1>2. x \in Exchanges /\ (x = xs[j] \/ x.prompt = xs[i].prompt)
  BY <1>1 DEF Exchanges
<1>3. Merged(d, i, j).doc.exchanges = Without(all, i) /\ Remembers(d, Merged(d, i, j).doc)
  BY <1>1 DEF Merged, Without, Documents, Remembers
<1> HIDE DEF x
<1>4. all \in Seq(Exchanges) /\ DOMAIN all = DOMAIN xs
  <2> HIDE DEF xs
  <2> QED  BY <1>1, <1>2, ExceptSeq DEF xs
<1>5. \A y \in Elements(all) : y = x \/ \E k \in DOMAIN xs : k # j /\ y = xs[k]
  <2> HIDE DEF xs
  <2> QED  BY <1>1, <1>2, ReplacedElements DEF xs
<1> HIDE DEF all
<1>6. Elements(Without(all, i)) \subseteq Elements(all)
  <2>1. i \in DOMAIN all
    BY <1>4
  <2> QED  BY <1>4, <2>1, WithoutElements
<1>7. \A y \in Elements(all) : y \in Elements(xs) \/ y.prompt = xs[i].prompt
  BY <1>2, <1>5 DEF Elements
<1> QED  BY <1>3, <1>6, <1>7

LEMMA RenamedTells ==
  ASSUME NEW s, NEW reqs, NEW d \in DocumentsOf(s, reqs), NEW i \in DOMAIN d.exchanges, NEW r, Asked(r, s, reqs)
  PROVE  /\ Remembers(d, Renamed(d, i, <<"sub", r>>).doc)
         /\ \A y \in Elements(Renamed(d, i, <<"sub", r>>).doc.exchanges) :
              y \in Elements(d.exchanges) \/ y.prompt = d.exchanges[i].prompt
<1> DEFINE sub == <<"sub", r>>
           id == <<"exchange", r>>
           xs == d.exchanges
           x == [[xs[i] EXCEPT !.id = id] EXCEPT !.sub = sub]
           ys == [xs EXCEPT ![i] = x]
<1>1. xs[i] \in Exchanges /\ d \in Documents /\ xs \in Seq(Exchanges)
  BY ExchangeAt, DocumentIs
<1>2. r \in Nat /\ sub \in Names /\ id \in Names
  BY DEF Asked, Names, Requests
<1>3. x \in Exchanges /\ x.prompt = xs[i].prompt
  <2> HIDE DEF sub, id, xs
  <2> QED  BY <1>1, <1>2 DEF Exchanges
<1>4. Renamed(d, i, sub).doc.exchanges = ys /\ Remembers(d, Renamed(d, i, sub).doc)
  BY <1>1 DEF Renamed, Documents, Remembers
<1> HIDE DEF x, sub, id
<1>5. \A y \in Elements(ys) : y = x \/ \E k \in DOMAIN xs : k # i /\ y = xs[k]
  <2> HIDE DEF xs
  <2> QED  BY <1>1, <1>3, ReplacedElements DEF xs
<1> HIDE DEF ys
<1>6. \A y \in Elements(ys) : y \in Elements(xs) \/ y.prompt = xs[i].prompt
  BY <1>3, <1>5 DEF Elements
<1> QED  BY <1>4, <1>6 DEF sub

LEMMA BindTells ==
  ASSUME NEW s, NEW reqs, NEW d \in DocumentsOf(s, reqs), NEW xid, NEW r, Asked(r, s, reqs)
  PROVE  /\ Remembers(d, Bind(d, xid, <<"sub", r>>).doc)
         /\ \A y \in Elements(Bind(d, xid, <<"sub", r>>).doc.exchanges) :
              y \in Elements(d.exchanges) \/ \E x \in Elements(d.exchanges) : x.id = xid /\ y.prompt = x.prompt
<1> DEFINE sub == <<"sub", r>>
           source == Position(d, "id", xid)
           target == Position(d, "sub", sub)
           i == The(source)
           j == The(target)
           b == Bind(d, xid, sub)
<1>1. CASE source = {} \/ target = source
  <2>1. b.doc = d
    BY <1>1 DEF Bind
  <2> HIDE DEF b
  <2> QED  BY <2>1 DEF Remembers, b
<1>2. CASE source # {} /\ target # source
  <2>1. i \in DOMAIN d.exchanges /\ d.exchanges[i].id = xid
    <3>1. i \in DOMAIN d.exchanges /\ d.exchanges[i]["id"] = xid
      BY <1>2, PositionIs
    <3> HIDE DEF i
    <3> QED  BY <3>1
  <2>2. \/ b = Renamed(d, i, sub)
        \/ j \in DOMAIN d.exchanges /\ b = Merged(d, i, j)
    <3>1. target # {} => j \in DOMAIN d.exchanges
      BY PositionIs
    <3> HIDE DEF i, j
    <3> QED  BY <1>2, <3>1 DEF Bind, i, j
  <2> HIDE DEF i, j, b, sub
  <2>3. Remembers(d, b.doc) /\ \A y \in Elements(b.doc.exchanges) :
          y \in Elements(d.exchanges) \/ y.prompt = d.exchanges[i].prompt
    <3>1. CASE b = Renamed(d, i, sub)
      BY <2>1, <3>1, RenamedTells DEF sub
    <3>2. CASE j \in DOMAIN d.exchanges /\ b = Merged(d, i, j)
      BY <2>1, <3>2, MergedTells
    <3> QED  BY <2>2, <3>1, <3>2
  <2>4. d.exchanges[i] \in Elements(d.exchanges)
    BY <2>1 DEF Elements
  <2> QED  BY <2>1, <2>3, <2>4 DEF b, sub
<1> QED  BY <1>1, <1>2

LEMMA EnsuredTells ==
  ASSUME NEW s, NEW reqs, NEW d \in DocumentsOf(s, reqs), NEW r, Asked(r, s, reqs)
  PROVE  /\ Remembers(d, Ensured(d, <<"sub", r>>))
         /\ \A y \in Elements(Ensured(d, <<"sub", r>>).exchanges) : y \in Elements(d.exchanges) \/ y.prompt = 0
<1> DEFINE sub == <<"sub", r>>
           id == <<"exchange", r>>
           x == Exchange(id, sub, 0, {}, "none", "running")
           xs == Append(d.exchanges, x)
<1>1. CASE HasSubmission(d, sub)
  BY <1>1 DEF Ensured, Remembers
<1>2. CASE ~HasSubmission(d, sub)
  <2>1. d \in Documents /\ d.exchanges \in Seq(Exchanges)
    BY DocumentIs
  <2>2. sub \in Names /\ id \in Names
    BY DEF Asked, Names, Requests
  <2>3. x \in Exchanges /\ x.prompt = 0
    <3> HIDE DEF sub, id
    <3> QED  BY <2>2 DEF Exchange, Exchanges
  <2>4. Ensured(d, sub) = [d EXCEPT !.exchanges = xs]
    BY <1>2 DEF Ensured
  <2> HIDE DEF x, sub, id
  <2>5. Elements(xs) \subseteq Elements(d.exchanges) \cup {x}
    BY <2>1, <2>3, AppendElements
  <2> HIDE DEF xs
  <2>6. Ensured(d, sub).exchanges = xs /\ Remembers(d, Ensured(d, sub))
    BY <2>1, <2>4 DEF Documents, Remembers
  <2> QED  BY <2>3, <2>5, <2>6 DEF sub
<1> QED  BY <1>1, <1>2

\* Exchanges told as before, but for rows and status.
SameAnswers(d, e) ==
  /\ Remembers(d, e)
  /\ \A y \in Elements(e.exchanges) : \E x \in Elements(d.exchanges) : Like(x, y) /\ y.answer = x.answer

LEMMA AlteredTells ==
  ASSUME NEW s, NEW reqs, NEW d \in DocumentsOf(s, reqs), NEW i \in DOMAIN d.exchanges, NEW x \in Exchanges,
         Like(d.exchanges[i], x), x.answer = d.exchanges[i].answer
  PROVE  SameAnswers(d, Altered(d, i, x))
<1>1. /\ Remembers(d, Altered(d, i, x))
      /\ \A y \in Elements(Altered(d, i, x).exchanges) :
           y = x \/ \E j \in DOMAIN d.exchanges : j # i /\ y = d.exchanges[j]
  BY AlteredElements
<1>2. \A j \in DOMAIN d.exchanges : d.exchanges[j] \in Elements(d.exchanges)
  BY DEF Elements
<1> QED  BY <1>1, <1>2 DEF SameAnswers, Like

LEMMA PutTells ==
  ASSUME NEW s, NEW reqs, NEW d \in DocumentsOf(s, reqs), NEW i \in DOMAIN d.exchanges,
         NEW what \in {"operation", "tool"}, NEW rowStatus \in {"running", "ended"},
         NEW status \in {"running", "completed", "failed"}
  PROVE  /\ SameAnswers(d, PutRow(d, i, what, rowStatus))
         /\ SameAnswers(d, Marked(PutRow(d, i, what, rowStatus), i, status))
<1> DEFINE rows == Upserted(d.exchanges[i].rows, what, rowStatus)
           x == [d.exchanges[i] EXCEPT !.rows = rows]
           a == Altered(d, i, x)
           y == [a.exchanges[i] EXCEPT !.status = status]
           b == Altered(a, i, y)
<1>1. d.exchanges[i] \in Exchanges /\ d \in Documents
  BY ExchangeAt, DocumentIs
<1>2. rows \in SUBSET RowKinds
  <2>1. d.exchanges[i].rows \in SUBSET RowKinds
    BY <1>1 DEF Exchanges, RowKinds
  <2>2. Row("live", what, rowStatus) \in RowKinds
    BY DEF Row, RowKinds
  <2> QED  BY <2>1, <2>2 DEF Upserted
<1>3. x \in Exchanges /\ Like(d.exchanges[i], x) /\ x.answer = d.exchanges[i].answer
  <2> HIDE DEF rows
  <2> QED  BY <1>1, <1>2 DEF Exchanges, RowKinds, Like
<1>4. PutRow(d, i, what, rowStatus) = a
  BY <1>1 DEF Altered, PutRow
<1> HIDE DEF x, rows
<1>5. a \in DocumentsOf(s, reqs) /\ a.exchanges[i] = x /\ DOMAIN a.exchanges = DOMAIN d.exchanges
  <2>1. x.id = d.exchanges[i].id /\ x.sub = d.exchanges[i].sub
    BY <1>3 DEF Like
  <2> QED  BY <1>3, <2>1, AlteredKeeps
<1>6. SameAnswers(d, a)
  BY <1>3, AlteredTells
<1> HIDE DEF a
<1>7. y \in Exchanges /\ Like(a.exchanges[i], y) /\ y.answer = a.exchanges[i].answer
  BY <1>3, <1>5 DEF Exchanges, Like
<1>8. Marked(a, i, status) = b
  BY <1>5, DocumentIs DEF Altered, Marked
<1> HIDE DEF y
<1>9. SameAnswers(a, b)
  BY <1>5, <1>7, AlteredTells
<1> HIDE DEF b
<1>10. SameAnswers(d, b)
  BY <1>6, <1>9 DEF SameAnswers, Remembers, Like
<1> QED  BY <1>4, <1>6, <1>8, <1>10

\* An answer that the stream brings takes the place of the one its submission had.
AnswersMove(d, e, sub, kind) ==
  /\ Remembers(d, e)
  /\ \A y \in Elements(e.exchanges) : \E x \in Elements(d.exchanges) :
       /\ Like(x, y)
       /\ y.answer = IF kind \in Answers /\ x.sub = sub THEN kind ELSE x.answer

LEMMA UpdatedTells ==
  ASSUME NEW s, NEW reqs, NEW d \in DocumentsOf(s, reqs), NEW e \in Requests \X Nat, Kind(e) \in EventKinds,
         Position(d, "sub", <<"sub", e[1]>>) # {}
  PROVE  AnswersMove(d, Updated(d, e), <<"sub", e[1]>>, Kind(e))
<1> DEFINE sub == <<"sub", e[1]>>
           at == The(Position(d, "sub", sub))
<1>1. at \in DOMAIN d.exchanges /\ d.exchanges[at].sub = sub
  <2>1. at \in DOMAIN d.exchanges /\ d.exchanges[at]["sub"] = sub
    BY PositionIs
  <2> HIDE DEF at
  <2> QED  BY <2>1
<1>2. ASSUME NEW what \in {"operation", "tool"}, NEW rowStatus \in {"running", "ended"}
      PROVE  SameAnswers(d, PutRow(d, at, what, rowStatus))
  <2> HIDE DEF at
  <2> QED  BY <1>1, PutTells
<1>3. ASSUME NEW what \in {"operation", "tool"}, NEW status \in {"running", "completed", "failed"}
      PROVE  SameAnswers(d, Marked(PutRow(d, at, what, "ended"), at, status))
  <2> HIDE DEF at
  <2> QED  BY <1>1, PutTells
<1>4. ASSUME SameAnswers(d, Updated(d, e)), Kind(e) \notin Answers
      PROVE  AnswersMove(d, Updated(d, e), sub, Kind(e))
  BY <1>4 DEF SameAnswers, AnswersMove
<1>5. CASE Kind(e) \in {"operation_start", "tool_start", "tool"}
  <2>1. Updated(d, e) \in {PutRow(d, at, "operation", "running"), PutRow(d, at, "tool", "running"),
                           PutRow(d, at, "tool", "ended")}
    BY <1>5 DEF Updated, Answers
  <2> QED  BY <1>2, <1>4, <1>5, <2>1 DEF Answers
<1>6. CASE Kind(e) \in {"operation_error", "tool_error"}
  <2>1. Updated(d, e) \in {Marked(PutRow(d, at, "operation", "ended"), at, "failed"),
                           Marked(PutRow(d, at, "tool", "ended"), at, "failed")}
    BY <1>6 DEF Updated, Answers
  <2> QED  BY <1>3, <1>4, <1>6, <2>1 DEF Answers
<1>7. CASE Kind(e) = "operation"
  <2>1. Updated(d, e) \in {Marked(PutRow(d, at, "operation", "ended"), at, "failed"),
                           Marked(PutRow(d, at, "operation", "ended"), at, "completed")}
    BY <1>7 DEF Updated, Answers
  <2> QED  BY <1>3, <1>4, <1>7, <2>1 DEF Answers
<1>8. CASE Kind(e) = "text_delta"
  <2> DEFINE t == d.streaming \cup {<<sub, Cardinality({y \in d.streaming : y[1] = sub}) + 1>>}
  <2>1. Updated(d, e) = [d EXCEPT !.streaming = t]
    BY <1>8 DEF Updated, Streamed, Answers
  <2>2. d \in Documents
    BY DocumentIs
  <2> HIDE DEF t
  <2>3. Updated(d, e).exchanges = d.exchanges /\ Remembers(d, Updated(d, e))
    BY <2>1, <2>2 DEF Documents, Remembers
  <2>4. SameAnswers(d, Updated(d, e))
    BY <2>3 DEF SameAnswers, Like
  <2> QED  BY <1>4, <1>8, <2>4 DEF Answers
<1>9. CASE Kind(e) \in Answers
  <2> DEFINE xid == d.exchanges[at].id
             c == SetAssistant(d, xid, Kind(e))
  <2>1. Updated(d, e) = c
    BY <1>9 DEF Updated, Answers
  <2>2. Kind(e) \in {"interim", "final"}
    BY <1>9 DEF Answers
  <2>3. \A x \in Elements(d.exchanges) : x.id = xid <=> x.sub = sub
    <3> SUFFICES ASSUME NEW k \in DOMAIN d.exchanges
                 PROVE  d.exchanges[k].id = xid <=> d.exchanges[k].sub = sub
      BY DEF Elements
    <3> HIDE DEF at
    <3> QED  BY <1>1, ExchangesDiffer
  <2> HIDE DEF xid
  <2>4. /\ Remembers(d, c)
        /\ \A y \in Elements(c.exchanges) :
             \E x \in Elements(d.exchanges) : Like(x, y) /\ y.answer = IF x.id = xid THEN Kind(e) ELSE x.answer
    BY <2>2, AnswerTells
  <2> HIDE DEF c
  <2> QED  BY <1>9, <2>1, <2>3, <2>4 DEF AnswersMove
<1> QED  BY <1>5, <1>6, <1>7, <1>8, <1>9 DEF EventKinds, Errors

LEMMA SealedTells ==
  ASSUME NEW s, NEW reqs, NEW d \in DocumentsOf(s, reqs), NEW sub
  PROVE  Sealed(d, sub).seen = d.seen /\ d.closed \subseteq Sealed(d, sub).closed
<1>1. d \in Documents
  BY DocumentIs
<1> DEFINE a == [d EXCEPT !.resumable = @ \ {sub}]
           b == [a EXCEPT !.closed = @ \cup {sub}]
<1>2. a \in Documents /\ a.seen = d.seen /\ a.closed = d.closed
  BY <1>1 DEF Documents
<1>3. Sealed(d, sub) \in {d, b}
  <2>1. [d EXCEPT !.resumable = @ \ {sub}, !.closed = @ \cup {sub}] = b
    BY <1>1 DEF Documents
  <2> QED  BY <2>1 DEF Sealed
<1> HIDE DEF a
<1>4. b.seen = d.seen /\ b.closed = d.closed \cup {sub}
  BY <1>2 DEF Documents
<1> HIDE DEF b
<1> QED  BY <1>3, <1>4

\* What is dealt with: an event that was applied, or one of a submission that has ended.
Dealt(seen, closed, e) == e \in seen \/ <<"sub", e[1]>> \in closed

\* An event changes nothing, or is seen, and brings its answer.
EventTells(d, next, e) ==
  IF Dealt(d.seen, d.closed, e) THEN next = d
  ELSE /\ next.seen = d.seen \cup {e} /\ d.closed \subseteq next.closed
       /\ \A y \in Elements(next.exchanges) :
            \/ y.prompt = 0
            \/ \E x \in Elements(d.exchanges) :
                 /\ Like(x, y)
                 /\ y.answer = IF Kind(e) \in Answers /\ x.sub = <<"sub", e[1]>> THEN Kind(e) ELSE x.answer

LEMMA ApplyTells ==
  ASSUME NEW s, NEW d \in DocumentsOf(s, requests), NEW e \in Heard(s)
  PROVE  EventTells(d, ApplyEvent(d, e), e)
<1> DEFINE sub == <<"sub", e[1]>>
           a == Ensured(d, sub)
           b == [a EXCEPT !.seen = @ \cup {e}]
           c == Updated(b, e)
           z == Sealed(c, sub)
<1>1. e \in Requests \X Nat /\ Asked(e[1], s, requests) /\ Kind(e) \in EventKinds /\ sub \in Names
  BY DEF Heard, Names, Requests
<1>2. CASE Dealt(d.seen, d.closed, e)
  BY <1>2 DEF Dealt, ApplyEvent, EventTells
<1>3. CASE ~Dealt(d.seen, d.closed, e)
  <2>1. a \in DocumentsOf(s, requests) /\ Position(a, "sub", sub) # {}
    BY <1>1, EnsuredKeeps
  <2>2. /\ Remembers(d, a)
        /\ \A y \in Elements(a.exchanges) : y \in Elements(d.exchanges) \/ y.prompt = 0
    BY <1>1, EnsuredTells
  <2>3. ApplyEvent(d, e) = z
    BY <1>3 DEF ApplyEvent, Dealt
  <2> HIDE DEF a
  <2>4. b \in DocumentsOf(s, requests) /\ Position(b, "sub", sub) # {} /\ b.exchanges = a.exchanges
    BY <1>1, <2>1, SeenKeeps
  <2>5. b.seen = a.seen \cup {e} /\ b.closed = a.closed
    <3>1. a \in Documents
      BY <2>1, DocumentIs
    <3> QED  BY <3>1 DEF Documents
  <2> HIDE DEF b
  <2>6. c \in DocumentsOf(s, requests) /\ AnswersMove(b, c, sub, Kind(e))
    BY <1>1, <2>4, UpdatedKeeps, UpdatedTells
  <2> HIDE DEF c
  <2>7. z.exchanges = c.exchanges /\ z.seen = c.seen /\ c.closed \subseteq z.closed
    BY <1>1, <2>6, SealedKeeps, SealedTells
  <2> HIDE DEF z
  <2>8. z.seen = d.seen \cup {e} /\ d.closed \subseteq z.closed
    BY <2>2, <2>5, <2>6, <2>7 DEF Remembers, AnswersMove
  <2>9. ASSUME NEW y \in Elements(z.exchanges)
        PROVE  \/ y.prompt = 0
               \/ \E x \in Elements(d.exchanges) :
                    /\ Like(x, y)
                    /\ y.answer = IF Kind(e) \in Answers /\ x.sub = sub THEN Kind(e) ELSE x.answer
    <3>1. PICK x \in Elements(b.exchanges) :
            Like(x, y) /\ y.answer = IF Kind(e) \in Answers /\ x.sub = sub THEN Kind(e) ELSE x.answer
      BY <2>6, <2>7 DEF AnswersMove
    <3>2. x \in Elements(d.exchanges) \/ x.prompt = 0
      BY <2>2, <2>4
    <3>3. y.prompt = x.prompt
      BY <3>1 DEF Like
    <3> QED  BY <3>1, <3>2, <3>3
  <2> QED  BY <1>3, <2>3, <2>8, <2>9 DEF EventTells
<1> QED  BY <1>2, <1>3
-----------------------------------------------------------------------------
(* How far the document has got in the log of its stream.                      *)

\* Up to f the log was read.  All that was seen is there, and from what was seen on, as
\* from where the stream will go on, everything is dealt with.
Reads(entries, seen, closed, from, f) ==
  /\ from <= f /\ f <= Len(entries)
  /\ \A e \in seen : \E q \in 1..f : entries[q] = e
  /\ \A q \in 1..f : entries[q] \in seen => \A m \in q..f : Dealt(seen, closed, entries[m])
  /\ \A m \in (from + 1)..f : Dealt(seen, closed, entries[m])

\* Of each submission, the events seen follow one another.
Unbroken(seen) == \A a, b \in seen : a[1] = b[1] => \A j \in (a[2])..(b[2]) : <<a[1], j>> \in seen

\* An interim message has come, and no final one after it.
Overtaken(plan, r, seen) ==
  \E k \in DOMAIN plan :
    /\ plan[k] = "interim" /\ <<r, k>> \in seen
    /\ \A j \in DOMAIN plan : k < j /\ plan[j] = "final" => <<r, j>> \notin seen

\* Exchanges that show a prompt of mine have its submission, and the final answer unless
\* the stream has overtaken it.
AnswersIn(X, mine, seen, reqs) ==
  \A r \in mine, x \in X : x.prompt = r =>
    x.sub = <<"sub", r>> /\ (x.answer = "final" \/ Overtaken(reqs[r].plan, r, seen))

LEMMA FromFirst ==
  ASSUME NEW entries \in Seq(Requests \X Nat), InOrder(entries), NEW n \in DOMAIN entries
  PROVE  entries[n][2] >= 1
<1> DEFINE r == entries[n][1]
           c == Cardinality(OfRequest(entries, r))
<1>1. r \in Requests
  OBVIOUS
<1>2. {entries[i][2] : i \in OfRequest(entries, r)} = 1..c /\ n \in OfRequest(entries, r)
  BY <1>1 DEF InOrder, Counted, OfRequest
<1>3. c \in Nat
  BY OfRequestIs
<1> HIDE DEF c
<1> QED  BY <1>2, <1>3

LEMMA ReadDealt ==
  ASSUME NEW entries \in Seq(Requests \X Nat), NEW seen, NEW closed, NEW from \in Nat, NEW f \in Nat,
         Reads(entries, seen, closed, from, f), f < Len(entries), Dealt(seen, closed, entries[f + 1])
  PROVE  Reads(entries, seen, closed, from, f + 1)
<1> DEFINE h == f + 1
<1>1. h \in Nat /\ from <= h /\ h <= Len(entries) /\ 1..h = (1..f) \cup {h}
  BY DEF Reads
<1>2. \A e \in seen : \E q \in 1..h : entries[q] = e
  BY <1>1 DEF Reads
<1>3. ASSUME NEW q \in 1..h, entries[q] \in seen, NEW m \in q..h  PROVE Dealt(seen, closed, entries[m])
  <2>1. CASE m = h
    BY <2>1
  <2>2. CASE m # h
    <3>1. q \in 1..f /\ m \in q..f
      BY <1>3, <2>2
    <3> QED  BY <1>3, <3>1 DEF Reads
  <2> QED  BY <2>1, <2>2
<1>4. ASSUME NEW m \in (from + 1)..h  PROVE Dealt(seen, closed, entries[m])
  <2>1. m = h \/ m \in (from + 1)..f
    BY <1>4
  <2> QED  BY <2>1 DEF Reads
<1> HIDE DEF h
<1>5. Reads(entries, seen, closed, from, h)
  BY <1>1, <1>2, <1>3, <1>4 DEF Reads
<1> QED  BY <1>5 DEF h

\* An event that is not dealt with is later than those seen of its submission.
LEMMA FreshIsLater ==
  ASSUME NEW entries \in Seq(Requests \X Nat), InOrder(entries), NEW seen, NEW closed, NEW from \in Nat, NEW f \in Nat,
         Reads(entries, seen, closed, from, f), f < Len(entries)
  PROVE  \A a \in seen : a[1] = entries[f + 1][1] => a[2] < entries[f + 1][2]
<1> SUFFICES ASSUME NEW a \in seen, a[1] = entries[f + 1][1]  PROVE a[2] < entries[f + 1][2]
  OBVIOUS
<1>1. PICK q \in 1..f : entries[q] = a
  BY DEF Reads
<1>2. q \in DOMAIN entries /\ f + 1 \in DOMAIN entries /\ q < f + 1
  OBVIOUS
<1> QED  BY <1>1, <1>2 DEF InOrder, Rising

LEMMA ReadFresh ==
  ASSUME NEW entries \in Seq(Requests \X Nat), InOrder(entries), NEW seen \in SUBSET (Requests \X Nat),
         NEW closed, NEW from \in Nat, NEW f \in Nat,
         Reads(entries, seen, closed, from, f), f < Len(entries), NEW later, closed \subseteq later
  PROVE  Reads(entries, seen \cup {entries[f + 1]}, later, from, f + 1)
<1> DEFINE h == f + 1
           new == seen \cup {entries[h]}
<1>1. h \in Nat /\ from <= h /\ h <= Len(entries) /\ 1..h = (1..f) \cup {h} /\ h \in DOMAIN entries
  BY DEF Reads
<1>2. \A e \in new : \E q \in 1..h : entries[q] = e
  <2>1. \A e \in seen : \E q \in 1..h : entries[q] = e
    BY <1>1 DEF Reads
  <2>2. h \in 1..h
    BY <1>1
  <2> HIDE DEF h
  <2> QED  BY <2>1, <2>2
<1>3. \A e : Dealt(seen, closed, e) => Dealt(new, later, e)
  BY DEF Dealt
<1>4. Dealt(new, later, entries[h])
  BY DEF Dealt
<1>5. ASSUME NEW q \in 1..h, entries[q] \in new, q # h  PROVE entries[q] \in seen
  <2>1. q \in DOMAIN entries /\ q < h
    BY <1>1, <1>5
  <2>2. entries[q] # entries[h]
    <3>1. entries[q][1] = entries[h][1] => entries[q][2] < entries[h][2]
      BY <1>1, <2>1 DEF InOrder, Rising
    <3>2. entries[h] \in Requests \X Nat
      BY <1>1
    <3>3. entries[h][2] \in Nat
      BY <3>2
    <3> QED  BY <3>1, <3>3
  <2> QED  BY <1>5, <2>2
<1>6. ASSUME NEW q \in 1..h, entries[q] \in new, NEW m \in q..h  PROVE Dealt(new, later, entries[m])
  <2>1. CASE m = h
    BY <1>4, <2>1
  <2>2. CASE m # h
    <3>1. q \in 1..f /\ m \in q..f /\ q # h
      BY <1>6, <2>2
    <3>2. entries[q] \in seen
      BY <1>5, <1>6, <3>1
    <3>3. Dealt(seen, closed, entries[m])
      BY <3>1, <3>2 DEF Reads
    <3> QED  BY <1>3, <3>3
  <2> QED  BY <2>1, <2>2
<1>7. ASSUME NEW m \in (from + 1)..h  PROVE Dealt(new, later, entries[m])
  <2>1. m = h \/ m \in (from + 1)..f
    BY <1>7
  <2> QED  BY <1>3, <1>4, <2>1 DEF Reads
<1> HIDE DEF h, new
<1>8. Reads(entries, new, later, from, h)
  BY <1>1, <1>2, <1>6, <1>7 DEF Reads
<1> QED  BY <1>8 DEF h, new

LEMMA FreshUnbroken ==
  ASSUME NEW entries \in Seq(Requests \X Nat), InOrder(entries), NEW seen \in SUBSET (Requests \X Nat),
         NEW closed, NEW from \in Nat, NEW f \in Nat,
         Reads(entries, seen, closed, from, f), f < Len(entries),
         ~Dealt(seen, closed, entries[f + 1]), Unbroken(seen)
  PROVE  Unbroken(seen \cup {entries[f + 1]})
<1> DEFINE h == f + 1
           e == entries[h]
           r == e[1]
           new == seen \cup {e}
<1>1. h \in DOMAIN entries /\ h \in Nat
  OBVIOUS
<1>2. e \in Requests \X Nat
  BY <1>1
<1>3. e = <<r, e[2]>> /\ e[2] \in Nat
  BY <1>2
<1>4. \A a \in seen : a[1] = r => a[2] < e[2]
  BY FreshIsLater
<1>5. ASSUME NEW a \in seen, a[1] = r, NEW j \in (a[2])..(e[2])  PROVE <<r, j>> \in new
  <2>1. CASE j = e[2]
    BY <1>3, <2>1
  <2>2. CASE j # e[2]
    <3>1. PICK q \in 1..f : entries[q] = a
      BY DEF Reads
    <3>2. q \in DOMAIN entries /\ a[2] \in Nat /\ a[2] >= 1
      <4>1. q \in DOMAIN entries
        OBVIOUS
      <4>2. entries[q][2] >= 1
        BY <4>1, FromFirst
      <4>3. a \in Requests \X Nat
        OBVIOUS
      <4> QED  BY <3>1, <4>1, <4>2, <4>3
    <3>3. j \in Nat /\ a[2] <= j /\ j < e[2] /\ j \in 1..(entries[h][2])
      BY <1>3, <1>5, <2>2, <3>2
    <3>4. PICK m \in 1..h : entries[m] = <<r, j>>
      <4>1. \E m \in 1..h : entries[m] = <<entries[h][1], j>>
        <5> HIDE DEF h
        <5> QED  BY <1>1, <3>3, NoGap
      <4> QED  BY <4>1
    <3>5. m # h
      <4>1. <<r, j>>[2] = j
        OBVIOUS
      <4> QED  BY <3>3, <3>4, <4>1
    <3>6. ~(m < q)
      <4> SUFFICES ASSUME m < q  PROVE FALSE
        OBVIOUS
      <4>1. m \in DOMAIN entries /\ entries[m][1] = r /\ entries[m][2] = j
        BY <1>1, <3>4
      <4>2. entries[m][2] < entries[q][2]
        BY <1>5, <3>1, <3>2, <4>1 DEF InOrder, Rising
      <4> QED  BY <3>1, <3>2, <3>3, <4>1, <4>2
    <3>7. m \in q..f
      BY <3>4, <3>5, <3>6
    <3>8. Dealt(seen, closed, entries[m])
      BY <3>1, <3>7 DEF Reads
    <3>9. <<"sub", r>> \notin closed
      BY DEF Dealt
    <3>10. entries[m][1] = r
      BY <3>4
    <3> HIDE DEF r
    <3> QED  BY <3>4, <3>8, <3>9, <3>10 DEF Dealt
  <2> QED  BY <2>1, <2>2
<1>6. ASSUME NEW a \in new, NEW b \in new, a[1] = b[1], NEW j \in (a[2])..(b[2])  PROVE <<a[1], j>> \in new
  <2>1. CASE a \in seen /\ b \in seen
    BY <1>6, <2>1 DEF Unbroken
  <2>2. CASE a \in seen /\ b = e
    BY <1>5, <1>6, <2>2
  <2>3. CASE a = e /\ b \in seen
    <3>1. b[2] \in Nat /\ b[2] < e[2]
      <4>1. b \in Requests \X Nat
        BY <2>3
      <4>2. b[1] = r
        BY <1>6, <2>3
      <4> QED  BY <1>4, <2>3, <4>1, <4>2
    <3> QED  BY <1>3, <1>6, <2>3, <3>1
  <2>4. CASE a = e /\ b = e
    <3>1. j = e[2]
      BY <1>3, <1>6, <2>4
    <3> QED  BY <1>3, <2>4, <3>1
  <2> QED  BY <1>6, <2>1, <2>2, <2>3, <2>4
<1> HIDE DEF new
<1>7. Unbroken(new)
  BY <1>6 DEF Unbroken
<1> QED  BY <1>7 DEF new, e, h

\* One event more: what it answers is final, or overtakes.
LEMMA AnswersStay ==
  ASSUME NEW X, NEW Y, NEW mine, 0 \notin mine, NEW seen \in SUBSET (Requests \X Nat), NEW e \in Requests \X Nat,
         AnswersIn(X, mine, seen, requests), e[2] \in DOMAIN requests[e[1]].plan,
         \A a \in seen : a[1] = e[1] => a[2] < e[2],
         \A y \in Y : \/ y.prompt = 0
                      \/ \E x \in X : /\ Like(x, y)
                                      /\ y.answer = IF Kind(e) \in Answers /\ x.sub = <<"sub", e[1]>> THEN Kind(e) ELSE x.answer
  PROVE  AnswersIn(Y, mine, seen \cup {e}, requests)
<1> DEFINE new == seen \cup {e}
<1>1. e = <<e[1], e[2]>> /\ e[2] \in Nat /\ Kind(e) = requests[e[1]].plan[e[2]]
  BY DEF Kind, Plan
<1> SUFFICES ASSUME NEW r \in mine, NEW y \in Y, y.prompt = r
             PROVE  y.sub = <<"sub", r>> /\ (y.answer = "final" \/ Overtaken(requests[r].plan, r, new))
  BY DEF AnswersIn
<1>2. y.prompt # 0
  OBVIOUS
<1>3. PICK x \in X : /\ Like(x, y)
                     /\ y.answer = IF Kind(e) \in Answers /\ x.sub = <<"sub", e[1]>> THEN Kind(e) ELSE x.answer
  BY <1>2
<1>4. x.prompt = r /\ y.sub = x.sub
  BY <1>3 DEF Like
<1>5. x.sub = <<"sub", r>> /\ (x.answer = "final" \/ Overtaken(requests[r].plan, r, seen))
  BY <1>4 DEF AnswersIn
<1>6. x.sub = <<"sub", e[1]>> <=> e[1] = r
  BY <1>5
<1>7. CASE Kind(e) \in Answers /\ e[1] = r
  <2>1. y.answer = Kind(e)
    BY <1>3, <1>6, <1>7
  <2>2. CASE Kind(e) = "interim"
    <3> DEFINE k == e[2]
    <3>1. k \in DOMAIN requests[r].plan /\ requests[r].plan[k] = "interim"
      BY <1>1, <1>7, <2>2
    <3>2. <<r, k>> \in new
      BY <1>1, <1>7
    <3>3. ASSUME NEW j \in DOMAIN requests[r].plan, k < j  PROVE <<r, j>> \notin new
      <4>1. <<r, j>>[1] = r /\ <<r, j>>[2] = j
        OBVIOUS
      <4>2. <<r, j>> # e
        BY <1>1, <3>3, <4>1
      <4>3. <<r, j>> \notin seen
        <5> SUFFICES ASSUME <<r, j>> \in seen  PROVE FALSE
          OBVIOUS
        <5>1. <<r, j>>[2] \in Nat
          OBVIOUS
        <5>2. <<r, j>>[2] < e[2]
          BY <1>7, <4>1
        <5> QED  BY <1>1, <3>3, <4>1, <5>1, <5>2
      <4> QED  BY <4>2, <4>3
    <3> HIDE DEF new, k
    <3>4. Overtaken(requests[r].plan, r, new)
      BY <3>1, <3>2, <3>3 DEF Overtaken
    <3> QED  BY <1>4, <1>5, <3>4
  <2> QED  BY <1>4, <1>5, <1>7, <2>1, <2>2 DEF Answers
<1>8. CASE ~(Kind(e) \in Answers /\ e[1] = r)
  <2>1. y.answer = x.answer
    BY <1>3, <1>6, <1>8
  <2>2. ASSUME Overtaken(requests[r].plan, r, seen)  PROVE Overtaken(requests[r].plan, r, new)
    <3> DEFINE plan == requests[r].plan
    <3>1. PICK k \in DOMAIN plan : /\ plan[k] = "interim" /\ <<r, k>> \in seen
                                   /\ \A j \in DOMAIN plan : k < j /\ plan[j] = "final" => <<r, j>> \notin seen
      BY <2>2 DEF Overtaken
    <3>2. ASSUME NEW j \in DOMAIN plan, k < j, plan[j] = "final"  PROVE <<r, j>> \notin new
      <4>1. <<r, j>> \notin seen
        BY <3>1, <3>2
      <4>2. <<r, j>> # e
        <5> SUFFICES ASSUME <<r, j>> = e  PROVE FALSE
          OBVIOUS
        <5>1. e[1] = r /\ e[2] = j
          OBVIOUS
        <5> HIDE <1>1
        <5>2. Kind(e) = "final"
          BY <3>2, <5>1 DEF Kind, Plan
        <5> QED  BY <1>8, <5>1, <5>2 DEF Answers
      <4> QED  BY <4>1, <4>2
    <3>3. <<r, k>> \in new
      BY <3>1
    <3> HIDE DEF new, plan
    <3>4. Overtaken(plan, r, new)
      BY <3>1, <3>2, <3>3 DEF Overtaken
    <3> QED  BY <3>4 DEF plan
  <2> QED  BY <1>4, <1>5, <2>1, <2>2
<1> QED  BY <1>7, <1>8
-----------------------------------------------------------------------------
(* A batch: the document gets as far as the batch does, or stays ahead of it.  *)

AnswersOf(d, entries, from, f, mine) ==
  /\ Reads(entries, d.seen, d.closed, from, f)
  /\ Unbroken(d.seen)
  /\ AnswersIn(Elements(d.exchanges), mine, d.seen, requests)

\* The document has read up to f before; now it has read up to m at least.
Caught(d, entries, from, f, m, mine) ==
  \E h \in Nat : m <= h /\ (h = f \/ h = m) /\ AnswersOf(d, entries, from, h, mine)

LEMMA EventCaught ==
  ASSUME GatewayIs(requests, inbox, log), NEW s \in Sessions, InOrder(log[s]), NEW d \in DocumentsOf(s, requests),
         NEW from \in Nat, NEW f \in Nat, NEW m \in Nat, from <= m, m < Len(log[s]), NEW mine, 0 \notin mine,
         Caught(d, log[s], from, f, m, mine), log[s][m + 1] \in Heard(s)
  PROVE  Caught(ApplyEvent(d, log[s][m + 1]), log[s], from, f, m + 1, mine)
<1> DEFINE entries == log[s]
           k == m + 1
           e == entries[k]
           next == ApplyEvent(d, e)
<1>1. entries \in Seq(Requests \X Nat) /\ Logged(s, requests, entries)
  BY DEF GatewayIs
<1>2. k \in DOMAIN entries /\ k \in Nat /\ e \in Requests \X Nat
  <2>1. k \in DOMAIN entries /\ k \in Nat
    BY <1>1
  <2> QED  BY <1>1, <2>1
<1>3. e[2] \in DOMAIN requests[e[1]].plan
  BY <1>1, <1>2 DEF Logged
<1>4. EventTells(d, next, e)
  BY ApplyTells
<1>5. d \in Documents /\ d.seen \in SUBSET (Requests \X Nat)
  <2>1. d \in Documents
    BY DocumentIs
  <2> QED  BY <2>1 DEF Documents
<1>6. PICK h \in Nat : m <= h /\ (h = f \/ h = m) /\ AnswersOf(d, entries, from, h, mine)
  BY DEF Caught
<1>7. Reads(entries, d.seen, d.closed, from, h)
  BY <1>6 DEF AnswersOf
<1>8. CASE Dealt(d.seen, d.closed, e)
  <2>1. next = d
    BY <1>4, <1>8 DEF EventTells
  <2>2. CASE k <= h
    <3>1. h = f
      BY <1>6, <2>2
    <3> HIDE DEF entries, next, k
    <3>2. Caught(next, entries, from, f, k, mine)
      BY <1>6, <2>1, <2>2, <3>1 DEF Caught
    <3> QED  BY <3>2 DEF entries, next, e, k
  <2>3. CASE ~(k <= h)
    <3>1. h = m
      BY <1>6, <2>3
    <3>2. Reads(entries, d.seen, d.closed, from, k)
      <4> HIDE DEF entries
      <4> QED  BY <1>1, <1>7, <1>8, <3>1, ReadDealt DEF entries
    <3>3. AnswersOf(d, entries, from, k, mine)
      BY <1>6, <3>2 DEF AnswersOf
    <3>4. k <= k
      BY <1>2
    <3> HIDE DEF entries, next, k
    <3>5. Caught(next, entries, from, f, k, mine)
      BY <1>2, <2>1, <3>3, <3>4 DEF Caught
    <3> QED  BY <3>5 DEF entries, next, e, k
  <2> QED  BY <2>2, <2>3
<1>9. CASE ~Dealt(d.seen, d.closed, e)
  <2>1. /\ next.seen = d.seen \cup {e} /\ d.closed \subseteq next.closed
        /\ \A y \in Elements(next.exchanges) :
             \/ y.prompt = 0
             \/ \E x \in Elements(d.exchanges) :
                  /\ Like(x, y)
                  /\ y.answer = IF Kind(e) \in Answers /\ x.sub = <<"sub", e[1]>> THEN Kind(e) ELSE x.answer
    BY <1>4, <1>9 DEF EventTells
  <2>2. h = m
    <3> SUFFICES ASSUME h # m  PROVE FALSE
      OBVIOUS
    <3>1. k \in (from + 1)..h
      BY <1>6
    <3>2. Dealt(d.seen, d.closed, entries[k])
      <4> HIDE DEF entries, k
      <4> QED  BY <1>7, <3>1 DEF Reads
    <3> QED  BY <1>9, <3>2
  <2>3. Reads(entries, d.seen \cup {e}, next.closed, from, k)
    <3> HIDE DEF next
    <3> QED  BY <1>1, <1>5, <1>7, <2>1, <2>2, ReadFresh
  <2>4. Unbroken(d.seen \cup {e})
    BY <1>1, <1>5, <1>6, <1>7, <1>9, <2>2, FreshUnbroken DEF AnswersOf
  <2>5. \A a \in d.seen : a[1] = e[1] => a[2] < e[2]
    BY <1>1, <1>7, <2>2, FreshIsLater
  <2>6. AnswersIn(Elements(d.exchanges), mine, d.seen, requests)
    BY <1>6 DEF AnswersOf
  <2> HIDE DEF next, e, entries
  <2>7. AnswersIn(Elements(next.exchanges), mine, d.seen \cup {e}, requests)
    BY <1>2, <1>3, <1>5, <2>1, <2>5, <2>6, AnswersStay
  <2>8. AnswersOf(next, entries, from, k, mine)
    BY <2>1, <2>3, <2>4, <2>7 DEF AnswersOf
  <2>9. k <= k
    BY <1>2
  <2> HIDE DEF k
  <2>10. Caught(next, entries, from, f, k, mine)
    BY <1>2, <2>8, <2>9 DEF Caught
  <2> QED  BY <2>10 DEF next, e, entries, k
<1> QED  BY <1>8, <1>9

LEMMA BatchCaught ==
  ASSUME GatewayIs(requests, inbox, log), NEW s \in Sessions, InOrder(log[s]), NEW d \in DocumentsOf(s, requests),
         NEW from \in Nat, NEW f \in Nat, NEW b \in Nat, from <= b, NEW mine, 0 \notin mine,
         NEW batch \in Seq(Heard(s)), b + Len(batch) <= Len(log[s]),
         \A n \in 1..Len(batch) : batch[n] = log[s][b + n],
         Caught(d, log[s], from, f, b, mine)
  PROVE  Caught(ApplyEvents(d, batch), log[s], from, f, b + Len(batch), mine)
<1> DEFINE N == Len(batch)
<1>1. N \in Nat /\ \A n \in 1..N : batch[n] \in Heard(s)
  OBVIOUS
<1>2. PICK g : /\ Applied(d, batch, g)
               /\ \A n \in 0..Len(batch) : /\ g[n] \in DocumentsOf(s, requests)
                                            /\ Continues(Shown(d.exchanges), Shown(g[n].exchanges))
  BY BatchSteps
<1> DEFINE V == {n \in 0..N : Caught(g[n], log[s], from, f, b + n, mine)}
           i == [n \in 0..N |-> n]
<1>3. i[0] \in V
  <2>1. g[0] = d /\ b + 0 = b /\ 0 \in 0..N
    BY <1>1, <1>2 DEF Applied
  <2>2. Caught(g[0], log[s], from, f, b + 0, mine)
    BY <2>1
  <2> QED  BY <2>1, <2>2
<1>4. \A n \in 1..N : i[n - 1] \in V => i[n] \in V
  <2> SUFFICES ASSUME NEW n \in 1..N, i[n - 1] \in V  PROVE i[n] \in V
    OBVIOUS
  <2> DEFINE k == n - 1
             m == b + k
  <2>1. k \in 0..N /\ i[k] = k /\ i[n] = n /\ n \in 0..N
    BY <1>1
  <2>2. Caught(g[k], log[s], from, f, m, mine) /\ g[k] \in DocumentsOf(s, requests)
    BY <1>2, <2>1
  <2>3. m \in Nat /\ from <= m /\ m + 1 = b + n /\ m < Len(log[s])
    <3>1. Len(log[s]) \in Nat
      <4>1. log[s] \in Seq(Requests \X Nat)
        BY DEF GatewayIs
      <4> QED  BY <4>1
    <3> QED  BY <1>1, <3>1
  <2>4. batch[n] = log[s][m + 1] /\ batch[n] \in Heard(s) /\ g[n] = ApplyEvent(g[k], batch[n])
    BY <1>1, <1>2, <2>3 DEF Applied
  <2> HIDE DEF k, m, V, i
  <2>5. Caught(ApplyEvent(g[k], log[s][m + 1]), log[s], from, f, m + 1, mine)
    BY <2>2, <2>3, <2>4, EventCaught
  <2>6. Caught(g[n], log[s], from, f, b + n, mine)
    BY <2>3, <2>4, <2>5
  <2> QED  BY <2>1, <2>6 DEF V
<1> HIDE DEF V, i
<1>5. \A n \in 0..N : i[n] \in V
  <2> HIDE DEF N
  <2> QED  BY <1>1, <1>3, <1>4, StaysIn
<1>6. N \in V
  <2>1. i[N] \in V /\ i[N] = N
    BY <1>1, <1>5 DEF i
  <2> QED  BY <2>1
<1>7. ApplyEvents(d, batch) = g[N]
  BY <1>2 DEF Applied
<1> QED  BY <1>6, <1>7 DEF V
-----------------------------------------------------------------------------
(* What is true of answers at every moment.                                    *)

\* The prompts of mine that are answered, but for the one whose answer is awaited.
Answered(mine, rsp, given) == {r \in mine : rsp.request # r /\ given[r] = "ok"}

\* What is not awaited any more was replied to; a command is no prompt.
RepliesAwaited(rsp, mine, given) ==
  /\ rsp.command => rsp.request = 0
  /\ \A r \in mine : rsp.request # r => given[r] # "none"

\* While a page that begins a document is awaited, nothing else is.
Quiet(h, rsp, st) == h.kind \in {"startup", "switch"} => rsp = NoResponse /\ st = NoStream

StreamFollows(st, entries, d) ==
  IF st = NoStream THEN d.seen = {}
  ELSE IF st.offset = Now THEN d.seen = {} /\ ~st.live
  ELSE \E f \in Nat : Reads(entries, d.seen, d.closed, st.offset, f) /\ (st.live => f = st.at)

AnswerInv ==
  /\ \A s \in Sessions : InOrder(log[s])
  /\ RepliesAre(replies, requests)
  /\ RepliesAwaited(response, own, replies)
  /\ Quiet(history, response, stream)
  /\ StreamFollows(stream, log[stream.session], doc)
  /\ Unbroken(doc.seen)
  /\ AnswersIn(Elements(doc.exchanges), Answered(own, response, replies), doc.seen, requests)

\* The exchange that waits shows no answered prompt: binding it leaves the answers alone.
LEMMA BindAnswers ==
  ASSUME NEW s, NEW d \in DocumentsOf(s, requests), NEW rsp, rsp # NoResponse, NEW r, Asked(r, s, requests),
         0 \notin own, WaitsIn(Shown(d.exchanges), rsp, own),
         AnswersIn(Elements(d.exchanges), Answered(own, rsp, replies), d.seen, requests)
  PROVE  AnswersIn(Elements(Bind(d, rsp.exchange, <<"sub", r>>).doc.exchanges), Answered(own, rsp, replies), d.seen, requests)
<1> DEFINE X == Elements(d.exchanges)
           Y == Elements(Bind(d, rsp.exchange, <<"sub", r>>).doc.exchanges)
           T == Shown(d.exchanges)
<1>1. \A y \in Y : y \in X \/ \E x \in X : x.id = rsp.exchange /\ y.prompt = x.prompt
  BY BindTells
<1>2. \A x \in X : <<x.id, x.sub, x.prompt>> \in T
  BY DEF Elements, Shown
<1>3. ShownIn(T)
  BY ShownIs
<1>4. PICK t \in T : t[1] = rsp.exchange /\ t[3] = PromptOf(rsp, own)
  BY DEF WaitsIn
<1> HIDE DEF X, Y, T
<1>5. ASSUME NEW x \in X, x.id = rsp.exchange  PROVE x.prompt \notin Answered(own, rsp, replies)
  <2> DEFINE u == <<x.id, x.sub, x.prompt>>
  <2>1. u \in T /\ u[1] = x.id /\ u[3] = x.prompt
    BY <1>2
  <2> HIDE DEF u
  <2>2. u = t
    BY <1>3, <1>4, <1>5, <2>1, IdsDiffer
  <2>3. x.prompt \in {0, rsp.request}
    BY <1>4, <2>1, <2>2 DEF PromptOf
  <2> QED  BY <2>3 DEF Answered
<1>6. AnswersIn(Y, Answered(own, rsp, replies), d.seen, requests)
  <2>1. AnswersIn(X, Answered(own, rsp, replies), d.seen, requests)
    BY DEF X
  <2> QED  BY <1>1, <1>5, <2>1 DEF AnswersIn
<1> QED  BY <1>6 DEF Y

\* The exchange that waits for an answer takes its submission.
Binding(T, U, rsp, id, mine) ==
  /\ ShownIn(T) /\ rsp # NoResponse /\ rsp.request \in mine
  /\ KeptIn(T, mine, rsp.exchange) /\ WaitsIn(T, rsp, mine)
  /\ \/ StaysBound(T, U, rsp.exchange, rsp.request, id)
     \/ MergesInto(T, U, rsp.exchange, rsp.request, id)
     \/ GetsBound(T, U, rsp.exchange, rsp.request, id)

\* Then it alone shows its prompt.
LEMMA ReplyBound ==
  ASSUME NEW T, NEW U, NEW rsp, NEW id, NEW mine, Binding(T, U, rsp, id, mine)
  PROVE  \A u \in U : u[3] = rsp.request => u[1] = id /\ u[2] = <<"sub", rsp.request>>
<1> DEFINE r == rsp.request
<1>1. PICK t \in T : t[1] = rsp.exchange /\ t[3] = r
  BY DEF Binding, WaitsIn, PromptOf
<1>2. \A u \in T : u[3] = r => u = t
  <2>1. Single(T, r)
    BY <1>1 DEF Binding, KeptIn, Lost
  <2> QED  BY <1>1, <2>1 DEF Single
<1>3. \A u \in T : u[1] = rsp.exchange => u = t
  BY <1>1, IdsDiffer DEF Binding
<1>0. StaysBound(T, U, rsp.exchange, r, id) \/ MergesInto(T, U, rsp.exchange, r, id) \/ GetsBound(T, U, rsp.exchange, r, id)
  BY DEF Binding
<1> HIDE DEF r
<1>4. CASE StaysBound(T, U, rsp.exchange, r, id)
  BY <1>1, <1>2, <1>4 DEF StaysBound, r
<1>5. CASE MergesInto(T, U, rsp.exchange, r, id)
  <2>1. PICK a \in T, b \in T :
          /\ a # b /\ a[1] = rsp.exchange /\ b[2] = <<"sub", r>> /\ id = b[1]
          /\ U = (T \ {a, b}) \cup {<<b[1], b[2], IF b[3] = 0 THEN a[3] ELSE b[3]>>}
    BY <1>5 DEF MergesInto
  <2> DEFINE v == <<b[1], b[2], IF b[3] = 0 THEN a[3] ELSE b[3]>>
  <2>2. v[1] = id /\ v[2] = <<"sub", r>> /\ U = (T \ {a, b}) \cup {v}
    BY <2>1
  <2> HIDE DEF v
  <2>3. a = t
    BY <1>3, <2>1
  <2> QED  BY <1>2, <2>2, <2>3 DEF r
<1>6. CASE GetsBound(T, U, rsp.exchange, r, id)
  <2>1. PICK a \in T : a[1] = rsp.exchange /\ U = (T \ {a}) \cup {<<id, <<"sub", r>>, a[3]>>}
    BY <1>6 DEF GetsBound
  <2> DEFINE v == <<id, <<"sub", r>>, a[3]>>
  <2>2. v[1] = id /\ v[2] = <<"sub", r>> /\ U = (T \ {a}) \cup {v}
    BY <2>1
  <2> HIDE DEF v
  <2>3. a = t
    BY <1>3, <2>1
  <2> QED  BY <1>2, <2>2, <2>3 DEF r
<1> QED  BY <1>0, <1>4, <1>5, <1>6 DEF r

\* A batch that continues the log, whatever exchange takes its submission.
LEMMA HandleEventsAnswers ==
  ASSUME ClientInv, PromptInv, AnswerInv, session \in Sessions, NEW batch \in Seq(Heard(session)), HandleEvents(batch),
         NEW from \in Nat, NEW b \in Nat, from <= b, b + Len(batch) <= Len(log[session]),
         \A n \in 1..Len(batch) : batch[n] = log[session][b + n],
         NEW f \in Nat, b <= f, f = b \/ from = b, Reads(log[session], doc.seen, doc.closed, from, f)
  PROVE  /\ response'.request = response.request /\ response'.command = response.command
         /\ Caught(doc', log[session], from, f, b + Len(batch), Answered(own, response, replies)) 
<1> DEFINE mine == Answered(own, response, replies)
           entries == log[session]
<1>1. /\ doc \in DocumentsOf(session, requests) /\ GatewayIs(requests, inbox, log) /\ response \in ResponseKinds
      /\ InOrder(entries) /\ Unbroken(doc.seen)
      /\ AnswersIn(Elements(doc.exchanges), mine, doc.seen, requests)
  BY DEF ClientInv, ResponseIs, AnswerInv
<1>2. 0 \notin own /\ 0 \notin mine
  BY OwnAre DEF PromptInv, Answered
<1> HIDE DEF mine
<1>3. ASSUME NEW d \in DocumentsOf(session, requests), Remembers(doc, d),
             AnswersIn(Elements(d.exchanges), mine, doc.seen, requests)
      PROVE  Caught(ApplyEvents(d, batch), entries, from, f, b + Len(batch), mine)
  <2>1. AnswersOf(d, entries, from, f, mine)
    BY <1>1, <1>3 DEF AnswersOf, Remembers
  <2>2. Caught(d, entries, from, f, b, mine)
    <3> HIDE DEF entries
    <3> QED  BY <2>1 DEF Caught
  <2> QED  BY <1>1, <1>2, <2>2, BatchCaught
<1>4. CASE ~Binds(batch)
  <2>1. doc' = ApplyEvents(doc, batch) /\ response' = response
    BY <1>4 DEF HandleEvents
  <2>2. Remembers(doc, doc)
    BY DEF Remembers
  <2> QED  BY <1>1, <1>3, <2>1, <2>2 DEF mine
<1>5. CASE Binds(batch)
  <2> DEFINE r == Unknown(doc, batch)[1][1]
             bound == Bind(doc, response.exchange, <<"sub", r>>)
  <2>1. /\ doc' = ApplyEvents(bound.doc, batch)
        /\ response' = [response EXCEPT !.exchange = bound.id, !.expected = TRUE]
    BY <1>5 DEF HandleEvents
  <2>2. response # NoResponse
    BY <1>5 DEF Binds
  <2>3. Asked(r, session, requests)
    BY <1>5, UnknownIs DEF Binds
  <2> HIDE DEF r
  <2>4. bound.doc \in DocumentsOf(session, requests) /\ Remembers(doc, bound.doc)
    BY <1>1, <2>3, BindKeeps, BindTells
  <2>5. AnswersIn(Elements(bound.doc.exchanges), mine, doc.seen, requests)
    <3>1. WaitsIn(Shown(doc.exchanges), response, own)
      BY DEF PromptInv, DocumentShows
    <3> QED  BY <1>1, <1>2, <2>2, <2>3, <3>1, BindAnswers DEF mine
  <2> HIDE DEF bound
  <2>6. response'.request = response.request /\ response'.command = response.command
    BY <1>1, <2>1 DEF ResponseKinds
  <2>7. Caught(ApplyEvents(bound.doc, batch), entries, from, f, b + Len(batch), mine)
    BY <1>3, <2>4, <2>5
  <2> QED  BY <2>1, <2>6, <2>7 DEF mine
<1> QED  BY <1>4, <1>5
-----------------------------------------------------------------------------
(* Each step of the stream.                                                    *)

\* A reading of the stream, by which the document got to f.
LEMMA ReadAnswers ==
  ASSUME ClientInv, AnswerInv, stream # NoStream, Steady, replies' = replies, own' = own, history' = history,
         response'.request = response.request, response'.command = response.command,
         stream' \in StreamKinds, stream'.session = session, stream'.offset # Now, NEW f \in Nat,
         AnswersOf(doc', log[session], stream'.offset, f, Answered(own, response, replies)),
         stream'.live => f = stream'.at
  PROVE  AnswerInv'
<1>1. Quiet(history', response', stream')
  BY DEF AnswerInv, Quiet
<1>2. RepliesAwaited(response', own', replies') /\ Answered(own', response', replies') = Answered(own, response, replies)
  BY DEF AnswerInv, RepliesAwaited, Answered
<1>3. StreamFollows(stream', log'[stream'.session], doc')
  <2>1. stream' # NoStream
    BY DEF NoStream, StreamKinds, Sessions
  <2>2. log'[stream'.session] = log[session]
    BY DEF Steady
  <2> QED  BY <2>1, <2>2 DEF StreamFollows, AnswersOf
<1>4. Unbroken(doc'.seen) /\ AnswersIn(Elements(doc'.exchanges), Answered(own', response', replies'), doc'.seen, requests')
  BY <1>2 DEF AnswersOf, Steady
<1>5. RepliesAre(replies', requests') /\ \A s \in Sessions : InOrder(log'[s])
  BY DEF AnswerInv, Steady
<1> QED  BY <1>1, <1>2, <1>3, <1>4, <1>5 DEF AnswerInv

\* The end of a batch, from where the stream then goes on.
LEMMA CaughtUp ==
  ASSUME NEW d, NEW entries, NEW from \in Nat, NEW f \in Nat, NEW m \in Nat, NEW mine, Caught(d, entries, from, f, m, mine),
         f <= m
  PROVE  AnswersOf(d, entries, from, m, mine)
<1>1. PICK h \in Nat : m <= h /\ (h = f \/ h = m) /\ AnswersOf(d, entries, from, h, mine)
  BY DEF Caught
<1>2. h = m
  BY <1>1
<1> QED  BY <1>1, <1>2

LEMMA AnswersFrom ==
  ASSUME NEW d, NEW entries, NEW from \in Nat, NEW f \in Nat, NEW mine, AnswersOf(d, entries, from, f, mine),
         NEW later \in from..f
  PROVE  AnswersOf(d, entries, later, f, mine)
<1>1. later <= f /\ (later + 1)..f \subseteq (from + 1)..f
  OBVIOUS
<1> QED  BY <1>1 DEF AnswersOf, Reads

\* Where the document has got to in the log of a stream that is attached.
LEMMA StreamAt ==
  ASSUME ClientInv, AnswerInv, stream # NoStream, stream.offset # Now
  PROVE  /\ stream.offset \in Nat
         /\ \E f \in Nat : /\ Reads(log[session], doc.seen, doc.closed, stream.offset, f)
                           /\ stream.live => f = stream.at
<1>1. stream \in StreamKinds /\ stream.session = session
  BY StreamHas
<1>2. stream.offset \in Nat
  BY <1>1 DEF StreamKinds
<1>3. StreamFollows(stream, log[session], doc)
  BY <1>1 DEF AnswerInv
<1> QED  BY <1>2, <1>3 DEF StreamFollows

LEMMA LiveIsAt ==
  ASSUME ClientInv, AnswerInv, stream.live
  PROVE  /\ stream # NoStream /\ stream.offset \in Nat /\ stream.at \in Nat
         /\ Reads(log[session], doc.seen, doc.closed, stream.offset, stream.at)
<1>1. stream # NoStream
  BY DEF NoStream
<1>2. stream \in StreamKinds /\ stream.session = session
  BY <1>1, StreamHas
<1>3. StreamFollows(stream, log[session], doc)
  BY <1>2 DEF AnswerInv
<1>4. stream.offset # Now
  BY <1>1, <1>3 DEF StreamFollows
<1>5. stream.at \in Nat
  BY <1>2 DEF StreamKinds
<1> QED  BY <1>1, <1>4, <1>5, StreamAt

LEMMA CatchUp ==
  ASSUME NEW G, NEW entries \in Seq(G), NEW b \in 0..Len(entries)
  PROVE  /\ SubSeq(entries, b + 1, Len(entries)) \in Seq(G)
         /\ Len(SubSeq(entries, b + 1, Len(entries))) = Len(entries) - b
         /\ \A n \in 1..Len(SubSeq(entries, b + 1, Len(entries))) :
              SubSeq(entries, b + 1, Len(entries))[n] = entries[b + n]
<1> DEFINE m == b + 1
           k == Len(entries)
           batch == SubSeq(entries, m, k)
<1>1. k \in Nat /\ m \in Int /\ k \in Int /\ m <= k + 1 /\ m >= 1
  OBVIOUS
<1>2. \A i \in m..k : entries[i] \in G
  BY <1>1
<1>3. /\ batch \in Seq(G) /\ Len(batch) = (IF m <= k THEN k - m + 1 ELSE 0)
      /\ \A i \in 1..(k - m + 1) : batch[i] = entries[m + i - 1]
  <2> HIDE DEF m, k
  <2> QED  BY <1>1, <1>2, SubSeqProperties
<1>4. Len(batch) = k - b /\ k - m + 1 = k - b
  BY <1>1, <1>3
<1>5. \A n \in 1..Len(batch) : batch[n] = entries[b + n]
  <2> SUFFICES ASSUME NEW n \in 1..Len(batch)  PROVE batch[n] = entries[b + n]
    OBVIOUS
  <2> HIDE DEF batch, k
  <2>1. n \in 1..(k - m + 1) /\ m + n - 1 = b + n
    BY <1>1, <1>4
  <2> QED  BY <1>3, <2>1
<1> QED  BY <1>3, <1>4, <1>5

LEMMA ConnectAnswers ==
  ASSUME ClientInv, PromptInv, AnswerInv, Connect
  PROVE  AnswerInv'
<1> DEFINE entries == log[session]
           n == Len(entries)
           b == Behind
           batch == SubSeq(entries, b + 1, n)
           mine == Answered(own, response, replies)
           u == [stream EXCEPT !.offset = n]
           v == [u EXCEPT !.at = n]
           w == [v EXCEPT !.live = TRUE]
<1>1. stream # NoStream
  BY DEF Connect
<1>2. stream \in StreamKinds /\ stream.session = session /\ session \in Sessions /\ entries \in Seq(Heard(session)) /\ n \in Nat
  BY <1>1, StreamHas
<1>3. HandleEvents(batch) /\ stream' = w
  BY <1>2 DEF Connect
<1>4. Steady /\ replies' = replies /\ own' = own /\ history' = history
  BY DEF Connect, server, Steady
<1>5. b \in Nat /\ b <= n /\ \E f \in Nat : b <= f /\ f <= n /\ Reads(entries, doc.seen, doc.closed, b, f)
  <2>1. CASE stream.offset = Now
    <3>1. b = n
      BY <1>2, <2>1 DEF Behind
    <3>2. doc.seen = {}
      BY <1>1, <2>1 DEF AnswerInv, StreamFollows
    <3>3. Reads(entries, doc.seen, doc.closed, n, n)
      <4> HIDE DEF entries
      <4>1. (n + 1)..n = {}
        BY <1>2
      <4> QED  BY <1>2, <3>2, <4>1 DEF Reads
    <3> QED  BY <1>2, <3>1, <3>3
  <2>2. CASE stream.offset # Now
    <3>1. b = stream.offset /\ b \in Nat
      BY <1>1, <2>2, StreamAt DEF Behind
    <3>2. PICK f \in Nat : Reads(entries, doc.seen, doc.closed, b, f)
      BY <1>1, <2>2, <3>1, StreamAt
    <3> HIDE DEF b
    <3>3. b <= f /\ f <= n
      BY <3>2 DEF Reads
    <3> QED  BY <1>2, <3>1, <3>2, <3>3
  <2> QED  BY <2>1, <2>2
<1>6. PICK f \in Nat : b <= f /\ f <= n /\ Reads(entries, doc.seen, doc.closed, b, f)
  BY <1>5
<1> HIDE DEF b
<1>7. b \in 0..n
  BY <1>2, <1>5
<1>8. batch \in Seq(Heard(session)) /\ Len(batch) = n - b /\ \A i \in 1..Len(batch) : batch[i] = entries[b + i]
  <2> HIDE DEF entries
  <2> QED  BY <1>2, <1>7, CatchUp
<1> HIDE DEF batch
<1>9. b + Len(batch) = n
  BY <1>2, <1>5, <1>8
<1> HIDE DEF w
<1>10. b <= b /\ b + Len(batch) <= n
  BY <1>2, <1>5, <1>9
<1> HIDE DEF n
<1>11. /\ response'.request = response.request /\ response'.command = response.command
       /\ Caught(doc', entries, b, f, b + Len(batch), mine)
  BY <1>2, <1>3, <1>5, <1>6, <1>8, <1>10, HandleEventsAnswers DEF n
<1> HIDE DEF entries, mine
<1>12. AnswersOf(doc', entries, b, n, mine)
  BY <1>2, <1>5, <1>6, <1>9, <1>11, CaughtUp
<1>13. AnswersOf(doc', entries, n, n, mine)
  <2>1. n \in b..n
    BY <1>2, <1>5
  <2> QED  BY <1>2, <1>5, <1>12, <2>1, AnswersFrom
<1>14. u \in StreamKinds /\ u.session = session /\ u.offset = n
  BY <1>2 DEF StreamKinds
<1> HIDE DEF u
<1>15. v \in StreamKinds /\ v.session = session /\ v.offset = n /\ v.at = n
  BY <1>2, <1>14 DEF StreamKinds
<1> HIDE DEF v
<1>16. w \in StreamKinds /\ w.session = session /\ w.offset = n /\ w.at = n
  BY <1>15 DEF StreamKinds, w
<1>17. n # Now
  BY <1>2 DEF Now
<1> QED  BY <1>1, <1>2, <1>3, <1>4, <1>11, <1>13, <1>16, <1>17, ReadAnswers DEF entries, mine

LEMMA DeliverAnswers ==
  ASSUME ClientInv, PromptInv, AnswerInv, Deliver
  PROVE  AnswerInv'
<1> DEFINE entries == log[session]
           m == stream.at
           n == m + 1
           batch == <<entries[n]>>
           mine == Answered(own, response, replies)
           w == [stream EXCEPT !.at = n]
<1>0. stream.live
  BY DEF Deliver
<1>1. /\ stream # NoStream /\ stream.offset \in Nat /\ m \in Nat
      /\ Reads(entries, doc.seen, doc.closed, stream.offset, m)
  BY <1>0, LiveIsAt
<1>2. /\ stream \in StreamKinds /\ stream.session = session /\ session \in Sessions /\ entries \in Seq(Heard(session))
      /\ Len(entries) \in Nat
  BY <1>1, StreamHas
<1>3. HandleEvents(batch) /\ m < Len(entries) /\ stream' = w
  BY <1>2 DEF Deliver
<1>4. Steady /\ replies' = replies /\ own' = own /\ history' = history
  BY DEF Deliver, server, Steady
<1>5. entries[n] \in Heard(session)
  <2>1. n \in 1..Len(entries)
    BY <1>1, <1>2, <1>3
  <2> HIDE DEF entries, n
  <2> QED  BY <1>2, <2>1
<1>6. batch \in Seq(Heard(session)) /\ Len(batch) = 1 /\ batch[1] = entries[m + 1]
  BY <1>5
<1> HIDE DEF batch, w
<1>7. n \in Nat /\ m <= n /\ m <= m /\ m + Len(batch) = n /\ n <= Len(entries)
  BY <1>1, <1>2, <1>3, <1>6
<1>8. stream.offset <= m
  BY <1>1 DEF Reads
<1>9. \A i \in 1..Len(batch) : batch[i] = entries[m + i]
  BY <1>6
<1> HIDE DEF n
<1>10. /\ response'.request = response.request /\ response'.command = response.command
       /\ Caught(doc', entries, stream.offset, m, m + Len(batch), mine)
  BY <1>1, <1>2, <1>3, <1>6, <1>7, <1>8, <1>9, HandleEventsAnswers
<1> HIDE DEF entries, mine, m
<1>11. AnswersOf(doc', entries, stream.offset, n, mine)
  BY <1>1, <1>7, <1>10, CaughtUp
<1>12. w \in StreamKinds /\ w.session = session /\ w.offset = stream.offset /\ w.at = n
  BY <1>2, <1>7 DEF StreamKinds, w
<1>13. stream.offset # Now
  BY <1>1 DEF Now
<1> QED  BY <1>1, <1>2, <1>3, <1>4, <1>7, <1>10, <1>11, <1>12, <1>13, ReadAnswers DEF entries, mine

\* The thread goes on from an offset up to the last event, or from where it was.
LEMMA CloseAnswers ==
  ASSUME ClientInv, AnswerInv, Close \/ Break
  PROVE  AnswerInv'
<1> DEFINE entries == log[session]
           m == stream.at
           mine == Answered(own, response, replies)
           u == [stream EXCEPT !.live = FALSE]
           v == [u EXCEPT !.at = 0]
<1>0. stream.live
  BY DEF Close, Break
<1>1. /\ stream # NoStream /\ stream.offset \in Nat /\ m \in Nat
      /\ Reads(entries, doc.seen, doc.closed, stream.offset, m)
  BY <1>0, LiveIsAt
<1>2. stream \in StreamKinds /\ stream.session = session
  BY <1>1, StreamHas
<1>3. /\ Steady /\ replies' = replies /\ own' = own /\ history' = history /\ doc' = doc /\ response' = response
  BY DEF Close, Break, Steady
<1>4. AnswersOf(doc', entries, stream.offset, m, mine)
  BY <1>1, <1>3 DEF AnswerInv, AnswersOf
<1>5. PICK offset \in (stream.offset)..m : stream' = [v EXCEPT !.offset = offset]
  <2>1. CASE Close
    BY <2>1 DEF Close
  <2>2. CASE Break
    <3>1. stream' = v
      BY <2>2 DEF Break
    <3>2. u \in StreamKinds /\ u.offset = stream.offset
      BY <1>2 DEF StreamKinds
    <3> HIDE DEF u
    <3>3. v \in StreamKinds /\ v.offset = stream.offset
      BY <3>2 DEF StreamKinds
    <3> HIDE DEF v
    <3>4. v = [v EXCEPT !.offset = stream.offset]
      BY <3>3 DEF StreamKinds
    <3>5. stream.offset \in (stream.offset)..m
      BY <1>1 DEF Reads
    <3> QED  BY <3>1, <3>4, <3>5 DEF v, u
  <2> QED  BY <2>1, <2>2
<1>6. u \in StreamKinds /\ u.session = session /\ ~u.live
  BY <1>2 DEF StreamKinds
<1> HIDE DEF u
<1>7. v \in StreamKinds /\ v.session = session /\ ~v.live
  BY <1>6 DEF StreamKinds
<1> HIDE DEF v
<1> DEFINE w == [v EXCEPT !.offset = offset]
<1>8. offset \in Nat /\ offset # Now
  BY <1>1 DEF Now
<1>9. w \in StreamKinds /\ w.session = session /\ ~w.live /\ w.offset = offset
  BY <1>7, <1>8 DEF StreamKinds
<1>10. stream' = w
  BY <1>5
<1> HIDE DEF w, entries, mine, m
<1>11. AnswersOf(doc', entries, offset, m, mine)
  BY <1>1, <1>4, AnswersFrom
<1> QED  BY <1>1, <1>3, <1>8, <1>9, <1>10, <1>11, ReadAnswers DEF entries, mine
-----------------------------------------------------------------------------
(* The other steps.                                                            *)

LEMMA ReadsLater ==
  ASSUME NEW entries \in Seq(Requests \X Nat), NEW later,
         later = entries \/ \E e \in Requests \X Nat : later = Append(entries, e),
         NEW seen, NEW closed, NEW from \in Nat, NEW f \in Nat, Reads(entries, seen, closed, from, f)
  PROVE  Reads(later, seen, closed, from, f)
<1>1. CASE later = entries
  BY <1>1
<1>2. ASSUME NEW e \in Requests \X Nat, later = Append(entries, e)  PROVE Reads(later, seen, closed, from, f)
  <2>1. f <= Len(later) /\ from <= f
    BY <1>2 DEF Reads
  <2>2. \A q \in 1..f : later[q] = entries[q]
    <3>1. f <= Len(entries)
      BY DEF Reads
    <3> QED  BY <1>2, <3>1
  <2>3. \A q \in 1..f : \A m \in q..f : m \in 1..f
    OBVIOUS
  <2>4. \A e1 \in seen : \E q \in 1..f : later[q] = e1
    BY <2>2 DEF Reads
  <2>5. \A q \in 1..f : later[q] \in seen => \A m \in q..f : Dealt(seen, closed, later[m])
    BY <2>2, <2>3 DEF Reads
  <2>6. ASSUME NEW m \in (from + 1)..f  PROVE Dealt(seen, closed, later[m])
    <3>1. Dealt(seen, closed, entries[m])
      BY DEF Reads
    <3>2. m \in 1..f
      BY DEF Reads
    <3> QED  BY <2>2, <3>1, <3>2
  <2> QED  BY <2>1, <2>4, <2>5, <2>6 DEF Reads
<1> QED  BY <1>1, <1>2

\* Submissions that are closed besides are read as before.
LEMMA ReadsWider ==
  ASSUME NEW entries, NEW seen, NEW closed, NEW later, closed \subseteq later, NEW from, NEW f,
         Reads(entries, seen, closed, from, f)
  PROVE  Reads(entries, seen, later, from, f)
<1>1. \A e : Dealt(seen, closed, e) => Dealt(seen, later, e)
  BY DEF Dealt
<1> QED  BY <1>1 DEF Reads

\* The stream and what was seen of it stay.
LEMMA StreamStays ==
  ASSUME AnswerInv, log' = log, stream' = stream, doc'.seen = doc.seen, doc.closed \subseteq doc'.closed
  PROVE  /\ \A s \in Sessions : InOrder(log'[s])
         /\ StreamFollows(stream', log'[stream'.session], doc') /\ Unbroken(doc'.seen)
<1>1. \A entries, from, f : Reads(entries, doc.seen, doc.closed, from, f) => Reads(entries, doc'.seen, doc'.closed, from, f)
  BY ReadsWider
<1>2. StreamFollows(stream, log[stream.session], doc')
  BY <1>1 DEF AnswerInv, StreamFollows
<1> QED  BY <1>2 DEF AnswerInv

\* Nothing seen, and nothing submitted.
LEMMA NothingAnswered ==
  ASSUME NEW X, NEW rsp, NEW given, NEW seen, NEW reqs
  PROVE  /\ AnswersIn(X, Answered({}, rsp, given), seen, reqs) /\ Unbroken({}) /\ EmptyDoc.seen = {}
         /\ (rsp.command => rsp.request = 0) => RepliesAwaited(rsp, {}, given)
BY DEF AnswersIn, Answered, Unbroken, EmptyDoc, RepliesAwaited

\* Exchanges of other prompts come, and prompts of mine may be fewer.
LEMMA AnswersFewer ==
  ASSUME NEW X, NEW mine, NEW seen, NEW reqs, AnswersIn(X, mine, seen, reqs), NEW Y, NEW less, less \subseteq mine,
         \A y \in Y : y \in X \/ y.prompt \notin less
  PROVE  AnswersIn(Y, less, seen, reqs)
BY DEF AnswersIn

\* What is answered is done, and does not change.
LEMMA AnswersSettled ==
  ASSUME RepliesAre(replies, requests), NEW given, NEW next, SettledStay(replies, requests, given, next),
         own \subseteq Requests, NEW rsp, RepliesAwaited(rsp, own, replies),
         NEW X, NEW seen, AnswersIn(X, Answered(own, rsp, replies), seen, requests)
  PROVE  RepliesAwaited(rsp, own, given) /\ AnswersIn(X, Answered(own, rsp, given), seen, next)
<1>1. \A r \in own : rsp.request # r => given[r] = replies[r] /\ replies[r] # "none"
  BY DEF RepliesAwaited, SettledStay
<1>2. Answered(own, rsp, given) = Answered(own, rsp, replies)
  BY <1>1 DEF Answered
<1>3. \A r \in Answered(own, rsp, replies) : next[r] = requests[r]
  BY DEF Answered, RepliesAre, AnsweredBy, SettledStay
<1>4. RepliesAwaited(rsp, own, given)
  BY <1>1 DEF RepliesAwaited
<1> QED  BY <1>2, <1>3, <1>4 DEF AnswersIn

LEMMA GatewayAnswers ==
  ASSUME ClientInv, PromptInv, AnswerInv, Gateway
  PROVE  AnswerInv'
<1>1. /\ ServerStep /\ session' = session /\ doc' = doc /\ response' = response
      /\ history' = history /\ stream' = stream /\ own' = own
  BY DEF Gateway, client
<1>2. GatewayIs(requests, inbox, log) /\ RepliesAre(replies, requests) /\ \A s \in Sessions : InOrder(log[s])
  BY DEF ClientInv, AnswerInv
<1>3. RepliesAre(replies', requests') /\ SettledStay(replies, requests, replies', requests')
  BY <1>1, <1>2, ServerSettles
<1>4. \A s \in Sessions : InOrder(log'[s]) /\ (log'[s] = log[s] \/ \E e \in Requests \X Nat : log'[s] = Append(log[s], e))
  BY <1>1, <1>2, EmitInOrder
<1>5. own \subseteq Requests
  BY OwnAre DEF PromptInv
<1>6. /\ RepliesAwaited(response, own, replies')
      /\ AnswersIn(Elements(doc.exchanges), Answered(own, response, replies'), doc.seen, requests')
  BY <1>2, <1>3, <1>5, AnswersSettled DEF AnswerInv
<1>7. StreamFollows(stream, log'[stream.session], doc)
  <2>1. CASE stream = NoStream
    BY <2>1 DEF AnswerInv, StreamFollows
  <2>2. CASE stream # NoStream /\ stream.offset = Now
    BY <2>2 DEF AnswerInv, StreamFollows
  <2>3. CASE stream # NoStream /\ stream.offset # Now
    <3>1. stream.session = session /\ session \in Sessions
      BY <2>3, StreamHas
    <3>2. PICK f \in Nat : /\ Reads(log[session], doc.seen, doc.closed, stream.offset, f)
                           /\ stream.live => f = stream.at
      BY <2>3, StreamAt
    <3>3. log[session] \in Seq(Requests \X Nat)
      BY <1>2, <3>1 DEF GatewayIs
    <3>4. log'[session] = log[session] \/ \E e \in Requests \X Nat : log'[session] = Append(log[session], e)
      BY <1>4, <3>1
    <3>5. stream.offset \in Nat
      BY <2>3, StreamAt
    <3>6. Reads(log'[session], doc.seen, doc.closed, stream.offset, f)
      BY <3>2, <3>3, <3>4, <3>5, ReadsLater
    <3> QED  BY <2>3, <3>1, <3>2, <3>6 DEF StreamFollows
  <2> QED  BY <2>1, <2>2, <2>3
<1> QED  BY <1>1, <1>3, <1>4, <1>6, <1>7 DEF AnswerInv

LEMMA LaunchAnswers ==
  ASSUME AnswerInv, Launch \/ LifecycleFails
  PROVE  AnswerInv'
<1>1. /\ Steady /\ replies' = replies /\ doc' = doc /\ response' = response /\ history' = history
      /\ stream' = stream /\ own' = own
  BY DEF Launch, LifecycleFails, server, Steady
<1> QED  BY <1>1 DEF AnswerInv, Steady

LEMMA SessionCreatedAnswers ==
  ASSUME ClientInv, PromptInv, AnswerInv, SessionCreated
  PROVE  AnswerInv'
<1> DEFINE s == created + 1
<1>1. s \in Sessions
  BY ChatTranscriptsAssumption DEF SessionCreated, ClientInv, Sessions
<1>2. PICK r \in Requests :
        /\ IsNext(r) /\ requests' = Sent(r, s, "greeting") /\ stream' = Attached(s, Now)
        /\ doc' = BeginExchange(doc, 0)
        /\ response' = [NoResponse EXCEPT !.request = r, !.exchange = PendingId(doc)]
  BY DEF SessionCreated, FreshStartup
<1>3. log' = log /\ history' = history /\ own' = own /\ replies' = replies
  BY DEF SessionCreated
<1>4. doc = EmptyDoc /\ history = NoHistory /\ own = {}
  BY DEF SessionCreated, ClientInv, PhaseIs, PromptInv, OwnIs
<1> HIDE DEF s
<1>5. RepliesAre(replies', requests')
  <2>1. requests[r].state = "unsent"
    BY <1>2 DEF IsNext
  <2> QED  BY <1>2, <1>3, <2>1, SentSettles DEF ClientInv, AnswerInv
<1>6. doc'.seen = {}
  <2>1. doc \in DocumentsOf(session, requests) /\ 0 \in Requests \cup {0}
    BY DEF ClientInv
  <2>2. doc'.seen = doc.seen
    BY <1>2, <2>1, BeginTells DEF Remembers
  <2> QED  BY <1>4, <2>2, NothingAnswered
<1>7. ~response'.command
  BY <1>2 DEF NoResponse
<1>8. RepliesAwaited(response', own', replies') /\ Unbroken(doc'.seen)
      /\ AnswersIn(Elements(doc'.exchanges), Answered(own', response', replies'), doc'.seen, requests')
  BY <1>3, <1>4, <1>6, <1>7, NothingAnswered
<1>9. Quiet(history', response', stream')
  BY <1>3, <1>4 DEF Quiet, NoHistory
<1>10. StreamFollows(stream', log'[stream'.session], doc')
  <2>1. stream'.session = s /\ stream'.offset = Now /\ ~stream'.live
    BY <1>2 DEF Attached
  <2>2. stream' # NoStream
    BY <1>1, <2>1 DEF NoStream, Sessions
  <2> QED  BY <1>6, <2>1, <2>2 DEF StreamFollows
<1> QED  BY <1>3, <1>5, <1>8, <1>9, <1>10 DEF AnswerInv

LEMMA SessionResumedAnswers ==
  ASSUME ClientInv, AnswerInv, SessionResumed
  PROVE  AnswerInv'
<1>1. /\ Steady /\ replies' = replies /\ doc' = doc /\ response' = response /\ stream' = stream /\ own' = own
  BY DEF SessionResumed, server, Steady
<1>2. response = NoResponse /\ stream = NoStream
  BY DEF SessionResumed, ClientInv, PhaseIs
<1>3. Quiet(history', response', stream')
  BY <1>1, <1>2 DEF Quiet
<1> QED  BY <1>1, <1>3 DEF AnswerInv, Steady

LEMMA SubmitAnswers ==
  ASSUME ClientInv, PromptInv, AnswerInv, NEW r \in Requests, Submit(r)
  PROVE  AnswerInv'
<1>1. /\ requests' = Sent(r, session, "user") /\ doc' = BeginExchange(doc, r)
      /\ response' = [NoResponse EXCEPT !.request = r, !.exchange = PendingId(doc)]
      /\ own' = own \cup {r} /\ replies' = replies /\ log' = log /\ history' = history /\ stream' = stream
  BY DEF Submit
<1>2. requests[r].state = "unsent" /\ history = NoHistory /\ response = NoResponse
  BY DEF Submit, Unlocked, IsNext
<1>3. RepliesAre(replies, requests') /\ SettledStay(replies, requests, replies, requests')
  BY <1>1, <1>2, SentSettles DEF ClientInv, AnswerInv
<1>4. own \subseteq Requests /\ r # 0 /\ 0 \notin own
  BY OwnAre DEF PromptInv, Requests
<1>5. /\ RepliesAwaited(response, own, replies)
      /\ AnswersIn(Elements(doc.exchanges), Answered(own, response, replies), doc.seen, requests')
  BY <1>3, <1>4, AnswersSettled DEF AnswerInv
<1>6. response'.request = r /\ ~response'.command /\ response.request = 0
  BY <1>1, <1>2 DEF NoResponse
<1>7. Answered(own', response', replies') \subseteq Answered(own, response, replies) /\ r \notin Answered(own', response', replies')
  BY <1>1, <1>4, <1>6 DEF Answered
<1>8. RepliesAwaited(response', own', replies')
  BY <1>1, <1>4, <1>5, <1>6 DEF RepliesAwaited
<1>9. /\ Remembers(doc, doc')
      /\ \A y \in Elements(doc'.exchanges) : y \in Elements(doc.exchanges) \/ y.prompt = r
  <2>1. doc \in DocumentsOf(session, requests) /\ r \in Requests \cup {0}
    BY DEF ClientInv
  <2> QED  BY <1>1, <2>1, BeginTells
<1>10. AnswersIn(Elements(doc'.exchanges), Answered(own', response', replies'), doc'.seen, requests')
  <2> DEFINE X == Elements(doc.exchanges)
             Y == Elements(doc'.exchanges)
             mine == Answered(own, response, replies)
             less == Answered(own', response', replies')
  <2>1. \A y \in Y : y \in X \/ y.prompt \notin less
    BY <1>7, <1>9
  <2>2. AnswersIn(X, mine, doc.seen, requests') /\ less \subseteq mine
    BY <1>5, <1>7
  <2> HIDE DEF X, Y, mine, less
  <2>3. AnswersIn(Y, less, doc.seen, requests')
    BY <2>1, <2>2, AnswersFewer
  <2> QED  BY <1>9, <2>3 DEF Remembers, Y, less
<1>11. /\ \A s \in Sessions : InOrder(log'[s])
       /\ StreamFollows(stream', log'[stream'.session], doc') /\ Unbroken(doc'.seen)
  BY <1>1, <1>9, StreamStays DEF Remembers
<1>12. Quiet(history', response', stream')
  BY <1>1, <1>2 DEF Quiet, NoHistory
<1> QED  BY <1>1, <1>3, <1>8, <1>10, <1>11, <1>12 DEF AnswerInv

LEMMA SubmitCommandAnswers ==
  ASSUME ClientInv, PromptInv, AnswerInv, SubmitCommand
  PROVE  AnswerInv'
<1>1. /\ doc' = BeginExchange(doc, 0)
      /\ response' = [NoResponse EXCEPT !.command = TRUE, !.exchange = PendingId(doc)]
      /\ Steady /\ replies' = replies /\ history' = history /\ stream' = stream /\ own' = own
  BY DEF SubmitCommand, server, Steady
<1>2. history = NoHistory /\ response = NoResponse
  BY DEF SubmitCommand, Unlocked
<1>3. response'.request = 0 /\ response.request = 0
  BY <1>1, <1>2 DEF NoResponse
<1>4. Answered(own', response', replies') = Answered(own, response, replies) /\ RepliesAwaited(response', own', replies')
  BY <1>1, <1>3 DEF AnswerInv, Answered, RepliesAwaited
<1>5. /\ Remembers(doc, doc')
      /\ \A y \in Elements(doc'.exchanges) : y \in Elements(doc.exchanges) \/ y.prompt = 0
  <2>1. doc \in DocumentsOf(session, requests) /\ 0 \in Requests \cup {0}
    BY DEF ClientInv
  <2> QED  BY <1>1, <2>1, BeginTells
<1>6. 0 \notin Answered(own, response, replies)
  BY OwnAre DEF PromptInv, Answered
<1>7. AnswersIn(Elements(doc'.exchanges), Answered(own', response', replies'), doc'.seen, requests')
  <2> DEFINE X == Elements(doc.exchanges)
             Y == Elements(doc'.exchanges)
             mine == Answered(own, response, replies)
  <2>1. \A y \in Y : y \in X \/ y.prompt \notin mine
    BY <1>5, <1>6
  <2>2. AnswersIn(X, mine, doc.seen, requests)
    BY DEF AnswerInv
  <2> HIDE DEF X, Y, mine
  <2>3. AnswersIn(Y, mine, doc.seen, requests)
    BY <2>1, <2>2, AnswersFewer
  <2> QED  BY <1>1, <1>4, <1>5, <2>3 DEF Remembers, Y, mine, Steady
<1>8. /\ \A s \in Sessions : InOrder(log'[s])
      /\ StreamFollows(stream', log'[stream'.session], doc') /\ Unbroken(doc'.seen)
  BY <1>1, <1>5, StreamStays DEF Remembers, Steady
<1>9. Quiet(history', response', stream')
  BY <1>1, <1>2 DEF Quiet, NoHistory
<1>10. RepliesAre(replies', requests')
  BY <1>1 DEF AnswerInv, Steady
<1> QED  BY <1>4, <1>7, <1>8, <1>9, <1>10 DEF AnswerInv
-----------------------------------------------------------------------------
(* Replies, switches and pages.                                                *)

\* A response has come and the document stays, or its answers are told anew.
LEMMA ResponseAnswers ==
  ASSUME AnswerInv, Steady, replies' = replies, own' = own, history' = history, stream' = stream, response' = NoResponse,
         \A r \in own : replies[r] # "none", Remembers(doc, doc'),
         AnswersIn(Elements(doc'.exchanges), Answered(own, NoResponse, replies), doc.seen, requests)
  PROVE  AnswerInv'
<1>1. /\ \A s \in Sessions : InOrder(log'[s])
      /\ StreamFollows(stream', log'[stream'.session], doc') /\ Unbroken(doc'.seen)
  BY StreamStays DEF Remembers, Steady
<1>2. AnswersIn(Elements(doc'.exchanges), Answered(own', response', replies'), doc'.seen, requests')
  BY DEF Remembers, Steady
<1>3. RepliesAwaited(response', own', replies')
  BY DEF RepliesAwaited, NoResponse
<1>4. Quiet(history', response', stream')
  BY DEF AnswerInv, Quiet
<1>5. RepliesAre(replies', requests')
  BY DEF AnswerInv, Steady
<1> QED  BY <1>1, <1>2, <1>3, <1>4, <1>5 DEF AnswerInv

\* With the reply, the prompt that was awaited is answered, by the final answer.
LEMMA PollReplyAnswers ==
  ASSUME ClientInv, PromptInv, AnswerInv, PollReply
  PROVE  AnswerInv'
<1> DEFINE r == response.request
           bound == Bind(doc, response.exchange, <<"sub", r>>)
           T == Shown(doc.exchanges)
           U == Shown(bound.doc.exchanges)
           X == Elements(bound.doc.exchanges)
           Y == Elements(doc'.exchanges)
           mine == Answered(own, response, replies)
           all == Answered(own, NoResponse, replies)
<1>1. /\ r # 0 /\ doc' = SetAssistant(bound.doc, bound.id, "final") /\ response' = NoResponse /\ replies[r] = "ok"
      /\ Steady /\ replies' = replies /\ history' = history /\ stream' = stream /\ own' = own
  BY DEF PollReply, ReplyApplied, server, Steady
<1>2. response # NoResponse
  BY <1>1 DEF NoResponse
<1>3. Asked(r, session, requests) /\ doc \in DocumentsOf(session, requests) /\ 0 \notin own
  BY <1>1, OwnAre DEF ClientInv, ResponseIs, PromptInv
<1>4. ShownIn(T) /\ KeptIn(T, own, response.exchange) /\ WaitsIn(T, response, own)
  BY <1>3, ShownIs DEF PromptInv, DocumentShows
<1>5. \/ StaysBound(T, U, response.exchange, r, bound.id)
      \/ MergesInto(T, U, response.exchange, r, bound.id)
      \/ GetsBound(T, U, response.exchange, r, bound.id)
  <2> HIDE DEF r
  <2> QED  BY <1>3, BindShows
<1>6. bound.doc \in DocumentsOf(session, requests) /\ Remembers(doc, bound.doc)
  <2> HIDE DEF r
  <2> QED  BY <1>3, BindKeeps, BindTells
<1>7. AnswersIn(X, mine, doc.seen, requests)
  <2>1. AnswersIn(Elements(doc.exchanges), Answered(own, response, replies), doc.seen, requests)
    BY DEF AnswerInv
  <2> HIDE DEF r
  <2> QED  BY <1>2, <1>3, <1>4, <2>1, BindAnswers
<1>8. /\ Remembers(bound.doc, doc')
      /\ \A y \in Y : \E x \in X : Like(x, y) /\ y.answer = IF x.id = bound.id THEN "final" ELSE x.answer
  <2> HIDE DEF bound
  <2> QED  BY <1>1, <1>6, AnswerTells
<1>9. \A x \in X : <<x.id, x.sub, x.prompt>> \in U
  BY DEF Elements, Shown
<1>10. Remembers(doc, doc')
  BY <1>6, <1>8 DEF Remembers
<1> HIDE DEF bound, T, U, X, Y
<1>11. all \subseteq mine \cup {r}
  BY DEF Answered, NoResponse
<1>12. ASSUME r \in all, NEW x \in X, x.prompt = r  PROVE x.id = bound.id /\ x.sub = <<"sub", r>>
  <2> DEFINE u == <<x.id, x.sub, x.prompt>>
  <2>1. u \in U /\ u[1] = x.id /\ u[2] = x.sub /\ u[3] = x.prompt
    BY <1>9
  <2> HIDE DEF u
  <2>2. r \in own
    BY <1>12 DEF Answered
  <2>3. \A w \in U : w[3] = response.request => w[1] = bound.id /\ w[2] = <<"sub", response.request>>
    <3> DEFINE id == bound.id
    <3>1. Binding(T, U, response, id, own)
      BY <1>2, <1>4, <1>5, <2>2 DEF Binding
    <3> HIDE DEF id
    <3>2. \A w \in U : w[3] = response.request => w[1] = id /\ w[2] = <<"sub", response.request>>
      BY <3>1, ReplyBound
    <3> QED  BY <3>2 DEF id
  <2> QED  BY <1>12, <2>1, <2>3
<1> HIDE DEF r, mine, all
<1>13. ASSUME NEW q \in all, NEW y \in Y, y.prompt = q
       PROVE  y.sub = <<"sub", q>> /\ (y.answer = "final" \/ Overtaken(requests[q].plan, q, doc.seen))
  <2>1. PICK x \in X : Like(x, y) /\ y.answer = IF x.id = bound.id THEN "final" ELSE x.answer
    BY <1>8
  <2>2. x.prompt = q /\ y.sub = x.sub
    BY <1>13, <2>1 DEF Like
  <2>3. CASE q = r
    BY <1>12, <2>1, <2>2, <2>3
  <2>4. CASE q \in mine
    <3>1. x.sub = <<"sub", q>> /\ (x.answer = "final" \/ Overtaken(requests[q].plan, q, doc.seen))
      BY <1>7, <2>2, <2>4 DEF AnswersIn
    <3> QED  BY <2>1, <2>2, <3>1
  <2> QED  BY <1>11, <2>3, <2>4
<1>14. AnswersIn(Y, all, doc.seen, requests)
  BY <1>13 DEF AnswersIn
<1>15. \A q \in own : replies[q] # "none"
  BY <1>1 DEF AnswerInv, RepliesAwaited, r
<1> QED  BY <1>1, <1>10, <1>14, <1>15, ResponseAnswers DEF Y, all

LEMMA PollErrorAnswers ==
  ASSUME PromptInv, AnswerInv, PollError
  PROVE  AnswerInv'
<1>1. /\ response' = NoResponse /\ doc' = doc
      /\ Steady /\ replies' = replies /\ history' = history /\ stream' = stream /\ own' = own
  BY DEF PollError, server, Steady
<1>2. response.request = 0 \/ replies[response.request] = "error"
  BY DEF PollError, AnswerInv, RepliesAwaited
<1>3. \A r \in own : replies[r] # "none"
  <2>1. ASSUME NEW r \in own, response.request = r, response.request # 0  PROVE replies[r] # "none"
    BY <1>2, <2>1
  <2>2. ASSUME NEW r \in own, response.request # r  PROVE replies[r] # "none"
    BY <2>2 DEF AnswerInv, RepliesAwaited
  <2>3. 0 \notin own
    BY OwnAre DEF PromptInv
  <2> QED  BY <2>1, <2>2, <2>3
<1>4. Answered(own, NoResponse, replies) \subseteq Answered(own, response, replies)
  BY <1>2 DEF Answered, NoResponse
<1>5. AnswersIn(Elements(doc'.exchanges), Answered(own, NoResponse, replies), doc.seen, requests)
  BY <1>1, <1>4 DEF AnswerInv, AnswersIn
<1>6. Remembers(doc, doc')
  BY <1>1 DEF Remembers
<1> QED  BY <1>1, <1>3, <1>5, <1>6, ResponseAnswers

LEMMA CommandAnsweredAnswers ==
  ASSUME ClientInv, PromptInv, AnswerInv, CommandAnswered
  PROVE  AnswerInv'
<1> DEFINE X == Elements(doc.exchanges)
           Y == Elements(doc'.exchanges)
           mine == Answered(own, response, replies)
<1>1. /\ doc' = SetAssistant(doc, response.exchange, "final") /\ response' = NoResponse /\ response.request = 0
      /\ Steady /\ replies' = replies /\ history' = history /\ stream' = stream /\ own' = own
  BY DEF CommandAnswered, AnswerInv, RepliesAwaited, server, Steady
<1>2. doc \in DocumentsOf(session, requests) /\ 0 \notin own
  BY OwnAre DEF ClientInv, PromptInv
<1>3. /\ Remembers(doc, doc')
      /\ \A y \in Y : \E x \in X : Like(x, y) /\ y.answer = IF x.id = response.exchange THEN "final" ELSE x.answer
  BY <1>1, <1>2, AnswerTells
<1>4. AnswersIn(X, mine, doc.seen, requests)
  BY DEF AnswerInv
<1>5. Answered(own, NoResponse, replies) = mine
  BY <1>1 DEF Answered, NoResponse
<1>6. \A r \in own : replies[r] # "none"
  BY <1>1, <1>2 DEF AnswerInv, RepliesAwaited
<1> HIDE DEF X, Y, mine
<1>7. AnswersIn(Y, mine, doc.seen, requests)
  BY <1>3, <1>4 DEF AnswersIn, Like
<1> QED  BY <1>1, <1>3, <1>5, <1>6, <1>7, ResponseAnswers DEF Y

\* A document without exchanges, of which nothing was read.
LEMMA EmptyAnswers ==
  ASSUME own' = {}, doc' = EmptyDoc, response' = NoResponse, RepliesAre(replies', requests'),
         \A s \in Sessions : InOrder(log'[s]),
         stream' = NoStream \/ (stream'.offset = Now /\ ~stream'.live /\ stream' # NoStream),
         Quiet(history', response', stream')
  PROVE  AnswerInv'
<1>1. ~response'.command
  BY DEF NoResponse
<1>2. RepliesAwaited(response', own', replies') /\ Unbroken(doc'.seen) /\ doc'.seen = {}
      /\ AnswersIn(Elements(doc'.exchanges), Answered(own', response', replies'), doc'.seen, requests')
  BY <1>1, NothingAnswered
<1>3. StreamFollows(stream', log'[stream'.session], doc')
  BY <1>2 DEF StreamFollows
<1> QED  BY <1>2, <1>3 DEF AnswerInv

LEMMA NewSessionAnswers ==
  ASSUME ClientInv, AnswerInv, NewSession
  PROVE  AnswerInv'
<1> DEFINE s == created + 1
<1>1. s \in Sessions
  BY ChatTranscriptsAssumption DEF NewSession, ClientInv, Sessions
<1>2. /\ own' = {} /\ doc' = EmptyDoc /\ response' = NoResponse /\ response.command
      /\ requests' = requests /\ replies' = replies /\ log' = log /\ history' = history
      /\ stream' = IF stream = NoStream THEN NoStream ELSE Attached(s, Now)
  BY DEF NewSession
<1> HIDE DEF s
<1>3. stream' = NoStream \/ (stream'.offset = Now /\ ~stream'.live /\ stream' # NoStream)
  <2>1. Attached(s, Now).offset = Now /\ ~Attached(s, Now).live /\ Attached(s, Now).session = s
    BY DEF Attached
  <2>2. Attached(s, Now) # NoStream
    BY <1>1, <2>1 DEF NoStream, Sessions
  <2> QED  BY <1>2, <2>1, <2>2
<1>4. response # NoResponse
  BY <1>2 DEF NoResponse
<1>5. Quiet(history', response', stream')
  BY <1>2, <1>4 DEF AnswerInv, Quiet
<1>6. RepliesAre(replies', requests') /\ \A q \in Sessions : InOrder(log'[q])
  BY <1>2 DEF AnswerInv
<1> QED  BY <1>2, <1>3, <1>5, <1>6, EmptyAnswers

LEMMA ResumeSessionAnswers ==
  ASSUME AnswerInv, NEW s \in Sessions, ResumeSession(s)
  PROVE  AnswerInv'
<1>1. /\ own' = {} /\ doc' = EmptyDoc /\ response' = NoResponse /\ stream' = NoStream
      /\ requests' = requests /\ replies' = replies /\ log' = log
  BY DEF ResumeSession, server
<1>2. Quiet(history', response', stream')
  BY <1>1 DEF Quiet
<1>3. RepliesAre(replies', requests') /\ \A q \in Sessions : InOrder(log'[q])
  BY <1>1 DEF AnswerInv
<1> QED  BY <1>1, <1>2, <1>3, EmptyAnswers

\* A page on its way changes nothing yet; an awaited one stays of its kind.
LEMMA HistoryAnswers ==
  ASSUME AnswerInv, Steady, replies' = replies, doc' = doc, response' = response, stream' = stream, own' = own,
         history'.kind \in {"startup", "switch"} => history'.kind = history.kind
  PROVE  AnswerInv'
<1>1. Quiet(history', response', stream')
  BY DEF AnswerInv, Quiet
<1> QED  BY <1>1 DEF AnswerInv, Steady

LEMMA AwaitPageAnswers ==
  ASSUME ClientInv, AnswerInv, RequestOlderPage \/ ReadMeta \/ ServePage \/ HistoryFails
  PROVE  AnswerInv'
<1>1. /\ Steady /\ replies' = replies /\ doc' = doc /\ response' = response /\ stream' = stream /\ own' = own
  BY DEF RequestOlderPage, ReadMeta, ServePage, HistoryFails, server, Steady
<1>2. history'.kind \in {"startup", "switch"} => history'.kind = history.kind
  <2>1. CASE RequestOlderPage
    <3>1. history'.kind = "older"
      BY <2>1 DEF RequestOlderPage, RequestHistory, NoHistory
    <3> QED  BY <3>1
  <2>2. CASE ReadMeta \/ ServePage
    BY <2>2, HistoryKind DEF ReadMeta, ServePage, HistoryKinds
  <2>3. CASE HistoryFails
    BY <2>3 DEF HistoryFails, NoHistory
  <2> QED  BY <2>1, <2>2, <2>3
<1> QED  BY <1>1, <1>2, HistoryAnswers

LEMMA InstallPageAnswers ==
  ASSUME ClientInv, PromptInv, AnswerInv, InstallPage
  PROVE  AnswerInv'
<1> DEFINE xs == history.page.exchanges
           X == Elements(doc.exchanges)
           Y == Elements(doc'.exchanges)
           mine == Answered(own, response, replies)
           cut == history.cut
<1>1. /\ Steady /\ replies' = replies /\ response' = response /\ history' = NoHistory /\ own' = own
      /\ doc' \in {InstallSnapshot(doc, xs), PrependSnapshot(doc, xs)}
      /\ \/ stream' = stream
         \/ history.kind \in {"startup", "switch"} /\ stream' = Attached(session, cut)
  BY DEF InstallPage, server, Steady
<1>2. history # NoHistory /\ history.session = session
  BY DEF InstallPage, PageMatches, NoHistory
<1>3. /\ session \in Sessions /\ xs \in PagesOf(session, requests) /\ doc \in DocumentsOf(session, requests)
      /\ cut \in Nat /\ cut <= Len(log[session])
  BY <1>2, HistoryHas DEF ClientInv
<1>4. doc'.seen = doc.seen /\ doc.closed \subseteq doc'.closed /\ Y \subseteq X \cup Elements(xs)
  <2> HIDE DEF xs
  <2> QED  BY <1>1, <1>3, SnapshotTells
<1>5. \A x \in Elements(xs) : x.prompt \notin own
  <2>1. \A t \in Shown(xs) : t[3] \notin own
    BY <1>2 DEF PromptInv, HistoryLeaves
  <2>2. ASSUME NEW x \in Elements(xs)  PROVE x.prompt \notin own
    <3> DEFINE t == <<x.id, x.sub, x.prompt>>
    <3>1. t \in Shown(xs) /\ t[3] = x.prompt
      BY <2>2 DEF Elements, Shown
    <3> HIDE DEF t
    <3> QED  BY <2>1, <3>1
  <2> QED  BY <2>2
<1>6. mine \subseteq own
  BY DEF Answered
<1>7. AnswersIn(X, mine, doc.seen, requests)
  BY DEF AnswerInv
<1> HIDE DEF xs, X, Y, mine, cut
<1>8. AnswersIn(Y, mine, doc.seen, requests)
  <2>1. \A y \in Y : y \in X \/ y.prompt \notin mine
    BY <1>4, <1>5, <1>6
  <2> QED  BY <1>7, <2>1, AnswersFewer
<1>9. StreamFollows(stream', log'[stream'.session], doc')
  <2>1. CASE stream' = stream
    BY <1>1, <1>4, <2>1, StreamStays DEF Steady
  <2>2. CASE history.kind \in {"startup", "switch"} /\ stream' = Attached(session, cut)
    <3>1. doc'.seen = {}
      BY <1>4, <2>2 DEF AnswerInv, Quiet, StreamFollows
    <3>2. stream'.session = session /\ stream'.offset = cut /\ ~stream'.live
      BY <2>2 DEF Attached
    <3>3. cut # Now
      BY <1>3 DEF Now
    <3>4. Reads(log[session], {}, doc'.closed, cut, cut)
      BY <1>3 DEF Reads
    <3> QED  BY <1>1, <1>3, <3>1, <3>2, <3>3, <3>4 DEF StreamFollows, Steady
  <2> QED  BY <1>1, <2>1, <2>2
<1>10. Unbroken(doc'.seen) /\ (\A s \in Sessions : InOrder(log'[s])) /\ RepliesAre(replies', requests')
  BY <1>1, <1>4 DEF AnswerInv, Steady
<1>11. Quiet(history', response', stream')
  BY <1>1 DEF Quiet, NoHistory
<1>12. AnswersIn(Elements(doc'.exchanges), Answered(own', response', replies'), doc'.seen, requests')
  BY <1>1, <1>4, <1>8 DEF Steady, Y, mine
<1>13. RepliesAwaited(response', own', replies')
  BY <1>1 DEF AnswerInv
<1> QED  BY <1>9, <1>10, <1>11, <1>12, <1>13 DEF AnswerInv

LEMMA NothingInOrder == InOrder(<<>>)
<1>1. Rising(<<>>)
  BY DEF Rising
<1>2. ASSUME NEW r \in Requests  PROVE Counted(<<>>, r)
  <2>1. OfRequest(<<>>, r) = {}
    BY DEF OfRequest
  <2>2. Cardinality(OfRequest(<<>>, r)) = 0
    BY <2>1, FS_EmptySet
  <2>3. 1..0 = {}
    OBVIOUS
  <2> QED  BY <2>1, <2>2, <2>3 DEF Counted
<1> QED  BY <1>1, <1>2 DEF InOrder

LEMMA AnswersInitially ==
  ASSUME Init
  PROVE  AnswerInv
<1>1. /\ requests = [r \in Requests |-> Unsent] /\ replies = [r \in Requests |-> "none"]
      /\ log = [s \in Sessions |-> <<>>]
      /\ doc = EmptyDoc /\ own = {} /\ response = NoResponse /\ history = NoHistory /\ stream = NoStream
  BY DEF Init, ServerInit
<1>2. RepliesAre(replies, requests)
  BY <1>1 DEF RepliesAre, AnsweredBy, Replies
<1>3. ASSUME NEW s \in Sessions  PROVE InOrder(log[s])
  <2>1. log[s] = <<>>
    BY <1>1
  <2> QED  BY <2>1, NothingInOrder
<1>4. ~response.command
  BY <1>1 DEF NoResponse
<1>5. /\ RepliesAwaited(response, own, replies) /\ Unbroken(doc.seen) /\ doc.seen = {}
      /\ AnswersIn(Elements(doc.exchanges), Answered(own, response, replies), doc.seen, requests)
  BY <1>1, <1>4, NothingAnswered
<1>6. StreamFollows(stream, log[stream.session], doc) /\ Quiet(history, response, stream)
  BY <1>1, <1>5 DEF StreamFollows, Quiet
<1> QED  BY <1>2, <1>3, <1>5, <1>6 DEF AnswerInv

LEMMA AnswersStutter ==
  ASSUME AnswerInv, UNCHANGED vars
  PROVE  AnswerInv'
<1>1. /\ Steady /\ replies' = replies /\ doc' = doc /\ response' = response /\ history' = history
      /\ stream' = stream /\ own' = own
  BY DEF vars, client, server, Steady
<1> QED  BY <1>1 DEF AnswerInv, Steady

\* What is known of answers holds in every state: the logs are in order, the document is as
\* far in its log as the stream, and each exchange of an answered prompt has the prompt's
\* submission and the final answer, or one that the stream has overtaken.
THEOREM AnswersKept == Spec => []AnswerInv
<1>1. ASSUME ClientInv, PromptInv, AnswerInv, Next  PROVE AnswerInv'
  BY <1>1, GatewayAnswers, LaunchAnswers, SessionCreatedAnswers, SessionResumedAnswers, SubmitAnswers,
     SubmitCommandAnswers, PollReplyAnswers, PollErrorAnswers, CommandAnsweredAnswers, NewSessionAnswers,
     ResumeSessionAnswers, AwaitPageAnswers, InstallPageAnswers, ConnectAnswers, DeliverAnswers, CloseAnswers DEF Next
<1>2. ClientInv /\ PromptInv /\ AnswerInv /\ [Next]_vars => AnswerInv'
  BY <1>1, AnswersStutter
<1>3. Init => AnswerInv
  BY AnswersInitially
<1> QED  BY <1>2, <1>3, ClientIsOfOneSession, PromptsKept, PTL DEF Spec

\* A submission of which no event is missing after an interim answer has its final one.
LEMMA NotOvertaken ==
  ASSUME NEW p, p \in Seq(EventKinds), NEW seen, Unbroken(seen), NEW r,
         \A k \in DOMAIN p : p[k] = "interim" => \E j \in DOMAIN p : k < j /\ p[j] = "final",
         \A i \in DOMAIN p : <<r, i>> \in seen => <<r, Len(p)>> \in seen
  PROVE  ~Overtaken(p, r, seen)
<1> SUFFICES ASSUME Overtaken(p, r, seen)  PROVE FALSE
  OBVIOUS
<1>1. PICK k \in DOMAIN p : /\ p[k] = "interim" /\ <<r, k>> \in seen
                            /\ \A j \in DOMAIN p : k < j /\ p[j] = "final" => <<r, j>> \notin seen
  BY DEF Overtaken
<1>2. PICK j \in DOMAIN p : k < j /\ p[j] = "final"
  BY <1>1
<1> DEFINE a == <<r, k>>
           b == <<r, Len(p)>>
<1>3. a \in seen /\ b \in seen /\ a[1] = r /\ a[1] = b[1] /\ a[2] = k /\ b[2] = Len(p)
  BY <1>1
<1> HIDE DEF a, b
<1>4. j \in k..Len(p)
  BY <1>2
<1>5. <<r, j>> \in seen
  BY <1>3, <1>4 DEF Unbroken
<1> QED  BY <1>1, <1>2, <1>5

LEMMA AnswersAreFinal ==
  ASSUME ClientInv, PromptInv, AnswerInv
  PROVE  AnsweredIsFinal
<1> SUFFICES ASSUME NEW r \in own, replies[r] = "ok", response.request # r,
                    \A i \in DOMAIN Plan(r) : <<r, i>> \in doc.seen => <<r, Len(Plan(r))>> \in doc.seen,
                    NEW n \in Position(doc, "prompt", r)
             PROVE  doc.exchanges[n].answer = "final"
  BY DEF AnsweredIsFinal
<1> DEFINE p == Plan(r)
           x == doc.exchanges[n]
<1>1. r \in Requests /\ requests \in [Requests -> RequestKinds] /\ r \in Answered(own, response, replies)
  BY OwnAre DEF PromptInv, ClientInv, GatewayIs, Answered
<1>2. p \in Plans \cup {<<>>} /\ p \in Seq(EventKinds)
  BY <1>1, PlansAre DEF RequestKinds, Plan
<1>3. ~Has(p, {"operation_error"})
  BY <1>1 DEF AnswerInv, RepliesAre, AnsweredBy, Plan
<1>4. x \in Elements(doc.exchanges) /\ x.prompt = r
  BY DEF Elements, Position
<1>5. x.answer = "final" \/ Overtaken(p, r, doc.seen)
  BY <1>1, <1>4 DEF AnswerInv, AnswersIn, Plan
<1> HIDE DEF p, x
<1>6. \A k \in DOMAIN p : p[k] = "interim" => \E j \in DOMAIN p : k < j /\ p[j] = "final"
  BY <1>2, <1>3, PlansAssumption
<1>7. ~Overtaken(p, r, doc.seen)
  BY <1>2, <1>6, NotOvertaken DEF AnswerInv, p
<1> QED  BY <1>5, <1>7 DEF x

\* A prompt answered over HTTP keeps the final answer, unless the stream has brought an
\* interim message after it and the final one is still to come: in whatever order the
\* reply, the events and the pages come, and after restarts and broken connections.
THEOREM RepliesAreFinal == Spec => []AnsweredIsFinal
<1>1. ClientInv /\ PromptInv /\ AnswerInv => AnsweredIsFinal
  BY AnswersAreFinal
<1> QED  BY <1>1, ClientIsOfOneSession, PromptsKept, AnswersKept, PTL
=============================================================================
