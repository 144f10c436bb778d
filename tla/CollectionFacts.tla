----------------------------- MODULE CollectionFacts --------------------------
(***************************************************************************)
(* What the proofs need to know of collections.  Queues are sequences      *)
(* without repetition: what appending, taking the head and concatenating   *)
(* make of their members.  Places that hold something are functions: how   *)
(* many of them hold a value, before and after one of them changes.  Lists *)
(* are chains of links: what following the links meets.  Loops are         *)
(* recursive functions of the number of their turns: what holds after all  *)
(* of them.                                                                *)
(***************************************************************************)
EXTENDS Integers, Sequences, Functions, SequenceTheorems, FiniteSetTheorems,
        WellFoundedInduction, TLAPS

\* Appending adds the new element, and no repetition unless it was there.
LEMMA AppendFacts ==
    ASSUME NEW S, NEW s \in Seq(S), NEW x \in S
    PROVE  /\ Append(s, x) \in Seq(S)
           /\ Append(s, x) # <<>>
           /\ Range(Append(s, x)) = Range(s) \cup {x}
           /\ IsInjective(s) /\ x \notin Range(s) => IsInjective(Append(s, x))
<1>1. /\ Append(s, x) \in Seq(S) /\ Append(s, x) # <<>>
      /\ Len(Append(s, x)) = Len(s) + 1
      /\ \A i \in 1 .. Len(s) : Append(s, x)[i] = s[i]
      /\ Append(s, x)[Len(s) + 1] = x
  BY AppendProperties
<1>2. /\ DOMAIN s = 1 .. Len(s) /\ Len(s) \in Nat
      /\ DOMAIN Append(s, x) = 1 .. (Len(s) + 1)
  BY <1>1, LenProperties
<1>3. Range(Append(s, x)) = Range(s) \cup {x}
  BY <1>1, <1>2 DEF Range
<1>4. IsInjective(s) /\ x \notin Range(s) => IsInjective(Append(s, x))
  BY <1>1, <1>2 DEF Range, IsInjective
<1> QED BY <1>1, <1>3, <1>4

\* Taking the head removes exactly it.
LEMMA TailFacts ==
    ASSUME NEW S, NEW s \in Seq(S), s # <<>>
    PROVE  /\ Tail(s) \in Seq(S) /\ Head(s) \in S
           /\ Range(s) = Range(Tail(s)) \cup {Head(s)}
           /\ IsInjective(s) => IsInjective(Tail(s)) /\ Head(s) \notin Range(Tail(s))
<1>1. /\ Head(s) \in S /\ Tail(s) \in Seq(S)
      /\ Len(Tail(s)) = Len(s) - 1
      /\ \A i \in 1 .. Len(Tail(s)) : Tail(s)[i] = s[i + 1]
  BY HeadTailProperties
<1>2. /\ DOMAIN s = 1 .. Len(s) /\ Len(s) \in Nat /\ Len(s) # 0
      /\ DOMAIN Tail(s) = 1 .. (Len(s) - 1)
      /\ Head(s) = s[1]
  BY <1>1, LenProperties, EmptySeq
<1>3. Range(s) = Range(Tail(s)) \cup {Head(s)}
  <2>1. ASSUME NEW i \in 1 .. Len(s) PROVE s[i] \in Range(Tail(s)) \cup {Head(s)}
    <3>1. CASE i = 1 BY <3>1, <1>2
    <3>2. CASE i # 1
      <4>1. i - 1 \in 1 .. Len(Tail(s)) /\ Tail(s)[i - 1] = s[i]
        BY <3>2, <1>1, <1>2
      <4> QED BY <4>1, <1>1, <1>2 DEF Range
    <3> QED BY <3>1, <3>2
  <2>2. Range(Tail(s)) \cup {Head(s)} \subseteq Range(s)
    BY <1>1, <1>2 DEF Range
  <2>3. Range(s) \subseteq Range(Tail(s)) \cup {Head(s)}
    BY <2>1, <1>2 DEF Range
  <2> QED BY <2>2, <2>3
<1>4. IsInjective(s) => IsInjective(Tail(s)) /\ Head(s) \notin Range(Tail(s))
  BY <1>1, <1>2 DEF Range, IsInjective
<1> QED BY <1>1, <1>3, <1>4

\* Disjoint queues without repetition concatenate to one.
LEMMA ConcatFacts ==
    ASSUME NEW S, NEW s \in Seq(S), NEW t \in Seq(S)
    PROVE  /\ s \o t \in Seq(S)
           /\ Range(s \o t) = Range(s) \cup Range(t)
           /\ IsInjective(s) /\ IsInjective(t) /\ Range(s) \cap Range(t) = {}
                 => IsInjective(s \o t)
<1>1. /\ s \o t \in Seq(S)
      /\ Len(s \o t) = Len(s) + Len(t)
      /\ \A i \in 1 .. Len(s) + Len(t) :
            (s \o t)[i] = IF i <= Len(s) THEN s[i] ELSE t[i - Len(s)]
  BY ConcatProperties
<1>2. /\ DOMAIN s = 1 .. Len(s) /\ Len(s) \in Nat
      /\ DOMAIN t = 1 .. Len(t) /\ Len(t) \in Nat
      /\ DOMAIN (s \o t) = 1 .. (Len(s) + Len(t))
  BY <1>1, LenProperties
<1>3. Range(s \o t) = Range(s) \cup Range(t)
  BY RangeConcatenation
<1>4. ASSUME IsInjective(s), IsInjective(t), Range(s) \cap Range(t) = {},
             NEW a \in 1 .. Len(s) + Len(t), NEW b \in 1 .. Len(s) + Len(t),
             (s \o t)[a] = (s \o t)[b]
      PROVE  a = b
  <2>1. CASE a <= Len(s) /\ b <= Len(s)
    BY <2>1, <1>4, <1>1, <1>2 DEF IsInjective
  <2>2. CASE a > Len(s) /\ b > Len(s)
    <3>1. /\ (s \o t)[a] = t[a - Len(s)] /\ (s \o t)[b] = t[b - Len(s)]
          /\ a - Len(s) \in DOMAIN t /\ b - Len(s) \in DOMAIN t
      BY <2>2, <1>1, <1>2
    <3>2. a - Len(s) = b - Len(s) BY <3>1, <1>4 DEF IsInjective
    <3> QED BY <3>2, <1>2
  <2>3. CASE a <= Len(s) /\ b > Len(s)
    <3>1. (s \o t)[a] \in Range(s) /\ (s \o t)[b] \in Range(t)
      BY <2>3, <1>1, <1>2 DEF Range
    <3> QED BY <3>1, <1>4
  <2>4. CASE a > Len(s) /\ b <= Len(s)
    <3>1. (s \o t)[a] \in Range(t) /\ (s \o t)[b] \in Range(s)
      BY <2>4, <1>1, <1>2 DEF Range
    <3> QED BY <3>1, <1>4
  <2> QED BY <2>1, <2>2, <2>3, <2>4, <1>2
<1> QED BY <1>1, <1>2, <1>3, <1>4 DEF IsInjective

\* The empty queue.
LEMMA EmptyFacts == Range(<<>>) = {} /\ IsInjective(<<>>)
BY DEF Range, IsInjective

\* A queue of one.
LEMMA SingleFacts ==
    ASSUME NEW S, NEW x \in S
    PROVE  <<x>> \in Seq(S) /\ Range(<<x>>) = {x} /\ IsInjective(<<x>>)
BY DEF Range, IsInjective

-----------------------------------------------------------------------------

\* A set of natural numbers that has a member has a least one.
LEMMA LeastMember ==
    ASSUME NEW S \in SUBSET Nat, S # {}
    PROVE  \E i \in S : \A j \in S : i <= j
<1>1. \E i \in S : \A j \in S : <<j, i>> \notin OpToRel(<, Nat)
  BY WFMin, NatLessThanWellFounded
<1>2. \A i, j \in Nat : j < i => <<j, i>> \in OpToRel(<, Nat)
  BY Zenon DEF OpToRel
<1>3. PICK i \in S : \A j \in S : <<j, i>> \notin OpToRel(<, Nat) BY <1>1
<1>4. \A j \in S : ~(j < i) BY <1>2, <1>3, Zenon
<1> QED BY <1>4

\* How many places of P hold r.
Held(P, g, r) == {e \in P : g[e] = r}

\* It is a number, and 0 when no place does.
LEMMA HeldFacts ==
    ASSUME NEW P, IsFiniteSet(P), NEW g, NEW r
    PROVE  /\ IsFiniteSet(Held(P, g, r)) /\ Cardinality(Held(P, g, r)) \in Nat
           /\ Cardinality(Held(P, g, r)) = 0 <=> \A e \in P : g[e] # r
<1>1. IsFiniteSet(Held(P, g, r)) BY FS_Subset DEF Held
<1>2. Cardinality(Held(P, g, r)) \in Nat BY <1>1, FS_CardinalityType
<1>3. Cardinality(Held(P, g, r)) = 0 <=> Held(P, g, r) = {} BY <1>1, FS_EmptySet
<1>4. Held(P, g, r) = {} <=> \A e \in P : g[e] # r BY DEF Held
<1> QED BY <1>1, <1>2, <1>3, <1>4

\* One place changes.
LEMMA HeldStep ==
    ASSUME NEW P, IsFiniteSet(P), NEW g, NEW h, NEW x \in P, \A e \in P \ {x} : h[e] = g[e], NEW r
    PROVE  Cardinality(Held(P, h, r)) =
             Cardinality(Held(P, g, r)) + (IF h[x] = r THEN 1 ELSE 0) - (IF g[x] = r THEN 1 ELSE 0)
<1> DEFINE G == Held(P, g, r)
           H == Held(P, h, r)
<1>1. IsFiniteSet(G) /\ Cardinality(G) \in Nat BY HeldFacts
<1>2. G \ {x} = H \ {x} /\ (x \in G <=> g[x] = r) /\ (x \in H <=> h[x] = r) BY DEF Held
<1> HIDE DEF G, H
<1>3. CASE h[x] = r /\ g[x] # r
  <2>1. H = G \cup {x} /\ x \notin G BY <1>2, <1>3
  <2>2. Cardinality(H) = Cardinality(G) + 1 BY <2>1, <1>1, FS_AddElement
  <2> QED BY <2>2, <1>1, <1>3 DEF G, H
<1>4. CASE h[x] # r /\ g[x] = r
  <2>1. H = G \ {x} /\ x \in G BY <1>2, <1>4
  <2>2. Cardinality(H) = Cardinality(G) - 1 BY <2>1, <1>1, FS_RemoveElement
  <2> QED BY <2>2, <1>1, <1>4 DEF G, H
<1>5. CASE (h[x] = r) <=> (g[x] = r)
  <2>1. H = G BY <1>2, <1>5
  <2> QED BY <2>1, <1>1, <1>5 DEF G, H
<1> QED BY <1>3, <1>4, <1>5

\* When one place at most holds r, two places that do are the same.
LEMMA HeldOnce ==
    ASSUME NEW P, IsFiniteSet(P), NEW g, NEW r, Cardinality(Held(P, g, r)) <= 1,
           NEW x \in P, NEW y \in P, g[x] = r, g[y] = r
    PROVE  x = y
<1> SUFFICES ASSUME x # y PROVE FALSE OBVIOUS
<1> DEFINE G == Held(P, g, r)
<1>1. IsFiniteSet(G) /\ Cardinality(G) \in Nat BY HeldFacts
<1>2. x \in G /\ y \in G \ {x} BY DEF Held
<1> HIDE DEF G
<1>3. IsFiniteSet(G \ {x}) /\ Cardinality(G \ {x}) = Cardinality(G) - 1 BY <1>1, <1>2, FS_RemoveElement
<1>4. Cardinality(G \ {x}) \in Nat /\ Cardinality(G \ {x}) # 0
  BY <1>2, <1>3, FS_EmptySet, FS_CardinalityType
<1> QED BY <1>1, <1>3, <1>4 DEF G

-----------------------------------------------------------------------------

\* The links lead from a start over the members of s, one after the other, to the end.
Chain(link, null, start, s) ==
    /\ start = IF s = <<>> THEN null ELSE s[1]
    /\ \A k \in DOMAIN s : link[s[k]] = IF k = Len(s) THEN null ELSE s[k + 1]

\* What following the links meets, as LinkedList's Walk says it.
Met(nodes, null, link, start) ==
    LET bound == 1 .. Cardinality(nodes) + 1
        at[k \in bound] == IF k = 1 THEN start
                           ELSE IF at[k - 1] = null THEN null ELSE link[at[k - 1]]
    IN  [k \in {k \in bound : at[k] # null} |-> at[k]]

\* It meets the members of the chain.
LEMMA WalkFacts ==
    ASSUME NEW N, IsFiniteSet(N), NEW null, null \notin N, NEW link, NEW start,
           NEW s \in Seq(N), IsInjective(s), Chain(link, null, start, s)
    PROVE  Met(N, null, link, start) = s
<1> DEFINE m == Cardinality(N)
           n == Len(s)
           bound == 1 .. m + 1
           Eq(f) == f = [k \in bound |-> IF k = 1 THEN start
                                         ELSE IF f[k - 1] = null THEN null ELSE link[f[k - 1]]]
           w == [k \in bound |-> IF k <= n THEN s[k] ELSE null]
<1>1. n \in Nat /\ DOMAIN s = 1 .. n /\ (\A k \in 1 .. n : s[k] \in N) /\ (s = <<>> <=> n = 0)
  BY LenProperties, EmptySeq, ElementOfSeq
<1>2. m \in Nat BY FS_CardinalityType
<1>3. n <= m
  <2>1. s \in Injection(1 .. n, N) BY <1>1 DEF Injection, IsInjective
  <2>2. Cardinality(1 .. n) <= m BY <2>1, FS_Injection
  <2>3. \A i \in Nat : Cardinality(1 .. i) = i
    <3>1. ASSUME NEW i \in Nat PROVE Cardinality(1 .. i) = i
      <4>1. 1 \in Int /\ i \in Int OBVIOUS
      <4>2. Cardinality(1 .. i) = IF 1 > i THEN 0 ELSE i - 1 + 1 BY <4>1, FS_Interval
      <4> QED BY <4>2
    <3> QED BY <3>1
  <2> QED BY <1>1, <2>2, <2>3
<1>4. Eq(w)
  <2> SUFFICES ASSUME NEW k \in bound
               PROVE  w[k] = IF k = 1 THEN start ELSE IF w[k - 1] = null THEN null ELSE link[w[k - 1]]
    OBVIOUS
  <2>1. k \in Nat /\ 1 <= k /\ k <= m + 1 BY <1>2
  <2>2. CASE k = 1 BY <1>1, <2>1, <2>2 DEF Chain
  <2>3. CASE k # 1
    <3>1. k - 1 \in bound /\ k - 1 \in Nat /\ k - 1 >= 1 BY <1>2, <2>1, <2>3
    <3>2. CASE k - 1 <= n
      <4>1. k - 1 \in DOMAIN s /\ w[k - 1] = s[k - 1] BY <1>1, <3>1, <3>2
      <4>2. s[k - 1] # null BY <1>1, <4>1
      <4>3. link[s[k - 1]] = IF k - 1 = n THEN null ELSE s[k] BY <1>1, <2>1, <4>1 DEF Chain
      <4> QED BY <1>1, <2>1, <2>3, <3>2, <4>1, <4>2, <4>3
    <3>3. CASE ~(k - 1 <= n) BY <1>1, <2>1, <2>3, <3>1, <3>3
    <3> QED BY <3>2, <3>3
  <2> QED BY <2>2, <2>3
<1>0. PICK at : at = CHOOSE f : Eq(f) OBVIOUS
<1>5. Eq(at) BY <1>0, <1>4
<1>6. \A k \in bound : at[k] = w[k]
  <2> SUFFICES ASSUME \E k \in bound : at[k] # w[k] PROVE FALSE OBVIOUS
  <2> DEFINE S == {k \in bound : at[k] # w[k]}
  <2>1. S \in SUBSET Nat /\ S # {}
    <3>1. bound \subseteq Nat BY <1>2
    <3> HIDE DEF w
    <3> QED BY <3>1
  <2>2. PICK k \in S : \A j \in S : k <= j BY <2>1, LeastMember
  <2>3. k \in Nat /\ 1 <= k /\ k <= m + 1 /\ at[k] # w[k] BY <1>2, <2>2
  <2>4. at[k] = IF k = 1 THEN start ELSE IF at[k - 1] = null THEN null ELSE link[at[k - 1]]
    BY <1>5, <2>2
  <2>5. w[k] = IF k = 1 THEN start ELSE IF w[k - 1] = null THEN null ELSE link[w[k - 1]]
    <3> HIDE DEF w
    <3> QED BY <1>4, <2>2
  <2>6. k # 1 BY <2>3, <2>4, <2>5
  <2>7. k - 1 \in bound /\ k - 1 \notin S BY <1>2, <2>2, <2>3, <2>6
  <2>8. at[k - 1] = w[k - 1] BY <2>7
  <2> HIDE DEF w
  <2> QED BY <2>3, <2>4, <2>5, <2>8
<1>7. {k \in bound : at[k] # null} = 1 .. n
  <2>1. ASSUME NEW k \in bound PROVE w[k] # null <=> k <= n BY <1>1, <1>2
  <2> HIDE DEF w
  <2> QED BY <1>1, <1>2, <1>3, <1>6, <2>1
<1>8. \A k \in 1 .. n : at[k] = s[k] BY <1>1, <1>2, <1>3, <1>6
<1>9. s = [k \in 1 .. n |-> s[k]] BY <1>1
<1>10. [k \in {k \in bound : at[k] # null} |-> at[k]] = s BY <1>7, <1>8, <1>9
<1> QED BY <1>0, <1>10 DEF Met

-----------------------------------------------------------------------------
\* n turns of a loop: what it has after each.
Turns(n, f, x, turn) == f[0] = x /\ \A k \in 1 .. n : f[k] = turn[f[k - 1]]

\* What is kept by each turn holds after the last.
LEMMA LoopStays ==
    ASSUME NEW n \in Nat, NEW f, NEW S, f[0] \in S[0],
           \A k \in 1 .. n : f[k - 1] \in S[k - 1] => f[k] \in S[k]
    PROVE  f[n] \in S[n]
<1> SUFFICES ASSUME f[n] \notin S[n] PROVE FALSE OBVIOUS
<1> DEFINE Bad == {k \in 0 .. n : f[k] \notin S[k]}
<1>1. Bad \in SUBSET Nat /\ Bad # {} OBVIOUS
<1>2. PICK k \in Bad : \A j \in Bad : k <= j BY <1>1, LeastMember
<1>3. k # 0 /\ k \in 1 .. n BY <1>2
<1>4. k - 1 \in 0 .. n /\ k - 1 \notin Bad BY <1>2, <1>3
<1> QED BY <1>2, <1>3, <1>4

\* A loop whose turns are known one by one.
LEMMA LoopIs ==
    ASSUME NEW n \in Nat, NEW f, NEW g, f[0] = g[0],
           \A k \in 1 .. n : f[k - 1] = g[k - 1] => f[k] = g[k]
    PROVE  f[n] = g[n]
<1> DEFINE S == [k \in 0 .. n |-> {g[k]}]
<1>1. 0 \in 0 .. n /\ n \in 0 .. n /\ \A k \in 1 .. n : k - 1 \in 0 .. n /\ k \in 0 .. n OBVIOUS
<1>2. f[0] \in S[0] /\ \A k \in 1 .. n : f[k - 1] \in S[k - 1] => f[k] \in S[k] BY <1>1
<1>3. f[n] \in S[n]
  <2> HIDE DEF S
  <2> QED BY <1>2, LoopStays
<1> QED BY <1>1, <1>3

\* Every loop can be run: the recursive function of its turns exists.
LEMMA LoopExists ==
    ASSUME NEW n \in Nat, NEW S, NEW x \in S, NEW turn \in [S -> S]
    PROVE  \E f \in [0 .. n -> S] : Turns(n, f, x, turn)
<1> DEFINE Exists(m) == \E f \in [0 .. m -> S] : Turns(m, f, x, turn)
           Missing == {m \in Nat : ~Exists(m)}
<1> SUFFICES ASSUME ~Exists(n) PROVE FALSE OBVIOUS
<1>1. Missing \in SUBSET Nat /\ Missing # {} OBVIOUS
<1>2. PICK m \in Nat : ~Exists(m) /\ \A j \in Nat : j < m => Exists(j)
  <2> HIDE DEF Missing
  <2>1. PICK m \in Missing : \A j \in Missing : m <= j BY <1>1, LeastMember
  <2>2. \A j \in Nat : j < m => j \notin Missing BY <1>1, <2>1
  <2> USE DEF Missing
  <2> QED BY <2>1, <2>2, Zenon
<1>3. m # 0
  <2> SUFFICES ASSUME m = 0 PROVE FALSE OBVIOUS
  <2> DEFINE f == [k \in 0 .. 0 |-> x]
  <2>1. f \in [0 .. m -> S] /\ Turns(m, f, x, turn) BY DEF Turns
  <2> QED BY <1>2, <2>1
<1>4. PICK g \in [0 .. m - 1 -> S] : g[0] = x /\ \A k \in 1 .. m - 1 : g[k] = turn[g[k - 1]]
  <2>1. m - 1 \in Nat /\ m - 1 < m BY <1>2, <1>3
  <2> QED BY <1>2, <2>1 DEF Turns
<1> DEFINE f == [k \in 0 .. m |-> IF k = m THEN turn[g[m - 1]] ELSE g[k]]
<1>5. m - 1 \in Nat /\ g[m - 1] \in S /\ turn[g[m - 1]] \in S BY <1>3, <1>4
<1>6. f \in [0 .. m -> S] BY <1>4, <1>5
<1>7. f[0] = x /\ \A k \in 1 .. m : f[k] = turn[f[k - 1]] BY <1>3, <1>4, <1>5
<1> QED BY <1>2, <1>6, <1>7 DEF Turns

\* The n values of h from a on: what a reader gets.
Piece(h, a, n) == [k \in 1 .. n |-> h[a + k - 1]]
Values(h) == {h[c] : c \in Nat}
IsPiece(s, h, a, n) == Len(s) = n /\ \A k \in 1 .. n : s[k] = h[a + k - 1]

LEMMA PieceFacts ==
    ASSUME NEW h, NEW a \in Nat, NEW n \in Nat
    PROVE  Piece(h, a, n) \in Seq(Values(h)) /\ IsPiece(Piece(h, a, n), h, a, n)
<1>1. \A k \in 1 .. n : a + k - 1 \in Nat OBVIOUS
<1> QED BY <1>1 DEF Piece, Values, IsPiece

LEMMA PieceOnly ==
    ASSUME NEW h, NEW a \in Nat, NEW n \in Nat, NEW V, NEW s \in Seq(V), IsPiece(s, h, a, n)
    PROVE  s = Piece(h, a, n)
<1>1. s = [k \in 1 .. n |-> s[k]] BY DEF IsPiece
<1> QED BY <1>1 DEF Piece, IsPiece

\* A piece of a piece: m values of it, behind d others.
PartOf(s, d, m) == SubSeq(s, d + 1, d + m)

LEMMA PiecePart ==
    ASSUME NEW h, NEW a \in Nat, NEW n \in Nat
    PROVE  \A d, m \in Nat : d + m <= n => PartOf(Piece(h, a, n), d, m) = Piece(h, a + d, m)
<1> SUFFICES ASSUME NEW d \in Nat, NEW m \in Nat, d + m <= n
             PROVE  PartOf(Piece(h, a, n), d, m) = Piece(h, a + d, m)
  OBVIOUS
<1>1. PICK V : V = Values(h) OBVIOUS
<1>2. PICK s \in Seq(V) : s = Piece(h, a, n) BY <1>1, PieceFacts
<1>3. Len(s) = n /\ \A k \in 1 .. n : s[k] = h[a + k - 1] BY <1>2, PieceFacts DEF IsPiece
<1>4. PICK t : t = PartOf(s, d, m) OBVIOUS
<1>5. t \in Seq(V) /\ Len(t) = m /\ \A k \in 1 .. m : t[k] = s[d + k]
  <2>1. \A k \in d + 1 .. d + m : s[k] \in V BY <1>2, <1>3
  <2>2. d + 1 \in Int /\ d + m \in Int OBVIOUS
  <2>3. /\ t \in Seq(V) /\ Len(t) = IF d + 1 <= d + m THEN d + m - (d + 1) + 1 ELSE 0
        /\ \A k \in 1 .. d + m - (d + 1) + 1 : t[k] = s[d + 1 + k - 1]
    BY <1>4, <2>1, <2>2, SubSeqProperties DEF PartOf
  <2>4. \A k \in 1 .. m : k \in 1 .. d + m - (d + 1) + 1 /\ d + 1 + k - 1 = d + k OBVIOUS
  <2> QED BY <2>3, <2>4
<1>6. \A k \in 1 .. m : d + k \in 1 .. n /\ a + (d + k) - 1 = (a + d) + k - 1 OBVIOUS
<1>7. \A k \in 1 .. m : t[k] = h[(a + d) + k - 1] BY <1>3, <1>5, <1>6
<1>8. PICK b \in Nat : b = a + d OBVIOUS
<1>9. t = Piece(h, b, m) BY <1>5, <1>7, <1>8, PieceOnly DEF IsPiece
<1> QED BY <1>2, <1>4, <1>8, <1>9

\* A piece and the one behind it.
Joins(h, a, n, b, m, l) == Piece(h, a, n) \o Piece(h, b, m) = Piece(h, a, l)

LEMMA PieceJoin ==
    ASSUME NEW h, NEW a \in Nat, NEW n \in Nat, NEW b \in Nat, b = a + n, NEW m \in Nat,
           NEW l \in Nat, l = n + m
    PROVE  Joins(h, a, n, b, m, l)
<1>1. PICK V : V = Values(h) OBVIOUS
<1>2. PICK s \in Seq(V) : s = Piece(h, a, n) BY <1>1, PieceFacts
<1>3. Len(s) = n /\ \A k \in 1 .. n : s[k] = h[a + k - 1] BY <1>2, PieceFacts DEF IsPiece
<1>4. PICK t \in Seq(V) : t = Piece(h, b, m) BY <1>1, PieceFacts
<1>5. Len(t) = m /\ \A k \in 1 .. m : t[k] = h[b + k - 1] BY <1>4, PieceFacts DEF IsPiece
<1>6. PICK u : u = s \o t OBVIOUS
<1>7. /\ u \in Seq(V) /\ Len(u) = l
      /\ \A k \in 1 .. l : u[k] = IF k <= n THEN s[k] ELSE t[k - n]
  <2>1. /\ s \o t \in Seq(V) /\ Len(s \o t) = Len(s) + Len(t)
        /\ \A k \in 1 .. Len(s) + Len(t) : (s \o t)[k] = IF k <= Len(s) THEN s[k] ELSE t[k - Len(s)]
    BY ConcatProperties
  <2>2. /\ u \in Seq(V) /\ Len(u) = Len(s) + Len(t)
        /\ \A k \in 1 .. Len(s) + Len(t) : u[k] = IF k <= Len(s) THEN s[k] ELSE t[k - Len(s)]
    BY <1>6, <2>1, Zenon
  <2>3. Len(s) = n /\ Len(t) = m BY <1>3, <1>5
  <2> QED BY <2>2, <2>3
<1>8. ASSUME NEW k \in 1 .. l PROVE u[k] = h[a + k - 1]
  <2>1. CASE k <= n BY <1>3, <1>7, <2>1
  <2>2. CASE k > n
    <3>1. PICK j \in 1 .. m : j = k - n BY <2>2
    <3>2. u[k] = t[j] BY <1>7, <2>2, <3>1
    <3>3. b + j - 1 = a + k - 1 BY <3>1
    <3> QED BY <1>5, <3>2, <3>3
  <2> QED BY <2>1, <2>2
<1>9. u \in Seq(V) /\ IsPiece(u, h, a, l) BY <1>7, <1>8 DEF IsPiece
<1>10. u = Piece(h, a, l) BY <1>9, PieceOnly
<1> QED BY <1>2, <1>4, <1>6, <1>10 DEF Joins

\* A loop that is to read n values of h from a on: each turn adds some of what is
\* left, which is known of the turns that begin with a part of them.
Parts(h, a, n) == {Piece(h, a, m) : m \in 0 .. n}
Advances(h, a, n, turn) ==
    \A m \in 0 .. n : \E j \in m .. n :
        turn[Piece(h, a, m)] = Piece(h, a, j) /\ (m < n => j > m)
Reads(t, f, h, a, n, turn) ==
    f[0] = <<>> /\ \A k \in 1 .. t : f[k - 1] \in Parts(h, a, n) => f[k] = turn[f[k - 1]]
Completes(t, h, a, n, turn) ==
    /\ \E f \in [0 .. t -> Parts(h, a, n)] : Turns(t, f, <<>>, turn)
    /\ \A f : Reads(t, f, h, a, n, turn) => f[t] = Piece(h, a, n)

\* It can be run, and has read them after n turns or more.
LEMMA LoopReads ==
    ASSUME NEW h, NEW a \in Nat, NEW n \in Nat, NEW t \in Nat, t >= n, NEW turn,
           Advances(h, a, n, turn)
    PROVE  Completes(t, h, a, n, turn)
<1> DEFINE P == Parts(h, a, n)
<1>1. Piece(h, a, 0) = <<>>
  <2>1. 0 \in Nat /\ 1 .. 0 = {} OBVIOUS
  <2>2. Piece(h, a, 0) \in Seq(Values(h)) /\ Len(Piece(h, a, 0)) = 0 BY PieceFacts DEF IsPiece
  <2> QED BY <2>2, EmptySeq
<1>2. ASSUME NEW p \in P PROVE turn[p] \in P
  <2>1. PICK m \in 0 .. n : p = Piece(h, a, m) BY DEF Parts
  <2>2. PICK j \in m .. n : turn[Piece(h, a, m)] = Piece(h, a, j) BY DEF Advances
  <2>3. j \in 0 .. n OBVIOUS
  <2> QED BY <2>1, <2>2, <2>3 DEF Parts
<1>3. <<>> \in P
  <2>1. 0 \in 0 .. n OBVIOUS
  <2> QED BY <1>1, <2>1 DEF Parts
<1>4. \E f \in [0 .. t -> P] : Turns(t, f, <<>>, turn)
  <2>1. PICK inside : inside = [p \in P |-> turn[p]] OBVIOUS
  <2>2. inside \in [P -> P] BY <1>2, <2>1
  <2>3. PICK f \in [0 .. t -> P] : Turns(t, f, <<>>, inside) BY <1>3, <2>2, LoopExists
  <2>4. ASSUME NEW k \in 1 .. t PROVE f[k] = turn[f[k - 1]]
    <3>1. k - 1 \in 0 .. t OBVIOUS
    <3>2. f[k - 1] \in P BY <2>3, <3>1
    <3> QED BY <2>1, <2>3, <3>2 DEF Turns
  <2> QED BY <2>3, <2>4 DEF Turns
<1>5. ASSUME NEW f, Reads(t, f, h, a, n, turn) PROVE f[t] = Piece(h, a, n)
  <2> DEFINE S == [k \in 0 .. t |-> {Piece(h, a, m) : m \in {m \in 0 .. n : m >= k \/ m = n}}]
  <2>1. f[0] \in S[0]
    <3>1. 0 \in 0 .. t /\ S[0] = {Piece(h, a, m) : m \in {m \in 0 .. n : m >= 0 \/ m = n}} OBVIOUS
    <3>2. 0 \in {m \in 0 .. n : m >= 0 \/ m = n} OBVIOUS
    <3> QED BY <1>1, <1>5, <3>1, <3>2 DEF Reads
  <2>2. ASSUME NEW k \in 1 .. t, f[k - 1] \in S[k - 1] PROVE f[k] \in S[k]
    <3>1. k - 1 \in 0 .. t /\ k \in 0 .. t /\ k \in Nat OBVIOUS
    <3>2. PICK m \in 0 .. n : f[k - 1] = Piece(h, a, m) /\ (m >= k - 1 \/ m = n) BY <2>2, <3>1
    <3>3. PICK j \in m .. n : turn[Piece(h, a, m)] = Piece(h, a, j) /\ (m < n => j > m)
      BY DEF Advances
    <3>4. f[k] = Piece(h, a, j) BY <1>5, <3>2, <3>3 DEF Reads, Parts
    <3>5. j \in 0 .. n /\ (j >= k \/ j = n) BY <3>1, <3>2, <3>3
    <3> QED BY <3>1, <3>4, <3>5
  <2>3. f[t] \in S[t]
    <3> HIDE DEF S
    <3> QED BY <2>1, <2>2, LoopStays
  <2>4. \A m \in 0 .. n : m >= t \/ m = n => m = n OBVIOUS
  <2>5. t \in 0 .. t OBVIOUS
  <2> QED BY <2>3, <2>4, <2>5
<1> QED BY <1>4, <1>5 DEF Completes
=============================================================================
