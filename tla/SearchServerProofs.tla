------------------------- MODULE SearchServerProofs -------------------------
(***************************************************************************)
(* Proofs about SearchServer and the decisions of Retrieval it is made of. *)
(***************************************************************************)
EXTENDS SearchServer, DataLemmas

-----------------------------------------------------------------------------
(* What the filters let through, in the words of the contract. *)

LEMMA FilterIsAsks ==
    ASSUME NEW q \in Queries, NEW p \in Payloads
    PROVE  Matches(p, BuildFilter(q)) <=> Asks(q, p)
<1> DEFINE f == BuildFilter(q)
           named == {g \in Facets : q.facet[g] # NoValue}
<1>1. f.must = {Must("tenant", q.tenant)} \union {Must(g, q.facet[g]) : g \in named}
  BY DEF BuildFilter
<1>2. f.mustNot = (IF q.archived THEN {} ELSE {"archived"}) \union (IF q.private THEN {} ELSE {"private"})
  BY DEF BuildFilter
<1>3. (\A m \in f.must : FieldOf(p, m.field) = m.value)
      <=> p.tenant = q.tenant /\ \A g \in named : p.facet[g] = q.facet[g]
  <2>1. FieldOf(p, Must("tenant", q.tenant).field) = p.tenant /\ Must("tenant", q.tenant).value = q.tenant
    BY DEF Must, FieldOf
  <2>2. \A g \in named : /\ FieldOf(p, Must(g, q.facet[g]).field) = p.facet[g]
                          /\ Must(g, q.facet[g]).value = q.facet[g]
    BY RetrievalAssumption DEF Must, FieldOf
  <2>3. QED
    <3> HIDE DEF f, named
    <3>1. QED
      BY <1>1, <2>1, <2>2
<1>4. (\A flag \in f.mustNot : flag \notin p.flags)
      <=> (q.archived \/ "archived" \notin p.flags) /\ (q.private \/ "private" \notin p.flags)
  BY <1>2
<1>5. QED
  BY <1>3, <1>4 DEF Matches, Asks, InScope

LEMMA LookupIsScope ==
    ASSUME NEW q \in Queries, NEW p \in Payloads
    PROVE  Matches(p, LookupFilter(q)) <=> InScope(q, p) /\ p.uid = q.uid
<1> DEFINE bare == [q EXCEPT !.facet = [g \in Facets |-> NoValue]]
           f == BuildFilter(bare)
           l == LookupFilter(q)
<1>1. bare.tenant = q.tenant /\ bare.archived = q.archived /\ bare.private = q.private
      /\ bare.facet = [g \in Facets |-> NoValue]
  BY DEF Queries
<1>2. f.must = {Must("tenant", q.tenant)}
      /\ f.mustNot = (IF q.archived THEN {} ELSE {"archived"}) \union (IF q.private THEN {} ELSE {"private"})
  BY <1>1 DEF BuildFilter
<1>3. l.must = f.must \union {Must("uid", q.uid)} /\ l.mustNot = f.mustNot
  BY DEF LookupFilter, BuildFilter
<1>4. (\A m \in l.must : FieldOf(p, m.field) = m.value) <=> p.tenant = q.tenant /\ p.uid = q.uid
  <2>1. FieldOf(p, Must("tenant", q.tenant).field) = p.tenant /\ Must("tenant", q.tenant).value = q.tenant
    BY DEF Must, FieldOf
  <2>2. FieldOf(p, Must("uid", q.uid).field) = p.uid /\ Must("uid", q.uid).value = q.uid
    BY DEF Must, FieldOf
  <2>3. QED
    <3> HIDE DEF f, l
    <3>1. QED
      BY <1>2, <1>3, <2>1, <2>2
<1>5. (\A flag \in l.mustNot : flag \notin p.flags)
      <=> (q.archived \/ "archived" \notin p.flags) /\ (q.private \/ "private" \notin p.flags)
  BY <1>2, <1>3
<1>6. QED
  BY <1>4, <1>5 DEF Matches, InScope

-----------------------------------------------------------------------------
(* What the store answers with: no point twice, and every point when the limit
   is not reached. *)
LEMMA Enumeration ==
    ASSUME NEW P, IsFiniteSet(P), NEW s \in [1 .. Cardinality(P) -> P],
           \A i, j \in DOMAIN s : s[i] = s[j] => i = j
    PROVE  {s[i] : i \in DOMAIN s} = P
<1>1. Cardinality(P) \in Nat
  BY FS_CardinalityType
<1>2. Cardinality(1 .. Cardinality(P)) = Cardinality(P)
  BY <1>1, FS_Interval
<1>3. s \in Injection(1 .. Cardinality(P), P)
  BY DEF Injection, IsInjective
<1>4. s \in Surjection(1 .. Cardinality(P), P)
  BY <1>2, <1>3, FS_Injection
<1>5. QED
  BY <1>4 DEF Surjection

LEMMA Ranked ==
    ASSUME NEW P, IsFiniteSet(P), NEW limit \in Nat, NEW s \in RankedPoints(P, limit)
    PROVE  /\ s \in Seq(P)
           /\ \A i, j \in DOMAIN s : s[i] = s[j] => i = j
           /\ Len(s) = IF Cardinality(P) < limit THEN Cardinality(P) ELSE limit
           /\ Cardinality(P) <= limit => {s[i] : i \in DOMAIN s} = P
<1> DEFINE n == IF Cardinality(P) < limit THEN Cardinality(P) ELSE limit
<1>1. Cardinality(P) \in Nat
  BY FS_CardinalityType
<1>2. s \in [1 .. n -> P] /\ \A i, j \in DOMAIN s : s[i] = s[j] => i = j
  BY DEF RankedPoints
<1>3. s \in Seq(P) /\ Len(s) = n
  BY <1>1, <1>2
<1>4. ASSUME Cardinality(P) <= limit PROVE {s[i] : i \in DOMAIN s} = P
  <2>1. n = Cardinality(P)
    BY <1>1, <1>4
  <2>2. QED
    BY <1>2, <2>1, Enumeration
<1>5. QED
  BY <1>2, <1>3, <1>4

-----------------------------------------------------------------------------
(* The loop of capPerUID. *)
CapRun(f, hits, topK) ==
    /\ f \in [0 .. Len(hits) -> Seq(Payloads)]
    /\ f[0] = <<>>
    /\ \A i \in 1 .. Len(hits) : f[i] = Keep(f[i - 1], hits[i], topK)

LEMMA CapRuns ==
    ASSUME NEW hits \in Seq(Payloads), NEW topK \in Nat
    PROVE  \E f : CapRun(f, hits, topK) /\ CapPerUid(hits, topK) = f[Len(hits)]
<1> DEFINE n == Len(hits)
           S == Seq(Payloads)
           step == [x \in (1 .. n) \X S |-> Keep(x[2], hits[x[1]], topK)]
           Unroll(g) == [i \in 0 .. n |-> IF i = 0 THEN <<>> ELSE Keep(g[i - 1], hits[i], topK)]
           kept == CHOOSE g : g = Unroll(g)
<1>1. step \in [(1 .. n) \X S -> S]
  BY DEF Keep
<1>2. PICK f \in [0 .. n -> S] : f[0] = <<>> /\ \A i \in 1 .. n : f[i] = step[<<i, f[i - 1]>>]
  <2>1. n \in Nat /\ <<>> \in S
    OBVIOUS
  <2>2. \E f : Steps(f, S, n, <<>>, step)
    <3> HIDE DEF step, n, S
    <3>1. QED
      BY <2>1, <1>1, Recursion
  <2>3. QED
    BY <2>2 DEF Steps
<1>3. \A i \in 1 .. n : f[i] = Keep(f[i - 1], hits[i], topK)
  BY <1>2
<1>4. f = Unroll(f)
  BY <1>2, <1>3
<1>5. kept = Unroll(kept)
  BY <1>4
<1>6. CapPerUid(hits, topK) = kept[n]
  BY DEF CapPerUid
<1> HIDE DEF kept
<1>7. kept[0] = <<>> /\ \A i \in 1 .. n : kept[i] = Keep(kept[i - 1], hits[i], topK)
  BY <1>5
<1>8. 0 .. n \subseteq {i \in 0 .. n : kept[i] = f[i]}
  <2> DEFINE T == {i \in 0 .. n : kept[i] = f[i]}
  <2>1. 0 \in T
    BY <1>2, <1>7
  <2>2. ASSUME NEW i \in 0 .. n, i \in T, i < n
        PROVE  i + 1 \in T
    <3>1. i + 1 \in 1 .. n /\ kept[i] = f[i] /\ (i + 1) - 1 = i
      BY <2>2
    <3>2. kept[i + 1] = Keep(kept[i], hits[i + 1], topK) /\ f[i + 1] = Keep(f[i], hits[i + 1], topK)
      BY <3>1, <1>3, <1>7
    <3>3. QED
      BY <3>1, <3>2
  <2>3. QED
    <3> HIDE DEF T
    <3>1. n \in Nat
      OBVIOUS
    <3>2. 0 .. n \subseteq T
      BY <2>1, <2>2, <3>1, UpTo
    <3>3. QED
      BY <3>2 DEF T
<1>9. kept \in [0 .. n -> S]
  BY <1>2, <1>5, <1>8
<1>10. CapRun(kept, hits, topK)
  BY <1>7, <1>9 DEF CapRun
<1>11. QED
  BY <1>6, <1>10

LEMMA FromAppend ==
    ASSUME NEW hits \in Seq(Payloads), NEW h \in Payloads, NEW u
    PROVE  /\ FromUid(hits, u) \in Nat /\ FromUid(<<>>, u) = 0
           /\ FromUid(Append(hits, h), u) = FromUid(hits, u) + IF h.uid = u THEN 1 ELSE 0
<1> DEFINE n == Len(hits)
           more == Append(hits, h)
           T == {i \in 1 .. n + 1 : more[i].uid = u}
<1>1. n \in Nat /\ DOMAIN hits = 1 .. n /\ DOMAIN more = 1 .. n + 1
  OBVIOUS
<1>2. \A i \in 1 .. n : more[i] = hits[i]
  OBVIOUS
<1>3. {i \in DOMAIN hits : hits[i].uid = u} = (1 .. n) \intersect T
  BY <1>1, <1>2
<1>4. {i \in DOMAIN more : more[i].uid = u} = (1 .. n + 1) \intersect T
  BY <1>1
<1>5. n + 1 \in T <=> h.uid = u
  BY <1>1
<1>6. FromUid(<<>>, u) = 0
  BY FS_EmptySet DEF FromUid
<1>7. /\ Cardinality((1 .. n) \intersect T) \in Nat
      /\ Cardinality((1 .. n + 1) \intersect T)
           = Cardinality((1 .. n) \intersect T) + IF n + 1 \in T THEN 1 ELSE 0
  <2> HIDE DEF T, n
  <2>1. QED
    BY <1>1, CountTo
<1>8. FromUid(hits, u) = Cardinality((1 .. n) \intersect T)
      /\ FromUid(more, u) = Cardinality((1 .. n + 1) \intersect T)
  BY <1>3, <1>4 DEF FromUid
<1> HIDE DEF T
<1>9. QED
  BY <1>5, <1>6, <1>7, <1>8

(* The first i hits that are of note u. *)
Seen(hits, i, u) == Cardinality({j \in 1 .. i : hits[j].uid = u})

LEMMA SeenNext ==
    ASSUME NEW hits \in Seq(Payloads), NEW i \in 0 .. Len(hits), NEW u
    PROVE  /\ Seen(hits, i, u) \in Nat /\ Seen(hits, 0, u) = 0
           /\ i < Len(hits) => Seen(hits, i + 1, u)
                                 = Seen(hits, i, u) + IF hits[i + 1].uid = u THEN 1 ELSE 0
<1> DEFINE T == {j \in 1 .. Len(hits) : hits[j].uid = u}
<1>1. {j \in 1 .. i : hits[j].uid = u} = (1 .. i) \intersect T
      /\ {j \in 1 .. 0 : hits[j].uid = u} = (1 .. 0) \intersect T
  OBVIOUS
<1>2. i < Len(hits) => {j \in 1 .. i + 1 : hits[j].uid = u} = (1 .. i + 1) \intersect T
  OBVIOUS
<1>3. i < Len(hits) => (i + 1 \in T <=> hits[i + 1].uid = u)
  OBVIOUS
<1>4. /\ Cardinality((1 .. i) \intersect T) \in Nat /\ Cardinality((1 .. 0) \intersect T) = 0
      /\ Cardinality((1 .. i + 1) \intersect T)
           = Cardinality((1 .. i) \intersect T) + IF i + 1 \in T THEN 1 ELSE 0
  <2> HIDE DEF T
  <2>1. i \in Nat
    OBVIOUS
  <2>2. QED
    BY <2>1, CountTo
<1>5. Seen(hits, i, u) = Cardinality((1 .. i) \intersect T)
      /\ Seen(hits, 0, u) = Cardinality((1 .. 0) \intersect T)
      /\ (i < Len(hits) => Seen(hits, i + 1, u) = Cardinality((1 .. i + 1) \intersect T))
  BY <1>1, <1>2 DEF Seen
<1> HIDE DEF T
<1>6. QED
  BY <1>3, <1>4, <1>5

(* Whatever the limits are, the answer is made of hits, no longer than was asked, with no
   note above its share, and empty only when there was no hit. *)
LEMMA CapKeepsWithin ==
    ASSUME NEW hits \in Seq(Payloads), NEW topK \in Nat \ {0}
    PROVE  LET kept == CapPerUid(hits, topK)
           IN  /\ kept \in Seq(Payloads) /\ Len(kept) <= topK
               /\ \A j \in DOMAIN kept : \E i \in DOMAIN hits : kept[j] = hits[i]
               /\ MaxPerUid > 0 => \A u : FromUid(kept, u) <= MaxPerUid
               /\ kept = <<>> => hits = <<>>
<1> DEFINE n == Len(hits)
<1>1. PICK f : CapRun(f, hits, topK) /\ CapPerUid(hits, topK) = f[n]
  BY CapRuns
<1>2. /\ f \in [0 .. n -> Seq(Payloads)] /\ f[0] = <<>>
      /\ \A i \in 1 .. n : f[i] = Keep(f[i - 1], hits[i], topK)
  BY <1>1 DEF CapRun
<1>3. n \in Nat /\ MaxPerUid \in Nat
  BY RetrievalAssumption
<1> DEFINE J(i) == /\ Len(f[i]) <= topK
                   /\ \A j \in DOMAIN f[i] : \E k \in DOMAIN hits : f[i][j] = hits[k]
                   /\ MaxPerUid > 0 => \A u : FromUid(f[i], u) <= MaxPerUid
                   /\ i > 0 => Len(f[i]) > 0
           T == {i \in 0 .. n : J(i)}
<1>4. 0 \in T
  <2>1. \A u : FromUid(<<>>, u) = 0
    BY FS_EmptySet DEF FromUid
  <2>2. QED
    BY <1>2, <1>3, <2>1
<1>5. ASSUME NEW i \in 0 .. n, i \in T, i < n
      PROVE  i + 1 \in T
  <2> DEFINE g == f[i]
             h == hits[i + 1]
  <2>1. g \in Seq(Payloads) /\ h \in Payloads /\ J(i) /\ i + 1 \in 0 .. n
    BY <1>2, <1>5
  <2>2. f[i + 1] = Keep(g, h, topK)
    BY <1>2, <1>5
  <2>3. CASE Len(g) = topK \/ (MaxPerUid > 0 /\ FromUid(g, h.uid) >= MaxPerUid)
    <3>1. f[i + 1] = g
      BY <2>2, <2>3 DEF Keep
    <3>2. Len(g) > 0
      <4>1. ASSUME Len(g) = 0 PROVE FALSE
        <5>1. g = <<>>
          BY <2>1, <4>1
        <5>2. FromUid(g, h.uid) = 0
          BY <5>1, FS_EmptySet DEF FromUid
        <5>3. QED
          BY <2>3, <4>1, <5>2, <1>3
      <4>2. QED
        BY <2>1, <4>1
    <3>3. QED
      BY <2>1, <3>1, <3>2
  <2>4. CASE ~(Len(g) = topK \/ (MaxPerUid > 0 /\ FromUid(g, h.uid) >= MaxPerUid))
    <3>1. f[i + 1] = Append(g, h)
      BY <2>2, <2>4 DEF Keep
    <3>2. Len(f[i + 1]) = Len(g) + 1 /\ Len(f[i + 1]) <= topK
      BY <2>1, <2>4, <3>1
    <3>3. \A j \in DOMAIN f[i + 1] : \E k \in DOMAIN hits : f[i + 1][j] = hits[k]
      BY <2>1, <3>1
    <3>4. MaxPerUid > 0 => \A u : FromUid(f[i + 1], u) <= MaxPerUid
      <4>1. ASSUME MaxPerUid > 0, NEW u
            PROVE  FromUid(f[i + 1], u) <= MaxPerUid
        <5>1. FromUid(g, u) \in Nat /\ FromUid(g, u) <= MaxPerUid
              /\ FromUid(f[i + 1], u) = FromUid(g, u) + IF h.uid = u THEN 1 ELSE 0
          BY <2>1, <3>1, <4>1, FromAppend
        <5>2. h.uid = u => FromUid(g, u) < MaxPerUid
          BY <2>4, <4>1, <5>1, <1>3
        <5>3. QED
          BY <5>1, <5>2, <1>3
      <4>2. QED
        BY <4>1
    <3>5. QED
      BY <2>1, <3>2, <3>3, <3>4
  <2>5. QED
    BY <2>3, <2>4
<1>6. n \in T
  <2> HIDE DEF T
  <2>1. 0 .. n \subseteq T
    BY <1>3, <1>4, <1>5, UpTo
  <2>2. QED
    BY <1>3, <2>1
<1>7. f[n] \in Seq(Payloads)
  BY <1>2, <1>3
<1>8. J(n)
  BY <1>6
<1>9. f[n] = <<>> => hits = <<>>
  BY <1>3, <1>8
<1>10. QED
  BY <1>1, <1>7, <1>8, <1>9

(* The places the first i hits could take. *)
PlacesOf(hits, i) == {place \in Uids \X (1 .. MaxPerUid) : place[2] <= Seen(hits, i, place[1])}

LEMMA PlacesNext ==
    ASSUME NEW hits \in Seq(Payloads), NEW i \in 0 .. Len(hits) - 1, MaxPerUid > 0,
           IsFiniteSet(PlacesOf(hits, i))
    PROVE  LET u == hits[i + 1].uid
               more == IF Seen(hits, i, u) < MaxPerUid THEN 1 ELSE 0
           IN  /\ IsFiniteSet(PlacesOf(hits, i + 1))
               /\ Cardinality(PlacesOf(hits, i + 1)) = Cardinality(PlacesOf(hits, i)) + more
<1> DEFINE u == hits[i + 1].uid
           c == Seen(hits, i, u)
           A == PlacesOf(hits, i)
           B == PlacesOf(hits, i + 1)
<1>1. u \in Uids /\ MaxPerUid \in Nat /\ i \in 0 .. Len(hits) /\ i < Len(hits)
  <2>1. hits[i + 1] \in Payloads
    OBVIOUS
  <2>2. QED
    BY <2>1, RetrievalAssumption DEF Payloads
<1>2. c \in Nat /\ Seen(hits, i + 1, u) = c + 1
  BY <1>1, SeenNext
<1>3. \A v : Seen(hits, i, v) \in Nat /\ (v # u => Seen(hits, i + 1, v) = Seen(hits, i, v))
  BY <1>1, SeenNext
<1>4. \A x \in Uids \X (1 .. MaxPerUid) : x \in B <=> x \in A \/ x = <<u, c + 1>>
  <2> TAKE x \in Uids \X (1 .. MaxPerUid)
  <2>1. PICK v \in Uids, k \in 1 .. MaxPerUid : x = <<v, k>>
    OBVIOUS
  <2>2. CASE v = u
    BY <2>1, <2>2, <1>1, <1>2 DEF PlacesOf
  <2>3. CASE v # u
    BY <2>1, <2>3, <1>3 DEF PlacesOf
  <2>4. QED
    BY <2>2, <2>3
<1>5. A \subseteq Uids \X (1 .. MaxPerUid) /\ B \subseteq Uids \X (1 .. MaxPerUid)
  BY DEF PlacesOf
<1>6. CASE c < MaxPerUid
  <2>1. <<u, c + 1>> \in Uids \X (1 .. MaxPerUid)
    BY <1>1, <1>2, <1>6
  <2>2. <<u, c + 1>> \notin A
    BY <1>2 DEF PlacesOf
  <2>3. B = A \union {<<u, c + 1>>}
    <3> HIDE DEF A, B, c, u
    <3>1. QED
      BY <1>4, <1>5, <2>1
  <2>4. IsFiniteSet(B) /\ Cardinality(B) = Cardinality(A) + 1
    <3> HIDE DEF A, B, c, u
    <3>1. IsFiniteSet(A)
      BY DEF A
    <3>2. QED
      BY <2>2, <2>3, <3>1, FS_AddElement
  <2>5. QED
    BY <1>6, <2>4
<1>7. CASE ~(c < MaxPerUid)
  <2>1. <<u, c + 1>> \notin Uids \X (1 .. MaxPerUid)
    BY <1>1, <1>2, <1>7
  <2>2. B = A
    <3> HIDE DEF A, B, c, u
    <3>1. QED
      BY <1>4, <1>5, <2>1
  <2>3. Cardinality(A) \in Nat
    BY FS_CardinalityType
  <2>4. QED
    BY <1>7, <2>2, <2>3
<1>8. QED
  BY <1>6, <1>7

OfNote(points, u) == {p \in points : p.uid = u}

LEMMA SeenIsCardinality ==
    ASSUME NEW hits \in Seq(Payloads), \A i, j \in DOMAIN hits : hits[i] = hits[j] => i = j,
           NEW all, all = {hits[i] : i \in DOMAIN hits}, NEW u
    PROVE  Seen(hits, Len(hits), u) = Cardinality(OfNote(all, u))
<1> DEFINE A == {j \in 1 .. Len(hits) : hits[j].uid = u}
           B == {p \in all : p.uid = u}
           f == [j \in A |-> hits[j]]
<1>1. IsFiniteSet(A)
  <2>1. IsFiniteSet(1 .. Len(hits))
    BY FS_Interval
  <2>2. QED
    BY <2>1, FS_Subset
<1>2. f \in Surjection(A, B)
  BY DEF Surjection
<1>3. f \in Injection(A, B)
  BY DEF Injection, IsInjective
<1>4. Cardinality(B) = Cardinality(A)
  <2> HIDE DEF f, A, B
  <2>1. QED
    BY <1>1, <1>2, <1>3, FS_Surjection
<1>5. QED
  BY <1>4 DEF Seen, OfNote

(* The cap costs no result it need not cost. *)
LEMMA CapFillsThePlaces ==
    ASSUME NEW hits \in Seq(Payloads), \A i, j \in DOMAIN hits : hits[i] = hits[j] => i = j,
           NEW all, all = {hits[i] : i \in DOMAIN hits},
           NEW topK \in Nat \ {0}, MaxPerUid > 0
    PROVE  Len(CapPerUid(hits, topK)) = Least(topK, Cardinality(Places(all)))
<1> DEFINE n == Len(hits)
           S(i) == PlacesOf(hits, i)
<1>1. PICK f : CapRun(f, hits, topK) /\ CapPerUid(hits, topK) = f[n]
  BY CapRuns
<1>2. /\ f \in [0 .. n -> Seq(Payloads)] /\ f[0] = <<>>
      /\ \A i \in 1 .. n : f[i] = Keep(f[i - 1], hits[i], topK)
  BY <1>1 DEF CapRun
<1>3. n \in Nat /\ MaxPerUid \in Nat
  BY RetrievalAssumption
<1> DEFINE J(i) == /\ IsFiniteSet(S(i)) /\ Len(f[i]) = Least(topK, Cardinality(S(i)))
                   /\ Len(f[i]) < topK =>
                        \A u : FromUid(f[i], u) = Least(MaxPerUid, Seen(hits, i, u))
           T == {i \in 0 .. n : J(i)}
<1>4. 0 \in T
  <2>1. \A u : FromUid(<<>>, u) = 0 /\ Seen(hits, 0, u) = 0
    <3>1. \A u : FromUid(<<>>, u) = 0
      BY FS_EmptySet DEF FromUid
    <3>2. \A u : Seen(hits, 0, u) = 0
      BY SeenNext, <1>3
    <3>3. QED
      BY <3>1, <3>2
  <2>2. S(0) = {}
    BY <2>1 DEF PlacesOf
  <2>3. IsFiniteSet(S(0)) /\ Cardinality(S(0)) = 0
    BY <2>2, FS_EmptySet
  <2>4. QED
    BY <1>2, <1>3, <2>1, <2>3 DEF Least
<1>5. ASSUME NEW i \in 0 .. n, i \in T, i < n
      PROVE  i + 1 \in T
  <2> DEFINE g == f[i]
             h == hits[i + 1]
             c == Seen(hits, i, h.uid)
  <2>1. g \in Seq(Payloads) /\ h \in Payloads /\ J(i) /\ i + 1 \in 0 .. n /\ i \in 0 .. n - 1
    BY <1>2, <1>5
  <2>2. f[i + 1] = Keep(g, h, topK)
    BY <1>2, <1>5
  <2>3. /\ IsFiniteSet(S(i + 1)) /\ Cardinality(S(i)) \in Nat
        /\ Cardinality(S(i + 1)) = Cardinality(S(i)) + IF c < MaxPerUid THEN 1 ELSE 0
    BY <2>1, PlacesNext, FS_CardinalityType
  <2>4. \A u : /\ Seen(hits, i, u) \in Nat
               /\ Seen(hits, i + 1, u) = Seen(hits, i, u) + IF h.uid = u THEN 1 ELSE 0
    BY <1>5, SeenNext
  <2> HIDE DEF S, h, g, c
  <2>5. CASE Len(g) = topK
    <3>1. f[i + 1] = g
      BY <2>2, <2>5 DEF Keep
    <3>2. Len(f[i + 1]) = topK /\ Cardinality(S(i)) >= topK
      BY <2>1, <2>3, <2>5, <3>1 DEF Least, g
    <3>3. QED
      BY <2>1, <2>3, <3>2 DEF Least
  <2>6. CASE Len(g) # topK
    <3>1. Len(g) = Cardinality(S(i)) /\ Len(g) < topK
      BY <2>1, <2>3, <2>6 DEF Least, g
    <3>2. \A u : FromUid(g, u) = Least(MaxPerUid, Seen(hits, i, u))
      BY <2>1, <3>1 DEF g
    <3>3. CASE c < MaxPerUid
      <4>1. FromUid(g, h.uid) = c
        BY <3>2, <3>3, <2>4, <1>3 DEF Least, c
      <4>2. f[i + 1] = Append(g, h)
        BY <2>2, <2>6, <3>3, <4>1, <1>3, <2>4 DEF Keep, c
      <4>3. Len(f[i + 1]) = Len(g) + 1
        BY <2>1, <4>2
      <4>4. Len(f[i + 1]) = Least(topK, Cardinality(S(i + 1)))
        BY <2>3, <3>1, <3>3, <4>3 DEF Least
      <4>5. ASSUME NEW u PROVE FromUid(f[i + 1], u) = Least(MaxPerUid, Seen(hits, i + 1, u))
        <5>1. FromUid(f[i + 1], u) = FromUid(g, u) + IF h.uid = u THEN 1 ELSE 0
          BY <2>1, <4>2, FromAppend
        <5>2. CASE h.uid = u
          BY <5>1, <5>2, <2>4, <3>2, <3>3, <4>1, <1>3 DEF Least, c
        <5>3. CASE h.uid # u
          BY <5>1, <5>3, <2>4, <3>2, <1>3 DEF Least
        <5>4. QED
          BY <5>2, <5>3
      <4>6. QED
        BY <2>1, <2>3, <4>4, <4>5
    <3>4. CASE ~(c < MaxPerUid)
      <4>1. FromUid(g, h.uid) = MaxPerUid
        BY <3>2, <3>4, <2>4, <1>3 DEF Least, c
      <4>2. f[i + 1] = g
        BY <2>2, <4>1, <1>3 DEF Keep
      <4>3. Len(f[i + 1]) = Least(topK, Cardinality(S(i + 1)))
        BY <2>3, <3>1, <3>4, <4>2 DEF Least
      <4>4. ASSUME NEW u PROVE FromUid(f[i + 1], u) = Least(MaxPerUid, Seen(hits, i + 1, u))
        <5>1. CASE h.uid = u
          BY <5>1, <2>4, <3>4, <4>1, <4>2, <1>3 DEF Least, c
        <5>2. CASE h.uid # u
          BY <5>2, <2>4, <3>2, <4>2, <1>3 DEF Least
        <5>3. QED
          BY <5>1, <5>2
      <4>5. QED
        BY <2>1, <2>3, <4>3, <4>4
    <3>5. QED
      BY <3>3, <3>4
  <2>7. QED
    BY <2>5, <2>6
<1>6. J(n)
  <2> HIDE DEF T
  <2>1. 0 .. n \subseteq T
    BY <1>3, <1>4, <1>5, UpTo
  <2>2. QED
    BY <1>3, <2>1 DEF T
<1>7. S(n) = Places(all)
  <2>1. \A u : Seen(hits, n, u) = Cardinality(OfNote(all, u))
    BY SeenIsCardinality
  <2>2. QED
    BY <2>1 DEF PlacesOf, Places, OfNote
<1>8. QED
  BY <1>1, <1>6, <1>7

-----------------------------------------------------------------------------
(* The inductive invariant. *)

Answers == [kind : {"pending", "results", "none", "deadArea", "unavailable",
                    "error", "usage", "backend", "lost"},
            component : {"none", "embedder", "qdrant"}, hits : Seq(Payloads)]

TypeInv ==
    /\ index \in [Keys -> Payloads \union {NoPoint}] /\ \A k \in Keys : index[k] \in Holds(k)
    /\ service \in {"down", "pinned", "other"} /\ server \in {"booting", "up", "refused"}
    /\ latch \subseteq Owners /\ swapped \subseteq latch
    /\ writes \in 0 .. MaxWrites /\ faults \in 0 .. MaxFaults
    /\ changes \in 0 .. MaxChanges /\ launches \in 0 .. MaxLaunches
    /\ pc \in [Requests -> {"new", "embedding", "querying", "probing", "looking", "over"}]
    /\ query \in [Requests -> Queries]
    /\ space \in [Requests -> {"none", "pinned", "replaced", "wrong"}]
    /\ answer \in [Requests -> Answers]
    /\ seen \in [Requests -> SUBSET (Payloads \union {NoPoint})]
    /\ probed \in [Requests -> SUBSET (Payloads \union {NoPoint})]

(* A client that confirmed its service meets another model only behind its back. *)
ServiceInv == service = "other" => latch \subseteq swapped

(* What is embedded and looked up was accepted, and carries the scope of its asker. *)
QueryInv(r) ==
    /\ r \notin CliSearches => ~query[r].archived /\ ~query[r].private
    /\ r \notin CliSearches /\ pc[r] # "new" => query[r].tenant = ServerTenant
    /\ r \in Searches => query[r].topK \in 0 .. ClampTo
    /\ pc[r] \in {"embedding", "querying", "probing"} => r \notin Lookups /\ Validate(query[r])
    /\ pc[r] = "probing" => r \in Searches /\ query[r].facet["area"] # NoValue
    /\ pc[r] = "looking" => r \in Lookups /\ query[r].uid \in Uids

(* Before the query nothing was read; a probe follows a read that held nothing. *)
ReadInv(r) ==
    /\ pc[r] \notin {"probing", "over"} => seen[r] = Unread
    /\ pc[r] = "probing" => seen[r] # Unread /\ ~\E p \in seen[r] : Asks(query[r], p)

SpaceInv(r) ==
    /\ space[r] # "wrong"
    /\ pc[r] \in {"querying", "probing"} => space[r] # "none"

ResultsInv(r) ==
    /\ r \in Lookups => Whole(query[r], answer[r].hits, seen[r])
    /\ r \notin Lookups => /\ \A p \in Hits(r) : Asks(query[r], p)
                           /\ Diverse(query[r], answer[r].hits, seen[r])

AnswerInv(r) ==
    /\ pc[r] = "over" <=> answer[r].kind # "pending"
    /\ answer[r].kind \in {"usage", "backend"} => r \in CliSearches
    /\ answer[r].kind # "results" => answer[r].hits = <<>>
    /\ answer[r].kind = "results" => ResultsInv(r)
    /\ answer[r].kind \in {"none", "deadArea"} =>
         seen[r] # Unread /\ (r \notin Lookups => ~\E p \in seen[r] : Asks(query[r], p))
    /\ answer[r].kind = "deadArea" =>
         ~\E p \in probed[r] : InScope(query[r], p) /\ p.facet["area"] = query[r].facet["area"]
    /\ answer[r].kind = "unavailable" => seen[r] = Unread
    /\ r \notin Lookups /\ answer[r].kind \in {"results", "none", "deadArea"} => space[r] # "none"

RequestInv(r) == QueryInv(r) /\ ReadInv(r) /\ SpaceInv(r) /\ AnswerInv(r)

Inv == TypeInv /\ ServiceInv /\ \A r \in Requests : RequestInv(r)

-----------------------------------------------------------------------------
(* The collection: finitely many points, and one for each tenant, uid and chunk. *)
LEMMA PointsFinite ==
    ASSUME TypeInv
    PROVE  IsFiniteSet(Points) /\ Points \subseteq Payloads /\ NoPoint \notin Points
<1> DEFINE image == {index[k] : k \in Keys}
<1>1. index \in Surjection(Keys, image)
  BY DEF TypeInv, Surjection
<1>2. IsFiniteSet(image)
  BY <1>1, IndexAssumption, FS_Surjection
<1>3. Points \subseteq image
  BY DEF Points
<1>4. IsFiniteSet(Points)
  BY <1>2, <1>3, FS_Subset
<1>5. QED
  BY <1>4 DEF TypeInv, Points

LEMMA PointIds ==
    ASSUME TypeInv, NEW p \in Points, NEW q \in Points,
           p.tenant = q.tenant, p.uid = q.uid, p.chunk = q.chunk
    PROVE  p = q
<1>1. PICK k \in Keys : p = index[k] /\ p # NoPoint
  BY DEF Points
<1>2. PICK l \in Keys : q = index[l] /\ q # NoPoint
  BY DEF Points
<1>3. p \in Holds(k) /\ q \in Holds(l)
  BY <1>1, <1>2 DEF TypeInv
<1>4. k = l
  BY <1>1, <1>2, <1>3, IndexAssumption
<1>5. QED
  BY <1>1, <1>2, <1>4

LEMMA MatchingAsks ==
    ASSUME TypeInv, NEW q \in Queries
    PROVE  /\ Matching(BuildFilter(q)) = {p \in Points : Asks(q, p)}
           /\ Matching(LookupFilter(q)) = {p \in Points : InScope(q, p) /\ p.uid = q.uid}
           /\ IsFiniteSet(Matching(BuildFilter(q))) /\ Matching(BuildFilter(q)) \subseteq Payloads
           /\ IsFiniteSet(Matching(LookupFilter(q))) /\ Matching(LookupFilter(q)) \subseteq Payloads
<1>1. IsFiniteSet(Points) /\ Points \subseteq Payloads
  BY PointsFinite
<1>2. \A p \in Points : /\ Matches(p, BuildFilter(q)) <=> Asks(q, p)
                        /\ Matches(p, LookupFilter(q)) <=> InScope(q, p) /\ p.uid = q.uid
  BY <1>1, FilterIsAsks, LookupIsScope
<1>3. Matching(BuildFilter(q)) \subseteq Points /\ Matching(LookupFilter(q)) \subseteq Points
  BY DEF Matching
<1>4. Matching(BuildFilter(q)) = {p \in Points : Asks(q, p)}
  BY <1>2 DEF Matching
<1>5. Matching(LookupFilter(q)) = {p \in Points : InScope(q, p) /\ p.uid = q.uid}
  BY <1>2 DEF Matching
<1>6. IsFiniteSet(Matching(BuildFilter(q))) /\ IsFiniteSet(Matching(LookupFilter(q)))
  BY <1>1, <1>3, FS_Subset
<1>7. QED
  BY <1>1, <1>3, <1>4, <1>5, <1>6

(* What Search answers with. *)
LEMMA SearchAnswers ==
    ASSUME TypeInv, NEW q \in Queries, Validate(q),
           NEW hits \in RankedPoints(Matching(BuildFilter(q)), FetchWindow(q.topK))
    PROVE  LET kept == CapPerUid(hits, q.topK)
           IN  /\ kept \in Seq(Payloads)
               /\ \A i \in DOMAIN kept : Asks(q, kept[i])
               /\ Diverse(q, kept, Points)
               /\ kept = <<>> => ~\E p \in Points : Asks(q, p)
<1> DEFINE P == Matching(BuildFilter(q))
           w == FetchWindow(q.topK)
           kept == CapPerUid(hits, q.topK)
<1>1. P = {p \in Points : Asks(q, p)} /\ IsFiniteSet(P) /\ P \subseteq Payloads
  BY MatchingAsks
<1>2. q.topK \in Nat \ {0} /\ MaxPerUid \in Nat
  BY RetrievalAssumption DEF Validate
<1>3. w \in Nat /\ w >= 1 /\ (MaxPerUid > 0 => w = q.topK * MaxPerUid)
  <2>1. \A m, k \in Nat : m > 0 /\ k > 0 => m * k \in Nat /\ m * k >= 1
    OBVIOUS
  <2>2. QED
    BY <1>2, <2>1 DEF FetchWindow
<1>4. /\ hits \in Seq(P)
      /\ \A i, j \in DOMAIN hits : hits[i] = hits[j] => i = j
      /\ Len(hits) = IF Cardinality(P) < w THEN Cardinality(P) ELSE w
      /\ Cardinality(P) <= w => {hits[i] : i \in DOMAIN hits} = P
  <2> HIDE DEF P, w
  <2>1. hits \in RankedPoints(P, w)
    BY DEF P, w
  <2>2. QED
    BY <1>1, <1>3, <2>1, Ranked
<1>5. hits \in Seq(Payloads)
  <2> HIDE DEF P
  <2>1. QED
    BY <1>1, <1>4
<1>6. /\ kept \in Seq(Payloads) /\ Len(kept) <= q.topK
      /\ \A j \in DOMAIN kept : \E i \in DOMAIN hits : kept[j] = hits[i]
      /\ MaxPerUid > 0 => \A u : FromUid(kept, u) <= MaxPerUid
      /\ kept = <<>> => hits = <<>>
  BY <1>2, <1>5, CapKeepsWithin
<1> HIDE DEF kept, w
<1>7. \A i \in DOMAIN kept : Asks(q, kept[i])
  BY <1>1, <1>4, <1>6
<1>8. ASSUME MaxPerUid > 0, Cardinality(P) <= q.topK * MaxPerUid
      PROVE  Len(kept) = Least(q.topK, Cardinality(Places(P)))
  <2>1. P = {hits[i] : i \in DOMAIN hits}
    BY <1>3, <1>4, <1>8
  <2> HIDE DEF P
  <2>2. QED
    BY <1>2, <1>4, <1>5, <1>8, <2>1, CapFillsThePlaces DEF kept
<1>9. Diverse(q, kept, Points)
  BY <1>1, <1>6, <1>8 DEF Diverse
<1>10. ASSUME kept = <<>> PROVE P = {}
  <2> HIDE DEF P
  <2>1. Len(hits) = 0 /\ Cardinality(P) \in Nat
    BY <1>1, <1>6, <1>10, FS_CardinalityType
  <2>2. Cardinality(P) = 0
    BY <1>3, <1>4, <2>1
  <2>3. QED
    BY <1>1, <2>2, FS_EmptySet
<1>11. QED
  BY <1>1, <1>6, <1>7, <1>9, <1>10 DEF kept

(* What GetByUID answers with. *)
LEMMA LookupAnswers ==
    ASSUME TypeInv, NEW q \in Queries,
           NEW hits \in RankedPoints(Matching(LookupFilter(q)), LookupLimit),
           ~TooLarge(hits),
           NEW note \in SortByChunkIndex({hits[i] : i \in DOMAIN hits})
    PROVE  note \in Seq(Payloads) /\ Whole(q, note, Points)
<1> DEFINE P == Matching(LookupFilter(q))
<1>1. P = {p \in Points : InScope(q, p) /\ p.uid = q.uid} /\ IsFiniteSet(P) /\ P \subseteq Payloads
  BY MatchingAsks
<1>2. Cardinality(P) \in Nat /\ LookupLimit \in Nat
  BY <1>1, FS_CardinalityType, RetrievalAssumption
<1>3. {hits[i] : i \in DOMAIN hits} = P
  <2>1. /\ Len(hits) = IF Cardinality(P) < LookupLimit THEN Cardinality(P) ELSE LookupLimit
        /\ Cardinality(P) <= LookupLimit => {hits[i] : i \in DOMAIN hits} = P
    <3> HIDE DEF P
    <3>1. hits \in RankedPoints(P, LookupLimit)
      BY DEF P
    <3>2. QED
      BY <1>1, <1>2, <3>1, Ranked
  <2>2. Cardinality(P) < LookupLimit
    BY <1>2, <2>1 DEF TooLarge
  <2>3. QED
    BY <1>2, <2>1, <2>2
<1>4. /\ note \in [1 .. Cardinality(P) -> P]
      /\ \A i, j \in DOMAIN note : note[i] = note[j] => i = j
      /\ \A i, j \in DOMAIN note : i < j => note[i].chunk <= note[j].chunk
  <2>1. note \in SortByChunkIndex(P)
    BY <1>3
  <2> HIDE DEF P
  <2>2. QED
    BY <2>1 DEF SortByChunkIndex
<1>5. note \in Seq(Payloads) /\ DOMAIN note = 1 .. Cardinality(P)
  <2> DEFINE n == Cardinality(P)
  <2>1. n \in Nat /\ note \in [1 .. n -> P] /\ P \subseteq Payloads
    BY <1>1, <1>2, <1>4
  <2> HIDE DEF P, n
  <2>2. note \in [1 .. n -> Payloads]
    BY <2>1
  <2>3. note \in Seq(Payloads)
    BY <2>1, <2>2
  <2>4. QED
    BY <2>1, <2>3 DEF n
<1>6. {note[i] : i \in DOMAIN note} = P
  <2> HIDE DEF P
  <2>1. QED
    BY <1>1, <1>4, Enumeration
<1>7. ASSUME NEW i \in DOMAIN note, NEW j \in DOMAIN note, i < j
      PROVE  note[i].chunk < note[j].chunk
  <2>1. /\ note[i] \in Points /\ note[j] \in Points /\ note[i] \in Payloads /\ note[j] \in Payloads
        /\ note[i].tenant = note[j].tenant /\ note[i].uid = note[j].uid
    <3>1. note[i] \in P /\ note[j] \in P
      BY <1>6
    <3>2. QED
      BY <1>1, <3>1 DEF InScope
  <2>2. note[i].chunk \in Nat /\ note[j].chunk \in Nat
    BY <2>1 DEF Payloads
  <2>3. i # j
    BY <1>5, <1>7, <1>2
  <2>4. note[i].chunk # note[j].chunk
    BY <2>1, <2>3, <1>4, PointIds
  <2>5. QED
    BY <1>4, <1>7, <2>2, <2>4
<1>8. QED
  BY <1>1, <1>5, <1>6, <1>7 DEF Whole

-----------------------------------------------------------------------------
(* A step is of one request; every other one stays as it is. *)
Same(r) == /\ pc'[r] = pc[r] /\ query'[r] = query[r] /\ space'[r] = space[r]
           /\ answer'[r] = answer[r] /\ seen'[r] = seen[r] /\ probed'[r] = probed[r]

LEMMA Frame ==
    ASSUME NEW r \in Requests, RequestInv(r), Same(r)
    PROVE  RequestInv(r)'
<1>1. QueryInv(r)'
  BY DEF RequestInv, QueryInv, Same
<1>2. ReadInv(r)'
  BY DEF RequestInv, ReadInv, Same
<1>3. SpaceInv(r)'
  BY DEF RequestInv, SpaceInv, Same
<1>4. AnswerInv(r)'
  <2>1. Hits(r)' = Hits(r)
    BY DEF Hits, Same
  <2>2. ResultsInv(r)' <=> ResultsInv(r)
    BY <2>1 DEF ResultsInv, Same
  <2>3. QED
    BY <2>2 DEF RequestInv, AnswerInv, Same
<1>5. QED
  BY <1>1, <1>2, <1>3, <1>4 DEF RequestInv

LEMMA StepOf ==
    ASSUME Inv, NEW r \in Requests, TypeInv', ServiceInv', RequestInv(r)',
           \A s \in Requests \ {r} : Same(s)
    PROVE  Inv'
<1>1. ASSUME NEW s \in Requests \ {r} PROVE RequestInv(s)'
  BY Frame DEF Inv
<1>2. QED
  BY <1>1 DEF Inv

(* A request that ends with a text which claims nothing about the collection. *)
LEMMA EndsInText ==
    ASSUME Inv, NEW r \in Requests,
           pc'[r] = "over", query'[r] = query[r], space'[r] = space[r], pc[r] # "new",
           answer'[r].kind \in {"error", "usage", "backend", "unavailable", "lost"},
           answer'[r].hits = <<>>,
           answer'[r].kind \in {"usage", "backend"} => r \in CliSearches,
           answer'[r].kind = "unavailable" => seen'[r] = Unread
    PROVE  RequestInv(r)'
<1>1. QueryInv(r)'
  BY DEF Inv, RequestInv, QueryInv
<1>2. ReadInv(r)' /\ SpaceInv(r)'
  BY DEF Inv, RequestInv, ReadInv, SpaceInv
<1>3. AnswerInv(r)'
  BY DEF AnswerInv
<1>4. QED
  BY <1>1, <1>2, <1>3 DEF RequestInv

(* The texts are answers, and what they are of. *)
LEMMA Texts ==
    /\ \A kind \in {"results", "none", "deadArea", "unavailable", "error", "usage", "backend", "lost"} :
          Text(kind) \in Answers /\ Text(kind).kind = kind /\ Text(kind).hits = <<>>
    /\ \A hits \in Seq(Payloads) :
          Results(hits) \in Answers /\ Results(hits).kind = "results" /\ Results(hits).hits = hits
    /\ \A r, e : LET a == Failure(r, e)
                 IN  /\ a \in Answers /\ a.hits = <<>>
                     /\ a.kind \in {"error", "backend", "unavailable"}
                     /\ a.kind = "backend" => r \in CliSearches
                     /\ a.kind = "unavailable" => e \in {"backend", "Unavailable", "DeadlineExceeded"}
<1>1. Pending \in Answers /\ Pending.hits = <<>>
  BY DEF Pending, Answers
<1>2. ASSUME NEW kind \in {"results", "none", "deadArea", "unavailable", "error", "usage", "backend", "lost"}
      PROVE  Text(kind) \in Answers /\ Text(kind).kind = kind /\ Text(kind).hits = <<>>
  BY <1>1 DEF Text, Pending, Answers
<1>3. ASSUME NEW hits \in Seq(Payloads)
      PROVE  Results(hits) \in Answers /\ Results(hits).kind = "results" /\ Results(hits).hits = hits
  BY DEF Results, Pending, Answers
<1>4. ASSUME NEW r, NEW e
      PROVE  LET a == Failure(r, e)
             IN  /\ a \in Answers /\ a.hits = <<>>
                 /\ a.kind \in {"error", "backend", "unavailable"}
                 /\ a.kind = "backend" => r \in CliSearches
                 /\ a.kind = "unavailable" => e \in {"backend", "Unavailable", "DeadlineExceeded"}
  <2> DEFINE c == ClassifyUnavailable(e)
             away == [Text("unavailable") EXCEPT !.component = c]
  <2>1. c \in {"none", "embedder", "qdrant"}
        /\ (c # "none" => e \in {"backend", "Unavailable", "DeadlineExceeded"})
    BY DEF ClassifyUnavailable
  <2>2. away \in Answers /\ away.kind = "unavailable" /\ away.hits = <<>>
    <3> DEFINE t == Text("unavailable")
    <3>1. t \in Answers /\ t.kind = "unavailable" /\ t.hits = <<>>
      BY <1>2
    <3> HIDE DEF c, t
    <3>2. [t EXCEPT !.component = c] \in Answers
      BY <2>1, <3>1 DEF Answers
    <3>3. /\ [t EXCEPT !.component = c].kind = t.kind
          /\ [t EXCEPT !.component = c].hits = t.hits
      BY <3>1 DEF Answers
    <3>4. QED
      BY <3>1, <3>2, <3>3 DEF t
  <2>3. Failure(r, e) = IF r \in CliSearches THEN Text("backend")
                        ELSE IF c = "none" THEN Text("error") ELSE away
    BY DEF Failure
  <2> HIDE DEF c, away
  <2>4. QED
    BY <1>2, <2>1, <2>2, <2>3
<1>5. QED
  BY <1>2, <1>3, <1>4

LEMMA Initially ==
    ASSUME Init
    PROVE  Inv
<1>1. NoQuery \in Queries
  BY DEF NoQuery, Queries
<1>2. Pending \in Answers /\ Pending.kind = "pending" /\ Pending.hits = <<>>
  BY DEF Pending, Answers
<1>3. TypeInv
  <2>1. index \in [Keys -> Payloads \union {NoPoint}] /\ \A k \in Keys : index[k] \in Holds(k)
    BY IndexAssumption DEF Init, Holds
  <2>2. MaxWrites \in Nat /\ MaxFaults \in Nat /\ MaxChanges \in Nat /\ MaxLaunches \in Nat
    BY ServerAssumption
  <2>3. QED
    BY <1>1, <1>2, <2>1, <2>2 DEF Init, TypeInv, Unread
<1>4. ServiceInv
  BY DEF Init, ServiceInv
<1>5. ASSUME NEW r \in Requests PROVE RequestInv(r)
  <2>1. QueryInv(r)
    BY ServerAssumption DEF Init, QueryInv, NoQuery
  <2>2. QED
    BY <1>2, <2>1 DEF Init, RequestInv, ReadInv, SpaceInv, AnswerInv
<1>6. QED
  BY <1>3, <1>4, <1>5 DEF Inv

-----------------------------------------------------------------------------
(* Steps of no request. *)

LEMMA NoRequest ==
    ASSUME Inv, TypeInv', ServiceInv', \A r \in Requests : Same(r)
    PROVE  Inv'
<1>1. ASSUME NEW r \in Requests PROVE RequestInv(r)'
  BY Frame DEF Inv
<1>2. QED
  BY <1>1 DEF Inv

LEMMA EnvironmentSteps ==
    ASSUME Inv, VerifyEmbedder \/ ServiceChanges \/ IngestWrites \/ UNCHANGED vars
    PROVE  Inv'
<1>1. \A r \in Requests : Same(r)
  BY DEF VerifyEmbedder, ServiceChanges, IngestWrites, vars, owners, reads, Same
<1>2. TypeInv /\ ServiceInv
  BY DEF Inv
<1>3. TypeInv' /\ ServiceInv'
  <2>1. CASE VerifyEmbedder
    BY <1>2, <2>1 DEF VerifyEmbedder, owners, reads, TypeInv, ServiceInv
  <2>2. CASE ServiceChanges
    <3>1. changes' \in 0 .. MaxChanges
      BY <1>2, <2>2, ServerAssumption DEF ServiceChanges, TypeInv
    <3>2. /\ service' \in {"down", "pinned", "other"} /\ latch' = latch
          /\ swapped' = IF service' = "down" THEN swapped ELSE swapped \union latch
      BY <2>2 DEF ServiceChanges
    <3>3. /\ index' = index /\ server' = server /\ pc' = pc /\ query' = query /\ space' = space
          /\ answer' = answer /\ seen' = seen /\ probed' = probed
          /\ writes' = writes /\ faults' = faults /\ launches' = launches
      BY <2>2 DEF ServiceChanges, reads
    <3>4. TypeInv'
      BY <1>2, <3>1, <3>2, <3>3 DEF TypeInv
    <3>5. QED
      BY <1>2, <3>2, <3>4 DEF ServiceInv, TypeInv
  <2>3. CASE IngestWrites
    <3>1. writes' \in 0 .. MaxWrites
      BY <1>2, <2>3, ServerAssumption DEF IngestWrites, TypeInv
    <3> PICK k \in Keys : \E p \in Stored[k] : index' = [index EXCEPT ![k] = p]
      BY <2>3 DEF IngestWrites
    <3>2. PICK p \in Stored[k] : index' = [index EXCEPT ![k] = p]
      OBVIOUS
    <3>3. p \in Payloads \union {NoPoint} /\ p \in Holds(k)
      BY IndexAssumption DEF Holds
    <3>4. index' \in [Keys -> Payloads \union {NoPoint}] /\ \A l \in Keys : index'[l] \in Holds(l)
      BY <1>2, <3>2, <3>3 DEF TypeInv
    <3>5. /\ service' = service /\ latch' = latch /\ swapped' = swapped /\ changes' = changes
          /\ server' = server /\ pc' = pc /\ query' = query /\ space' = space
          /\ answer' = answer /\ seen' = seen /\ probed' = probed
          /\ faults' = faults /\ launches' = launches
      BY <2>3 DEF IngestWrites, owners, reads
    <3>6. QED
      BY <1>2, <3>1, <3>4, <3>5 DEF TypeInv, ServiceInv
  <2>4. CASE UNCHANGED vars
    BY <1>2, <2>4 DEF vars, owners, reads, TypeInv, ServiceInv
  <2>5. QED
    BY <2>1, <2>2, <2>3, <2>4
<1>4. QED
  BY <1>1, <1>3, NoRequest

(* The server ends with the calls it was answering. *)
LEMMA RelaunchStep ==
    ASSUME Inv, Relaunch
    PROVE  Inv'
<1> DEFINE lost == {r \in Requests \ CliSearches : pc[r] \notin {"new", "over"}}
<1>1. /\ server' = "booting" /\ latch' = latch \ {"server"} /\ swapped' = swapped \ {"server"}
      /\ pc' = [r \in Requests |-> IF r \in lost THEN "over" ELSE pc[r]]
      /\ answer' = [r \in Requests |-> IF r \in lost THEN Text("lost") ELSE answer[r]]
      /\ index' = index /\ service' = service /\ changes' = changes /\ query' = query
      /\ space' = space /\ seen' = seen /\ probed' = probed /\ writes' = writes /\ faults' = faults
  BY DEF Relaunch, reads
<1>2. launches' \in 0 .. MaxLaunches
  BY ServerAssumption DEF Relaunch, Inv, TypeInv
<1>3. Text("lost") \in Answers /\ Text("lost").kind = "lost" /\ Text("lost").hits = <<>>
  BY Texts
<1> HIDE DEF lost
<1>4. TypeInv'
  BY <1>1, <1>2, <1>3 DEF Inv, TypeInv
<1>5. ServiceInv'
  BY <1>1 DEF Inv, ServiceInv
<1>6. ASSUME NEW r \in Requests PROVE RequestInv(r)'
  <2>1. CASE r \in lost
    <3>1. pc'[r] = "over" /\ answer'[r] = Text("lost") /\ pc[r] # "new"
      BY <1>1, <2>1 DEF lost
    <3>2. QED
      BY <1>1, <1>3, <3>1, EndsInText
  <2>2. CASE r \notin lost
    <3>1. Same(r)
      BY <1>1, <2>2 DEF Same
    <3>2. QED
      BY <3>1, Frame DEF Inv
  <2>3. QED
    BY <2>1, <2>2
<1>7. QED
  BY <1>4, <1>5, <1>6 DEF Inv

-----------------------------------------------------------------------------
(* A request arrives: its query is set, and it goes on or ends in a text. *)

LEMMA Arrives ==
    ASSUME Inv, NEW r \in Requests, pc[r] = "new", NEW q \in Queries,
           query' = [query EXCEPT ![r] = q],
           r \notin CliSearches => ~q.archived /\ ~q.private /\ q.tenant = ServerTenant,
           r \in Searches => q.topK \in 0 .. ClampTo,
           \/ Goto(r, "embedding") /\ r \notin Lookups /\ Validate(q)
           \/ Goto(r, "looking") /\ r \in Lookups /\ q.uid \in Uids
           \/ Reply(r, Text("error"))
           \/ Reply(r, Text("usage")) /\ r \in CliSearches,
           UNCHANGED <<index, owners, server, space, reads, writes, faults, launches>>
    PROVE  Inv'
<1>1. /\ index' = index /\ service' = service /\ latch' = latch /\ swapped' = swapped
      /\ changes' = changes /\ server' = server /\ space' = space /\ seen' = seen
      /\ probed' = probed /\ writes' = writes /\ faults' = faults /\ launches' = launches
  BY DEF owners, reads
<1>2. TypeInv /\ ServiceInv /\ RequestInv(r)
  BY DEF Inv
<1>3. query'[r] = q /\ query' \in [Requests -> Queries] /\ \A s \in Requests \ {r} : query'[s] = query[s]
  BY <1>2 DEF TypeInv
<1>4. ASSUME NEW label \in {"embedding", "looking"}, Goto(r, label),
             label = "embedding" => r \notin Lookups /\ Validate(q),
             label = "looking" => r \in Lookups /\ q.uid \in Uids
      PROVE  Inv'
  <2>1. /\ pc' = [pc EXCEPT ![r] = label] /\ answer' = answer
    BY <1>4 DEF Goto
  <2>2. pc'[r] = label /\ \A s \in Requests \ {r} : pc'[s] = pc[s]
    BY <1>2, <2>1 DEF TypeInv
  <2>3. TypeInv' /\ ServiceInv'
    BY <1>1, <1>2, <1>3, <2>1 DEF TypeInv, ServiceInv
  <2>4. QueryInv(r)'
    BY <1>3, <1>4, <2>2 DEF QueryInv
  <2>5. ReadInv(r)' /\ SpaceInv(r)' /\ AnswerInv(r)'
    <3>1. answer[r].kind = "pending"
      BY <1>2 DEF RequestInv, AnswerInv, TypeInv, Answers
    <3>2. QED
      BY <1>1, <1>2, <2>1, <2>2, <3>1 DEF RequestInv, ReadInv, SpaceInv, AnswerInv
  <2>6. \A s \in Requests \ {r} : Same(s)
    BY <1>1, <1>3, <2>1, <2>2 DEF Same
  <2>7. QED
    BY <2>3, <2>4, <2>5, <2>6, StepOf DEF RequestInv
<1>5. ASSUME NEW kind \in {"error", "usage"}, Reply(r, Text(kind)), kind = "usage" => r \in CliSearches
      PROVE  Inv'
  <2>1. pc' = [pc EXCEPT ![r] = "over"] /\ answer' = [answer EXCEPT ![r] = Text(kind)]
    BY <1>5 DEF Reply
  <2>2. /\ pc'[r] = "over" /\ answer'[r] = Text(kind)
        /\ \A s \in Requests \ {r} : pc'[s] = pc[s] /\ answer'[s] = answer[s]
    BY <1>2, <2>1 DEF TypeInv
  <2>3. Text(kind) \in Answers /\ Text(kind).kind = kind /\ Text(kind).hits = <<>>
    BY Texts
  <2>4. TypeInv' /\ ServiceInv'
    BY <1>1, <1>2, <1>3, <2>1, <2>3 DEF TypeInv, ServiceInv
  <2>5. QueryInv(r)'
    BY <1>3, <2>2 DEF QueryInv
  <2>6. ReadInv(r)' /\ SpaceInv(r)' /\ AnswerInv(r)'
    BY <1>1, <1>2, <1>5, <2>2, <2>3 DEF RequestInv, ReadInv, SpaceInv, AnswerInv
  <2>7. \A s \in Requests \ {r} : Same(s)
    BY <1>1, <1>3, <2>2 DEF Same
  <2>8. QED
    BY <2>4, <2>5, <2>6, <2>7, StepOf DEF RequestInv
<1>6. QED
  BY <1>4, <1>5

LEMMA SearchKnowledgeStep ==
    ASSUME Inv, NEW r \in Requests, SearchKnowledge(r)
    PROVE  Inv'
<1>1. /\ r \in Searches /\ pc[r] = "new"
      /\ UNCHANGED <<index, owners, server, space, reads, writes, faults, launches>>
  BY DEF SearchKnowledge
<1>2. PICK in \in Asked[r] :
        LET q == [NoQuery EXCEPT !.tenant = ServerTenant, !.blank = in.blank,
                                 !.topK = ClampTopK(in.topK), !.facet = FacetOf(in)]
        IN  /\ query' = [query EXCEPT ![r] = q]
            /\ IF ValidateFilters(in) /\ Validate(q)
               THEN Goto(r, "embedding") ELSE Reply(r, Text("error"))
  BY DEF SearchKnowledge
<1> DEFINE q == [NoQuery EXCEPT !.tenant = ServerTenant, !.blank = in.blank,
                                !.topK = ClampTopK(in.topK), !.facet = FacetOf(in)]
<1>3. in \in ToolArguments
  BY <1>1, RequestAssumption
<1>4. ClampTopK(in.topK) \in 0 .. ClampTo /\ ClampTopK(in.topK) \in Nat
  BY <1>3, ServerAssumption DEF ClampTopK, ToolArguments
<1>5. FacetOf(in) \in [Facets -> Values \union {NoValue}]
  BY <1>3 DEF FacetOf, ToolArguments
<1>6. q \in Queries /\ q.tenant = ServerTenant /\ ~q.archived /\ ~q.private /\ q.topK \in 0 .. ClampTo
  BY <1>3, <1>4, <1>5, ServerAssumption DEF ToolArguments, NoQuery, Queries
<1>7. r \notin Lookups /\ r \notin CliSearches
  BY <1>1, RequestAssumption
<1>8. /\ query' = [query EXCEPT ![r] = q]
      /\ \/ Goto(r, "embedding") /\ Validate(q)
         \/ Reply(r, Text("error"))
  BY <1>2
<1> HIDE DEF q
<1>9. QED
  BY <1>1, <1>6, <1>7, <1>8, Arrives

LEMMA RunSearchStep ==
    ASSUME Inv, NEW r \in Requests, RunSearch(r)
    PROVE  Inv'
<1>1. /\ r \in CliSearches /\ pc[r] = "new"
      /\ UNCHANGED <<index, owners, server, space, reads, writes, faults, launches>>
  BY DEF RunSearch
<1> DEFINE Named(in) == [f \in Facets |-> IF f = "area" THEN in.area ELSE NoValue]
<1>2. PICK in \in Asked[r] :
        LET q == [NoQuery EXCEPT !.tenant = in.tenant, !.blank = in.blank, !.topK = in.topK,
                                 !.facet = Named(in),
                                 !.archived = in.archived, !.private = in.private]
        IN  /\ query' = [query EXCEPT ![r] = q]
            /\ IF Validate(q) THEN Goto(r, "embedding") ELSE Reply(r, Text("usage"))
  BY DEF RunSearch
<1> DEFINE q == [NoQuery EXCEPT !.tenant = in.tenant, !.blank = in.blank, !.topK = in.topK,
                                !.facet = Named(in),
                                !.archived = in.archived, !.private = in.private]
<1>3. in \in Flags
  BY <1>1, RequestAssumption
<1>4. Named(in) \in [Facets -> Values \union {NoValue}]
  BY <1>3 DEF Flags
<1>5. q \in Queries
  <2> HIDE DEF Named
  <2>1. QED
    BY <1>3, <1>4 DEF Flags, NoQuery, Queries
<1>6. r \notin Lookups /\ r \notin Searches
  BY <1>1, RequestAssumption
<1>7. /\ query' = [query EXCEPT ![r] = q]
      /\ \/ Goto(r, "embedding") /\ Validate(q)
         \/ Reply(r, Text("usage"))
  BY <1>2
<1> HIDE DEF q
<1>8. QED
  BY <1>1, <1>5, <1>6, <1>7, Arrives

LEMMA GetNoteStep ==
    ASSUME Inv, NEW r \in Requests, GetNote(r)
    PROVE  Inv'
<1>1. /\ r \in Lookups /\ pc[r] = "new"
      /\ UNCHANGED <<index, owners, server, space, reads, writes, faults, launches>>
  BY DEF GetNote
<1>2. PICK u \in Asked[r] :
        /\ query' = [query EXCEPT ![r] = [NoQuery EXCEPT !.tenant = ServerTenant, !.uid = u]]
        /\ IF u \in Uids THEN Goto(r, "looking") ELSE Reply(r, Text("error"))
  BY DEF GetNote
<1> DEFINE q == [NoQuery EXCEPT !.tenant = ServerTenant, !.uid = u]
<1>3. u \in Uids \union {NoValue} /\ r \notin Searches /\ r \notin CliSearches
  BY <1>1, RequestAssumption
<1>4. q \in Queries /\ q.tenant = ServerTenant /\ ~q.archived /\ ~q.private /\ q.uid = u
  BY <1>3, ServerAssumption DEF NoQuery, Queries
<1>5. /\ query' = [query EXCEPT ![r] = q]
      /\ \/ Goto(r, "looking") /\ q.uid \in Uids
         \/ Reply(r, Text("error"))
  BY <1>2, <1>4
<1> HIDE DEF q
<1>6. QED
  BY <1>1, <1>3, <1>4, <1>5, Arrives

-----------------------------------------------------------------------------
(* A request that is being served is answered. *)

LEMMA Replies ==
    ASSUME Inv, NEW r \in Requests, pc[r] # "new", NEW a \in Answers, Reply(r, a),
           UNCHANGED <<index, owners, server, query, space, writes, launches>>,
           faults' \in 0 .. MaxFaults,
           seen' \in [Requests -> SUBSET (Payloads \union {NoPoint})],
           probed' \in [Requests -> SUBSET (Payloads \union {NoPoint})],
           \A s \in Requests \ {r} : seen'[s] = seen[s] /\ probed'[s] = probed[s],
           pc'[r] = "over" /\ answer'[r] = a => AnswerInv(r)'
    PROVE  Inv'
<1>1. /\ index' = index /\ service' = service /\ latch' = latch /\ swapped' = swapped
      /\ changes' = changes /\ server' = server /\ query' = query /\ space' = space
      /\ writes' = writes /\ launches' = launches
  BY DEF owners
<1>2. TypeInv /\ ServiceInv /\ RequestInv(r)
  BY DEF Inv
<1>3. pc' = [pc EXCEPT ![r] = "over"] /\ answer' = [answer EXCEPT ![r] = a]
  BY DEF Reply
<1>4. /\ pc'[r] = "over" /\ answer'[r] = a
      /\ \A s \in Requests \ {r} : pc'[s] = pc[s] /\ answer'[s] = answer[s]
  BY <1>2, <1>3 DEF TypeInv
<1>5. TypeInv' /\ ServiceInv'
  BY <1>1, <1>2, <1>3 DEF TypeInv, ServiceInv
<1>6. QueryInv(r)'
  BY <1>1, <1>2, <1>4 DEF RequestInv, QueryInv
<1>7. ReadInv(r)' /\ SpaceInv(r)'
  BY <1>1, <1>2, <1>4 DEF RequestInv, ReadInv, SpaceInv
<1>8. RequestInv(r)'
  BY <1>4, <1>6, <1>7 DEF RequestInv
<1>9. \A s \in Requests \ {r} : Same(s)
  BY <1>1, <1>4 DEF Same
<1>10. QED
  BY <1>5, <1>8, <1>9, StepOf

(* A fault is an error of the embedding or of the query, or a failed probe, and costs one. *)
LEMMA Faults ==
    ASSUME Inv, Fault \/ UNCHANGED faults
    PROVE  faults' \in 0 .. MaxFaults
  BY ServerAssumption DEF Inv, TypeInv, Fault

LEMMA ReadsStay ==
    ASSUME Inv, UNCHANGED reads
    PROVE  /\ seen' = seen /\ probed' = probed
           /\ seen' \in [Requests -> SUBSET (Payloads \union {NoPoint})]
           /\ probed' \in [Requests -> SUBSET (Payloads \union {NoPoint})]
           /\ \A s \in Requests : seen'[s] = seen[s] /\ probed'[s] = probed[s]
  BY DEF Inv, TypeInv, reads

LEMMA EmbedQueryStep ==
    ASSUME Inv, NEW r \in Requests, EmbedQuery(r)
    PROVE  Inv'
<1>1. /\ pc[r] = "embedding" /\ service # "down" /\ Confirmed(Owner(r))
      /\ latch' = latch \union {Owner(r)}
      /\ space' = [space EXCEPT ![r] = IF service = "pinned" THEN "pinned"
                                      ELSE IF Owner(r) \in swapped THEN "replaced" ELSE "wrong"]
      /\ pc' = [pc EXCEPT ![r] = "querying"] /\ answer' = answer
      /\ index' = index /\ service' = service /\ swapped' = swapped /\ changes' = changes
      /\ server' = server /\ query' = query /\ seen' = seen /\ probed' = probed
      /\ writes' = writes /\ faults' = faults /\ launches' = launches
  BY DEF EmbedQuery, Goto, reads
<1>2. TypeInv /\ ServiceInv /\ RequestInv(r)
  BY DEF Inv
<1>3. Owner(r) \in Owners
  BY DEF Owner, Owners
<1>4. service = "other" => Owner(r) \in latch /\ Owner(r) \in swapped
  BY <1>1, <1>2 DEF Confirmed, ServiceInv
<1>5. space'[r] \in {"pinned", "replaced"} /\ \A s \in Requests \ {r} : space'[s] = space[s]
  BY <1>1, <1>2, <1>4 DEF TypeInv
<1>6. pc'[r] = "querying" /\ \A s \in Requests \ {r} : pc'[s] = pc[s]
  BY <1>1, <1>2 DEF TypeInv
<1>7. TypeInv'
  <2>1. space' \in [Requests -> {"none", "pinned", "replaced", "wrong"}]
    BY <1>1, <1>2 DEF TypeInv
  <2>2. QED
    BY <1>1, <1>2, <1>3, <2>1 DEF TypeInv
<1>8. ServiceInv'
  BY <1>1, <1>2, <1>4 DEF ServiceInv
<1>9. RequestInv(r)'
  <2>1. QueryInv(r)'
    BY <1>1, <1>2, <1>6 DEF RequestInv, QueryInv
  <2>2. ReadInv(r)' /\ SpaceInv(r)'
    BY <1>1, <1>2, <1>5, <1>6 DEF RequestInv, ReadInv, SpaceInv
  <2>3. AnswerInv(r)'
    <3>1. answer[r].kind = "pending" /\ answer[r].hits = <<>>
      BY <1>1, <1>2 DEF RequestInv, AnswerInv
    <3>2. QED
      BY <1>1, <1>6, <3>1 DEF AnswerInv
  <2>4. QED
    BY <2>1, <2>2, <2>3 DEF RequestInv
<1>10. \A s \in Requests \ {r} : Same(s)
  BY <1>1, <1>5, <1>6 DEF Same
<1>11. QED
  BY <1>7, <1>8, <1>9, <1>10, StepOf

(* An error that is reported before anything was read. *)
LEMMA FailsUnread ==
    ASSUME Inv, NEW r \in Requests, pc[r] \in {"embedding", "querying", "looking"},
           NEW e, Reply(r, Failure(r, e)), Fault \/ UNCHANGED faults,
           UNCHANGED <<index, owners, server, query, space, reads, writes, launches>>
    PROVE  Inv'
<1>1. faults' \in 0 .. MaxFaults
  BY Faults
<1>2. /\ seen' \in [Requests -> SUBSET (Payloads \union {NoPoint})]
      /\ probed' \in [Requests -> SUBSET (Payloads \union {NoPoint})]
      /\ \A s \in Requests : seen'[s] = seen[s] /\ probed'[s] = probed[s]
  BY ReadsStay
<1>3. /\ Failure(r, e) \in Answers /\ Failure(r, e).hits = <<>>
      /\ Failure(r, e).kind \in {"error", "backend", "unavailable"}
      /\ Failure(r, e).kind = "backend" => r \in CliSearches
  BY Texts
<1>4. seen[r] = Unread
  BY DEF Inv, RequestInv, ReadInv
<1>5. pc'[r] = "over" /\ answer'[r] = Failure(r, e) => AnswerInv(r)'
  BY <1>2, <1>3, <1>4 DEF AnswerInv
<1>6. QED
  BY <1>1, <1>2, <1>3, <1>5, Replies

LEMMA FailSteps ==
    ASSUME Inv, NEW r \in Requests, EmbedFails(r) \/ QueryFails(r)
    PROVE  Inv'
<1>1. CASE EmbedFails(r)
  <2>1. /\ pc[r] = "embedding"
        /\ Fault \/ UNCHANGED faults
        /\ \E e : Reply(r, Failure(r, e))
        /\ UNCHANGED <<index, owners, server, query, space, reads, writes, launches>>
    BY <1>1 DEF EmbedFails
  <2>2. QED
    BY <2>1, FailsUnread
<1>2. CASE QueryFails(r)
  <2>1. /\ pc[r] \in {"querying", "looking"} /\ Fault
        /\ \E e : Reply(r, Failure(r, e))
        /\ UNCHANGED <<index, owners, server, query, space, reads, writes, launches>>
    BY <1>2 DEF QueryFails
  <2>2. QED
    BY <2>1, FailsUnread
<1>3. QED
  BY <1>1, <1>2

(* What a read of the collection leaves in the history. *)
LEMMA Observes ==
    ASSUME TypeInv, NEW r \in Requests
    PROVE  /\ Observe(seen, r) =>
                /\ seen'[r] = Points /\ \A s \in Requests \ {r} : seen'[s] = seen[s]
                /\ seen' \in [Requests -> SUBSET (Payloads \union {NoPoint})]
           /\ Observe(probed, r) =>
                /\ probed'[r] = Points /\ \A s \in Requests \ {r} : probed'[s] = probed[s]
                /\ probed' \in [Requests -> SUBSET (Payloads \union {NoPoint})]
           /\ Points # Unread
<1>1. Points \subseteq Payloads /\ NoPoint \notin Points
  BY PointsFinite
<1>2. Points # Unread
  BY <1>1 DEF Unread
<1> DEFINE P == Points
<1>3. P \in SUBSET (Payloads \union {NoPoint})
  BY <1>1
<1>4. Observe(seen, r) => seen' = [seen EXCEPT ![r] = P]
  BY DEF Observe
<1>5. Observe(probed, r) => probed' = [probed EXCEPT ![r] = P]
  BY DEF Observe
<1> HIDE DEF P
<1>6. /\ Observe(seen, r) =>
                /\ seen'[r] = P /\ \A s \in Requests \ {r} : seen'[s] = seen[s]
                /\ seen' \in [Requests -> SUBSET (Payloads \union {NoPoint})]
      /\ Observe(probed, r) =>
                /\ probed'[r] = P /\ \A s \in Requests \ {r} : probed'[s] = probed[s]
                /\ probed' \in [Requests -> SUBSET (Payloads \union {NoPoint})]
  BY <1>3, <1>4, <1>5 DEF TypeInv
<1>7. QED
  BY <1>2, <1>6 DEF P

LEMMA ExecuteQueryStep ==
    ASSUME Inv, NEW r \in Requests, ExecuteQuery(r)
    PROVE  Inv'
<1> DEFINE q == query[r]
<1>1. TypeInv /\ RequestInv(r) /\ pc[r] = "querying"
  BY DEF Inv, ExecuteQuery
<1>2. q \in Queries /\ Validate(q) /\ r \notin Lookups /\ space[r] # "none"
  BY <1>1 DEF RequestInv, QueryInv, SpaceInv, TypeInv
<1>3. /\ Observe(seen, r)
      /\ UNCHANGED <<index, owners, server, query, space, probed, writes, faults, launches>>
  BY DEF ExecuteQuery
<1>4. PICK hits \in RankedPoints(Matching(BuildFilter(q)), FetchWindow(q.topK)) :
        LET kept == CapPerUid(hits, q.topK)
        IN  \/ \E e \in {"payload", "path"} : Reply(r, Failure(r, e))
            \/ kept # <<>> /\ Reply(r, Results(kept))
            \/ kept = <<>> /\ r \in Searches /\ q.facet["area"] # NoValue /\ Goto(r, "probing")
            \/ kept = <<>> /\ Reply(r, Text("none"))
  BY DEF ExecuteQuery
<1> DEFINE kept == CapPerUid(hits, q.topK)
<1>5. /\ kept \in Seq(Payloads) /\ \A i \in DOMAIN kept : Asks(q, kept[i])
      /\ Diverse(q, kept, Points)
      /\ kept = <<>> => ~\E p \in Points : Asks(q, p)
  BY <1>1, <1>2, SearchAnswers
<1>6. /\ seen'[r] = Points /\ Points # Unread /\ \A s \in Requests \ {r} : seen'[s] = seen[s]
      /\ seen' \in [Requests -> SUBSET (Payloads \union {NoPoint})]
  BY <1>1, <1>3, Observes
<1>7. /\ probed' \in [Requests -> SUBSET (Payloads \union {NoPoint})]
      /\ probed' = probed /\ faults' \in 0 .. MaxFaults /\ query'[r] = q /\ space' = space
  BY <1>1, <1>3 DEF TypeInv
<1> HIDE DEF kept
<1>8. ASSUME NEW e \in {"payload", "path"}, Reply(r, Failure(r, e)) PROVE Inv'
  <2>1. /\ Failure(r, e) \in Answers /\ Failure(r, e).hits = <<>>
        /\ Failure(r, e).kind \in {"error", "backend"}
        /\ Failure(r, e).kind = "backend" => r \in CliSearches
    BY Texts
  <2>2. pc'[r] = "over" /\ answer'[r] = Failure(r, e) => AnswerInv(r)'
    BY <2>1 DEF AnswerInv
  <2>3. QED
    BY <1>1, <1>3, <1>6, <1>7, <1>8, <2>1, <2>2, Replies
<1>9. ASSUME kept # <<>>, Reply(r, Results(kept)) PROVE Inv'
  <2>1. Results(kept) \in Answers /\ Results(kept).kind = "results" /\ Results(kept).hits = kept
    BY <1>5, Texts
  <2>2. ASSUME pc'[r] = "over", answer'[r] = Results(kept) PROVE AnswerInv(r)'
    <3>1. Hits(r)' = {kept[i] : i \in DOMAIN kept}
      BY <2>1, <2>2 DEF Hits
    <3>2. ResultsInv(r)'
      BY <1>2, <1>5, <1>6, <1>7, <2>1, <2>2, <3>1 DEF ResultsInv
    <3>3. QED
      BY <1>2, <1>7, <2>1, <2>2, <3>2 DEF AnswerInv
  <2>3. QED
    BY <1>1, <1>3, <1>6, <1>7, <1>9, <2>1, <2>2, Replies
<1>10. ASSUME kept = <<>>, Reply(r, Text("none")) PROVE Inv'
  <2>1. Text("none") \in Answers /\ Text("none").kind = "none" /\ Text("none").hits = <<>>
    BY Texts
  <2>2. pc'[r] = "over" /\ answer'[r] = Text("none") => AnswerInv(r)'
    BY <1>2, <1>5, <1>6, <1>7, <1>10, <2>1 DEF AnswerInv
  <2>3. QED
    BY <1>1, <1>3, <1>6, <1>7, <1>10, <2>1, <2>2, Replies
<1>11. ASSUME kept = <<>>, r \in Searches, q.facet["area"] # NoValue, Goto(r, "probing")
       PROVE  Inv'
  <2>1. pc' = [pc EXCEPT ![r] = "probing"] /\ answer' = answer
    BY <1>11 DEF Goto
  <2>2. pc'[r] = "probing" /\ \A s \in Requests \ {r} : pc'[s] = pc[s]
    BY <1>1, <2>1 DEF TypeInv
  <2>3. /\ index' = index /\ service' = service /\ latch' = latch /\ swapped' = swapped
        /\ changes' = changes /\ server' = server /\ query' = query
        /\ writes' = writes /\ launches' = launches
    BY <1>3 DEF owners
  <2>4. TypeInv' /\ ServiceInv'
    BY <1>1, <1>6, <1>7, <2>1, <2>3 DEF TypeInv, ServiceInv, Inv
  <2>5. QueryInv(r)'
    BY <1>1, <1>2, <1>11, <2>2, <2>3 DEF RequestInv, QueryInv
  <2>6. ReadInv(r)' /\ SpaceInv(r)'
    BY <1>1, <1>2, <1>5, <1>6, <1>7, <1>11, <2>2, <2>3 DEF RequestInv, ReadInv, SpaceInv
  <2>7. AnswerInv(r)'
    <3>1. answer[r].kind = "pending" /\ answer[r].hits = <<>>
      BY <1>1 DEF RequestInv, AnswerInv
    <3>2. QED
      BY <2>1, <2>2, <3>1 DEF AnswerInv
  <2>8. \A s \in Requests \ {r} : Same(s)
    BY <1>6, <1>7, <2>1, <2>2, <2>3 DEF Same
  <2>9. QED
    BY <2>4, <2>5, <2>6, <2>7, <2>8, StepOf DEF RequestInv
<1>12. QED
  BY <1>4, <1>8, <1>9, <1>10, <1>11 DEF kept

LEMMA ExplainEmptyAreaStep ==
    ASSUME Inv, NEW r \in Requests, ExplainEmptyArea(r)
    PROVE  Inv'
<1> DEFINE q == query[r]
           wide == Probe(q)
           none == Matching(BuildFilter(wide)) = {}
           kind == IF none THEN "deadArea" ELSE "none"
<1>1. TypeInv /\ RequestInv(r) /\ pc[r] = "probing"
  BY DEF Inv, ExplainEmptyArea
<1>2. /\ q \in Queries /\ r \in Searches /\ r \notin Lookups /\ q.facet["area"] # NoValue
      /\ seen[r] # Unread /\ (~\E p \in seen[r] : Asks(q, p)) /\ space[r] # "none"
  BY <1>1 DEF RequestInv, QueryInv, ReadInv, SpaceInv, TypeInv
<1>3. /\ Observe(probed, r) /\ Reply(r, Text(kind))
      /\ UNCHANGED <<index, owners, server, query, space, seen, writes, faults, launches>>
  BY DEF ExplainEmptyArea
<1>4. /\ probed'[r] = Points /\ \A s \in Requests \ {r} : probed'[s] = probed[s]
      /\ probed' \in [Requests -> SUBSET (Payloads \union {NoPoint})]
  BY <1>1, <1>3, Observes
<1>5. /\ seen' \in [Requests -> SUBSET (Payloads \union {NoPoint})]
      /\ seen' = seen /\ faults' \in 0 .. MaxFaults /\ query'[r] = q /\ space' = space
  BY <1>1, <1>3 DEF TypeInv
<1>6. kind \in {"deadArea", "none"} /\ (kind = "deadArea" => none)
  OBVIOUS
<1>7. /\ Text(kind) \in Answers /\ Text(kind).kind = kind /\ Text(kind).hits = <<>>
  <2> HIDE DEF kind
  <2>1. QED
    BY <1>6, Texts
<1>8. wide \in Queries
  BY <1>2 DEF Probe, Queries
<1>9. ASSUME none, NEW p \in Points, InScope(q, p), p.facet["area"] = q.facet["area"]
      PROVE  FALSE
  <2>1. /\ wide.tenant = q.tenant /\ wide.archived = q.archived /\ wide.private = q.private
        /\ wide.facet = [f \in Facets |-> IF f = "area" THEN q.facet[f] ELSE NoValue]
    BY <1>2 DEF Probe, Queries
  <2>2. Asks(wide, p)
    BY <1>9, <2>1 DEF Asks, InScope
  <2>3. Matching(BuildFilter(wide)) = {x \in Points : Asks(wide, x)}
    <3> HIDE DEF wide
    <3>1. QED
      BY <1>1, <1>8, MatchingAsks
  <2>4. QED
    BY <1>9, <2>2, <2>3
<1> HIDE DEF kind, none, q
<1>10. pc'[r] = "over" /\ answer'[r] = Text(kind) => AnswerInv(r)'
  BY <1>2, <1>4, <1>5, <1>6, <1>7, <1>9 DEF AnswerInv
<1>11. QED
  BY <1>1, <1>3, <1>4, <1>5, <1>7, <1>10, Replies

LEMMA ProbeFailsStep ==
    ASSUME Inv, NEW r \in Requests, ProbeFails(r)
    PROVE  Inv'
<1>1. /\ pc[r] = "probing" /\ Fault /\ Reply(r, Text("none"))
      /\ UNCHANGED <<index, owners, server, query, space, reads, writes, launches>>
  BY DEF ProbeFails
<1>2. /\ r \in Searches /\ seen[r] # Unread /\ (~\E p \in seen[r] : Asks(query[r], p))
      /\ space[r] # "none"
  BY <1>1 DEF Inv, RequestInv, QueryInv, ReadInv, SpaceInv
<1>3. faults' \in 0 .. MaxFaults
  BY <1>1, Faults
<1>4. /\ seen' \in [Requests -> SUBSET (Payloads \union {NoPoint})]
      /\ probed' \in [Requests -> SUBSET (Payloads \union {NoPoint})]
      /\ \A s \in Requests : seen'[s] = seen[s] /\ probed'[s] = probed[s]
  BY <1>1, ReadsStay
<1>5. Text("none") \in Answers /\ Text("none").kind = "none" /\ Text("none").hits = <<>>
  BY Texts
<1>6. pc'[r] = "over" /\ answer'[r] = Text("none") => AnswerInv(r)'
  BY <1>1, <1>2, <1>4, <1>5 DEF AnswerInv
<1>7. QED
  BY <1>1, <1>3, <1>4, <1>5, <1>6, Replies

LEMMA GetByUIDStep ==
    ASSUME Inv, NEW r \in Requests, GetByUID(r)
    PROVE  Inv'
<1> DEFINE q == query[r]
<1>1. TypeInv /\ RequestInv(r) /\ pc[r] = "looking"
  BY DEF Inv, GetByUID
<1>2. q \in Queries /\ r \in Lookups
  BY <1>1 DEF RequestInv, QueryInv, TypeInv
<1>3. /\ Observe(seen, r)
      /\ UNCHANGED <<index, owners, server, query, space, probed, writes, faults, launches>>
  BY DEF GetByUID
<1>4. PICK hits \in RankedPoints(Matching(LookupFilter(q)), LookupLimit) :
        \/ Reply(r, Failure(r, "note"))
        \/ Reply(r, Text("none"))
        \/ /\ ~TooLarge(hits)
           /\ \E note \in SortByChunkIndex({hits[i] : i \in DOMAIN hits}) : Reply(r, Results(note))
  BY DEF GetByUID
<1>5. /\ seen'[r] = Points /\ Points # Unread /\ \A s \in Requests \ {r} : seen'[s] = seen[s]
      /\ seen' \in [Requests -> SUBSET (Payloads \union {NoPoint})]
  BY <1>1, <1>3, Observes
<1>6. /\ probed' \in [Requests -> SUBSET (Payloads \union {NoPoint})]
      /\ probed' = probed /\ faults' \in 0 .. MaxFaults /\ query'[r] = q /\ space' = space
  BY <1>1, <1>3 DEF TypeInv
<1>7. ASSUME Reply(r, Failure(r, "note")) PROVE Inv'
  <2>1. /\ Failure(r, "note") \in Answers /\ Failure(r, "note").hits = <<>>
        /\ Failure(r, "note").kind \in {"error", "backend"}
        /\ Failure(r, "note").kind = "backend" => r \in CliSearches
    BY Texts
  <2>2. pc'[r] = "over" /\ answer'[r] = Failure(r, "note") => AnswerInv(r)'
    BY <2>1 DEF AnswerInv
  <2>3. QED
    BY <1>1, <1>3, <1>5, <1>6, <1>7, <2>1, <2>2, Replies
<1>8. ASSUME Reply(r, Text("none")) PROVE Inv'
  <2>1. Text("none") \in Answers /\ Text("none").kind = "none" /\ Text("none").hits = <<>>
    BY Texts
  <2>2. pc'[r] = "over" /\ answer'[r] = Text("none") => AnswerInv(r)'
    BY <1>2, <1>5, <2>1 DEF AnswerInv
  <2>3. QED
    BY <1>1, <1>3, <1>5, <1>6, <1>8, <2>1, <2>2, Replies
<1>9. ASSUME ~TooLarge(hits), NEW note \in SortByChunkIndex({hits[i] : i \in DOMAIN hits}),
             Reply(r, Results(note))
      PROVE  Inv'
  <2>1. note \in Seq(Payloads) /\ Whole(q, note, Points)
    BY <1>1, <1>2, <1>9, LookupAnswers
  <2>2. Results(note) \in Answers /\ Results(note).kind = "results" /\ Results(note).hits = note
    BY <2>1, Texts
  <2>3. pc'[r] = "over" /\ answer'[r] = Results(note) => AnswerInv(r)'
    <3>1. pc'[r] = "over" /\ answer'[r] = Results(note) => ResultsInv(r)'
      BY <1>2, <1>5, <1>6, <2>1, <2>2 DEF ResultsInv
    <3>2. QED
      BY <1>2, <2>2, <3>1 DEF AnswerInv
  <2>4. QED
    BY <1>1, <1>3, <1>5, <1>6, <1>9, <2>2, <2>3, Replies
<1>10. QED
  BY <1>4, <1>7, <1>8, <1>9

-----------------------------------------------------------------------------
(* The invariant is inductive. *)
LEMMA Inductive ==
    ASSUME Inv, [Next]_vars
    PROVE  Inv'
<1>1. CASE VerifyEmbedder \/ ServiceChanges \/ IngestWrites \/ UNCHANGED vars
  BY <1>1, EnvironmentSteps
<1>2. CASE Relaunch
  BY <1>2, RelaunchStep
<1>3. ASSUME NEW r \in Requests, Receive(r) PROVE Inv'
  BY <1>3, SearchKnowledgeStep, RunSearchStep, GetNoteStep DEF Receive
<1>4. ASSUME NEW r \in Requests, Serve(r) PROVE Inv'
  BY <1>4, EmbedQueryStep, FailSteps, ExecuteQueryStep, ExplainEmptyAreaStep, ProbeFailsStep,
     GetByUIDStep DEF Serve
<1>5. QED
  BY <1>1, <1>2, <1>3, <1>4 DEF Next

THEOREM Invariant == Spec => []Inv
<1>1. Init => Inv
  BY Initially
<1>2. Inv /\ [Next]_vars => Inv'
  BY Inductive
<1>3. QED
  BY <1>1, <1>2, PTL DEF Spec

(* Every variable keeps its type, in a collection, a set of requests and limits of any size. *)
THEOREM TypeCorrect == Spec => []TypeOK
<1>1. ASSUME Inv PROVE TypeOK
  BY <1>1 DEF Inv, TypeInv, RequestInv, QueryInv, AnswerInv, Answers, TypeOK
<1>2. QED
  BY <1>1, Invariant, PTL

(* No answer leaves the scope of its query, and none of the server its tenant or what is
   archived or private, whatever the collection holds and however it changes under the reads. *)
THEOREM AnswersKeepTheirScope == Spec => []ScopeIsKept
<1>1. ASSUME Inv PROVE ScopeIsKept
  <2> SUFFICES ASSUME NEW r \in Requests, NEW p \in Hits(r)
               PROVE  /\ InScope(query[r], p)
                      /\ r \notin CliSearches => /\ p.tenant = ServerTenant
                                                 /\ p.flags \intersect {"archived", "private"} = {}
                      /\ r \in Lookups => p.uid = query[r].uid
                      /\ r \notin Lookups => Asks(query[r], p)
    BY DEF ScopeIsKept
  <2>1. answer[r].kind = "results" /\ pc[r] # "new" /\ ResultsInv(r)
    BY <1>1 DEF Inv, RequestInv, AnswerInv, Hits
  <2>2. r \in Lookups => p.uid = query[r].uid /\ InScope(query[r], p)
    BY <2>1 DEF ResultsInv, Whole, Hits
  <2>3. r \notin Lookups => Asks(query[r], p)
    BY <2>1 DEF ResultsInv
  <2>4. InScope(query[r], p)
    BY <2>2, <2>3 DEF Asks
  <2>5. r \notin CliSearches => /\ query[r].tenant = ServerTenant
                                /\ ~query[r].archived /\ ~query[r].private
    BY <1>1, <2>1 DEF Inv, RequestInv, QueryInv
  <2>6. QED
    BY <2>2, <2>3, <2>4, <2>5 DEF InScope
<1>2. QED
  BY <1>1, Invariant, PTL

(* Whatever the limits and however the store ranks, the cap per note costs no result it need
   not cost. *)
THEOREM AnswersAreDiverse == Spec => []TopKIsDiverse
<1>1. ASSUME Inv PROVE TopKIsDiverse
  BY <1>1, RequestAssumption DEF Inv, RequestInv, AnswerInv, ResultsInv, TopKIsDiverse, Requests
<1>2. QED
  BY <1>1, Invariant, PTL

(* get_note never answers with a part of a note, whatever its size and the limit. *)
THEOREM NotesAreWhole == Spec => []NoteIsWhole
<1>1. ASSUME Inv PROVE NoteIsWhole
  BY <1>1 DEF Inv, RequestInv, AnswerInv, ResultsInv, NoteIsWhole, Requests
<1>2. QED
  BY <1>1, Invariant, PTL

(* An empty answer, and an answer that blames an area, are true of the collection they read. *)
THEOREM EmptyAnswersAreTrue == Spec => []EmptyMeansAbsent
<1>1. ASSUME Inv PROVE EmptyMeansAbsent
  BY <1>1 DEF Inv, RequestInv, AnswerInv, EmptyMeansAbsent
<1>2. QED
  BY <1>1, Invariant, PTL

(* No search is answered from a vector space that its own client did not confirm. *)
THEOREM SpaceIsPinned == Spec => []AnswersFromPinnedSpace
<1>1. ASSUME Inv PROVE AnswersFromPinnedSpace
  <2> SUFFICES ASSUME NEW r \in Searches \union CliSearches,
                      answer[r].kind \in {"results", "none", "deadArea"}
               PROVE  space[r] \in {"pinned", "replaced"}
    BY DEF AnswersFromPinnedSpace
  <2>1. r \in Requests /\ r \notin Lookups
    BY RequestAssumption DEF Requests
  <2>2. space[r] # "none" /\ space[r] # "wrong" /\ space[r] \in {"none", "pinned", "replaced", "wrong"}
    BY <1>1, <2>1 DEF Inv, TypeInv, RequestInv, AnswerInv, SpaceInv
  <2>3. QED
    BY <2>2
<1>2. QED
  BY <1>1, Invariant, PTL
=============================================================================
