----------------------------- MODULE Retrieval ------------------------------
(***************************************************************************)
(* The decisions a search is made of (internal/retrieval and the query     *)
(* side of internal/store): which queries are accepted, the filter every   *)
(* read carries, how many hits are fetched, what a payload must hold, and  *)
(* how the hits are cut down to the answer.                                *)
(***************************************************************************)
EXTENDS Naturals, Sequences, FiniteSets

CONSTANTS
    Uids, Tenants,
    Facets,         \* the optional filters: area, type, vault and tags
    Values,         \* what a facet may hold
    NoValue,        \* an empty string: no tenant, no restriction on a facet
    TopKLimit,      \* maxTopK of the package
    OffsetLimit,    \* maxOffset
    Multiplier,     \* Config.PrefetchMultiplier
    MaxPerUid,      \* Config.MaxChunksPerUID
    LookupLimit     \* noteLookupLimit

ASSUME RetrievalAssumption ==
    /\ NoValue \notin Tenants \union Values
    /\ Facets \intersect {"tenant", "uid"} = {}
    /\ {TopKLimit, OffsetLimit, Multiplier, MaxPerUid, LookupLimit} \subseteq Nat

(* A query: blank is a text of blanks. *)
Queries == [tenant : Tenants \union {NoValue}, blank : BOOLEAN, topK : Nat, offset : Nat,
            facet : [Facets -> Values \union {NoValue}],
            archived : BOOLEAN, private : BOOLEAN, uid : Uids \union {NoValue}]

(* A point: the conditions a filter may state, and the two ways its payload may be unusable. *)
Payloads == [uid : Uids, chunk : Nat, tenant : Tenants, facet : [Facets -> Values],
             flags : SUBSET {"archived", "private", "malformed", "escaping"}]

PrefetchFloor(q) == q.topK + q.offset

PrefetchLimit(q) == PrefetchFloor(q) * Multiplier

(* Query.Validate: the first thing a search does. *)
Validate(q) ==
    /\ q.tenant # NoValue
    /\ ~q.blank
    /\ q.topK \in 1 .. TopKLimit
    /\ q.offset \in 0 .. OffsetLimit
    /\ Multiplier > 0 /\ PrefetchLimit(q) >= PrefetchFloor(q)

-----------------------------------------------------------------------------
Must(field, value) == [field |-> field, value |-> value]

(* A filter that forgets the private notes. *)
FilterWithoutPrivacy(q) ==
    [must    |-> {Must("tenant", q.tenant)}
                 \union {Must(f, q.facet[f]) : f \in {g \in Facets : q.facet[g] # NoValue}},
     mustNot |-> IF q.archived THEN {} ELSE {"archived"}]

(* The tenant always; what is archived or private unless asked for; the facets that are named. *)
BuildFilter(q) ==
    [must    |-> {Must("tenant", q.tenant)}
                 \union {Must(f, q.facet[f]) : f \in {g \in Facets : q.facet[g] # NoValue}},
     mustNot |-> (IF q.archived THEN {} ELSE {"archived"})
                 \union (IF q.private THEN {} ELSE {"private"})]

(* A lookup keeps the scope of its query, drops the facets, and names the note. *)
LookupFilter(q) ==
    LET f == BuildFilter([q EXCEPT !.facet = [g \in Facets |-> NoValue]])
    IN  [f EXCEPT !.must = @ \union {Must("uid", q.uid)}]

FieldOf(p, field) ==
    CASE field = "tenant" -> p.tenant
      [] field = "uid"    -> p.uid
      [] OTHER            -> p.facet[field]

Matches(p, filter) ==
    /\ \A m \in filter.must : FieldOf(p, m.field) = m.value
    /\ \A flag \in filter.mustNot : flag \notin p.flags

-----------------------------------------------------------------------------
(* The cap without the wider pool. *)
NarrowWindow(topK) == topK

(* Every leg is asked for PrefetchLimit hits of the wide query, the fusion for
   FetchWindow; a leg of a valid query is never the narrower of the two. *)
FetchWindow(topK) == IF MaxPerUid = 0 THEN topK ELSE topK * MaxPerUid

(* The store answers with the best matching points, as many as it has and no more
   than it was asked for; it may rank them any way. *)
RankedPoints(points, limit) ==
    LET n == IF Cardinality(points) < limit THEN Cardinality(points) ELSE limit
    IN  {s \in [1 .. n -> points] : \A i, j \in DOMAIN s : s[i] = s[j] => i = j}

(* A payload this pipeline did not write, or without a field a result needs. *)
FormatResults(hits) == \A i \in DOMAIN hits : "malformed" \notin hits[i].flags

(* The path of every result is relative, clean and inside its vault. *)
ValidateRelativePath(hits) == \A i \in DOMAIN hits : "escaping" \notin hits[i].flags

FromUid(hits, u) == Cardinality({i \in DOMAIN hits : hits[i].uid = u})

Keep(kept, hit, topK) ==
    IF Len(kept) = topK \/ (MaxPerUid > 0 /\ FromUid(kept, hit.uid) >= MaxPerUid)
    THEN kept ELSE Append(kept, hit)

(* In ranked order, dropping a hit once its note has contributed its share. *)
CapPerUid(hits, topK) ==
    LET kept[i \in 0 .. Len(hits)] == IF i = 0 THEN <<>> ELSE Keep(kept[i - 1], hits[i], topK)
    IN  kept[Len(hits)]

(* The orders of the chunks of a note that are in document order; of two chunks
   with one index either may come first. *)
SortByChunkIndex(points) ==
    {s \in [1 .. Cardinality(points) -> points] :
        \A i, j \in DOMAIN s : /\ s[i] = s[j] => i = j
                               /\ i < j => s[i].chunk <= s[j].chunk}
=============================================================================
