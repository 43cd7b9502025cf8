----------------------------- MODULE PointIndex -----------------------------
(***************************************************************************)
(* The data of the ingestion pipeline: notes on disk, points in the index, *)
(* and the pure decisions of internal/ingest over them.                    *)
(*                                                                         *)
(* A note the scan returned is the location of its file and the version of *)
(* its content.  A version stands for the bytes of the note together with  *)
(* the chunker and embedder configuration of the build; what the pipeline  *)
(* reads from it is how many chunks it produces.                           *)
(*                                                                         *)
(* A point carries its fingerprint (hash) and its payload (fields)         *)
(* separately, because the two are written together by the pipeline and    *)
(* can only come apart by a write that bypassed it.  Both are named by the *)
(* note they were computed from: point_hash and the payload cover every    *)
(* field of the note but `updated`.                                        *)
(***************************************************************************)
EXTENDS Naturals

CONSTANTS
    Uids,        \* identities of notes (frontmatter uid)
    Vaults,      \* the configured vaults
    Locs,        \* vault-qualified paths a note file can have
    VaultOf,     \* the vault of each location
    Versions,    \* contents a note can have
    MaxChunks,   \* most chunks a note produces
    ChunkCount,  \* how many chunks each version produces
    NoPoint,     \* no point is stored under this chunk_index
    NoNote       \* the scan returned no note with this uid

Notes  == [loc : Locs, ver : Versions]
Points == [hash : Notes, fields : Notes]
Idx    == 0 .. MaxChunks - 1
Rows   == [Idx -> Points \union {NoPoint}]   \* what is stored under one uid

ASSUME IndexAssumption ==
    /\ MaxChunks \in Nat \ {0}
    /\ VaultOf \in [Locs -> Vaults]
    /\ ChunkCount \in [Versions -> 0 .. MaxChunks]
    /\ NoPoint \notin Points
    /\ NoNote \notin Notes

-----------------------------------------------------------------------------
(* The chunk indexes a note occupies, and the point each of them must hold. *)
ChunksOf(n) == {i \in Idx : i < ChunkCount[n.ver]}

PointOf(n) == [hash |-> n, fields |-> n]

Nothing == [i \in Idx |-> NoPoint]

ExpectedPoints(n) == [i \in Idx |-> IF i \in ChunksOf(n) THEN PointOf(n) ELSE NoPoint]

HasPoints(rows) == \E i \in Idx : rows[i] # NoPoint

(* A predicate blind to the stale tail, and one that trusts the fingerprint alone. *)
CheckIntegrityNoTail(rows, n) == \A i \in ChunksOf(n) : rows[i] = PointOf(n)

CheckIntegrityHashOnly(rows, n) ==
    /\ \A i \in ChunksOf(n) : rows[i] # NoPoint
    /\ \A i \in Idx \ ChunksOf(n) : rows[i] = NoPoint
    /\ \A i \in ChunksOf(n) : rows[i].hash = n

(* The four conditions of the integrity predicate, in the order the code
   evaluates them: every expected index is present, nothing else is, every
   fingerprint is the recomputed one, every payload is the recomputed one. *)
CheckIntegrity(rows, n) ==
    /\ \A i \in ChunksOf(n) : rows[i] # NoPoint
    /\ \A i \in Idx \ ChunksOf(n) : rows[i] = NoPoint
    /\ \A i \in ChunksOf(n) : rows[i].hash = n
    /\ \A i \in ChunksOf(n) : rows[i].fields = n

-----------------------------------------------------------------------------
(* The two writes of the store.  An upsert overwrites the points of the
   indexes it carries, under their deterministic identifiers; a delete takes
   every point at or above an index. *)
UpsertPoints(rows, n, S) == [i \in Idx |-> IF i \in S THEN PointOf(n) ELSE rows[i]]

DeleteByFilter(rows, from) == [i \in Idx |-> IF i >= from THEN NoPoint ELSE rows[i]]

-----------------------------------------------------------------------------

(* The deleted-note candidates: uids with points and no scanned note, whose
   stored vault is one the run scanned.  `first` names the record the store
   happened to return first for each uid, which is the one the code reads the
   vault and the path from. *)
ScanOrphans(index, notes, vaults, first) ==
    LET stored(u) == index[u][first[u]].fields.loc
        claimed(l) == \E w \in Uids : notes[w] # NoNote /\ notes[w].loc = l
        dead == {u \in Uids : /\ notes[u] = NoNote
                              /\ HasPoints(index[u])
                              /\ VaultOf[stored(u)] \in vaults}
    IN {[uid |-> u, loc |-> stored(u), claimed |-> claimed(stored(u))] : u \in dead}

(* Every answer of "which record came first" the store can give. *)
FirstRecords(index) ==
    {f \in [Uids -> Idx] : \A u \in Uids : HasPoints(index[u]) => index[u][f[u]] # NoPoint}

=============================================================================
