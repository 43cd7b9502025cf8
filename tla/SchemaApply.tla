---------------------------- MODULE SchemaApply -----------------------------
(***************************************************************************)
(* `knowrag schema apply` (internal/store/apply.go, internal/schema): the  *)
(* collections of the manifest are created or verified one by one, their   *)
(* payload indexes too, and the embedding revision they were provisioned   *)
(* with is recorded last, in a file of the checkout.  The command has no   *)
(* lock: operators on several checkouts apply at the same time, a call     *)
(* fails with or without its effect, the process dies, the volume is lost, *)
(* somebody edits the collection, a new build pins another revision.       *)
(***************************************************************************)
EXTENDS Naturals, Sequences

CONSTANTS
    Checkouts,       \* each with its record; one operator at a time applies from it
    Manifest,        \* the collections, in order
    Indexes,         \* CollectionManifest.Indexes: their fields, in order
    Revisions, NoRecord,
    Missing,         \* no such collection
    MaxFaults,       \* bound on failing calls and crashes
    MaxDisturbances  \* bound on what happens to Qdrant, a record or a build

Collections == {Manifest[i] : i \in 1 .. Len(Manifest)}
Fields      == {Indexes[i] : i \in 1 .. Len(Indexes)}

(* As the manifest says, or not: geometry of the vectors, kind of an index. *)
Index      == {"absent", "manifest", "other"}
Collection == [vectors : {"manifest", "other"}, index : [Fields -> Index]]
Unindexed  == [f \in Fields |-> "absent"]
Records    == [Collections -> Revisions \union {NoRecord}]

ASSUME SchemaAssumption ==
    /\ Len(Manifest) \in Nat \ {0} /\ Len(Indexes) \in Nat
    /\ NoRecord \notin Revisions /\ Missing \notin Collection
    /\ MaxFaults \in Nat /\ MaxDisturbances \in Nat

VARIABLES
    live,    \* what Qdrant holds of each collection
    record,  \* AppliedState of each checkout
    build,   \* the revision the build of each checkout pins
    pc, rev, \* where each apply is, and the revision its binary pins
    at, field,     \* the collection and the index it is at
    loaded, next,  \* the record it read, and the one it will save
    indexed,       \* the indexes it read of the collection
    intact,        \* history: nothing was disturbed since this apply started
    settled,       \* history: an apply succeeded and nothing was disturbed since it started
    faults, disturbances

own  == <<pc, rev, at, field, loaded, next, indexed, intact, settled>>
vars == <<live, record, build, own, faults, disturbances>>

TypeOK ==
    /\ live \in [Collections -> Collection \union {Missing}]
    /\ record \in [Checkouts -> Records]
    /\ build \in [Checkouts -> Revisions] /\ rev \in [Checkouts -> Revisions]
    /\ pc \in [Checkouts -> {"idle", "collection", "reading", "creating", "indexing", "saving"}]
    /\ at \in [Checkouts -> 1 .. Len(Manifest)]
    /\ field \in [Checkouts -> 1 .. Len(Indexes) + 1]
    /\ loaded \in [Checkouts -> Records] /\ next \in [Checkouts -> Records]
    /\ indexed \in [Checkouts -> [Fields -> Index]]
    /\ intact \in [Checkouts -> BOOLEAN] /\ settled \in [Checkouts -> BOOLEAN]
    /\ faults \in 0 .. MaxFaults /\ disturbances \in 0 .. MaxDisturbances

Init ==
    /\ live = [c \in Collections |-> Missing]
    /\ record = [k \in Checkouts |-> [c \in Collections |-> NoRecord]]
    /\ build \in [Checkouts -> Revisions] /\ rev = build
    /\ pc = [k \in Checkouts |-> "idle"]
    /\ at = [k \in Checkouts |-> 1] /\ field = [k \in Checkouts |-> 1]
    /\ loaded = record /\ next = record
    /\ indexed = [k \in Checkouts |-> Unindexed]
    /\ intact = [k \in Checkouts |-> FALSE] /\ settled = [k \in Checkouts |-> FALSE]
    /\ faults = 0 /\ disturbances = 0

-----------------------------------------------------------------------------
Current(k) == Manifest[at[k]]

Goto(k, label) == pc' = [pc EXCEPT ![k] = label]

(* The process is over; what it had in memory goes with it. *)
Exit(k) ==
    /\ Goto(k, "idle")
    /\ at' = [at EXCEPT ![k] = 1] /\ field' = [field EXCEPT ![k] = 1]
    /\ indexed' = [indexed EXCEPT ![k] = Unindexed]
    /\ UNCHANGED <<rev, loaded, next, intact>>

(* Load: no file is an empty record. *)
Start(k) ==
    /\ pc[k] = "idle"
    /\ Goto(k, "collection")
    /\ rev' = [rev EXCEPT ![k] = build[k]]
    /\ loaded' = [loaded EXCEPT ![k] = record[k]]
    /\ next' = [next EXCEPT ![k] = record[k]]
    /\ intact' = [intact EXCEPT ![k] = TRUE]
    /\ UNCHANGED <<live, record, build, at, field, indexed, settled, faults, disturbances>>

(* The comparison with the record behind the one with Qdrant, which cannot see a revision. *)
ComparesWhenQdrantDiffers(k) ==
    \/ live[Current(k)] # Missing => live[Current(k)].vectors = "manifest"
    \/ loaded[k][Current(k)] \in {NoRecord, rev[k]}

(* No record is not drift. *)
CheckModelRevision(k) == loaded[k][Current(k)] \in {NoRecord, rev[k]}

CollectionExists(k) ==
    /\ pc[k] = "collection"
    /\ CheckModelRevision(k)
    /\ Goto(k, IF live[Current(k)] = Missing THEN "creating" ELSE "reading")
    /\ UNCHANGED <<live, record, build, rev, at, field, loaded, next, indexed, intact, settled,
                   faults, disturbances>>

Create(k) ==
    /\ pc[k] = "creating"
    /\ live[Current(k)] = Missing
    /\ live' = [live EXCEPT ![Current(k)] = [vectors |-> "manifest", index |-> Unindexed]]
    /\ Goto(k, "indexing")
    /\ UNCHANGED <<record, build, rev, at, field, loaded, next, indexed, intact, settled,
                   faults, disturbances>>

(* An existing collection taken for a finished one. *)
TakesIndexesForGranted(k) == [f \in Fields |-> "manifest"]

PayloadSchema(k) == live[Current(k)].index

GetCollectionInfo(k) ==
    /\ pc[k] = "reading"
    /\ live[Current(k)] # Missing /\ live[Current(k)].vectors = "manifest"
    /\ indexed' = [indexed EXCEPT ![k] = PayloadSchema(k)]
    /\ Goto(k, "indexing")
    /\ UNCHANGED <<live, record, build, rev, at, field, loaded, next, intact, settled,
                   faults, disturbances>>

CreateFieldIndex(c, f) ==
    live' = IF live[c].index[f] = "absent" THEN [live EXCEPT ![c].index[f] = "manifest"] ELSE live

(* The next index: verified when it was there, else created. *)
ApplyIndex(k) ==
    LET f == Indexes[field[k]] IN
    /\ pc[k] = "indexing"
    /\ field[k] <= Len(Indexes)
    /\ \/ indexed[k][f] = "manifest" /\ UNCHANGED live
       \/ /\ indexed[k][f] = "absent" /\ live[Current(k)] # Missing
          /\ CreateFieldIndex(Current(k), f)
    /\ field' = [field EXCEPT ![k] = @ + 1]
    /\ UNCHANGED <<record, build, pc, rev, at, loaded, next, indexed, intact, settled,
                   faults, disturbances>>

More(k) == at[k] < Len(Manifest)

NextCollection(k) ==
    /\ pc[k] = "indexing"
    /\ field[k] > Len(Indexes)
    /\ next' = [next EXCEPT ![k][Current(k)] = rev[k]]
    /\ indexed' = [indexed EXCEPT ![k] = Unindexed]
    /\ field' = [field EXCEPT ![k] = 1]
    /\ IF More(k)
       THEN Goto(k, "collection") /\ at' = [at EXCEPT ![k] = @ + 1]
       ELSE Goto(k, "saving") /\ UNCHANGED at
    /\ UNCHANGED <<live, record, build, rev, loaded, intact, settled, faults, disturbances>>

(* The record is replaced by a rename, and only when a revision changed. *)
Save(k) ==
    /\ pc[k] = "saving"
    /\ record' = IF next[k] = loaded[k] THEN record ELSE [record EXCEPT ![k] = next[k]]
    /\ settled' = [settled EXCEPT ![k] = intact[k]]
    /\ Exit(k)
    /\ UNCHANGED <<live, build, faults, disturbances>>

(* What the record or Qdrant says is not what the manifest says, or Qdrant
   changed between two calls: the command fails and repairs nothing. *)
Refuse(k) ==
    /\ \/ pc[k] = "collection" /\ ~CheckModelRevision(k)
       \/ pc[k] = "reading" /\ (live[Current(k)] # Missing => live[Current(k)].vectors = "other")
       \/ pc[k] = "creating" /\ live[Current(k)] # Missing
       \/ /\ pc[k] = "indexing" /\ field[k] <= Len(Indexes)
          /\ LET seen == indexed[k][Indexes[field[k]]]
             IN  seen = "other" \/ (seen = "absent" /\ live[Current(k)] = Missing)
    /\ Exit(k)
    /\ UNCHANGED <<live, record, build, settled, faults, disturbances>>

(* A call fails, perhaps after Qdrant did what it asked; or the process dies before the
   rename, which leaves the record as it was. *)
Fail(k) ==
    /\ pc[k] # "idle"
    /\ faults < MaxFaults /\ faults' = faults + 1
    /\ \/ UNCHANGED live
       \/ /\ pc[k] = "creating" /\ live[Current(k)] = Missing
          /\ live' = [live EXCEPT ![Current(k)] = [vectors |-> "manifest", index |-> Unindexed]]
       \/ /\ pc[k] = "indexing" /\ field[k] <= Len(Indexes) /\ live[Current(k)] # Missing
          /\ indexed[k][Indexes[field[k]]] = "absent"
          /\ CreateFieldIndex(Current(k), Indexes[field[k]])
    /\ Exit(k)
    /\ UNCHANGED <<record, build, settled, disturbances>>

-----------------------------------------------------------------------------
(* The volume is lost, a collection or an index is replaced by hand, a build pins
   another revision, a checkout loses its record. *)
VolumeLost    == live' = [c \in Collections |-> Missing] /\ UNCHANGED <<record, build>>
VectorsEdited == \E c \in Collections :
    /\ live[c] # Missing
    /\ live' = [live EXCEPT ![c].vectors = "other"] /\ UNCHANGED <<record, build>>
IndexEdited   == \E c \in Collections, f \in Fields, kind \in {"absent", "other"} :
    /\ live[c] # Missing
    /\ live' = [live EXCEPT ![c].index[f] = kind] /\ UNCHANGED <<record, build>>
BuildChanges  == \E k \in Checkouts, r \in Revisions :
    build' = [build EXCEPT ![k] = r] /\ UNCHANGED <<live, record>>
RecordLost    == \E k \in Checkouts :
    /\ record' = [record EXCEPT ![k] = [c \in Collections |-> NoRecord]]
    /\ UNCHANGED <<live, build>>

Disturb ==
    /\ disturbances < MaxDisturbances /\ disturbances' = disturbances + 1
    /\ VolumeLost \/ VectorsEdited \/ IndexEdited \/ BuildChanges \/ RecordLost
    /\ intact' = [k \in Checkouts |-> FALSE] /\ settled' = [k \in Checkouts |-> FALSE]
    /\ UNCHANGED <<pc, rev, at, field, loaded, next, indexed, faults>>

Step(k) ==
    \/ Start(k) \/ CollectionExists(k) \/ Create(k) \/ GetCollectionInfo(k)
    \/ ApplyIndex(k) \/ NextCollection(k) \/ Save(k) \/ Refuse(k)

Next == (\E k \in Checkouts : Step(k) \/ Fail(k)) \/ Disturb

Spec == Init /\ [][Next]_vars

(* The command is run until it succeeds (scripts/recovery-drill.sh), and a call ends. *)
FairSpec == Spec /\ \A k \in Checkouts : WF_vars(Step(k))

-----------------------------------------------------------------------------
Provisioned ==
    \A c \in Collections :
        live[c] = [vectors |-> "manifest", index |-> [f \in Fields |-> "manifest"]]

(* An apply that succeeds leaves every collection with its geometry and all its indexes and
   the pinned revision on record, whatever earlier applies left half done and whatever
   another checkout applies meanwhile. *)
SuccessMeansProvisioned ==
    \A k \in Checkouts : settled[k] =>
        Provisioned /\ record[k] = [c \in Collections |-> build[k]]

(* Running it again writes nothing, in Qdrant or to the record. *)
RerunWritesNothing ==
    [][\A k \in Checkouts : settled[k] /\ settled'[k] =>
            live' = live /\ record'[k] = record[k]]_vars

(* A recorded revision is never replaced by another one: a bump is refused, also for a
   collection that has to be created again. *)
RevisionIsNeverRewritten ==
    [][\A k \in Checkouts, c \in Collections :
            record'[k][c] \in {record[k][c], NoRecord} \/ record[k][c] = NoRecord]_vars

Drifted ==
    \/ \E k \in Checkouts, c \in Collections : record[k][c] \notin {NoRecord, build[k]}
    \/ \E c \in Collections : /\ live[c] # Missing
                              /\ live[c].vectors = "other" \/ \E f \in Fields : live[c].index[f] = "other"

(* What a failure, a crash or a lost volume left behind is completed by running the command
   again, unless something drifted. *)
EventuallyProvisioned == <>[](Drifted \/ (Provisioned /\ \A k \in Checkouts : settled[k]))
=============================================================================
