------------------------- MODULE SchemaApplyProofs --------------------------
(***************************************************************************)
(* Proofs about `knowrag schema apply`, for any manifest, any number of    *)
(* checkouts and revisions, and any number of faults and disturbances.     *)
(***************************************************************************)
EXTENDS SchemaApply, TLAPS

AtCollection == {"collection", "reading", "creating", "indexing"}

(* Between two indexes only: a collection is always begun at its first index. *)
PhaseInv(k) ==
    /\ pc[k] = "idle" => at[k] = 1
    /\ pc[k] # "indexing" => field[k] = 1 /\ indexed[k] = Unindexed

(* What an apply read is still on record, or was lost; what it will save adds the
   pinned revision where nothing else was recorded. *)
RecordInv(k) ==
    pc[k] # "idle" =>
        /\ \A c \in Collections :
            /\ record[k][c] \in {loaded[k][c], NoRecord}
            /\ \/ next[k][c] = loaded[k][c]
               \/ next[k][c] = rev[k] /\ loaded[k][c] \in {NoRecord, rev[k]}
        /\ pc[k] \in {"reading", "creating", "indexing"} => CheckModelRevision(k)

Complete(c) ==
    /\ live[c] \in Collection /\ live[c].vectors = "manifest"
    /\ \A f \in Fields : live[c].index[f] = "manifest"

Behind(k) == {j \in 1 .. Len(Manifest) : pc[k] = "saving" \/ j < at[k]}

(* While nothing is disturbed, an apply has provisioned what it has passed, and
   Qdrant has at least the indexes it read. *)
ProgressInv(k) ==
    pc[k] # "idle" /\ intact[k] =>
        /\ rev[k] = build[k] /\ record[k] = loaded[k]
        /\ \A j \in Behind(k) : Complete(Manifest[j]) /\ next[k][Manifest[j]] = rev[k]
        /\ pc[k] = "indexing" =>
            /\ live[Current(k)] \in Collection /\ live[Current(k)].vectors = "manifest"
            /\ \A f \in Fields :
                /\ indexed[k][f] = "manifest" => live[Current(k)].index[f] = "manifest"
                /\ indexed[k][f] = "absent" => live[Current(k)].index[f] # "other"
            /\ \A i \in 1 .. Len(Indexes) : i < field[k] =>
                                     live[Current(k)].index[Indexes[i]] = "manifest"

SettledInv(k) ==
    settled[k] => (\A c \in Collections : Complete(c)) /\ record[k] = [c \in Collections |-> build[k]]

CheckoutInv(k) == PhaseInv(k) /\ RecordInv(k) /\ ProgressInv(k) /\ SettledInv(k)

ApplyInv == TypeOK /\ \A k \in Checkouts : CheckoutInv(k)

-----------------------------------------------------------------------------
(* The collections and fields are those of the two lists. *)
LEMMA InRange ==
    /\ \A j \in 1 .. Len(Manifest) : Manifest[j] \in Collections
    /\ \A i \in 1 .. Len(Indexes) : Indexes[i] \in Fields
    /\ \A c \in Collections : \E j \in 1 .. Len(Manifest) : c = Manifest[j]
    /\ \A f \in Fields : \E i \in 1 .. Len(Indexes) : f = Indexes[i]
    /\ Len(Manifest) \in Nat \ {0} /\ Len(Indexes) \in Nat
    /\ Missing \notin Collection /\ NoRecord \notin Revisions
    /\ MaxFaults \in Nat /\ MaxDisturbances \in Nat
  BY SchemaAssumption DEF Collections, Fields

(* Provisioned, collection by collection and index by index. *)
LEMMA ProvisionedIsComplete ==
    ASSUME TypeOK PROVE Provisioned <=> \A c \in Collections : Complete(c)
  <1>1. ASSUME NEW c \in Collections
        PROVE  live[c] = [vectors |-> "manifest", index |-> [f \in Fields |-> "manifest"]] <=> Complete(c)
    BY DEF Complete, Collection, Index
  <1> QED
    BY <1>1 DEF Provisioned

(* The initial states satisfy the invariant. *)
LEMMA InitInv == Init => ApplyInv
  <1> SUFFICES ASSUME Init PROVE ApplyInv
    OBVIOUS
  <1>1. TypeOK
    BY InRange DEF Init, TypeOK, Unindexed, Index, Records
  <1>2. ASSUME NEW k \in Checkouts PROVE CheckoutInv(k)
    BY DEF Init, CheckoutInv, PhaseInv, RecordInv, ProgressInv, SettledInv
  <1> QED
    BY <1>1, <1>2 DEF ApplyInv

(* Setting one index leaves a collection, and everything else in it and beside it. *)
LEMMA SetIndex ==
    ASSUME live \in [Collections -> Collection \union {Missing}],
           NEW c \in Collections, live[c] # Missing, NEW f \in Fields, NEW kind \in Index,
           live' = [live EXCEPT ![c].index[f] = kind]
    PROVE  /\ live' \in [Collections -> Collection \union {Missing}]
           /\ \A d \in Collections \ {c} : live'[d] = live[d]
           /\ live'[c] \in Collection
           /\ live'[c].vectors = live[c].vectors
           /\ live'[c].index = [live[c].index EXCEPT ![f] = kind]
  <1>1. live[c] \in Collection
    OBVIOUS
  <1>2. live' = [live EXCEPT ![c] = [live[c] EXCEPT !.index = [live[c].index EXCEPT ![f] = kind]]]
    OBVIOUS
  <1>3. [live[c] EXCEPT !.index = [live[c].index EXCEPT ![f] = kind]] \in Collection
    BY <1>1 DEF Collection
  <1> QED
    BY <1>1, <1>2, <1>3 DEF Collection

(* CreateFieldIndex creates what is absent and touches nothing else. *)
LEMMA IndexCreated ==
    ASSUME live \in [Collections -> Collection \union {Missing}],
           NEW c \in Collections, live[c] # Missing, NEW f \in Fields, CreateFieldIndex(c, f)
    PROVE  /\ live' \in [Collections -> Collection \union {Missing}]
           /\ \A d \in Collections \ {c} : live'[d] = live[d]
           /\ live'[c] \in Collection
           /\ live'[c].vectors = live[c].vectors
           /\ \A g \in Fields : live[c].index[g] # "absent" => live'[c].index[g] = live[c].index[g]
           /\ \A g \in Fields : live'[c].index[g] # live[c].index[g] => live'[c].index[g] = "manifest"
           /\ live[c].index[f] = "absent" => live'[c].index[f] = "manifest"
  <1>1. CASE live[c].index[f] = "absent"
    <2>1. live' = [live EXCEPT ![c].index[f] = "manifest"] /\ "manifest" \in Index
      BY <1>1 DEF CreateFieldIndex, Index
    <2>2. live[c].index \in [Fields -> Index]
      BY DEF Collection
    <2>3. /\ live' \in [Collections -> Collection \union {Missing}]
          /\ \A d \in Collections \ {c} : live'[d] = live[d]
          /\ live'[c] \in Collection /\ live'[c].vectors = live[c].vectors
          /\ live'[c].index = [live[c].index EXCEPT ![f] = "manifest"]
      BY <2>1, SetIndex, ZenonT(90)
    <2> QED
      BY <1>1, <2>2, <2>3
  <1>2. CASE live[c].index[f] # "absent"
    <2>1. live' = live
      BY <1>2 DEF CreateFieldIndex
    <2> QED
      BY <1>2, <2>1
  <1> QED
    BY <1>1, <1>2

(* Every step keeps the types. *)
LEMMA TypeStep == TypeOK /\ [Next]_vars => TypeOK'
  <1> SUFFICES ASSUME TypeOK, [Next]_vars PROVE TypeOK'
    OBVIOUS
  <1> USE InRange DEF TypeOK
  <1>1. ASSUME NEW k \in Checkouts, Start(k) PROVE TypeOK'
    BY <1>1 DEF Start, Goto
  <1>2. ASSUME NEW k \in Checkouts, CollectionExists(k) PROVE TypeOK'
    BY <1>2 DEF CollectionExists, Goto
  <1>3. ASSUME NEW k \in Checkouts, Create(k) PROVE TypeOK'
    BY <1>3 DEF Create, Goto, Current, Collection, Unindexed, Index
  <1>4. ASSUME NEW k \in Checkouts, GetCollectionInfo(k) PROVE TypeOK'
    BY <1>4 DEF GetCollectionInfo, PayloadSchema, Goto, Current, Collection
  <1>5. ASSUME NEW k \in Checkouts, ApplyIndex(k) PROVE TypeOK'
    <2>1. live' \in [Collections -> Collection \union {Missing}]
      <3>1. Current(k) \in Collections /\ (field[k] <= Len(Indexes) => Indexes[field[k]] \in Fields)
        BY DEF Current
      <3> QED
        BY <1>5, <3>1, IndexCreated DEF ApplyIndex
    <2>2. field' \in [Checkouts -> 1 .. Len(Indexes) + 1]
      BY <1>5 DEF ApplyIndex
    <2> QED
      BY <1>5, <2>1, <2>2 DEF ApplyIndex
  <1>6. ASSUME NEW k \in Checkouts, NextCollection(k) PROVE TypeOK'
    <2>1. next' \in [Checkouts -> Records]
      BY <1>6 DEF NextCollection, Current, Records
    <2>2. /\ at' \in [Checkouts -> 1 .. Len(Manifest)]
          /\ pc' \in [Checkouts -> {"idle", "collection", "reading", "creating", "indexing", "saving"}]
      <3>1. CASE at[k] < Len(Manifest)
        <4>1. at[k] + 1 \in 1 .. Len(Manifest)
          BY <3>1
        <4> QED
          BY <1>6, <3>1, <4>1 DEF NextCollection, More, Goto
      <3>2. CASE ~(at[k] < Len(Manifest))
        BY <1>6, <3>2 DEF NextCollection, More, Goto
      <3> QED
        BY <3>1, <3>2
    <2>3. field' \in [Checkouts -> 1 .. Len(Indexes) + 1] /\ indexed' \in [Checkouts -> [Fields -> Index]]
      BY <1>6 DEF NextCollection, Unindexed, Index
    <2> QED
      BY <1>6, <2>1, <2>2, <2>3 DEF NextCollection
  <1>7. ASSUME NEW k \in Checkouts, Save(k) PROVE TypeOK'
    BY <1>7 DEF Save, Exit, Goto, Unindexed, Index
  <1>8. ASSUME NEW k \in Checkouts, Refuse(k) PROVE TypeOK'
    BY <1>8 DEF Refuse, Exit, Goto, Unindexed, Index
  <1>9. ASSUME NEW k \in Checkouts, Fail(k) PROVE TypeOK'
    <2>1. live' \in [Collections -> Collection \union {Missing}]
      <3>1. CASE UNCHANGED live
        BY <3>1
      <3>2. CASE live' = [live EXCEPT ![Current(k)] = [vectors |-> "manifest", index |-> Unindexed]]
        BY <3>2 DEF Collection, Unindexed, Index
      <3>3. CASE /\ field[k] <= Len(Indexes) /\ live[Current(k)] # Missing
                 /\ CreateFieldIndex(Current(k), Indexes[field[k]])
        <4>1. Current(k) \in Collections /\ Indexes[field[k]] \in Fields
          BY <3>3 DEF Current
        <4> QED
          BY <3>3, <4>1, IndexCreated
      <3> QED
        BY <1>9, <3>1, <3>2, <3>3 DEF Fail
    <2>2. faults' \in 0 .. MaxFaults
      BY <1>9 DEF Fail
    <2> QED
      BY <1>9, <2>1, <2>2 DEF Fail, Exit, Goto, Unindexed, Index
  <1>10. ASSUME Disturb PROVE TypeOK'
    <2>1. live' \in [Collections -> Collection \union {Missing}]
      <3>1. CASE VolumeLost
        BY <3>1 DEF VolumeLost
      <3>2. CASE VectorsEdited
        <4>1. PICK c \in Collections : live[c] # Missing /\ live' = [live EXCEPT ![c].vectors = "other"]
          BY <3>2 DEF VectorsEdited
        <4>2. live' = [live EXCEPT ![c] = [live[c] EXCEPT !.vectors = "other"]]
          BY <4>1
        <4>3. live[c] \in Collection
          BY <4>1
        <4>4. [live[c] EXCEPT !.vectors = "other"] \in Collection
          BY <4>3 DEF Collection
        <4> QED
          BY <4>2, <4>4
      <3>3. CASE IndexEdited
        BY <3>3, SetIndex DEF IndexEdited, Index
      <3>4. CASE BuildChanges \/ RecordLost
        BY <3>4 DEF BuildChanges, RecordLost
      <3> QED
        BY <1>10, <3>1, <3>2, <3>3, <3>4 DEF Disturb
    <2>2. record' \in [Checkouts -> Records]
      <3>1. [c \in Collections |-> NoRecord] \in Records
        BY DEF Records
      <3> QED
        BY <1>10, <3>1 DEF Disturb, VolumeLost, VectorsEdited, IndexEdited, BuildChanges, RecordLost
    <2>4. build' \in [Checkouts -> Revisions]
      BY <1>10 DEF Disturb, VolumeLost, VectorsEdited, IndexEdited, BuildChanges, RecordLost
    <2>3. disturbances' \in 0 .. MaxDisturbances
      BY <1>10 DEF Disturb
    <2> QED
      BY <1>10, <2>1, <2>2, <2>3, <2>4 DEF Disturb
  <1>11. CASE UNCHANGED vars
    BY <1>11 DEF vars, own
  <1> QED
    BY <1>1, <1>2, <1>3, <1>4, <1>5, <1>6, <1>7, <1>8, <1>9, <1>10, <1>11 DEF Next, Step

-----------------------------------------------------------------------------
(* An apply only adds: what is there keeps its geometry and its indexes. *)
LiveGrows ==
    \A c \in Collections : live[c] \in Collection =>
        /\ live'[c] \in Collection /\ live'[c].vectors = live[c].vectors
        /\ \A f \in Fields :
            /\ live[c].index[f] = "manifest" => live'[c].index[f] = "manifest"
            /\ live[c].index[f] # "other" => live'[c].index[f] # "other"

(* Two operators cannot undo each other: a creation needs a missing collection, and
   an index that is there is never replaced. *)
LEMMA AppliesOnlyAdd ==
    ASSUME TypeOK, NEW k \in Checkouts, Step(k) \/ Fail(k)
    PROVE  LiveGrows
  <1>1. Current(k) \in Collections /\ (field[k] <= Len(Indexes) => Indexes[field[k]] \in Fields)
    BY InRange DEF TypeOK, Current
  <1>2. CASE UNCHANGED live
    BY <1>2 DEF LiveGrows
  <1>3. CASE /\ live[Current(k)] = Missing
             /\ live' = [live EXCEPT ![Current(k)] = [vectors |-> "manifest", index |-> Unindexed]]
    BY <1>1, <1>3, InRange DEF LiveGrows, TypeOK
  <1>4. CASE /\ field[k] <= Len(Indexes) /\ live[Current(k)] # Missing
             /\ CreateFieldIndex(Current(k), Indexes[field[k]])
    <2>1. live \in [Collections -> Collection \union {Missing}]
      BY DEF TypeOK
    <2> DEFINE c == Current(k)
    <2>2. /\ \A d \in Collections \ {c} : live'[d] = live[d]
          /\ live'[c] \in Collection
          /\ live'[c].vectors = live[c].vectors
          /\ \A g \in Fields : live[c].index[g] # "absent" => live'[c].index[g] = live[c].index[g]
          /\ \A g \in Fields : live'[c].index[g] # live[c].index[g] => live'[c].index[g] = "manifest"
      BY <1>1, <1>4, <2>1, IndexCreated
    <2> QED
      BY <2>2 DEF LiveGrows
  <1>5. \/ UNCHANGED live
        \/ /\ live[Current(k)] = Missing
           /\ live' = [live EXCEPT ![Current(k)] = [vectors |-> "manifest", index |-> Unindexed]]
        \/ /\ field[k] <= Len(Indexes) /\ live[Current(k)] # Missing
           /\ CreateFieldIndex(Current(k), Indexes[field[k]])
    BY DEF Step, Start, CollectionExists, Create, GetCollectionInfo, ApplyIndex, NextCollection,
           Save, Refuse, Fail
  <1> QED
    BY <1>2, <1>3, <1>4, <1>5

OwnUnchanged(k) ==
    /\ UNCHANGED <<pc[k], rev[k], at[k], field[k], loaded[k], next[k], indexed[k], intact[k], settled[k]>>
    /\ UNCHANGED <<record[k], build[k]>>

(* What an apply knows is not disturbed by the steps of another one. *)
LEMMA OthersKeepInv ==
    ASSUME TypeOK, NEW k \in Checkouts, CheckoutInv(k), OwnUnchanged(k), LiveGrows
    PROVE  CheckoutInv(k)'
  <1>1. /\ \A j \in 1 .. Len(Manifest) : Manifest[j] \in Collections
        /\ \A i \in 1 .. Len(Indexes) : Indexes[i] \in Fields
        /\ Current(k) \in Collections /\ Current(k)' = Current(k)
    BY InRange DEF TypeOK, Current, OwnUnchanged
  <1>2. \A c \in Collections : Complete(c) => Complete(c)'
    BY DEF Complete, LiveGrows
  <1>3. PhaseInv(k)'
    BY DEF CheckoutInv, PhaseInv, OwnUnchanged
  <1>4. RecordInv(k)'
    BY <1>1 DEF CheckoutInv, RecordInv, OwnUnchanged, CheckModelRevision
  <1>5. ProgressInv(k)'
    <2>1. Behind(k)' = Behind(k)
      BY DEF Behind, OwnUnchanged
    <2> QED
      BY <1>1, <1>2, <2>1 DEF CheckoutInv, ProgressInv, OwnUnchanged, Behind, LiveGrows
  <1>6. SettledInv(k)'
    BY <1>2 DEF CheckoutInv, SettledInv, OwnUnchanged
  <1> QED
    BY <1>3, <1>4, <1>5, <1>6 DEF CheckoutInv

(* A disturbance changes what the histories stop promising, and loses records at most. *)
LEMMA DisturbKeepsInv ==
    ASSUME TypeOK, NEW k \in Checkouts, CheckoutInv(k), Disturb
    PROVE  CheckoutInv(k)'
  <1>1. UNCHANGED <<pc, rev, at, field, loaded, next, indexed>> /\ ~intact'[k] /\ ~settled'[k]
    BY DEF Disturb
  <1>2. \A c \in Collections : record'[k][c] \in {record[k][c], NoRecord}
    BY DEF TypeOK, Disturb, VolumeLost, VectorsEdited, IndexEdited, BuildChanges, RecordLost
  <1>3. RecordInv(k)'
    BY <1>1, <1>2 DEF CheckoutInv, RecordInv, CheckModelRevision, Current
  <1> QED
    BY <1>1, <1>3 DEF CheckoutInv, PhaseInv, ProgressInv, SettledInv

-----------------------------------------------------------------------------
(* The apply that steps, action by action. *)

(* Before it saves, what was promised earlier is kept: nothing is taken away, and the
   record is not touched. *)
LEMMA PromiseKept ==
    ASSUME TypeOK, NEW k \in Checkouts, CheckoutInv(k), LiveGrows,
           UNCHANGED <<settled, record, build>>
    PROVE  SettledInv(k)'
  BY DEF CheckoutInv, SettledInv, Complete, LiveGrows

(* A collection that is complete stays so while applies only add. *)
LEMMA CompleteStays ==
    ASSUME NEW c \in Collections, Complete(c), LiveGrows
    PROVE  Complete(c)'
  BY DEF Complete, LiveGrows

(* What an apply has passed stays complete. *)
LEMMA PassedStaysComplete ==
    ASSUME TypeOK, NEW k \in Checkouts, CheckoutInv(k), LiveGrows
    PROVE  \A j \in Behind(k) : pc[k] # "idle" /\ intact[k] => Complete(Manifest[j])'
  <1> SUFFICES ASSUME NEW j \in Behind(k), pc[k] # "idle", intact[k]
               PROVE  Complete(Manifest[j])'
    OBVIOUS
  <1>1. Manifest[j] \in Collections
    BY InRange DEF Behind
  <1>2. Complete(Manifest[j])
    BY DEF CheckoutInv, ProgressInv
  <1> QED
    BY <1>1, <1>2, CompleteStays

LEMMA StartKeeps ==
    ASSUME TypeOK, NEW k \in Checkouts, CheckoutInv(k), Start(k)
    PROVE  CheckoutInv(k)'
  <1> USE DEF CheckoutInv, Start, Goto, TypeOK
  <1>1. PhaseInv(k)'
    BY DEF PhaseInv
  <1>2. RecordInv(k)'
    BY DEF RecordInv
  <1>3. ProgressInv(k)'
    BY InRange DEF ProgressInv, PhaseInv, Behind
  <1>4. SettledInv(k)'
    BY DEF SettledInv, Complete
  <1> QED
    BY <1>1, <1>2, <1>3, <1>4

LEMMA ExistsKeeps ==
    ASSUME TypeOK, NEW k \in Checkouts, CheckoutInv(k), CollectionExists(k)
    PROVE  CheckoutInv(k)'
  <1> USE DEF CheckoutInv, CollectionExists, Goto, TypeOK
  <1>1. PhaseInv(k)'
    BY DEF PhaseInv
  <1>2. RecordInv(k)'
    BY DEF RecordInv, CheckModelRevision, Current
  <1>3. ProgressInv(k)'
    <2>1. pc[k] = "collection" /\ pc'[k] \in {"creating", "reading"}
      OBVIOUS
    <2>2. Behind(k)' = Behind(k)
      BY <2>1 DEF Behind
    <2>3. \A c : Complete(c)' <=> Complete(c)
      BY DEF Complete
    <2> QED
      BY <2>1, <2>2, <2>3 DEF ProgressInv
  <1>4. SettledInv(k)'
    BY DEF SettledInv, Complete
  <1> QED
    BY <1>1, <1>2, <1>3, <1>4

LEMMA CreateKeeps ==
    ASSUME TypeOK, NEW k \in Checkouts, CheckoutInv(k), Create(k), LiveGrows
    PROVE  CheckoutInv(k)'
  <1>1. PhaseInv(k)'
    BY DEF CheckoutInv, Create, Goto, TypeOK, PhaseInv
  <1>2. RecordInv(k)'
    BY DEF CheckoutInv, Create, Goto, TypeOK, RecordInv, CheckModelRevision, Current
  <1>3. ProgressInv(k)'
    <2>1. Current(k) \in Collections /\ Current(k)' = Current(k)
      BY InRange DEF TypeOK, Current, Create
    <2>2. /\ live'[Current(k)] \in Collection /\ live'[Current(k)].vectors = "manifest"
          /\ \A f \in Fields : live'[Current(k)].index[f] = "absent"
      BY <2>1 DEF Create, TypeOK, Collection, Unindexed, Index
    <2>3. /\ field'[k] = 1 /\ \A f \in Fields : indexed'[k][f] = "absent"
          /\ \A i \in 1 .. Len(Indexes) : ~(i < field'[k])
      BY DEF CheckoutInv, PhaseInv, Create, Unindexed
    <2>4. Behind(k)' = Behind(k)
      BY DEF Create, Goto, TypeOK, Behind
    <2>5. ASSUME pc[k] # "idle", intact[k], NEW j \in Behind(k)
          PROVE  Complete(Manifest[j])' /\ next'[k][Manifest[j]] = rev'[k]
      BY <2>5, PassedStaysComplete DEF CheckoutInv, ProgressInv, Create
    <2>6. pc[k] # "idle" /\ intact'[k] = intact[k]
      BY DEF Create
    <2>7. intact[k] => rev'[k] = build'[k] /\ record'[k] = loaded'[k]
      BY <2>6 DEF CheckoutInv, ProgressInv, Create
    <2> QED
      BY <2>1, <2>2, <2>3, <2>4, <2>5, <2>6, <2>7 DEF ProgressInv
  <1>4. SettledInv(k)'
    BY PromiseKept DEF Create
  <1> QED
    BY <1>1, <1>2, <1>3, <1>4 DEF CheckoutInv

LEMMA InfoKeeps ==
    ASSUME TypeOK, NEW k \in Checkouts, CheckoutInv(k), GetCollectionInfo(k)
    PROVE  CheckoutInv(k)'
  <1> USE DEF CheckoutInv, GetCollectionInfo, Goto, TypeOK
  <1>1. PhaseInv(k)'
    BY DEF PhaseInv
  <1>2. RecordInv(k)'
    BY DEF RecordInv, CheckModelRevision, Current
  <1>3. ProgressInv(k)'
    <2>1. Current(k) \in Collections /\ Current(k)' = Current(k)
      BY InRange DEF Current
    <2>2. field[k] = 1
      BY DEF PhaseInv
    <2> QED
      BY <2>1, <2>2, InRange DEF ProgressInv, Behind, Complete, PayloadSchema
  <1>4. SettledInv(k)'
    BY DEF SettledInv, Complete
  <1> QED
    BY <1>1, <1>2, <1>3, <1>4

LEMMA IndexKeeps ==
    ASSUME TypeOK, NEW k \in Checkouts, CheckoutInv(k), ApplyIndex(k), LiveGrows
    PROVE  CheckoutInv(k)'
  <1>1. PhaseInv(k)'
    BY DEF CheckoutInv, ApplyIndex, TypeOK, PhaseInv
  <1>2. RecordInv(k)'
    BY DEF CheckoutInv, ApplyIndex, TypeOK, RecordInv, CheckModelRevision, Current
  <1>3. ProgressInv(k)'
    <2> SUFFICES ASSUME pc[k] # "idle", intact[k] PROVE ProgressInv(k)'
      BY DEF ApplyIndex, ProgressInv
    <2>1. Current(k) \in Collections /\ Current(k)' = Current(k)
      BY InRange DEF TypeOK, Current, ApplyIndex
    <2> DEFINE f == Indexes[field[k]]
    <2>2. f \in Fields
      BY InRange DEF ApplyIndex, TypeOK
    <2>3. live[Current(k)] \in Collection /\ live[Current(k)].vectors = "manifest"
      BY DEF CheckoutInv, ProgressInv, ApplyIndex
    <2>4. live'[Current(k)].index[f] = "manifest"
      <3>1. CASE indexed[k][f] = "manifest" /\ UNCHANGED live
        BY <2>1, <2>2, <3>1 DEF CheckoutInv, ProgressInv, ApplyIndex
      <3>2. CASE /\ indexed[k][f] = "absent" /\ live[Current(k)] # Missing
                 /\ CreateFieldIndex(Current(k), f)
        <4>1. live[Current(k)].index[f] \in {"absent", "manifest"}
          BY <2>2, <2>3, <3>2 DEF CheckoutInv, ProgressInv, ApplyIndex, Collection, Index
        <4>2. live \in [Collections -> Collection \union {Missing}]
          BY DEF TypeOK
        <4>3. live[Current(k)].index[f] = "absent" => live'[Current(k)].index[f] = "manifest"
          BY <2>1, <2>2, <3>2, <4>2, IndexCreated
        <4>4. live[Current(k)].index[f] = "manifest" => live' = live
          BY <3>2 DEF CreateFieldIndex
        <4> QED
          BY <2>1, <4>1, <4>3, <4>4
      <3> QED
        BY <3>1, <3>2 DEF ApplyIndex
    <2>5. Behind(k)' = Behind(k)
      BY DEF ApplyIndex, TypeOK, Behind
    <2>6. field'[k] = field[k] + 1 /\ field[k] \in Nat
      BY DEF ApplyIndex, TypeOK
    <2>7. \A i \in 1 .. Len(Indexes) : i < field'[k] => live'[Current(k)].index[Indexes[i]] = "manifest"
      <3> TAKE i \in 1 .. Len(Indexes)
      <3>1. CASE i < field[k]
        BY <2>1, <2>3, <3>1, InRange DEF CheckoutInv, ProgressInv, ApplyIndex, LiveGrows
      <3>2. CASE i = field[k]
        BY <2>4, <3>2
      <3> QED
        BY <2>6, <3>1, <3>2, InRange
    <2>8. /\ live'[Current(k)] \in Collection /\ live'[Current(k)].vectors = "manifest"
          /\ \A g \in Fields :
              /\ indexed[k][g] = "manifest" => live'[Current(k)].index[g] = "manifest"
              /\ indexed[k][g] = "absent" => live'[Current(k)].index[g] # "other"
      BY <2>1, <2>3 DEF CheckoutInv, ProgressInv, ApplyIndex, LiveGrows
    <2> QED
      BY <2>1, <2>5, <2>7, <2>8, PassedStaysComplete
         DEF CheckoutInv, ApplyIndex, ProgressInv
  <1>4. SettledInv(k)'
    BY PromiseKept DEF ApplyIndex
  <1> QED
    BY <1>1, <1>2, <1>3, <1>4 DEF CheckoutInv

LEMMA NextKeeps ==
    ASSUME TypeOK, NEW k \in Checkouts, CheckoutInv(k), NextCollection(k)
    PROVE  CheckoutInv(k)'
  <1>1. PhaseInv(k)'
    BY DEF CheckoutInv, NextCollection, More, Goto, TypeOK, PhaseInv
  <1>2. RecordInv(k)'
    <2>1. Current(k) \in Collections
      BY InRange DEF TypeOK, Current
    <2>2. loaded[k][Current(k)] \in {NoRecord, rev[k]}
      BY DEF CheckoutInv, RecordInv, CheckModelRevision, NextCollection
    <2>3. next[k] \in [Collections -> Revisions \union {NoRecord}]
      BY DEF TypeOK, Records
    <2>4. next'[k] = [next[k] EXCEPT ![Current(k)] = rev[k]]
      BY DEF TypeOK, NextCollection
    <2>5. pc'[k] \in {"collection", "saving"}
      BY DEF NextCollection, More, Goto, TypeOK
    <2> QED
      BY <2>1, <2>2, <2>3, <2>4, <2>5 DEF CheckoutInv, NextCollection, RecordInv
  <1>3. ProgressInv(k)'
    <2> SUFFICES ASSUME intact[k] PROVE ProgressInv(k)'
      BY DEF NextCollection, ProgressInv
    <2>1. Current(k) \in Collections /\ at[k] \in 1 .. Len(Manifest)
      BY InRange DEF TypeOK, Current
    <2>2. Complete(Current(k))
      <3> SUFFICES ASSUME NEW f \in Fields PROVE live[Current(k)].index[f] = "manifest"
        BY DEF CheckoutInv, ProgressInv, NextCollection, Complete
      <3>1. PICK i \in 1 .. Len(Indexes) : f = Indexes[i]
        BY InRange
      <3>2. i < field[k]
        BY InRange DEF NextCollection, TypeOK
      <3> QED
        BY <3>1, <3>2 DEF CheckoutInv, ProgressInv, NextCollection
    <2>3. \A j \in Behind(k)' : j \in Behind(k) \/ j = at[k]
      BY <2>1, InRange DEF Behind, NextCollection, More, Goto, TypeOK
    <2>4. next[k] \in Records /\ next'[k] = [next[k] EXCEPT ![Current(k)] = rev[k]]
      BY DEF TypeOK, NextCollection
    <2>5. ASSUME NEW j \in Behind(k)'
          PROVE  Complete(Manifest[j])' /\ next'[k][Manifest[j]] = rev'[k]
      <3>1. Manifest[j] \in Collections
        BY InRange DEF Behind
      <3>2. Complete(Manifest[j]) /\ (j = at[k] \/ next[k][Manifest[j]] = rev[k])
        BY <2>2, <2>3 DEF CheckoutInv, ProgressInv, NextCollection, Current
      <3>3. next'[k][Manifest[j]] = rev[k]
        BY <2>1, <2>4, <3>1, <3>2 DEF Current, Records
      <3> QED
        BY <3>2, <3>3 DEF NextCollection, Complete
    <2>6. pc'[k] # "indexing"
      BY DEF NextCollection, More, Goto, TypeOK
    <2>7. rev'[k] = build'[k] /\ record'[k] = loaded'[k]
      BY DEF CheckoutInv, ProgressInv, NextCollection
    <2> QED
      BY <2>5, <2>6, <2>7 DEF ProgressInv
  <1>4. SettledInv(k)'
    BY DEF CheckoutInv, NextCollection, SettledInv, Complete
  <1> QED
    BY <1>1, <1>2, <1>3, <1>4 DEF CheckoutInv

(* An apply that saves undisturbed has passed everything and keeps its promise. *)
LEMMA SaveKeeps ==
    ASSUME TypeOK, NEW k \in Checkouts, CheckoutInv(k), Save(k)
    PROVE  CheckoutInv(k)'
  <1>1. pc'[k] = "idle" /\ at'[k] = 1 /\ field'[k] = 1 /\ indexed'[k] = Unindexed
    BY DEF Save, Exit, Goto, TypeOK
  <1>2. SettledInv(k)'
    <2> SUFFICES ASSUME intact[k] PROVE SettledInv(k)'
      BY DEF Save, SettledInv, TypeOK
    <2>1. \A c \in Collections : Complete(c) /\ next[k][c] = rev[k]
      BY InRange DEF CheckoutInv, ProgressInv, Behind, Save
    <2>2. rev[k] = build[k] /\ record[k] = loaded[k]
      BY DEF CheckoutInv, ProgressInv, Save
    <2>3. next[k] = [c \in Collections |-> build[k]]
      BY <2>1, <2>2 DEF TypeOK, Records
    <2>4. record'[k] = next[k]
      BY <2>2 DEF Save, TypeOK
    <2> QED
      BY <2>1, <2>3, <2>4 DEF Save, SettledInv, Complete
  <1> QED
    BY <1>1, <1>2 DEF CheckoutInv, PhaseInv, RecordInv, ProgressInv

LEMMA ExitKeeps ==
    ASSUME TypeOK, NEW k \in Checkouts, CheckoutInv(k), Refuse(k) \/ Fail(k), LiveGrows
    PROVE  CheckoutInv(k)'
  <1>1. pc'[k] = "idle" /\ at'[k] = 1 /\ field'[k] = 1 /\ indexed'[k] = Unindexed
    BY DEF Refuse, Fail, Exit, Goto, TypeOK
  <1>2. SettledInv(k)'
    BY PromiseKept DEF Refuse, Fail
  <1> QED
    BY <1>1, <1>2 DEF CheckoutInv, PhaseInv, RecordInv, ProgressInv

(* An apply leaves what belongs to another one alone. *)
LEMMA OthersUntouched ==
    ASSUME TypeOK, NEW k \in Checkouts, Step(k) \/ Fail(k), NEW q \in Checkouts, q # k
    PROVE  OwnUnchanged(q)
  <1> USE DEF TypeOK, OwnUnchanged, Goto
  <1>1. CASE Start(k) \/ CollectionExists(k) \/ Create(k)
    BY <1>1 DEF Start, CollectionExists, Create
  <1>2. CASE GetCollectionInfo(k) \/ ApplyIndex(k) \/ NextCollection(k)
    BY <1>2 DEF GetCollectionInfo, ApplyIndex, NextCollection
  <1>3. CASE Save(k) \/ Refuse(k) \/ Fail(k)
    BY <1>3 DEF Save, Refuse, Fail, Exit
  <1> QED
    BY <1>1, <1>2, <1>3 DEF Step

LEMMA InvStep == ApplyInv /\ [Next]_vars => ApplyInv'
  <1> SUFFICES ASSUME ApplyInv, [Next]_vars PROVE ApplyInv'
    OBVIOUS
  <1>1. TypeOK /\ TypeOK'
    BY TypeStep DEF ApplyInv
  <1> SUFFICES ASSUME NEW q \in Checkouts PROVE CheckoutInv(q)'
    BY <1>1 DEF ApplyInv
  <1>2. CheckoutInv(q)
    BY DEF ApplyInv
  <1>3. ASSUME NEW k \in Checkouts, Step(k) \/ Fail(k) PROVE CheckoutInv(q)'
    <2>1. LiveGrows
      BY <1>1, <1>3, AppliesOnlyAdd
    <2>2. CASE q = k
      BY <1>1, <1>2, <1>3, <2>1, <2>2, StartKeeps, ExistsKeeps, CreateKeeps, InfoKeeps,
         IndexKeeps, NextKeeps, SaveKeeps, ExitKeeps DEF Step
    <2>3. CASE q # k
      BY <1>1, <1>2, <1>3, <2>1, <2>3, OthersUntouched, OthersKeepInv
    <2> QED
      BY <2>2, <2>3
  <1>4. CASE Disturb
    BY <1>1, <1>2, <1>4, DisturbKeepsInv
  <1>5. CASE UNCHANGED vars
    BY <1>2, <1>5 DEF vars, own, CheckoutInv, PhaseInv, RecordInv, ProgressInv, SettledInv,
                      CheckModelRevision, Complete, Behind, Current
  <1> QED
    BY <1>3, <1>4, <1>5 DEF Next

-----------------------------------------------------------------------------
(* The inductive invariant of schema apply: types, and for each apply what it read,
   what it has passed and what a success promised. *)
THEOREM ApplyInvariance == Spec => []ApplyInv
  BY InitInv, InvStep, PTL DEF Spec

(* A success means that every collection is there with its geometry and all its
   indexes, and the pinned revision is on record (Apply, store/apply.go). *)
THEOREM SuccessIsComplete == Spec => []SuccessMeansProvisioned
  <1>1. ApplyInv => SuccessMeansProvisioned
    BY ProvisionedIsComplete DEF ApplyInv, CheckoutInv, SettledInv, SuccessMeansProvisioned
  <1> QED
    BY <1>1, ApplyInvariance, PTL

(* A recorded revision is not overwritten with another one, by any sequence of
   applies from any number of builds (checkModelRevision, store/apply.go). *)
THEOREM RevisionsAreKept == Spec => RevisionIsNeverRewritten
  <1> DEFINE Kept == \A k \in Checkouts, c \in Collections :
                         record'[k][c] \in {record[k][c], NoRecord} \/ record[k][c] = NoRecord
  <1>1. ASSUME ApplyInv, [Next]_vars PROVE Kept
    <2> SUFFICES ASSUME NEW k \in Checkouts, NEW c \in Collections, record'[k][c] # record[k][c],
                        record[k][c] # NoRecord
                 PROVE  record'[k][c] = NoRecord
      OBVIOUS
    <2>1. TypeOK /\ RecordInv(k)
      BY <1>1 DEF ApplyInv, CheckoutInv
    <2>2. CASE Disturb
      <3>1. \/ UNCHANGED record
            \/ \E q \in Checkouts : record' = [record EXCEPT ![q] = [d \in Collections |-> NoRecord]]
        BY <2>2 DEF Disturb, VolumeLost, VectorsEdited, IndexEdited, BuildChanges, RecordLost
      <3>2. record \in [Checkouts -> Records]
        BY <2>1 DEF TypeOK
      <3> QED
        BY <3>1, <3>2
    <2>3. ASSUME NEW q \in Checkouts, Save(q) PROVE FALSE
      <3>1. q = k /\ record'[k] = next[k]
        BY <2>1, <2>3 DEF Save, TypeOK
      <3>2. /\ record[k][c] \in {loaded[k][c], NoRecord}
            /\ next[k][c] = loaded[k][c] \/ (next[k][c] = rev[k] /\ loaded[k][c] \in {NoRecord, rev[k]})
        BY <2>1, <2>3, <3>1 DEF RecordInv, Save
      <3> QED
        BY <3>1, <3>2
    <2>4. ASSUME NEW q \in Checkouts, Step(q) \/ Fail(q), ~Save(q) PROVE UNCHANGED record
      BY <2>4 DEF Step, Start, CollectionExists, Create, GetCollectionInfo, ApplyIndex,
                  NextCollection, Refuse, Fail
    <2> QED
      BY <1>1, <2>2, <2>3, <2>4 DEF Next, vars, own
  <1> QED
    BY <1>1, ApplyInvariance, PTL DEF Spec, RevisionIsNeverRewritten

(* After a success an apply that runs again writes nothing, also while another
   checkout applies: it fails, or succeeds having found everything (Apply). *)
THEOREM RerunsWriteNothing == Spec => RerunWritesNothing
  <1> DEFINE Nothing == \A k \in Checkouts : settled[k] /\ settled'[k] =>
                            live' = live /\ record'[k] = record[k]
  <1>1. ASSUME ApplyInv, ApplyInv', [Next]_vars PROVE Nothing
    <2> SUFFICES ASSUME NEW k \in Checkouts, settled[k], settled'[k]
                 PROVE  live' = live /\ record'[k] = record[k]
      OBVIOUS
    <2>1. \A c \in Collections : Complete(c) /\ live[c] # Missing
      <3>1. SettledInv(k)
        BY <1>1 DEF ApplyInv, CheckoutInv
      <3> QED
        BY <3>1, InRange DEF SettledInv, Complete
    <2>2. ~Disturb
      BY DEF Disturb
    <2>3. live' = live
      <3>1. ASSUME NEW q \in Checkouts, Step(q) \/ Fail(q) PROVE live' = live
        <4>0. TypeOK
          BY <1>1 DEF ApplyInv
        <4>1. Current(q) \in Collections /\ (field[q] <= Len(Indexes) => Indexes[field[q]] \in Fields)
          BY <4>0, InRange DEF TypeOK, Current
        <4>2. \/ UNCHANGED live
              \/ field[q] <= Len(Indexes) /\ CreateFieldIndex(Current(q), Indexes[field[q]])
          BY <2>1, <3>1, <4>1 DEF Step, Start, CollectionExists, Create, GetCollectionInfo,
                             ApplyIndex, NextCollection, Save, Refuse, Fail
        <4> QED
          BY <2>1, <4>1, <4>2 DEF CreateFieldIndex, Complete
      <3> QED
        BY <1>1, <2>2, <3>1 DEF Next, vars, own
    <2>4. build' = build
      <3>1. ASSUME NEW q \in Checkouts, Step(q) \/ Fail(q) PROVE build' = build
        BY <3>1 DEF Step, Start, CollectionExists, Create, GetCollectionInfo, ApplyIndex,
                    NextCollection, Save, Refuse, Fail
      <3> QED
        BY <1>1, <2>2, <3>1 DEF Next, vars, own
    <2>5. SettledInv(k) /\ SettledInv(k)'
      BY <1>1 DEF ApplyInv, CheckoutInv
    <2> QED
      BY <2>3, <2>4, <2>5 DEF SettledInv
  <1> QED
    BY <1>1, ApplyInvariance, PTL DEF Spec, RerunWritesNothing
=============================================================================
