---------------------------- MODULE IngestProofs ----------------------------
(***************************************************************************)
(* The safety of Ingest for every set of processes, lock files, notes,     *)
(* vaults, flags and chunk counts, and for every bound on edits and faults.*)
(*                                                                         *)
(* The invariant is IndInv.  A step of a process is proved to keep it in   *)
(* three parts: the lock files, what the other processes know (they see    *)
(* every write made outside their lock as foreign, and every edit as a     *)
(* disturbance), and what the process itself knows.                        *)
(***************************************************************************)
EXTENDS IngestInv, TLAPS

-----------------------------------------------------------------------------
(* The data. *)

(* A note's points are points: what the writes store stays well typed. *)
LEMMA WritesKeepRows ==
    ASSUME NEW rows \in Rows
    PROVE  /\ \A from : DeleteByFilter(rows, from) \in Rows
           /\ \A n \in Notes : \A S : UpsertPoints(rows, n, S) \in Rows
  BY DEF Rows, Points, UpsertPoints, DeleteByFilter, PointOf

(* The integrity predicate accepts exactly one content of the index: the points
   a run over this very note would write (CheckIntegrity). *)
THEOREM IntegralIffExact ==
    ASSUME NEW rows \in Rows, NEW n \in Notes
    PROVE  CheckIntegrity(rows, n) <=> rows = ExpectedPoints(n)
<1>1. ASSUME CheckIntegrity(rows, n) PROVE rows = ExpectedPoints(n)
  <2>1. ASSUME NEW i \in Idx PROVE rows[i] = ExpectedPoints(n)[i]
    <3>1. CASE i \in ChunksOf(n)
      <4>1. rows[i] \in Points /\ rows[i].hash = n /\ rows[i].fields = n
        BY <1>1, <3>1 DEF CheckIntegrity, Rows
      <4>2. rows[i] = PointOf(n)
        BY <4>1 DEF Points, PointOf
      <4> QED BY <3>1, <4>2 DEF ExpectedPoints
    <3>2. CASE i \notin ChunksOf(n)
      BY <1>1, <3>2 DEF CheckIntegrity, ExpectedPoints
    <3> QED BY <3>1, <3>2
  <2> QED BY <2>1 DEF Rows, ExpectedPoints
<1>2. ASSUME rows = ExpectedPoints(n) PROVE CheckIntegrity(rows, n)
  <2>1. \A i \in ChunksOf(n) : i \in Idx /\ rows[i] = PointOf(n)
    BY <1>2 DEF ExpectedPoints, ChunksOf
  <2>2. \A i \in Idx \ ChunksOf(n) : rows[i] = NoPoint
    BY <1>2 DEF ExpectedPoints
  <2>3. PointOf(n) # NoPoint
    BY IndexAssumption DEF Points, PointOf
  <2> QED BY <2>1, <2>2, <2>3 DEF CheckIntegrity, PointOf
<1> QED BY <1>1, <1>2

(* Insert, then prune: deleting from the first index the note does not use turns
   an index that holds the note's chunks into exactly the note. *)
LEMMA TrimMakesExact ==
    ASSUME NEW rows \in Rows, NEW n \in Notes,
           \A i \in ChunksOf(n) : rows[i] = PointOf(n)
    PROVE  DeleteByFilter(rows, ChunkCount[n.ver]) = ExpectedPoints(n)
<1>1. ChunkCount[n.ver] \in Nat
  BY IndexAssumption DEF Notes
<1>2. ASSUME NEW i \in Idx
      PROVE  DeleteByFilter(rows, ChunkCount[n.ver])[i] = ExpectedPoints(n)[i]
  BY <1>1 DEF DeleteByFilter, ExpectedPoints, ChunksOf, Idx
<1> QED BY <1>2 DEF DeleteByFilter, ExpectedPoints

-----------------------------------------------------------------------------
(* Types. *)

USE IndexAssumption, IngestAssumption

(* While a note is being worked on, it is one of the scan. *)
LEMMA NoteInFlight ==
    ASSUME TypeOK, NEW p \in Procs, PlanInv(p), InNote(p)
    PROVE  /\ cur[p] \in Uids \ todo[p]
           /\ CurNote(p) \in Notes
           /\ result[p][cur[p]] = "none"
           /\ TailFrom(p) \in 0 .. MaxChunks
  BY DEF TypeOK, PlanInv, CurNote, TailFrom, Notes

(* A step that needs a fault spends one of the budget. *)
LEMMA FaultsCounted ==
    ASSUME TypeOK, NEW p \in Procs, Fault \/ FaultOrCancelled(p) \/ UNCHANGED faults
    PROVE  faults' \in 0 .. MaxFaults
  BY DEF TypeOK, Fault, FaultOrCancelled

(* A process that ends, however it ends, keeps the types. *)
LEMMA ExitTypes ==
    ASSUME TypeOK, NEW p \in Procs, Exit(p), UNCHANGED <<disk, edits, index>>,
           pending' \subseteq InFlight, faults' \in 0 .. MaxFaults
    PROVE  TypeOK'
  BY DEF TypeOK, Exit, Goto, Release, Labels, AnyOption, NothingScanned, Results

(* A note that ends gets one of the outcomes. *)
LEMMA EndNoteTypes ==
    ASSUME TypeOK, NEW p \in Procs, NEW r \in Results, cur[p] \in Uids, EndNote(p, r)
    PROVE  /\ pc' \in [Procs -> Labels]
           /\ todo' \in [Procs -> SUBSET Uids]
           /\ cur' \in [Procs -> Uids \union {NoUid}]
           /\ tries' \in [Procs -> 0 .. UpsertAttempts - 1]
           /\ result' \in [Procs -> [Uids -> Results]]
  BY DEF TypeOK, EndNote, Settle, Goto, Labels

(* A delete, whatever became of it, leaves points in the index and writes in flight. *)
LEMMA DeleteTypes ==
    ASSUME TypeOK, NEW p \in Procs, NEW u \in Uids, NEW from \in 0 .. MaxChunks,
           \/ DeleteEffect(p, u, from)
           \/ Delete(p, u, from) /\ UNCHANGED pending
           \/ DeleteUnapplied(u, from) /\ UNCHANGED <<index, foreign>>
    PROVE  /\ index' \in [Uids -> Rows]
           /\ pending' \subseteq InFlight
           /\ foreign' \in [Procs -> SUBSET Uids]
<1>1. ASSUME Delete(p, u, from)
      PROVE  index' \in [Uids -> Rows] /\ foreign' \in [Procs -> SUBSET Uids]
  BY <1>1, WritesKeepRows DEF TypeOK, Delete, WroteBy
<1>2. \A b \in BOOLEAN : [kind |-> "delete", uid |-> u, from |-> from, acked |-> b] \in InFlight
  BY DEF InFlight
<1> QED BY <1>1, <1>2 DEF TypeOK, DeleteEffect, DeleteUnapplied

(* So does an upsert that was not confirmed. *)
LEMMA UpsertTypes ==
    ASSUME TypeOK, NEW p \in Procs, cur[p] \in Uids, CurNote(p) \in Notes, UpsertEffect(p)
    PROVE  /\ index' \in [Uids -> Rows]
           /\ pending' \subseteq InFlight
           /\ foreign' \in [Procs -> SUBSET Uids]
<1>1. \A b \in BOOLEAN :
        [kind |-> "upsert", uid |-> cur[p], note |-> CurNote(p), acked |-> b] \in InFlight
  BY DEF InFlight
<1>2. ASSUME NEW S, index' = [index EXCEPT ![cur[p]] = UpsertPoints(@, CurNote(p), S)],
             foreign' = WroteBy(p, cur[p])
      PROVE  index' \in [Uids -> Rows] /\ foreign' \in [Procs -> SUBSET Uids]
  BY <1>2, WritesKeepRows DEF TypeOK, WroteBy
<1> QED BY <1>1, <1>2 DEF TypeOK, UpsertEffect

(* The candidates of a snapshot are orphans: a uid and the path a record of it names. *)
LEMMA OrphansOfSnapshot ==
    ASSUME NEW idx \in [Uids -> Rows], NEW notes, NEW vaults, NEW first \in FirstRecords(idx)
    PROVE  ScanOrphans(idx, notes, vaults, first) \subseteq Orphans
<1>1. ASSUME NEW u \in Uids, HasPoints(idx[u]) PROVE idx[u][first[u]].fields.loc \in Locs
  BY <1>1 DEF FirstRecords, Rows, Points, Notes
<1> DEFINE claimed(l) == \E w \in Uids : notes[w] # NoNote /\ notes[w].loc = l
<1>2. \A l : claimed(l) \in BOOLEAN
  OBVIOUS
<1> HIDE DEF claimed
<1>3. ASSUME NEW u \in Uids, HasPoints(idx[u])
      PROVE  [uid |-> u, loc |-> idx[u][first[u]].fields.loc,
              claimed |-> claimed(idx[u][first[u]].fields.loc)] \in Orphans
  BY <1>1, <1>2, <1>3 DEF Orphans
<1> QED BY <1>3 DEF ScanOrphans, claimed

(* A deletion candidate names a uid. *)
LEMMA OrphanIsUid ==
    ASSUME TypeOK, NEW p \in Procs
    PROVE  \A o \in orphans[p] : o.uid \in Uids
  BY DEF TypeOK, Orphans

(* Every step of a run keeps the types. *)
LEMMA BeforeLoopTypes ==
    ASSUME TypeOK, NEW p \in Procs,
           \/ Start(p) \/ TryAcquire(p) \/ RefusedByLock(p) \/ ScanVault(p) \/ ScanRefused(p)
           \/ HandshakeFails(p) \/ TakeSnapshot(p) \/ SnapshotFails(p)
    PROVE  TypeOK'
<1>1. CASE Start(p)
  BY <1>1 DEF TypeOK, Goto, Labels, Start, OptionType, world, store, loopv, prunev, stopv
<1>2. CASE TryAcquire(p)
  BY <1>2 DEF TypeOK, Goto, Labels, TryAcquire, world, store, plan, loopv, prunev, stopv
<1>3. CASE RefusedByLock(p) \/ ScanRefused(p) \/ HandshakeFails(p)
  BY <1>3, ExitTypes, FaultsCounted DEF TypeOK, RefusedByLock, ScanRefused, HandshakeFails, store
<1>4. CASE ScanVault(p)
  <2>1. PICK f : scan' = [scan EXCEPT ![p] = f] /\ f \in [Uids -> Notes \union {NoNote}]
    <3>1. PICK v \in unscanned[p] :
             scan' = [scan EXCEPT ![p] =
                [u \in Uids |-> IF \E l \in Found(v) : disk[l].uid = u
                                THEN LET l == CHOOSE l \in Found(v) : disk[l].uid = u
                                     IN [loc |-> l, ver |-> disk[l].ver]
                                ELSE scan[p][u]]]
      BY <1>4 DEF ScanVault
    <3>2. ASSUME NEW u \in Uids, \E l \in Found(v) : disk[l].uid = u
          PROVE  LET l == CHOOSE l \in Found(v) : disk[l].uid = u
                 IN [loc |-> l, ver |-> disk[l].ver] \in Notes
      <4> DEFINE l == CHOOSE l \in Found(v) : disk[l].uid = u
      <4>1. l \in Found(v)
        BY <3>2
      <4>2. l \in Locs /\ disk[l].ver \in Versions
        BY <4>1 DEF Found, Files
      <4> QED BY <4>2 DEF Notes
    <3>3. \A u \in Uids : scan[p][u] \in Notes \union {NoNote}
      BY DEF TypeOK
    <3> DEFINE f == [u \in Uids |-> IF \E l \in Found(v) : disk[l].uid = u
                                   THEN LET l == CHOOSE l \in Found(v) : disk[l].uid = u
                                        IN [loc |-> l, ver |-> disk[l].ver]
                                   ELSE scan[p][u]]
    <3>4. f \in [Uids -> Notes \union {NoNote}]
      BY <3>2, <3>3
    <3> QED BY <3>1, <3>4
  <2>2. scan' \in [Procs -> [Uids -> Notes \union {NoNote}]]
    BY <2>1 DEF TypeOK
  <2>3. pc' \in [Procs -> Labels]
    BY <1>4 DEF TypeOK, Goto, Labels, ScanVault
  <2>4. unscanned' \in [Procs -> SUBSET Vaults]
    BY <1>4 DEF TypeOK, ScanVault
  <2>5. UNCHANGED <<world, store, held, opt, snap, loopv, prunev, stopv, foreign, faults>>
    BY <1>4 DEF ScanVault
  <2> QED BY <2>2, <2>3, <2>4, <2>5 DEF TypeOK, world, store, loopv, prunev, stopv
<1>5. CASE TakeSnapshot(p)
  <2>1. orphans' \in [Procs -> SUBSET Orphans]
    <3>1. \A first \in FirstRecords(index) :
            ScanOrphans(index, scan[p], opt[p].vaults, first) \subseteq Orphans
      BY OrphansOfSnapshot DEF TypeOK
    <3> QED BY <1>5, <3>1 DEF TypeOK, TakeSnapshot
  <2>2. todo' \in [Procs -> SUBSET Uids]
    BY <1>5 DEF TypeOK, TakeSnapshot, Selected
  <2> QED BY <1>5, <2>1, <2>2 DEF TypeOK, Goto, Labels, TakeSnapshot, world, store, stopv
<1>6. CASE SnapshotFails(p)
  <2>1. todo' \in [Procs -> SUBSET Uids]
    BY <1>6 DEF TypeOK, SnapshotFails, Selected
  <2> QED BY <1>6, <2>1, FaultsCounted
          DEF TypeOK, Goto, Labels, SnapshotFails, world, store, plan, prunev, stopv
<1> QED BY <1>1, <1>2, <1>3, <1>4, <1>5, <1>6

(* The steps of the note loop keep the types. *)
LEMMA LoopTypes ==
    ASSUME TypeOK, NEW p \in Procs, PlanInv(p),
           \/ \E u \in Uids : SkipNote(p, u) \/ PreviewNote(p, u) \/ ReworkNote(p, u) \/ NoteFails(p, u)
           \/ Embed(p) \/ EmbedFails(p) \/ UpsertConfirmed(p) \/ UpsertNotConfirmed(p)
           \/ Trim(p) \/ TrimUnapplied(p) \/ TrimFails(p) \/ EndBatch(p)
    PROVE  TypeOK'
<1>1. ASSUME NEW u \in Uids, SkipNote(p, u) \/ PreviewNote(p, u) PROVE TypeOK'
  <2>1. CASE SkipNote(p, u)
    BY <2>1 DEF TypeOK, SkipNote, NextNote, Settle, Results, ReadFresh,
                world, store, plan, prunev, stopv
  <2>2. CASE PreviewNote(p, u)
    BY <2>2 DEF TypeOK, PreviewNote, NextNote, Settle, Results, ReadFresh,
                world, store, plan, prunev, stopv
  <2> QED BY <1>1, <2>1, <2>2
<1>2. ASSUME NEW u \in Uids, ReworkNote(p, u) PROVE TypeOK'
  BY <1>2 DEF TypeOK, Goto, Labels, ReworkNote, NextNote, ReadFresh, world, store, plan, prunev, stopv
<1>3. ASSUME NEW u \in Uids, NoteFails(p, u) PROVE TypeOK'
  BY <1>3, FaultsCounted
     DEF TypeOK, NoteFails, NextNote, Settle, Results, world, store, plan, prunev, stopv
<1>4. CASE Embed(p)
  BY <1>4 DEF TypeOK, Goto, Labels, Embed, world, store, plan, loopv, prunev, stopv
<1>5. CASE EmbedFails(p)
  BY <1>5, NoteInFlight, EndNoteTypes, FaultsCounted
     DEF TypeOK, EmbedFails, InNote, Results, world, store, plan, prunev, stopv
<1>6. CASE UpsertConfirmed(p)
  <2>1. cur[p] \in Uids /\ CurNote(p) \in Notes
    BY <1>6, NoteInFlight DEF UpsertConfirmed, InNote
  <2>2. index' \in [Uids -> Rows]
    BY <1>6, <2>1, WritesKeepRows DEF TypeOK, UpsertConfirmed
  <2>3. foreign' \in [Procs -> SUBSET Uids]
    <3>1. WroteBy(p, cur[p]) \in [Procs -> SUBSET Uids]
      BY <2>1 DEF TypeOK, WroteBy
    <3>2. foreign' = [WroteBy(p, cur[p]) EXCEPT ![p] = @ \ {cur[p]}]
      BY <1>6 DEF UpsertConfirmed
    <3> QED BY <3>1, <3>2
  <2> QED BY <1>6, <2>2, <2>3, SMTT(30)
          DEF TypeOK, Goto, Labels, UpsertConfirmed, world, plan, loopv, prunev, stopv
<1>7. CASE UpsertNotConfirmed(p)
  <2>1. cur[p] \in Uids /\ CurNote(p) \in Notes
    BY <1>7, NoteInFlight DEF UpsertNotConfirmed, InNote
  <2>2. CASE Retries(p)
    <3>1. tries' \in [Procs -> 0 .. UpsertAttempts - 1]
      <4>1. tries' = [tries EXCEPT ![p] = @ + 1]
        BY <1>7, <2>2 DEF UpsertNotConfirmed
      <4>2. tries[p] + 1 \in 0 .. UpsertAttempts - 1
        BY <2>2 DEF TypeOK, Retries
      <4> QED BY <4>1, <4>2 DEF TypeOK
    <3> QED BY <1>7, <2>1, <2>2, <3>1, UpsertTypes, FaultsCounted
            DEF TypeOK, UpsertNotConfirmed, world, plan, prunev, stopv
  <2>3. CASE ~Retries(p)
    BY <1>7, <2>1, <2>3, UpsertTypes, EndNoteTypes, FaultsCounted
       DEF TypeOK, UpsertNotConfirmed, Results, world, plan, prunev, stopv
  <2> QED BY <2>2, <2>3
<1>8. CASE Trim(p) \/ TrimUnapplied(p) \/ TrimFails(p)
  BY <1>8, NoteInFlight, DeleteTypes, EndNoteTypes, FaultsCounted
     DEF TypeOK, Trim, TrimUnapplied, TrimFails, InNote, Results, world, plan, prunev, stopv
<1>9. CASE EndBatch(p)
  BY <1>9 DEF TypeOK, Goto, Labels, EndBatch, world, store, plan, loopv, prunev
<1> QED BY <1>1, <1>2, <1>3, <1>4, <1>5, <1>6, <1>7, <1>8, <1>9

(* The steps after the loop, and the signals, keep the types. *)
LEMMA AfterLoopTypes ==
    ASSUME TypeOK, NEW p \in Procs,
           \/ SplitForReport(p) \/ SplitForPrune(p) \/ PruneOrphan(p) \/ PruneUnapplied(p)
           \/ PruneFails(p) \/ PruneDone(p) \/ Finish(p)
           \/ Interrupt(p) \/ CancelContext(p)
    PROVE  TypeOK'
<1>1. ASSUME SplitStillOnDisk(p)
      PROVE  /\ orphans' \in [Procs -> SUBSET Orphans] /\ onDisk' \in [Procs -> SUBSET Orphans]
             /\ faults' \in 0 .. MaxFaults
  BY <1>1, FaultsCounted DEF TypeOK, SplitStillOnDisk
<1>2. CASE SplitForReport(p)
  BY <1>1, <1>2 DEF TypeOK, Goto, Labels, SplitForReport, world, store, plan, loopv, stopv
<1>3. CASE SplitForPrune(p)
  BY <1>1, <1>3 DEF TypeOK, Goto, Labels, SplitForPrune, world, store, plan, loopv, stopv
<1>4. ASSUME NEW o \in Doomed(p) PROVE o.uid \in Uids /\ 0 \in 0 .. MaxChunks
  BY OrphanIsUid DEF Doomed
<1>5. CASE PruneOrphan(p) \/ PruneUnapplied(p)
  <2>1. gone' \in [Procs -> SUBSET Uids]
    <3>1. PICK o \in Doomed(p) : gone' = [gone EXCEPT ![p] = @ \union {o.uid}]
      BY <1>5 DEF PruneOrphan, PruneUnapplied
    <3> QED BY <1>4, <3>1 DEF TypeOK
  <2> QED BY <1>4, <1>5, <2>1, DeleteTypes, FaultsCounted
          DEF TypeOK, PruneOrphan, PruneUnapplied, world, plan, loopv, stopv
<1>6. CASE PruneFails(p)
  BY <1>4, <1>6, DeleteTypes, FaultsCounted
     DEF TypeOK, Goto, Labels, PruneFails, world, plan, loopv, stopv
<1>7. CASE PruneDone(p)
  BY <1>7 DEF TypeOK, Goto, Labels, PruneDone, world, store, plan, loopv, prunev, stopv
<1>8. CASE Finish(p)
  BY <1>8, ExitTypes DEF TypeOK, Finish, store
<1>9. CASE Interrupt(p) \/ CancelContext(p)
  BY <1>9, FaultsCounted
     DEF TypeOK, Interrupt, CancelContext, world, store, plan, loopv, prunev
<1> QED BY <1>2, <1>3, <1>5, <1>6, <1>7, <1>8, <1>9

(* Crashes, late writes and edits keep the types. *)
LEMMA AroundTypes ==
    ASSUME TypeOK,
           \/ \E p \in Procs : PlanInv(p) /\ Crash(p)
           \/ \E op \in pending : Land(op) \/ Lose(op)
           \/ \E u \in Uids, i \in Idx : AdminEdit(u, i)
           \/ \E l \in Locs : EditFile(l)
           \/ \E l, m \in Locs : MoveNote(l, m)
           \/ UNCHANGED vars
    PROVE  TypeOK'
<1>1. ASSUME NEW p \in Procs, PlanInv(p), Crash(p) PROVE TypeOK'
  <2>1. LastCall(p) \subseteq InFlight
    <3>1. CASE InNote(p)
      <4>1. /\ [kind |-> "upsert", uid |-> cur[p], note |-> CurNote(p), acked |-> FALSE] \in InFlight
            /\ [kind |-> "delete", uid |-> cur[p], from |-> TailFrom(p), acked |-> FALSE] \in InFlight
        BY <3>1, <1>1, NoteInFlight DEF InFlight
      <4> QED BY <3>1, <4>1 DEF LastCall, InNote
    <3>2. CASE ~InNote(p)
      <4>1. \A o \in Doomed(p) :
              [kind |-> "delete", uid |-> o.uid, from |-> 0, acked |-> FALSE] \in InFlight
        BY OrphanIsUid DEF Doomed, InFlight
      <4> QED BY <3>2, <4>1 DEF LastCall, InNote
    <3> QED BY <3>1, <3>2
  <2> QED BY <1>1, <2>1, ExitTypes, FaultsCounted DEF TypeOK, Crash
<1>2. ASSUME NEW op \in pending, Land(op) PROVE TypeOK'
  <2>1. op.uid \in Uids /\ (op.kind = "upsert" => op.note \in Notes)
    BY DEF TypeOK, InFlight
  <2>2. index' \in [Uids -> Rows]
    BY <1>2, <2>1, WritesKeepRows DEF TypeOK, Land
  <2>3. foreign' \in [Procs -> SUBSET Uids]
    BY <1>2, <2>1 DEF TypeOK, Land, WroteByNobody
  <2> QED BY <1>2, <2>2, <2>3 DEF TypeOK, Land, world, plan, loopv, prunev, stopv
<1>3. ASSUME NEW op \in pending, Lose(op) PROVE TypeOK'
  BY <1>3 DEF TypeOK, Lose, world, plan, loopv, prunev, stopv
<1>4. ASSUME NEW u \in Uids, NEW i \in Idx, AdminEdit(u, i) PROVE TypeOK'
  <2>1. index[u][i] \in Points
    BY <1>4 DEF TypeOK, AdminEdit, Rows
  <2>2. \A n \in Notes : [index EXCEPT ![u][i].fields = n] \in [Uids -> Rows]
    BY <2>1 DEF TypeOK, Rows, Points
  <2>3. foreign' \in [Procs -> SUBSET Uids]
    BY <1>4 DEF TypeOK, AdminEdit, WroteByNobody
  <2>4. index' \in [Uids -> Rows] /\ faults' \in 0 .. MaxFaults
    <3>1. PICK n \in Notes : index' = [index EXCEPT ![u][i].fields = n]
      BY <1>4 DEF AdminEdit
    <3>2. index' \in [Uids -> Rows]
      BY <2>2, <3>1
    <3> QED BY <1>4, <3>2 DEF TypeOK, AdminEdit, Fault
  <2> QED BY <1>4, <2>3, <2>4 DEF TypeOK, AdminEdit, world, plan, loopv, prunev, stopv
<1>5. ASSUME NEW S \in SUBSET Locs, Disturb(S), disk' \in [Locs -> FileStates] PROVE TypeOK'
  BY <1>5 DEF TypeOK, Disturb, store, plan, loopv, prunev, stopv
<1>6. ASSUME NEW l \in Locs, EditFile(l) PROVE TypeOK'
  <2>1. disk' \in [Locs -> FileStates]
    BY <1>6 DEF TypeOK, EditFile
  <2> QED BY <1>5, <1>6, <2>1 DEF EditFile
<1>7. ASSUME NEW l \in Locs, NEW m \in Locs, MoveNote(l, m) PROVE TypeOK'
  <2>1. disk' \in [Locs -> FileStates]
    BY <1>7 DEF TypeOK, MoveNote, FileStates
  <2> QED BY <1>5, <1>7, <2>1 DEF MoveNote
<1>8. CASE UNCHANGED vars
  BY <1>8 DEF TypeOK, vars, world, store, plan, loopv, prunev, stopv
<1> QED BY <1>1, <1>2, <1>3, <1>4, <1>6, <1>7, <1>8


-----------------------------------------------------------------------------
(* What a process knows is kept by a step it takes no part in. *)

Same(q) ==
    /\ pc'[q] = pc[q] /\ opt'[q] = opt[q] /\ unscanned'[q] = unscanned[q]
    /\ scan'[q] = scan[q] /\ snap'[q] = snap[q] /\ todo'[q] = todo[q]
    /\ cur'[q] = cur[q] /\ result'[q] = result[q] /\ orphans'[q] = orphans[q]
    /\ interrupted'[q] = interrupted[q] /\ gone'[q] = gone[q] /\ onDisk'[q] = onDisk[q]

SeesWrites(q) ==
    /\ foreign[q] \subseteq foreign'[q]
    /\ ~Early(q) => \A u \in Uids \ foreign'[q] :
            index'[u] = index[u] /\ (DeleteOutstanding(u) => DeleteOutstanding(u)')

SeesEdits(q) ==
    /\ disturbed[q] \subseteq disturbed'[q]
    /\ pc[q] # "idle" => \A l \in Locs \ disturbed'[q] : disk'[l] = disk[l]

(* A process keeps what it knows through any step that leaves its own variables
   alone, as long as it is told of the writes and of the edits. *)
LEMMA Untouched ==
    ASSUME TypeOK, TypeOK', NEW q \in Procs, ProcInv(q), Same(q), SeesWrites(q), SeesEdits(q)
    PROVE  ProcInv(q)'
<1>1. PhaseInv(q)'
  BY DEF ProcInv, PhaseInv, Same, Early
<1>2. PlanInv(q)'
  BY DEF ProcInv, PlanInv, Same, Early, Late, InNote, Selected
<1>3. SnapInv(q)'
  BY DEF ProcInv, SnapInv, PhaseInv, Early, Same, SeesWrites, TypeOK
<1>4. InsertedInv(q)'
  <2> SUFFICES ASSUME pc[q] = "trim", cur[q] \notin foreign'[q]
               PROVE  \A i \in ChunksOf(CurNote(q)) : index'[cur[q]][i] = PointOf(CurNote(q))
    BY DEF InsertedInv, Same, CurNote
  <2>1. cur[q] \in Uids
    BY DEF ProcInv, PlanInv, InNote
  <2>2. index'[cur[q]] = index[cur[q]] /\ cur[q] \notin foreign[q]
    BY <2>1 DEF SeesWrites, Early
  <2> QED BY <2>2 DEF ProcInv, InsertedInv
<1>5. ScannedInv(q)'
  BY DEF ProcInv, ScannedInv, Same, SeesEdits
<1>6. OrphanInv(q)'
  BY DEF ProcInv, OrphanInv, Same, SeesEdits, MayPrune, OrphansScanned, TypeOK, Orphans
<1>7. Exact(q)'
  BY DEF ProcInv, Exact, PhaseInv, Early, Same, SeesWrites, TypeOK
<1> QED BY <1>1, <1>2, <1>3, <1>4, <1>5, <1>6, <1>7 DEF ProcInv

(* A process that is past the lock and is not the writer is under another lock,
   or is a dry run: a write is news to it. *)
LEMMA WriteIsSeen ==
    ASSUME TypeOK, LockInv, NEW p \in Procs, Writing(p), NEW u \in Uids,
           \A w \in Uids \ {u} : index'[w] = index[w],
           pending \subseteq pending',
           NEW q \in Procs \ {p}, foreign'[q] = WroteBy(p, u)[q]
    PROVE  SeesWrites(q)
<1>1. ~Early(q) => LockKey[q] # LockKey[p] \/ opt[q].dryRun
  BY DEF LockInv, Writing, Early
<1>2. ~Early(q) => u \in foreign'[q]
  BY <1>1 DEF Early, Running, WroteBy
<1>3. foreign[q] \subseteq foreign'[q]
  BY DEF WroteBy
<1> QED BY <1>2, <1>3 DEF SeesWrites, DeleteOutstanding

(* A step that writes nothing is no news to anybody. *)
LEMMA QuietIsSeen ==
    ASSUME TypeOK, index' = index, pending \subseteq pending',
           NEW q \in Procs, foreign'[q] = foreign[q]
    PROVE  SeesWrites(q)
  BY DEF SeesWrites, DeleteOutstanding

(* A delete is seen by every other process, applied or not. *)
LEMMA DeleteIsSeen ==
    ASSUME TypeOK, LockInv, NEW p \in Procs, Writing(p), NEW u \in Uids, NEW from,
           \/ DeleteEffect(p, u, from)
           \/ Delete(p, u, from) /\ UNCHANGED pending
           \/ DeleteUnapplied(u, from) /\ UNCHANGED <<index, foreign>>
    PROVE  \A q \in Procs \ {p} : SeesWrites(q)
<1>1. CASE Delete(p, u, from) /\ UNCHANGED pending
  BY <1>1, WriteIsSeen DEF TypeOK, Delete
<1>2. CASE UNCHANGED <<index, foreign>> /\ pending \subseteq pending'
  BY <1>2, QuietIsSeen
<1> QED BY <1>1, <1>2 DEF DeleteEffect, DeleteUnapplied

-----------------------------------------------------------------------------
(* The other processes, action by action. *)

LEMMA OthersBeforeLoop ==
    ASSUME TypeOK, NEW p \in Procs, NEW q \in Procs \ {p},
           \/ Start(p) \/ TryAcquire(p) \/ RefusedByLock(p) \/ ScanVault(p) \/ ScanRefused(p)
           \/ HandshakeFails(p) \/ TakeSnapshot(p) \/ SnapshotFails(p) \/ Finish(p) \/ Crash(p)
    PROVE  Same(q) /\ SeesEdits(q) /\ SeesWrites(q)
<1> USE DEF TypeOK, Goto, Same, SeesEdits, SeesWrites, DeleteOutstanding, world, store, plan, loopv, prunev, stopv
<1>1. CASE Start(p) \/ TryAcquire(p)
  BY <1>1 DEF Start, TryAcquire
<1>2. ASSUME Exit(p), UNCHANGED <<disk, index>>, pending \subseteq pending'
      PROVE  Same(q) /\ SeesEdits(q) /\ SeesWrites(q)
  BY <1>2 DEF Exit
<1>3. CASE RefusedByLock(p) \/ ScanRefused(p) \/ HandshakeFails(p) \/ Finish(p)
  BY <1>2, <1>3 DEF RefusedByLock, ScanRefused, HandshakeFails, Finish
<1>4. CASE Crash(p)
  BY <1>2, <1>4 DEF Crash
<1>5. CASE ScanVault(p)
  BY <1>5 DEF ScanVault
<1>6. CASE TakeSnapshot(p)
  BY <1>6 DEF TakeSnapshot
<1>7. CASE SnapshotFails(p)
  BY <1>7 DEF SnapshotFails
<1> QED BY <1>1, <1>3, <1>4, <1>5, <1>6, <1>7

(* A process in the note loop, or pruning, writes under its lock. *)
LEMMA InLoopWrites ==
    ASSUME NEW p \in Procs, ProcInv(p)
    PROVE  InNote(p) \/ pc[p] = "prune" => Writing(p)
  BY DEF ProcInv, PlanInv, PhaseInv, OrphanInv, InNote, Writing, ValidModes

(* The note loop of one process, as the others see it. *)
LEMMA OthersInLoop ==
    ASSUME TypeOK, LockInv, NEW p \in Procs, ProcInv(p), NEW q \in Procs \ {p},
           \/ \E u \in Uids : SkipNote(p, u) \/ PreviewNote(p, u) \/ ReworkNote(p, u) \/ NoteFails(p, u)
           \/ Embed(p) \/ EmbedFails(p) \/ UpsertConfirmed(p) \/ UpsertNotConfirmed(p)
           \/ Trim(p) \/ TrimUnapplied(p) \/ TrimFails(p) \/ EndBatch(p)
    PROVE  Same(q) /\ SeesEdits(q) /\ SeesWrites(q)
<1> USE DEF Goto, Same, SeesEdits, world, store, plan, loopv, prunev, stopv
<1>1. ASSUME NEW u \in Uids,
             SkipNote(p, u) \/ PreviewNote(p, u) \/ ReworkNote(p, u) \/ NoteFails(p, u)
      PROVE  Same(q) /\ SeesEdits(q) /\ SeesWrites(q)
  <2>1. foreign'[q] = foreign[q] /\ UNCHANGED store
    BY <1>1 DEF TypeOK, SkipNote, PreviewNote, ReworkNote, NoteFails, ReadFresh
  <2> QED BY <1>1, <2>1, QuietIsSeen
          DEF TypeOK, SkipNote, PreviewNote, ReworkNote, NoteFails, NextNote, Settle
<1>2. CASE Embed(p) \/ EmbedFails(p) \/ EndBatch(p)
  BY <1>2, QuietIsSeen DEF TypeOK, Embed, EmbedFails, EndBatch, EndNote, Settle
<1>3. CASE UpsertConfirmed(p)
  <2>1. cur[p] \in Uids /\ Writing(p)
    BY <1>3, NoteInFlight, InLoopWrites DEF UpsertConfirmed, InNote, ProcInv
  <2>2. foreign'[q] = WroteBy(p, cur[p])[q]
    BY <1>3 DEF TypeOK, UpsertConfirmed, WroteBy
  <2>3. SeesWrites(q)
    BY <1>3, <2>1, <2>2, WriteIsSeen DEF TypeOK, UpsertConfirmed
  <2> QED BY <1>3, <2>3 DEF TypeOK, UpsertConfirmed
<1>4. CASE UpsertNotConfirmed(p)
  <2>1. cur[p] \in Uids /\ Writing(p)
    BY <1>4, NoteInFlight, InLoopWrites DEF UpsertNotConfirmed, InNote, ProcInv
  <2>2. CASE UNCHANGED <<index, foreign>> /\ pending \subseteq pending'
    BY <1>4, <2>2, QuietIsSeen DEF TypeOK, UpsertNotConfirmed, EndNote, Settle
  <2>3. CASE UNCHANGED pending /\ foreign' = WroteBy(p, cur[p])
             /\ \A w \in Uids \ {cur[p]} : index'[w] = index[w]
    BY <1>4, <2>1, <2>3, WriteIsSeen, ZenonT(60) DEF TypeOK, UpsertNotConfirmed, EndNote, Settle
  <2> QED BY <1>4, <2>2, <2>3 DEF TypeOK, UpsertNotConfirmed, UpsertEffect
<1>5. CASE Trim(p) \/ TrimUnapplied(p) \/ TrimFails(p)
  <2>1. cur[p] \in Uids /\ Writing(p)
    BY <1>5, NoteInFlight, InLoopWrites DEF Trim, TrimUnapplied, TrimFails, InNote, ProcInv
  <2>2. SeesWrites(q)
    BY <1>5, <2>1, DeleteIsSeen DEF Trim, TrimUnapplied, TrimFails
  <2> QED BY <1>5, <2>2 DEF TypeOK, Trim, TrimUnapplied, TrimFails, EndNote, Settle
<1> QED BY <1>1, <1>2, <1>3, <1>4, <1>5

(* The prune of one process, as the others see it. *)
LEMMA OthersAfterLoop ==
    ASSUME TypeOK, LockInv, NEW p \in Procs, ProcInv(p), NEW q \in Procs \ {p},
           \/ SplitForReport(p) \/ SplitForPrune(p) \/ PruneOrphan(p) \/ PruneUnapplied(p)
           \/ PruneFails(p) \/ PruneDone(p)
    PROVE  Same(q) /\ SeesEdits(q) /\ SeesWrites(q)
<1> USE DEF Goto, Same, SeesEdits, world, store, plan, loopv, prunev, stopv
<1>1. CASE SplitForReport(p) \/ SplitForPrune(p) \/ PruneDone(p)
  BY <1>1, QuietIsSeen DEF TypeOK, SplitForReport, SplitForPrune, PruneDone, SplitStillOnDisk
<1>2. CASE PruneOrphan(p) \/ PruneUnapplied(p) \/ PruneFails(p)
  <2>1. Writing(p) /\ \A o \in Doomed(p) : o.uid \in Uids
    BY <1>2, OrphanIsUid, InLoopWrites DEF PruneOrphan, PruneUnapplied, PruneFails, Doomed
  <2>2. SeesWrites(q)
    BY <1>2, <2>1, DeleteIsSeen DEF PruneOrphan, PruneUnapplied, PruneFails
  <2> QED BY <1>2, <2>2 DEF TypeOK, PruneOrphan, PruneUnapplied, PruneFails
<1> QED BY <1>1, <1>2

(* A step of the store, of the people or of a signal is one no process takes part in. *)
LEMMA AroundIsSeen ==
    ASSUME TypeOK, NEW q \in Procs,
           \/ \E p \in Procs : Interrupt(p) \/ CancelContext(p)
           \/ \E op \in pending : Land(op) \/ Lose(op)
           \/ \E u \in Uids, i \in Idx : AdminEdit(u, i)
           \/ \E l \in Locs : EditFile(l)
           \/ \E l, m \in Locs : MoveNote(l, m)
           \/ UNCHANGED vars
    PROVE  Same(q) /\ SeesEdits(q) /\ SeesWrites(q) /\ UNCHANGED held
<1> USE DEF Same, SeesEdits, world, store, plan, loopv, prunev, stopv
<1>1. CASE \E p \in Procs : Interrupt(p) \/ CancelContext(p)
  BY <1>1, QuietIsSeen DEF Interrupt, CancelContext
<1>2. ASSUME NEW op \in pending, Land(op)
      PROVE  Same(q) /\ SeesEdits(q) /\ SeesWrites(q) /\ UNCHANGED held
  <2>1. op.uid \in Uids
    BY DEF TypeOK, InFlight
  <2>2. ~Early(q) => op.uid \in foreign'[q]
    BY <1>2 DEF Land, WroteByNobody, Early, Running
  <2>3. \A u \in Uids \ {op.uid} : /\ index'[u] = index[u]
                                   /\ DeleteOutstanding(u) => DeleteOutstanding(u)'
    BY <1>2 DEF TypeOK, Land, DeleteOutstanding
  <2>4. foreign[q] \subseteq foreign'[q]
    BY <1>2 DEF Land, WroteByNobody
  <2> QED BY <1>2, <2>2, <2>3, <2>4 DEF Land, SeesWrites
<1>3. ASSUME NEW op \in pending, Lose(op)
      PROVE  Same(q) /\ SeesEdits(q) /\ SeesWrites(q) /\ UNCHANGED held
  BY <1>3 DEF Lose, SeesWrites, DeleteOutstanding
<1>4. ASSUME NEW u \in Uids, NEW i \in Idx, AdminEdit(u, i)
      PROVE  Same(q) /\ SeesEdits(q) /\ SeesWrites(q) /\ UNCHANGED held
  <2>1. \A w \in Uids \ {u} : index'[w] = index[w]
    BY <1>4 DEF TypeOK, AdminEdit
  <2>2. ~Early(q) => u \in foreign'[q]
    BY <1>4 DEF AdminEdit, WroteByNobody, Early, Running
  <2>3. foreign[q] \subseteq foreign'[q]
    BY <1>4 DEF AdminEdit, WroteByNobody
  <2> QED BY <1>4, <2>1, <2>2, <2>3 DEF AdminEdit, SeesWrites, DeleteOutstanding
<1>5. ASSUME NEW S, Disturb(S), \A l \in Locs \ S : disk'[l] = disk[l]
      PROVE  Same(q) /\ SeesEdits(q) /\ SeesWrites(q) /\ UNCHANGED held
  BY <1>5, QuietIsSeen DEF Disturb, Running
<1>6. ASSUME NEW l \in Locs, EditFile(l)
      PROVE  Same(q) /\ SeesEdits(q) /\ SeesWrites(q) /\ UNCHANGED held
  BY <1>5, <1>6 DEF EditFile, TypeOK
<1>7. ASSUME NEW l \in Locs, NEW m \in Locs, MoveNote(l, m)
      PROVE  Same(q) /\ SeesEdits(q) /\ SeesWrites(q) /\ UNCHANGED held
  BY <1>5, <1>7 DEF MoveNote, TypeOK
<1>8. CASE UNCHANGED vars
  BY <1>8, QuietIsSeen DEF vars
<1> QED BY <1>1, <1>2, <1>3, <1>4, <1>6, <1>7, <1>8

-----------------------------------------------------------------------------
(* The lock files. *)

LEMMA LockKept ==
    ASSUME TypeOK, LockInv, UNCHANGED held, \A q \in Procs : Writing(q)' <=> Writing(q)
    PROVE  LockInv'
  BY DEF LockInv, Writing, TypeOK

(* A process that ends leaves its lock file free: the kernel drops the flock. *)
LEMMA ExitKeepsLock ==
    ASSUME TypeOK, TypeOK', LockInv, NEW p \in Procs, Exit(p)
    PROVE  LockInv'
<1>1. /\ pc' = [pc EXCEPT ![p] = "idle"]
      /\ \A q \in Procs \ {p} : opt'[q] = opt[q]
      /\ \A k \in Keys : held'[k] = IF held[k] = p THEN NoProc ELSE held[k]
  BY DEF Exit, Goto, Release, TypeOK
<1>2. ~Writing(p)' /\ \A q \in Procs \ {p} : Writing(q)' <=> Writing(q)
  BY <1>1 DEF Writing, TypeOK
<1>3. ASSUME NEW q \in Procs, Writing(q)' PROVE held'[LockKey[q]] = q
  BY <1>1, <1>2, <1>3 DEF LockInv
<1>4. ASSUME NEW k \in Keys, held'[k] # NoProc
      PROVE  Writing(held[k])' /\ LockKey[held'[k]] = k
  <2>1. held'[k] = held[k] /\ held[k] \in Procs \ {p}
    BY <1>1, <1>4 DEF TypeOK
  <2>2. Writing(held[k]) /\ LockKey[held[k]] = k
    BY <1>4, <2>1 DEF LockInv
  <2> QED BY <1>1, <2>1, <2>2 DEF Writing, TypeOK
<1> QED BY <1>3, <1>4 DEF LockInv

(* A run that is past the lock moves on: the lock files are as they were. *)
LEMMA MovesOn ==
    ASSUME TypeOK, LockInv, NEW p \in Procs, UNCHANGED <<held, opt>>,
           pc[p] \notin {"idle", "acquire"},
           NEW l \in {"loop", "prune", "report"}, pc' \in {pc, [pc EXCEPT ![p] = l]}
    PROVE  LockInv'
<1>1. \A q \in Procs : Writing(q)' <=> Writing(q)
  BY DEF Writing, TypeOK
<1> QED BY <1>1, LockKept

(* No step of a run takes a lock another holds, or writes without one. *)
LEMMA StepKeepsLock ==
    ASSUME TypeOK, TypeOK', LockInv, NEW p \in Procs, ProcInv(p), RunStep(p) \/ Crash(p)
    PROVE  LockInv'
<1> USE DEF Goto, world, store, plan, loopv, prunev, stopv
<1>1. CASE RefusedByLock(p) \/ ScanRefused(p) \/ HandshakeFails(p) \/ Finish(p) \/ Crash(p)
  BY <1>1, ExitKeepsLock DEF RefusedByLock, ScanRefused, HandshakeFails, Finish, Crash
<1>2. CASE Start(p)
  BY <1>2, LockKept DEF TypeOK, Start, Writing
<1>3. CASE TryAcquire(p)
  <2>1. /\ pc' = [pc EXCEPT ![p] = "scan"] /\ opt' = opt /\ held[LockKey[p]] = NoProc
        /\ held' = [held EXCEPT ![LockKey[p]] = p] /\ LockKey[p] \in Keys
    BY <1>3 DEF TryAcquire, Keys
  <2>2. Writing(p)' /\ \A q \in Procs \ {p} : Writing(q)' <=> Writing(q)
    BY <1>3, <2>1 DEF Writing, TypeOK, ProcInv, PhaseInv, TryAcquire
  <2>3. ASSUME NEW q \in Procs \ {p}, Writing(q)' PROVE held'[LockKey[q]] = q
    BY <2>1, <2>2, <2>3 DEF LockInv, TypeOK
  <2>4. ASSUME NEW k \in Keys \ {LockKey[p]}, held'[k] # NoProc
        PROVE  Writing(held[k])' /\ LockKey[held'[k]] = k
    <3>1. held'[k] = held[k] /\ held[k] \in Procs /\ Writing(held[k]) /\ LockKey[held[k]] = k
      BY <2>1, <2>4 DEF LockInv, TypeOK
    <3>2. held[k] # p
      BY <3>1, <2>4
    <3> QED BY <2>1, <3>1, <3>2 DEF Writing, TypeOK
  <2>5. held'[LockKey[p]] = p /\ Writing(held[LockKey[p]])'
    BY <2>1, <2>2 DEF TypeOK, Writing
  <2> QED BY <2>2, <2>3, <2>4, <2>5 DEF LockInv
<1>4. CASE ScanVault(p) \/ TakeSnapshot(p) \/ SnapshotFails(p)
  BY <1>4, LockKept DEF TypeOK, Writing, ScanVault, TakeSnapshot, SnapshotFails
<1>5. ASSUME NEW u \in Uids,
             SkipNote(p, u) \/ PreviewNote(p, u) \/ ReworkNote(p, u) \/ NoteFails(p, u)
      PROVE  LockInv'
  BY <1>5, LockKept DEF TypeOK, Writing, SkipNote, PreviewNote, ReworkNote, NoteFails, NextNote
<1>6. CASE Embed(p) \/ UpsertConfirmed(p) \/ EndBatch(p)
  BY <1>6, LockKept DEF TypeOK, Writing, Embed, UpsertConfirmed, EndBatch
<1>7. CASE EmbedFails(p) \/ UpsertNotConfirmed(p)
  BY <1>7, MovesOn DEF EmbedFails, UpsertNotConfirmed, EndNote
<1>8. CASE Trim(p) \/ TrimUnapplied(p) \/ TrimFails(p)
  BY <1>8, MovesOn DEF Trim, TrimUnapplied, TrimFails, EndNote
<1>9. CASE SplitForReport(p) \/ SplitForPrune(p) \/ PruneDone(p)
  BY <1>9, LockKept DEF TypeOK, Writing, SplitForReport, SplitForPrune, PruneDone
<1>10. CASE PruneOrphan(p) \/ PruneUnapplied(p) \/ PruneFails(p)
  BY <1>10, MovesOn DEF PruneOrphan, PruneUnapplied, PruneFails
<1> QED BY <1>1, <1>2, <1>3, <1>4, <1>5, <1>6, <1>7, <1>8, <1>9, <1>10 DEF RunStep

-----------------------------------------------------------------------------
(* The process itself. *)

LEMMA ExitForgets ==
    ASSUME TypeOK, NEW p \in Procs, Exit(p)
    PROVE  ProcInv(p)'
<1> USE DEF Exit, Goto, TypeOK
<1>1. (PhaseInv(p) /\ PlanInv(p) /\ OrphanInv(p))'
  BY DEF PhaseInv, PlanInv, OrphanInv, Early, Late, InNote, Selected
<1>2. (SnapInv(p) /\ InsertedInv(p) /\ ScannedInv(p) /\ Exact(p))'
  BY DEF SnapInv, InsertedInv, ScannedInv, Exact
<1> QED BY <1>1, <1>2 DEF ProcInv

(* A write of the process itself, to the note u, leaves what it knows of the
   other notes, and of u only what it says of it afterwards. *)
LEMMA OwnWrite ==
    ASSUME TypeOK, TypeOK', NEW p \in Procs, ProcInv(p), NEW u \in Uids,
           snap'[p] = snap[p], todo'[p] = todo[p], scan'[p] = scan[p], opt'[p] = opt[p],
           u \notin todo[p],
           \A w \in Uids \ {u} : /\ index'[w] = index[w]
                                 /\ w \in foreign[p] => w \in foreign'[p]
                                 /\ DeleteOutstanding(w) => DeleteOutstanding(w)'
                                 /\ result'[p][w] = result[p][w],
           \/ result'[p][u] \in {"none", "failed"}
           \/ DeleteOutstanding(u)'
           \/ u \in foreign'[p]
           \/ index'[u] = ExpectedPoints(scan[p][u])
    PROVE  SnapInv(p)' /\ Exact(p)'
<1>1. SnapInv(p)'
  BY DEF ProcInv, SnapInv, TypeOK
<1>2. Exact(p)'
  BY DEF ProcInv, Exact, TypeOK
<1> QED BY <1>1, <1>2

(* Scanning and reading the snapshot establish what the run knows. *)
LEMMA OwnBeforeLoop ==
    ASSUME TypeOK, TypeOK', NEW p \in Procs, ProcInv(p),
           \/ Start(p) \/ TryAcquire(p) \/ ScanVault(p) \/ TakeSnapshot(p) \/ SnapshotFails(p)
    PROVE  ProcInv(p)'
<1> USE DEF ProcInv, TypeOK, Goto, Early, Late, InNote, Selected,
            world, store, plan, loopv, prunev, stopv
<1>1. CASE Start(p)
  <2> USE <1>1 DEF Start
  <2>1. (PhaseInv(p) /\ PlanInv(p) /\ OrphanInv(p))'
    BY DEF PhaseInv, PlanInv, OrphanInv, MayPrune, OrphansScanned, Orphans
  <2>2. (SnapInv(p) /\ InsertedInv(p) /\ ScannedInv(p) /\ Exact(p))'
    BY DEF PhaseInv, PlanInv, SnapInv, InsertedInv, ScannedInv, Exact, CurNote, DeleteOutstanding
  <2> QED BY <2>1, <2>2
<1>2. CASE TryAcquire(p)
  <2> USE <1>2 DEF TryAcquire
  <2>1. (PhaseInv(p) /\ PlanInv(p) /\ OrphanInv(p))'
    BY DEF PhaseInv, PlanInv, OrphanInv, MayPrune, OrphansScanned, Orphans
  <2>2. (SnapInv(p) /\ InsertedInv(p) /\ ScannedInv(p) /\ Exact(p))'
    BY DEF PhaseInv, PlanInv, SnapInv, InsertedInv, ScannedInv, Exact, CurNote, DeleteOutstanding
  <2> QED BY <2>1, <2>2
<1>3. CASE ScanVault(p)
  <2> DEFINE found(v) == [u \in Uids |->
                IF \E l \in Found(v) : disk[l].uid = u
                THEN LET l == CHOOSE l \in Found(v) : disk[l].uid = u
                     IN [loc |-> l, ver |-> disk[l].ver]
                ELSE scan[p][u]]
  <2> HIDE DEF found
  <2>0. PICK v \in unscanned[p] :
          /\ ~ScanFails(p, v)
          /\ scan' = [scan EXCEPT ![p] = found(v)]
          /\ unscanned' = [unscanned EXCEPT ![p] = @ \ {v}]
          /\ pc' = [pc EXCEPT ![p] = IF unscanned[p] = {v} THEN "connect" ELSE "scan"]
    BY <1>3 DEF ScanVault, found
  <2>1. (PhaseInv(p) /\ PlanInv(p) /\ OrphanInv(p))'
    <3>1. unscanned'[p] = unscanned[p] \ {v} /\ (pc'[p] \notin {"acquire", "scan"} => unscanned'[p] = {})
      BY <2>0
    <3>2. pc[p] = "scan" /\ pc'[p] \in {"connect", "scan"}
      BY <1>3, <2>0 DEF ScanVault
    <3>3. PhaseInv(p)'
      BY <1>3, <3>1, <3>2 DEF ScanVault, PhaseInv
    <3>4. (PlanInv(p) /\ OrphanInv(p))'
      BY <1>3, <3>2 DEF ScanVault, PhaseInv, PlanInv, OrphanInv
    <3> QED BY <3>3, <3>4
  <2>2. (SnapInv(p) /\ InsertedInv(p) /\ Exact(p))'
    BY <1>3, <2>0, ZenonT(60) DEF ScanVault, PhaseInv, SnapInv, InsertedInv, Exact
  <2>3. ScannedInv(p)'
    <3>1. scan'[p] = found(v) /\ unscanned'[p] = unscanned[p] \ {v}
      BY <2>0
    <3>2. ASSUME NEW l \in Found(v) PROVE scan'[p][disk[l].uid] = [loc |-> l, ver |-> disk[l].ver]
      <4> DEFINE m == CHOOSE m \in Found(v) : disk[m].uid = disk[l].uid
      <4>1. m \in Found(v) /\ disk[m].uid = disk[l].uid /\ disk[l].uid \in Uids
        BY DEF Found, Files
      <4>2. m = l
        BY <2>0, <4>1 DEF ScanFails
      <4>3. scan'[p][disk[l].uid] = [loc |-> m, ver |-> disk[m].ver]
        BY <3>1, <4>1 DEF found
      <4> QED BY <4>2, <4>3
    <3>3. ASSUME NEW u \in Uids, scan[p][u] # NoNote
          PROVE  scan'[p][u] = scan[p][u]
      BY <2>0, <3>1, <3>3 DEF found, ScanFails
    <3>4. ASSUME NEW l \in Locs \ disturbed[p], disk[l] \in Files,
                 VaultOf[l] \in opt[p].vaults \ unscanned'[p]
          PROVE  scan'[p][disk[l].uid] = [loc |-> l, ver |-> disk[l].ver]
      <4>1. CASE VaultOf[l] = v
        BY <3>2, <3>4, <4>1 DEF Found
      <4>2. CASE VaultOf[l] # v
        <5>1. scan[p][disk[l].uid] = [loc |-> l, ver |-> disk[l].ver] /\ disk[l].uid \in Uids
          BY <1>3, <3>1, <3>4, <4>2 DEF ScannedInv, ScanVault, Files
        <5>2. [loc |-> l, ver |-> disk[l].ver] \in Notes
          BY <3>4 DEF Files, Notes
        <5> QED BY <3>3, <5>1, <5>2
      <4> QED BY <4>1, <4>2
    <3>5. disk' = disk /\ disturbed' = disturbed /\ opt' = opt
      BY <1>3 DEF ScanVault
    <3> QED BY <3>4, <3>5 DEF ScannedInv
  <2> QED BY <2>1, <2>2, <2>3
<1>4. CASE TakeSnapshot(p)
  <2>1. PICK first \in FirstRecords(index) :
          orphans'[p] \subseteq ScanOrphans(index, scan[p], opt[p].vaults, first)
    BY <1>4 DEF TakeSnapshot
  <2>2. \A o \in orphans'[p] : scan[p][o.uid] = NoNote
    BY <2>1 DEF ScanOrphans
  <2>3. (PhaseInv(p) /\ PlanInv(p) /\ OrphanInv(p))'
    BY <1>4, <2>2 DEF TakeSnapshot, PhaseInv, PlanInv, OrphanInv
  <2>4. (SnapInv(p) /\ InsertedInv(p) /\ ScannedInv(p) /\ Exact(p))'
    BY <1>4 DEF TakeSnapshot, PhaseInv, SnapInv, InsertedInv, ScannedInv, Exact
  <2> QED BY <2>3, <2>4
<1>5. CASE SnapshotFails(p)
  <2> USE <1>5 DEF SnapshotFails
  <2>1. (PhaseInv(p) /\ PlanInv(p) /\ OrphanInv(p))'
    BY DEF PhaseInv, PlanInv, OrphanInv, MayPrune, OrphansScanned, Orphans
  <2>2. (SnapInv(p) /\ InsertedInv(p) /\ ScannedInv(p) /\ Exact(p))'
    BY DEF PhaseInv, PlanInv, SnapInv, InsertedInv, ScannedInv, Exact, CurNote, DeleteOutstanding
  <2> QED BY <2>1, <2>2
<1> QED BY <1>1, <1>2, <1>3, <1>4, <1>5

(* Starting a note, skipping it, previewing it and failing it keep it. *)
LEMMA OwnBetweenNotes ==
    ASSUME TypeOK, TypeOK', NEW p \in Procs, ProcInv(p),
           \/ \E u \in Uids : SkipNote(p, u) \/ PreviewNote(p, u) \/ ReworkNote(p, u) \/ NoteFails(p, u)
           \/ Embed(p) \/ EmbedFails(p) \/ EndBatch(p)
    PROVE  ProcInv(p)'
<1> USE DEF ProcInv, TypeOK, Goto, Early, Late, InNote, Selected,
            world, store, plan, loopv, prunev, stopv
<1>1. ASSUME NEW u \in Uids, SkipNote(p, u) PROVE ProcInv(p)'
  <2> USE <1>1 DEF SkipNote, NextNote, Integral, Stored, Settle, ReadFresh
  <2>1. (PhaseInv(p) /\ PlanInv(p) /\ OrphanInv(p))'
    BY DEF PhaseInv, PlanInv, OrphanInv, MayPrune, OrphansScanned, Orphans
  <2>2. (SnapInv(p) /\ InsertedInv(p) /\ ScannedInv(p) /\ Exact(p))'
    BY IntegralIffExact DEF PhaseInv, PlanInv, SnapInv, InsertedInv, ScannedInv, Exact, CurNote, DeleteOutstanding
  <2> QED BY <2>1, <2>2
<1>2. ASSUME NEW u \in Uids, PreviewNote(p, u) PROVE ProcInv(p)'
  <2> USE <1>2 DEF PreviewNote, NextNote, Settle, ReadFresh
  <2>1. (PhaseInv(p) /\ PlanInv(p) /\ OrphanInv(p))'
    BY DEF PhaseInv, PlanInv, OrphanInv, MayPrune, OrphansScanned, Orphans
  <2>2. (SnapInv(p) /\ InsertedInv(p) /\ ScannedInv(p) /\ Exact(p))'
    BY DEF PhaseInv, PlanInv, SnapInv, InsertedInv, ScannedInv, Exact, CurNote, DeleteOutstanding
  <2> QED BY <2>1, <2>2
<1>3. ASSUME NEW u \in Uids, ReworkNote(p, u) PROVE ProcInv(p)'
  <2> USE <1>3 DEF ReworkNote, NextNote, ReadFresh
  <2>1. (PhaseInv(p) /\ PlanInv(p) /\ OrphanInv(p))'
    BY DEF PhaseInv, PlanInv, OrphanInv, MayPrune, OrphansScanned, Orphans
  <2>2. (SnapInv(p) /\ InsertedInv(p) /\ ScannedInv(p) /\ Exact(p))'
    BY DEF PhaseInv, PlanInv, SnapInv, InsertedInv, ScannedInv, Exact, CurNote, DeleteOutstanding
  <2> QED BY <2>1, <2>2
<1>4. ASSUME NEW u \in Uids, NoteFails(p, u) PROVE ProcInv(p)'
  <2> USE <1>4 DEF NoteFails, NextNote, Settle
  <2>1. (PhaseInv(p) /\ PlanInv(p) /\ OrphanInv(p))'
    BY DEF PhaseInv, PlanInv, OrphanInv, MayPrune, OrphansScanned, Orphans
  <2>2. (SnapInv(p) /\ InsertedInv(p) /\ ScannedInv(p) /\ Exact(p))'
    BY DEF PhaseInv, PlanInv, SnapInv, InsertedInv, ScannedInv, Exact, CurNote, DeleteOutstanding
  <2> QED BY <2>1, <2>2
<1>5. CASE Embed(p)
  <2> USE <1>5 DEF Embed
  <2>1. (PhaseInv(p) /\ PlanInv(p) /\ OrphanInv(p))'
    BY DEF PhaseInv, PlanInv, OrphanInv, MayPrune, OrphansScanned, Orphans
  <2>2. (SnapInv(p) /\ InsertedInv(p) /\ ScannedInv(p) /\ Exact(p))'
    BY DEF PhaseInv, PlanInv, SnapInv, InsertedInv, ScannedInv, Exact, CurNote, DeleteOutstanding
  <2> QED BY <2>1, <2>2
<1>6. CASE EmbedFails(p)
  <2> USE <1>6 DEF EmbedFails, EndNote, Settle
  <2>1. (PhaseInv(p) /\ PlanInv(p) /\ OrphanInv(p))'
    BY DEF PhaseInv, PlanInv, OrphanInv, MayPrune, OrphansScanned, Orphans
  <2>2. (SnapInv(p) /\ InsertedInv(p) /\ ScannedInv(p) /\ Exact(p))'
    BY DEF PhaseInv, PlanInv, SnapInv, InsertedInv, ScannedInv, Exact, CurNote, DeleteOutstanding
  <2> QED BY <2>1, <2>2
<1>7. CASE EndBatch(p)
  <2> USE <1>7 DEF EndBatch
  <2>1. (PhaseInv(p) /\ PlanInv(p) /\ OrphanInv(p))'
    BY ZenonT(60) DEF PhaseInv, PlanInv, OrphanInv, MayPrune, OrphansScanned, Orphans
  <2>2. (SnapInv(p) /\ InsertedInv(p) /\ ScannedInv(p) /\ Exact(p))'
    BY DEF PhaseInv, PlanInv, SnapInv, InsertedInv, ScannedInv, Exact, CurNote, DeleteOutstanding
  <2> QED BY <2>1, <2>2
<1> QED BY <1>1, <1>2, <1>3, <1>4, <1>5, <1>6, <1>7

(* A delete by the process itself leaves the notes it has not reached alone. *)
LEMMA OwnDelete ==
    ASSUME TypeOK, TypeOK', NEW p \in Procs, ProcInv(p), NEW u \in Uids, NEW from,
           u \notin todo[p], result'[p][u] \in {"none", "failed"},
           \A w \in Uids \ {u} : result'[p][w] = result[p][w],
           snap'[p] = snap[p], todo'[p] = todo[p], scan'[p] = scan[p], opt'[p] = opt[p],
           \/ DeleteEffect(p, u, from)
           \/ Delete(p, u, from) /\ UNCHANGED pending
           \/ DeleteUnapplied(u, from) /\ UNCHANGED <<index, foreign>>
    PROVE  SnapInv(p)' /\ Exact(p)'
<1>1. \A w \in Uids \ {u} : index'[w] = index[w]
  BY DEF TypeOK, DeleteEffect, Delete, DeleteUnapplied
<1>2. foreign[p] \subseteq foreign'[p]
  <2>1. foreign[p] \subseteq WroteBy(p, u)[p]
    BY DEF WroteBy
  <2> QED BY <2>1 DEF DeleteEffect, Delete, DeleteUnapplied
<1>3. pending \subseteq pending'
  BY DEF DeleteEffect, DeleteUnapplied
<1> QED BY <1>1, <1>2, <1>3, OwnWrite DEF DeleteOutstanding

(* A note that ends leaves the loop as it found it, but for its outcome. *)
LEMMA BackToLoop ==
    ASSUME TypeOK, NEW p \in Procs, ProcInv(p), InNote(p), NEW r \in {"failed", "pruned"},
           EndNote(p, r), UNCHANGED <<world, plan, orphans, interrupted>>
    PROVE  (PhaseInv(p) /\ PlanInv(p) /\ OrphanInv(p) /\ InsertedInv(p) /\ ScannedInv(p))'
<1>1. pc'[p] = "loop" /\ todo' = todo /\ cur[p] \in Uids \ todo[p] /\ scan[p][cur[p]] # NoNote
  BY NoteInFlight DEF TypeOK, EndNote, Goto, ProcInv, PlanInv
<1>2. \A w \in Uids : result'[p][w] = IF w = cur[p] THEN r ELSE result[p][w]
  BY <1>1 DEF TypeOK, EndNote, Settle
<1>3. UNCHANGED <<disk, disturbed, opt, unscanned, scan, snap, orphans, interrupted>>
  BY DEF world, plan
<1>4. PhaseInv(p)'
  BY <1>1, <1>3 DEF ProcInv, PhaseInv, Early, InNote
<1>5. PlanInv(p)'
  <2>1. pc'[p] = "loop" /\ todo'[p] = todo[p] /\ scan'[p] = scan[p] /\ Selected(p)' = Selected(p)
    BY <1>1, <1>3 DEF Selected
  <2>2. \A u \in todo[p] : scan[p][u] # NoNote /\ result'[p][u] = "none"
    BY <1>1, <1>2 DEF TypeOK, ProcInv, PlanInv
  <2>3. \A u \in Uids : result'[p][u] # "none" => scan[p][u] # NoNote
    BY <1>1, <1>2 DEF ProcInv, PlanInv
  <2>4. \A u \in Selected(p) : u \in todo[p] \/ result'[p][u] # "none"
    BY <1>1, <1>2 DEF ProcInv, PlanInv, InNote, Early, Selected
  <2> QED BY <2>1, <2>2, <2>3, <2>4 DEF PlanInv, InNote, Late
<1>6. (OrphanInv(p) /\ InsertedInv(p) /\ ScannedInv(p))'
  BY <1>1, <1>3 DEF ProcInv, OrphanInv, InsertedInv, ScannedInv, InNote
<1> QED BY <1>4, <1>5, <1>6

(* Upserting a note and deleting its stale tail keep it. *)
LEMMA OwnNoteInFlight ==
    ASSUME TypeOK, TypeOK', NEW p \in Procs, ProcInv(p),
           \/ UpsertConfirmed(p) \/ UpsertNotConfirmed(p)
           \/ Trim(p) \/ TrimUnapplied(p) \/ TrimFails(p)
    PROVE  ProcInv(p)'
<1> USE DEF Goto, Early, Late, InNote, world, store, plan, loopv, prunev, stopv
<1>1. /\ InNote(p) /\ cur[p] \in Uids \ todo[p] /\ CurNote(p) \in Notes
      /\ result[p][cur[p]] = "none" /\ pc[p] \in {"upsert", "trim"}
  BY NoteInFlight DEF ProcInv, UpsertConfirmed, UpsertNotConfirmed, Trim, TrimUnapplied, TrimFails
<1>2. CASE UpsertConfirmed(p)
  <2>1. (PhaseInv(p) /\ PlanInv(p) /\ OrphanInv(p))'
    BY <1>2 DEF TypeOK, ProcInv, UpsertConfirmed, PhaseInv, PlanInv, OrphanInv, MayPrune,
                OrphansScanned, Orphans, Selected
  <2>2. ScannedInv(p)'
    BY <1>2 DEF TypeOK, ProcInv, UpsertConfirmed, ScannedInv
  <2>3. index'[cur[p]] = UpsertPoints(index[cur[p]], CurNote(p), ChunksOf(CurNote(p)))
    BY <1>1, <1>2 DEF TypeOK, UpsertConfirmed
  <2>4. InsertedInv(p)'
    BY <1>2, <2>3 DEF InsertedInv, UpsertConfirmed, CurNote, UpsertPoints, ChunksOf
  <2>5. \A w \in Uids \ {cur[p]} : index'[w] = index[w] /\ (w \in foreign[p] => w \in foreign'[p])
    BY <1>1, <1>2 DEF TypeOK, UpsertConfirmed, WroteBy
  <2>6. (SnapInv(p) /\ Exact(p))'
    BY <1>1, <1>2, <2>5, OwnWrite DEF UpsertConfirmed, DeleteOutstanding
  <2> QED BY <2>1, <2>2, <2>4, <2>6 DEF ProcInv
<1>3. CASE UpsertNotConfirmed(p)
  <2>1. \A w \in Uids \ {cur[p]} : index'[w] = index[w]
    BY <1>1, <1>3 DEF TypeOK, UpsertNotConfirmed, UpsertEffect
  <2>2. foreign[p] \subseteq foreign'[p] /\ pending \subseteq pending'
    BY <1>3 DEF TypeOK, UpsertNotConfirmed, UpsertEffect, WroteBy
  <2>3. /\ \A w \in Uids \ {cur[p]} : result'[p][w] = result[p][w]
        /\ result'[p][cur[p]] \in {"none", "failed"}
    BY <1>1, <1>3 DEF TypeOK, UpsertNotConfirmed, EndNote, Settle
  <2>4. todo'[p] = todo[p]
    BY <1>3 DEF UpsertNotConfirmed, EndNote
  <2>5. (SnapInv(p) /\ Exact(p))'
    BY <1>1, <1>3, <2>1, <2>2, <2>3, <2>4, OwnWrite DEF UpsertNotConfirmed, DeleteOutstanding
  <2>6. (InsertedInv(p) /\ ScannedInv(p))'
    BY <1>1, <1>3 DEF TypeOK, ProcInv, UpsertNotConfirmed, EndNote, InsertedInv, ScannedInv
  <2>7. CASE Retries(p)
    BY <1>1, <1>3, <2>5, <2>6, <2>7
       DEF TypeOK, ProcInv, UpsertNotConfirmed, PhaseInv, PlanInv, OrphanInv, Selected
  <2>8. CASE ~Retries(p)
    <3>1. EndNote(p, "failed") /\ UNCHANGED <<world, plan, orphans, interrupted>>
      BY <1>3, <2>8 DEF UpsertNotConfirmed
    <3> QED BY <1>1, <2>5, <2>6, <3>1, BackToLoop DEF ProcInv
  <2> QED BY <2>7, <2>8
<1>4. CASE Trim(p) \/ TrimUnapplied(p) \/ TrimFails(p)
  <2>1. /\ EndNote(p, "failed") \/ EndNote(p, "pruned")
        /\ UNCHANGED <<world, plan, orphans, interrupted>>
    BY <1>4 DEF Trim, TrimUnapplied, TrimFails
  <2>2. (PhaseInv(p) /\ PlanInv(p) /\ OrphanInv(p))'
    BY <1>1, <2>1, BackToLoop
  <2>3. (InsertedInv(p) /\ ScannedInv(p))'
    BY <1>1, <2>1, BackToLoop
  <2>4. \A w \in Uids \ {cur[p]} : result'[p][w] = result[p][w]
    BY <1>1, <2>1 DEF TypeOK, EndNote, Settle
  <2>5. CASE Trim(p)
    <3>1. /\ \A w \in Uids \ {cur[p]} : index'[w] = index[w]
          /\ index'[cur[p]] = DeleteByFilter(index[cur[p]], ChunkCount[CurNote(p).ver])
      BY <1>1, <2>5 DEF TypeOK, Trim, Delete, TailFrom
    <3>2. foreign[p] \subseteq foreign'[p]
      BY <2>5 DEF TypeOK, Trim, Delete, WroteBy
    <3>3. cur[p] \notin foreign[p] => index'[cur[p]] = ExpectedPoints(scan[p][cur[p]])
      BY <1>1, <2>5, <3>1, TrimMakesExact DEF TypeOK, ProcInv, Trim, InsertedInv, CurNote
    <3>4. (SnapInv(p) /\ Exact(p))'
      BY <1>1, <2>1, <2>4, <2>5, <3>1, <3>2, <3>3, OwnWrite DEF Trim, EndNote, DeleteOutstanding
    <3> QED BY <2>2, <2>3, <3>4 DEF ProcInv
  <2>6. CASE TrimUnapplied(p)
    <3>1. (\E o \in pending' : o.kind = "delete" /\ o.acked /\ o.uid = cur[p]) /\ pending \subseteq pending'
      <4> DEFINE op == [kind |-> "delete", uid |-> cur[p], from |-> TailFrom(p), acked |-> TRUE]
      <4>1. pending' = pending \union {op}
        BY <2>6 DEF TrimUnapplied, DeleteUnapplied
      <4>2. op.kind = "delete" /\ op.acked /\ op.uid = cur[p]
        OBVIOUS
      <4> HIDE DEF op
      <4> QED BY <4>1, <4>2
    <3>2. (SnapInv(p) /\ Exact(p))'
      BY <1>1, <2>1, <2>4, <2>6, <3>1, OwnWrite DEF TrimUnapplied, EndNote, DeleteOutstanding
    <3> QED BY <2>2, <2>3, <3>2 DEF ProcInv
  <2>7. CASE TrimFails(p)
    <3>1. result'[p][cur[p]] = "failed" /\ todo' = todo
      BY <1>1, <2>7 DEF TypeOK, TrimFails, EndNote, Settle
    <3>2. (SnapInv(p) /\ Exact(p))'
      BY <1>1, <2>1, <2>4, <2>7, <3>1, OwnDelete DEF TrimFails
    <3> QED BY <2>2, <2>3, <3>2 DEF ProcInv
  <2> QED BY <1>4, <2>5, <2>6, <2>7
<1> QED BY <1>2, <1>3, <1>4

(* Splitting the candidates and deleting them keep it. *)
LEMMA OwnAfterLoop ==
    ASSUME TypeOK, TypeOK', NEW p \in Procs, ProcInv(p),
           \/ SplitForReport(p) \/ SplitForPrune(p) \/ PruneOrphan(p) \/ PruneUnapplied(p)
           \/ PruneFails(p) \/ PruneDone(p)
    PROVE  ProcInv(p)'
<1> USE DEF ProcInv, TypeOK, Goto, Early, Late, InNote, Selected,
            world, store, plan, loopv, prunev, stopv
<1>1. CASE SplitForReport(p)
  <2> USE <1>1 DEF SplitForReport, SplitStillOnDisk
  <2>1. (PhaseInv(p) /\ PlanInv(p) /\ OrphanInv(p))'
    BY DEF PhaseInv, PlanInv, OrphanInv, MayPrune, OrphansScanned, Orphans
  <2>2. (SnapInv(p) /\ InsertedInv(p) /\ ScannedInv(p) /\ Exact(p))'
    BY DEF PhaseInv, PlanInv, SnapInv, InsertedInv, ScannedInv, Exact, CurNote, DeleteOutstanding
  <2> QED BY <2>1, <2>2
<1>2. CASE SplitForPrune(p)
  <2> USE <1>2 DEF SplitForPrune, SplitStillOnDisk, StillOrphan
  <2>1. (PhaseInv(p) /\ PlanInv(p) /\ OrphanInv(p))'
    BY DEF PhaseInv, PlanInv, OrphanInv, MayPrune, OrphansScanned, Orphans
  <2>2. (SnapInv(p) /\ InsertedInv(p) /\ ScannedInv(p) /\ Exact(p))'
    BY DEF PhaseInv, PlanInv, SnapInv, InsertedInv, ScannedInv, Exact, CurNote, DeleteOutstanding
  <2> QED BY <2>1, <2>2
<1>3. CASE PruneUnapplied(p)
  <2> USE <1>3 DEF PruneUnapplied, DeleteUnapplied
  <2>1. (PhaseInv(p) /\ PlanInv(p) /\ OrphanInv(p))'
    BY DEF PhaseInv, PlanInv, OrphanInv, MayPrune, OrphansScanned, Orphans
  <2>2. (SnapInv(p) /\ InsertedInv(p) /\ ScannedInv(p) /\ Exact(p))'
    BY DEF PhaseInv, PlanInv, SnapInv, InsertedInv, ScannedInv, Exact, CurNote, DeleteOutstanding
  <2> QED BY <2>1, <2>2
<1>4. CASE PruneDone(p)
  <2> USE <1>4 DEF PruneDone
  <2>1. (PhaseInv(p) /\ PlanInv(p) /\ OrphanInv(p))'
    BY DEF PhaseInv, PlanInv, OrphanInv, MayPrune, OrphansScanned, Orphans
  <2>2. (SnapInv(p) /\ InsertedInv(p) /\ ScannedInv(p) /\ Exact(p))'
    BY DEF PhaseInv, PlanInv, SnapInv, InsertedInv, ScannedInv, Exact, CurNote, DeleteOutstanding
  <2> QED BY <2>1, <2>2
<1>5. CASE PruneOrphan(p) \/ PruneFails(p)
  <2>1. PICK o \in Doomed(p) : DeleteEffect(p, o.uid, 0) \/ (Delete(p, o.uid, 0) /\ UNCHANGED pending)
    BY <1>5 DEF PruneOrphan, PruneFails
  <2>2. o.uid \in Uids /\ scan[p][o.uid] = NoNote
    BY OrphanIsUid DEF Doomed, OrphanInv
  <2>3. result[p][o.uid] = "none" /\ o.uid \notin todo[p]
    BY <2>2 DEF PlanInv
  <2>4. UNCHANGED <<world, plan, loopv, orphans, stopv>>
    BY <1>5 DEF PruneOrphan, PruneFails
  <2>5. (SnapInv(p) /\ Exact(p))'
    BY <2>1, <2>2, <2>3, <2>4, OwnDelete
  <2>6. (InsertedInv(p) /\ ScannedInv(p))'
    BY <1>5, <2>4 DEF PruneOrphan, PruneFails, InsertedInv, ScannedInv
  <2>7. (PhaseInv(p) /\ PlanInv(p) /\ OrphanInv(p))'
    BY <1>5, <2>4 DEF PruneOrphan, PruneFails, PhaseInv, PlanInv, OrphanInv, MayPrune, OrphansScanned, Orphans
  <2> QED BY <2>5, <2>6, <2>7
<1> QED BY <1>1, <1>2, <1>3, <1>4, <1>5

(* A step of the process itself keeps everything it knows. *)
LEMMA OwnStep ==
    ASSUME TypeOK, TypeOK', NEW p \in Procs, ProcInv(p), RunStep(p) \/ Crash(p)
    PROVE  ProcInv(p)'
  BY ExitForgets, OwnBeforeLoop, OwnBetweenNotes, OwnNoteInFlight, OwnAfterLoop
     DEF RunStep, RefusedByLock, ScanRefused, HandshakeFails, Finish, Crash

(* And so do the steps of the others. *)
LEMMA OthersStep ==
    ASSUME TypeOK, TypeOK', LockInv, NEW p \in Procs, ProcInv(p), RunStep(p) \/ Crash(p),
           NEW q \in Procs \ {p}, ProcInv(q)
    PROVE  ProcInv(q)'
<1>1. Same(q) /\ SeesEdits(q) /\ SeesWrites(q)
  BY OthersBeforeLoop, OthersInLoop, OthersAfterLoop DEF RunStep
<1> QED BY <1>1, Untouched

-----------------------------------------------------------------------------
(* The invariant. *)

(* A behaviour starts with nothing known and nothing held. *)
LEMMA InitInv == Init => IndInv
<1> SUFFICES ASSUME Init PROVE IndInv
  OBVIOUS
<1>1. TypeOK
  <2>1. ASSUME NEW u \in Uids, OnDisk(disk, u) PROVE NoteAt(disk, u) \in Notes
    <3> DEFINE l == CHOOSE l \in Locs : disk[l] \in Files /\ disk[l].uid = u
    <3>1. l \in Locs /\ disk[l] \in Files
      BY <2>1 DEF OnDisk
    <3> QED BY <3>1 DEF NoteAt, Files, Notes
  <2>2. \A n \in Notes : ExpectedPoints(n) \in Rows
    BY DEF ExpectedPoints, PointOf, Points, Rows
  <2>3. Nothing \in Rows
    BY DEF Nothing, Rows
  <2>4. index \in [Uids -> Rows]
    BY <2>1, <2>2, <2>3 DEF Init, Ingested
  <2>5. AnyOption \in Options
    BY DEF AnyOption
  <2> QED BY <2>4, <2>5 DEF Init, TypeOK, Labels, Results, NothingScanned
<1>2. LockInv
  BY DEF Init, LockInv, Writing
<1>3. ASSUME NEW p \in Procs PROVE ProcInv(p)
  <2>1. PhaseInv(p) /\ PlanInv(p) /\ OrphanInv(p)
    BY DEF Init, PhaseInv, PlanInv, OrphanInv, Early, Late, InNote, NothingScanned
  <2>2. SnapInv(p) /\ InsertedInv(p) /\ ScannedInv(p) /\ Exact(p)
    BY DEF Init, SnapInv, InsertedInv, ScannedInv, Exact
  <2> QED BY <2>1, <2>2 DEF ProcInv
<1> QED BY <1>1, <1>2, <1>3 DEF IndInv

(* Whatever happens keeps it. *)
LEMMA NextInv == IndInv /\ [Next]_vars => IndInv'
<1> SUFFICES ASSUME IndInv, [Next]_vars PROVE IndInv'
  OBVIOUS
<1> USE DEF IndInv
<1>1. ASSUME NEW p \in Procs, RunStep(p) \/ Crash(p) PROVE IndInv'
  <2>1. TypeOK'
    BY <1>1, BeforeLoopTypes, LoopTypes, AfterLoopTypes, AroundTypes DEF RunStep, ProcInv
  <2>2. LockInv'
    BY <1>1, <2>1, StepKeepsLock
  <2>3. \A q \in Procs : ProcInv(q)'
    BY <1>1, <2>1, OwnStep, OthersStep
  <2> QED BY <2>1, <2>2, <2>3
<1>2. CASE \/ \E p \in Procs : Interrupt(p) \/ CancelContext(p)
           \/ \E op \in pending : Land(op) \/ Lose(op)
           \/ \E u \in Uids, i \in Idx : AdminEdit(u, i)
           \/ \E l \in Locs : EditFile(l)
           \/ \E l, m \in Locs : MoveNote(l, m)
           \/ UNCHANGED vars
  <2>1. TypeOK'
    BY <1>2, AroundTypes, AfterLoopTypes
  <2>2. \A q \in Procs : Same(q) /\ SeesEdits(q) /\ SeesWrites(q)
    BY <1>2, AroundIsSeen
  <2>3. UNCHANGED held
    BY <1>2 DEF Interrupt, CancelContext, Land, Lose, AdminEdit, EditFile, MoveNote, Disturb, vars
  <2>4. LockInv'
    BY <2>2, <2>3, LockKept DEF Same, Writing
  <2> QED BY <2>1, <2>2, <2>4, Untouched
<1> QED BY <1>1, <1>2 DEF Next

(* IndInv holds in every state the system reaches: the strengthening from which
   every safety property below follows. *)
THEOREM Invariance == Spec => []IndInv
<1> QED BY InitInv, NextInv, PTL DEF Spec

-----------------------------------------------------------------------------
(* What follows from it. *)

(* Every variable keeps its type. *)
THEOREM TypeCorrectness == Spec => []TypeOK
<1>1. IndInv => TypeOK
  BY DEF IndInv
<1> QED BY <1>1, Invariance, PTL

(* A note reported skipped or pruned is in the index exactly as the run read it,
   until somebody outside its lock writes it (ProcessNote, CheckIntegrity). *)
THEOREM ReportedNotesExact == Spec => []ReportedNoteIsExact
<1>1. IndInv => ReportedNoteIsExact
  BY DEF IndInv, ProcInv, ReportedNoteIsExact
<1> QED BY <1>1, Invariance, PTL

(* At most one process writes under one lock file, and no process that ended
   leaves its lock behind (TryAcquire, Release). *)
THEOREM OneWriter == Spec => []OneWriterPerLock
<1>1. IndInv => OneWriterPerLock
  BY DEF IndInv, LockInv, OneWriterPerLock
<1> QED BY <1>1, Invariance, PTL

(* What a run that exits 0 leaves of a note it selected. *)
LEMMA CoveredAtExit ==
    ASSUME IndInv, NEW p \in Procs, pc[p] = "report", Outcome(p) = "ok", ~opt[p].dryRun,
           NEW u \in Selected(p)
    PROVE  \/ index[u] = ExpectedPoints(scan[p][u])
           \/ u \in foreign[p] \/ DeleteOutstanding(u)
<1>1. ~interrupted[p] /\ result[p][u] # "failed" /\ u \in Uids
  BY DEF Outcome, Selected
<1>2. result[p][u] # "none"
  BY <1>1 DEF IndInv, ProcInv, PlanInv, Late, Early, InNote
<1>3. result[p][u] \in {"skipped", "pruned"}
  <2>1. result[p][u] \in Results
    BY <1>1 DEF IndInv, TypeOK
  <2> QED BY <1>1, <1>2, <2>1 DEF Results
<1> QED BY <1>1, <1>3 DEF IndInv, ProcInv, Exact

(* An exit with 0 means that every selected note was brought in line (RunBatch,
   runOutcome). *)
THEOREM CleanExitCovers == Spec => []CleanExitCoversSelection
<1>1. IndInv => CleanExitCoversSelection
  BY CoveredAtExit DEF CleanExitCoversSelection
<1> QED BY <1>1, Invariance, PTL

(* The orphan prune never takes the points of a note that stayed on disk in a
   vault of the run (ScanOrphans, splitStillOnDisk). *)
THEOREM PruneSafe == Spec => []PruneSparesLiveNotes
<1>1. ASSUME IndInv, NEW p \in Procs, pc[p] = "prune", NEW o \in Doomed(p),
             NEW l \in Locs \ disturbed[p], VaultOf[l] \in opt[p].vaults
      PROVE  ~LiveNote(l, o.uid)
  <2> SUFFICES ASSUME LiveNote(l, o.uid) PROVE FALSE
    OBVIOUS
  <2>1. scan[p][o.uid] = NoNote
    BY <1>1 DEF IndInv, ProcInv, OrphanInv, Doomed
  <2>2. unscanned[p] = {}
    BY <1>1 DEF IndInv, ProcInv, PhaseInv
  <2>3. scan[p][o.uid] = [loc |-> l, ver |-> disk[l].ver] /\ disk[l] \in Files
    BY <1>1, <2>2 DEF IndInv, ProcInv, ScannedInv, LiveNote
  <2> QED BY <2>1, <2>3 DEF Files, Notes
<1>2. ASSUME IndInv, NEW p \in Procs, pc[p] = "prune", NEW o \in Doomed(p),
             ~o.claimed, o.loc \notin disturbed[p]
      PROVE  disk[o.loc] = Absent
  BY <1>2 DEF IndInv, ProcInv, OrphanInv, Doomed
<1>3. IndInv => PruneSparesLiveNotes
  BY <1>1, <1>2 DEF PruneSparesLiveNotes
<1> QED BY <1>3, Invariance, PTL

(* The prune only follows a pass that read the index and gave every scanned note
   an outcome (pruneOrphans). *)
THEOREM PruneIsLast == Spec => []PruneFollowsWholePass
<1>1. ASSUME IndInv, NEW p \in Procs, pc[p] = "prune"
      PROVE  /\ OrphansScanned(p)
             /\ \A u \in Uids : scan[p][u] # NoNote => result[p][u] # "none"
  <2>1. ~interrupted[p] /\ OrphansScanned(p)
    BY <1>1 DEF IndInv, ProcInv, OrphanInv, MayPrune
  <2>2. todo[p] = {} /\ \A u \in Selected(p) : result[p][u] # "none"
    BY <1>1, <2>1 DEF IndInv, ProcInv, PlanInv, Late, Early, InNote
  <2> QED BY <2>1, <2>2 DEF OrphansScanned, Selected
<1>2. IndInv => PruneFollowsWholePass
  BY <1>1 DEF PruneFollowsWholePass
<1> QED BY <1>2, Invariance, PTL

(* The index of a note, step by step: an upsert never empties it. *)
LEMMA UpsertKeepsSomePoint ==
    ASSUME NEW rows \in Rows, NEW n \in Notes, NEW S, HasPoints(rows)
    PROVE  HasPoints(UpsertPoints(rows, n, S))
<1>1. PointOf(n) # NoPoint
  BY DEF PointOf, Points
<1> QED BY <1>1 DEF HasPoints, UpsertPoints

(* A delete of the tail empties the index of a note only if the note has no chunks. *)
LEMMA TrimKeepsChunks ==
    ASSUME NEW rows \in Rows, NEW n \in Notes,
           \A i \in ChunksOf(n) : rows[i] = PointOf(n),
           ~HasPoints(DeleteByFilter(rows, ChunkCount[n.ver]))
    PROVE  ChunkCount[n.ver] = 0
<1>1. DeleteByFilter(rows, ChunkCount[n.ver]) = ExpectedPoints(n)
  BY TrimMakesExact
<1>2. PointOf(n) # NoPoint
  BY DEF PointOf, Points
<1>3. ChunksOf(n) = {}
  BY <1>1, <1>2 DEF HasPoints, ExpectedPoints, ChunksOf
<1>4. ChunkCount[n.ver] \in Nat /\ 0 \in Idx
  BY DEF Notes, Idx
<1> QED BY <1>3, <1>4 DEF ChunksOf

(* The step form of LiveNoteStaysSearchable, for one process and one note. *)
LEMMA StepKeepsSearchable ==
    ASSUME IndInv, [Next]_vars, NEW p \in Procs, NEW u \in Uids,
           Stepped(p), pc[p] # "idle", pc'[p] # "idle",
           HasPoints(index[u]), ~HasPoints(index'[u]), u \notin foreign[p],
           NEW l \in Locs \ disturbed[p], LiveNote(l, u), VaultOf[l] \in opt[p].vaults
    PROVE  ChunkCount[disk[l].ver] = 0
<1> USE DEF IndInv
<1>1. RunStep(p)
  <2>1. ASSUME NEW q \in Procs \ {p}, RunStep(q) \/ Crash(q) PROVE FALSE
    BY <2>1, OthersBeforeLoop, OthersInLoop, OthersAfterLoop DEF RunStep, Same, Stepped
  <2>2. ~Crash(p)
    BY DEF Crash, Exit, Goto, TypeOK
  <2>3. CASE \/ \E q \in Procs : Interrupt(q) \/ CancelContext(q)
             \/ \E op \in pending : Land(op) \/ Lose(op)
             \/ \E w \in Uids, i \in Idx : AdminEdit(w, i)
             \/ \E m \in Locs : EditFile(m)
             \/ \E k, m \in Locs : MoveNote(k, m)
             \/ UNCHANGED vars
    BY <2>3, AroundIsSeen DEF Same, Stepped
  <2> QED BY <2>1, <2>2, <2>3 DEF Next
<1>2. index'[u] # index[u] /\ index[u] \in Rows
  BY DEF TypeOK
<1>3. pc[p] \notin {"acquire", "scan"} => scan[p][u] = [loc |-> l, ver |-> disk[l].ver]
  BY DEF ProcInv, PhaseInv, ScannedInv, LiveNote
<1>4. [loc |-> l, ver |-> disk[l].ver] \in Notes
  BY DEF LiveNote, Files, Notes
<1>5. ~\E o \in orphans[p] : o.uid = u /\ pc[p] = "prune"
  BY <1>3, <1>4 DEF ProcInv, OrphanInv
<1>6. CASE UpsertConfirmed(p) \/ UpsertNotConfirmed(p)
  <2>1. CurNote(p) \in Notes /\ cur[p] \in Uids
    BY <1>6, NoteInFlight DEF UpsertConfirmed, UpsertNotConfirmed, InNote, ProcInv
  <2>2. PICK S : index'[u] = UpsertPoints(index[u], CurNote(p), S)
    BY <1>2, <1>6, <2>1 DEF UpsertConfirmed, UpsertNotConfirmed, UpsertEffect, TypeOK
  <2> QED BY <1>2, <2>1, <2>2, UpsertKeepsSomePoint
<1>7. CASE Trim(p) \/ TrimFails(p)
  <2>1. pc[p] = "trim" /\ u = cur[p] /\ index'[u] = DeleteByFilter(index[u], TailFrom(p))
    BY <1>2, <1>7 DEF Trim, TrimFails, DeleteEffect, Delete, TypeOK
  <2>2. CurNote(p) = [loc |-> l, ver |-> disk[l].ver]
    BY <1>3, <2>1 DEF CurNote
  <2>3. \A i \in ChunksOf(CurNote(p)) : index[u][i] = PointOf(CurNote(p))
    BY <2>1 DEF ProcInv, InsertedInv
  <2>4. ChunkCount[CurNote(p).ver] = 0
    BY <1>2, <1>4, <2>1, <2>2, <2>3, TrimKeepsChunks DEF TailFrom
  <2> QED BY <2>2, <2>4
<1>8. CASE PruneOrphan(p) \/ PruneFails(p)
  <2>1. \E o \in orphans[p] : o.uid = u /\ pc[p] = "prune"
    BY <1>2, <1>8 DEF PruneOrphan, PruneFails, Doomed, DeleteEffect, Delete, TypeOK
  <2> QED BY <1>5, <2>1
<1>9. CASE UNCHANGED index
  BY <1>2, <1>9
<1> QED
  BY <1>1, <1>6, <1>7, <1>8, <1>9
     DEF RunStep, Start, TryAcquire, RefusedByLock, ScanVault, ScanRefused, HandshakeFails, TakeSnapshot,
         SnapshotFails, SkipNote, PreviewNote, ReworkNote, NoteFails, Embed, EmbedFails, TrimUnapplied,
         EndBatch, SplitForReport, SplitForPrune, PruneUnapplied, PruneDone, Finish, store

(* Insert, then prune: while a note is rewritten no step of the run takes its last
   point (ProcessNote). *)
THEOREM InsertThenPrune == Spec => LiveNoteStaysSearchable
<1>1. IndInv /\ [Next]_vars =>
        [\A p \in Procs, u \in Uids :
            (/\ Stepped(p) /\ pc[p] # "idle" /\ pc'[p] # "idle"
             /\ HasPoints(index[u]) /\ ~HasPoints(index'[u])
             /\ u \notin foreign[p]) =>
                \A l \in Locs \ disturbed[p] :
                    (LiveNote(l, u) /\ VaultOf[l] \in opt[p].vaults) => ChunkCount[disk[l].ver] = 0]_vars
  BY StepKeepsSearchable
<1> QED BY <1>1, Invariance, PTL DEF Spec, LiveNoteStaysSearchable


-----------------------------------------------------------------------------
(* The prune: what a pruning run that exits 0 has deleted, from the candidates it keeps
   and PruneInv behind them. *)

(* Deleting from the first index on leaves nothing, whatever was there. *)
LEMMA DeleteAllEmpties ==
    ASSUME NEW rows \in Rows
    PROVE  ~HasPoints(DeleteByFilter(rows, 0))
  BY DEF HasPoints, DeleteByFilter, Idx

-----------------------------------------------------------------------------
(* The other processes. *)

(* What was cleared stays so for a process that is told of the writes. *)
LEMMA ClearedForOthers ==
    ASSUME TypeOK, NEW q \in Procs, SeesWrites(q), ~Early(q), NEW u \in Uids, Cleared(q, u)
    PROVE  Cleared(q, u)'
  BY DEF Cleared, SeesWrites

(* A process keeps what it knows of its candidates through a step it takes no part in. *)
LEMMA CandidatesUntouched ==
    ASSUME TypeOK, NEW q \in Procs, CandidateInv(q), Same(q), SeesWrites(q),
           pruneFailed'[q] = pruneFailed[q]
    PROVE  CandidateInv(q)'
<1>1. ASSUME NEW u \in gone'[q] PROVE Cleared(q, u)'
  <2>1. u \in gone[q] /\ u \in Uids
    BY <1>1 DEF Same, TypeOK
  <2>2. ~Early(q)
    BY <2>1 DEF CandidateInv, Early
  <2> QED BY <2>1, <2>2, ClearedForOthers DEF CandidateInv
<1>2. OrphansScanned(q)' = OrphansScanned(q) /\ Doomed(q)' = Doomed(q)
  BY DEF Same, OrphansScanned, Doomed
<1> QED BY <1>1, <1>2 DEF CandidateInv, Same

(* No process sets the outcome of another one's prune. *)
LEMMA PruneOutcomeIsOwn ==
    ASSUME TypeOK, NEW p \in Procs, RunStep(p) \/ Crash(p), NEW q \in Procs \ {p}
    PROVE  pruneFailed'[q] = pruneFailed[q]
<1> USE DEF TypeOK, prunev
<1>1. CASE RefusedByLock(p) \/ ScanRefused(p) \/ HandshakeFails(p) \/ Finish(p) \/ Crash(p)
  BY <1>1 DEF RefusedByLock, ScanRefused, HandshakeFails, Finish, Crash, Exit
<1>2. CASE Start(p) \/ TryAcquire(p) \/ ScanVault(p) \/ TakeSnapshot(p) \/ SnapshotFails(p)
  BY <1>2 DEF Start, TryAcquire, ScanVault, TakeSnapshot, SnapshotFails
<1>3. CASE \E u \in Uids : SkipNote(p, u) \/ PreviewNote(p, u) \/ ReworkNote(p, u) \/ NoteFails(p, u)
  BY <1>3 DEF SkipNote, PreviewNote, ReworkNote, NoteFails
<1>4. CASE \/ Embed(p) \/ EmbedFails(p) \/ UpsertConfirmed(p) \/ UpsertNotConfirmed(p)
           \/ Trim(p) \/ TrimUnapplied(p) \/ TrimFails(p) \/ EndBatch(p)
  BY <1>4 DEF Embed, EmbedFails, UpsertConfirmed, UpsertNotConfirmed, Trim, TrimUnapplied,
              TrimFails, EndBatch
<1>5. CASE \/ SplitForReport(p) \/ SplitForPrune(p) \/ PruneOrphan(p) \/ PruneUnapplied(p)
           \/ PruneFails(p) \/ PruneDone(p)
  BY <1>5 DEF SplitForReport, SplitForPrune, PruneOrphan, PruneUnapplied, PruneFails, PruneDone
<1> QED BY <1>1, <1>2, <1>3, <1>4, <1>5 DEF RunStep

-----------------------------------------------------------------------------
(* The process that steps. *)

(* Up to the end of the note loop there is nothing to know. *)
LEMMA NothingDeletedYet ==
    ASSUME TypeOK, NEW p \in Procs, CandidateInv(p),
           pc[p] \notin {"prune", "report"}, pc'[p] \notin {"prune", "report"},
           gone'[p] = gone[p]
    PROVE  CandidateInv(p)'
  BY DEF CandidateInv

(* A delete that took effect, or was accepted, clears its uid and disturbs no other. *)
LEMMA DeleteClears ==
    ASSUME TypeOK, NEW p \in Procs, NEW u \in Uids,
           \/ Delete(p, u, 0) /\ UNCHANGED pending
           \/ DeleteUnapplied(u, 0) /\ UNCHANGED <<index, foreign>>
    PROVE  /\ Cleared(p, u)'
           /\ \A w \in Uids : Cleared(p, w) => Cleared(p, w)'
<1>1. CASE Delete(p, u, 0) /\ UNCHANGED pending
  <2>1. index' = [index EXCEPT ![u] = DeleteByFilter(index[u], 0)] /\ index[u] \in Rows
    BY <1>1 DEF Delete, TypeOK
  <2>2. index'[u] = DeleteByFilter(index[u], 0) /\ \A w \in Uids \ {u} : index'[w] = index[w]
    BY <2>1 DEF TypeOK
  <2>3. ~HasPoints(index'[u])
    BY <2>1, <2>2, DeleteAllEmpties
  <2>4. foreign[p] \subseteq foreign'[p]
    BY <1>1 DEF Delete, WroteBy
  <2> QED BY <1>1, <2>2, <2>3, <2>4 DEF Cleared, DeleteOutstanding
<1>2. CASE DeleteUnapplied(u, 0) /\ UNCHANGED <<index, foreign>>
  <2> DEFINE op == [kind |-> "delete", uid |-> u, from |-> 0, acked |-> TRUE]
  <2>1. op \in pending' /\ pending \subseteq pending'
    BY <1>2 DEF DeleteUnapplied
  <2>2. DeleteOutstanding(u)'
    BY <2>1 DEF DeleteOutstanding
  <2> HIDE DEF op
  <2>3. \A w \in Uids : DeleteOutstanding(w) => DeleteOutstanding(w)'
    BY <2>1 DEF DeleteOutstanding
  <2> QED BY <1>2, <2>2, <2>3 DEF Cleared
<1> QED BY <1>1, <1>2

(* Whatever a failing delete did, what was cleared before stays cleared. *)
LEMMA FailedDeleteKeepsCleared ==
    ASSUME TypeOK, NEW p \in Procs, NEW u \in Uids, DeleteEffect(p, u, 0), NEW w \in Uids, Cleared(p, w)
    PROVE  Cleared(p, w)'
<1>1. CASE Delete(p, u, 0) /\ UNCHANGED pending
  BY <1>1, DeleteClears
<1>2. CASE UNCHANGED <<index, foreign>> /\ pending \subseteq pending'
  BY <1>2 DEF Cleared, DeleteOutstanding
<1> QED BY <1>1, <1>2 DEF DeleteEffect

(* From the end of the loop to the report. *)
LEMMA CandidatesAfterLoop ==
    ASSUME TypeOK, NEW p \in Procs, ProcInv(p), CandidateInv(p),
           \/ SplitForReport(p) \/ SplitForPrune(p) \/ PruneOrphan(p) \/ PruneUnapplied(p)
           \/ PruneFails(p) \/ PruneDone(p)
    PROVE  CandidateInv(p)'
<1> USE DEF Goto, plan, prunev, stopv, store
<1>1. CASE SplitForReport(p)
  <2>1. /\ pc'[p] = (IF opt[p].prune THEN "resplit" ELSE "report")
        /\ gone'[p] = {} /\ opt'[p] = opt[p]
    BY <1>1 DEF SplitForReport, CandidateInv, TypeOK
  <2> QED BY <2>1 DEF CandidateInv
<1>2. CASE SplitForPrune(p)
  <2>1. /\ gone'[p] = {} /\ interrupted'[p] = interrupted[p]
        /\ pruneFailed'[p] = (~interrupted[p] /\ ~OrphansScanned(p))
        /\ pc'[p] = (IF MayPrune(p) THEN "prune" ELSE "report")
    BY <1>2 DEF SplitForPrune, CandidateInv, TypeOK
  <2> QED BY <2>1 DEF CandidateInv, MayPrune
<1>3. CASE PruneOrphan(p) \/ PruneUnapplied(p)
  <2>1. PICK o \in Doomed(p) :
            /\ gone' = [gone EXCEPT ![p] = @ \union {o.uid}]
            /\ \/ Delete(p, o.uid, 0) /\ UNCHANGED pending
               \/ DeleteUnapplied(o.uid, 0) /\ UNCHANGED <<index, foreign>>
    BY <1>3 DEF PruneOrphan, PruneUnapplied
  <2>2. o.uid \in Uids
    BY OrphanIsUid DEF Doomed, TypeOK
  <2>3. gone'[p] = gone[p] \union {o.uid} /\ gone[p] \subseteq Uids
    BY <2>1 DEF TypeOK
  <2>4. Cleared(p, o.uid)' /\ \A w \in Uids : Cleared(p, w) => Cleared(p, w)'
    BY <2>1, <2>2, DeleteClears
  <2>5. pc'[p] = "prune"
    BY <1>3 DEF PruneOrphan, PruneUnapplied
  <2> QED BY <2>3, <2>4, <2>5 DEF CandidateInv
<1>4. CASE PruneFails(p)
  <2>1. PICK o \in Doomed(p) : DeleteEffect(p, o.uid, 0)
    BY <1>4 DEF PruneFails
  <2>2. o.uid \in Uids
    BY OrphanIsUid DEF Doomed, TypeOK
  <2>3. \A w \in Uids : Cleared(p, w) => Cleared(p, w)'
    BY <2>1, <2>2, FailedDeleteKeepsCleared
  <2>4. pc'[p] = "report" /\ pruneFailed'[p] /\ gone'[p] = gone[p] /\ gone[p] \subseteq Uids
    BY <1>4 DEF PruneFails, TypeOK
  <2> QED BY <2>3, <2>4 DEF CandidateInv
<1>5. CASE PruneDone(p)
  <2>1. OrphansScanned(p) /\ Doomed(p) = {}
    BY <1>5 DEF PruneDone, ProcInv, OrphanInv, MayPrune
  <2>2. OrphansScanned(p)' = OrphansScanned(p) /\ Doomed(p)' = Doomed(p)
    BY <1>5 DEF PruneDone, OrphansScanned, Doomed
  <2>3. \A u : Cleared(p, u)' <=> Cleared(p, u)
    BY <1>5 DEF PruneDone, Cleared, DeleteOutstanding
  <2>4. pc'[p] = "report" /\ gone'[p] = gone[p]
    BY <1>5 DEF PruneDone, TypeOK
  <2> QED BY <2>1, <2>2, <2>3, <2>4 DEF CandidateInv
<1> QED BY <1>1, <1>2, <1>3, <1>4, <1>5

(* A step of the process itself keeps what it knows of its candidates. *)
LEMMA CandidatesOwnStep ==
    ASSUME TypeOK, NEW p \in Procs, ProcInv(p), CandidateInv(p), RunStep(p) \/ Crash(p)
    PROVE  CandidateInv(p)'
<1>1. CASE RefusedByLock(p) \/ ScanRefused(p) \/ HandshakeFails(p) \/ Finish(p) \/ Crash(p)
  <2>1. pc'[p] = "idle" /\ gone'[p] = {}
    BY <1>1 DEF RefusedByLock, ScanRefused, HandshakeFails, Finish, Crash, Exit, Goto, TypeOK
  <2> QED BY <2>1 DEF CandidateInv
<1>2. CASE Start(p) \/ TryAcquire(p) \/ ScanVault(p) \/ TakeSnapshot(p) \/ SnapshotFails(p)
  <2>1. /\ pc[p] \notin {"prune", "report"} /\ pc'[p] \notin {"prune", "report"}
        /\ gone'[p] = gone[p]
    BY <1>2 DEF Start, TryAcquire, ScanVault, TakeSnapshot, SnapshotFails, Goto, prunev, TypeOK
  <2> QED BY <2>1, NothingDeletedYet
<1>3. CASE \E u \in Uids : SkipNote(p, u) \/ PreviewNote(p, u) \/ ReworkNote(p, u) \/ NoteFails(p, u)
  <2>1. /\ pc[p] \notin {"prune", "report"} /\ pc'[p] \notin {"prune", "report"}
        /\ gone'[p] = gone[p]
    BY <1>3 DEF SkipNote, PreviewNote, ReworkNote, NoteFails, NextNote, Goto, prunev, TypeOK
  <2> QED BY <2>1, NothingDeletedYet
<1>4. CASE \/ Embed(p) \/ EmbedFails(p) \/ UpsertConfirmed(p) \/ UpsertNotConfirmed(p)
           \/ Trim(p) \/ TrimUnapplied(p) \/ TrimFails(p) \/ EndBatch(p)
  <2>1. /\ pc[p] \notin {"prune", "report"} /\ pc'[p] \notin {"prune", "report"}
        /\ gone'[p] = gone[p]
    BY <1>4 DEF Embed, EmbedFails, UpsertConfirmed, UpsertNotConfirmed, Trim, TrimUnapplied,
                TrimFails, EndBatch, EndNote, Goto, prunev, TypeOK
  <2> QED BY <2>1, NothingDeletedYet
<1>5. CASE \/ SplitForReport(p) \/ SplitForPrune(p) \/ PruneOrphan(p) \/ PruneUnapplied(p)
           \/ PruneFails(p) \/ PruneDone(p)
  BY <1>5, CandidatesAfterLoop
<1> QED BY <1>1, <1>2, <1>3, <1>4, <1>5 DEF RunStep

-----------------------------------------------------------------------------
(* The invariant, and what follows from it. *)

(* No run has candidates at the start. *)
LEMMA InitPruneInv == Init => PruneInv
<1>1. Init => \A p \in Procs : CandidateInv(p)
  BY DEF Init, CandidateInv
<1> QED BY <1>1, InitInv DEF PruneInv

(* Whatever happens, what each run knows of its candidates stays true. *)
LEMMA NextPruneInv == PruneInv /\ [Next]_vars => PruneInv'
<1> SUFFICES ASSUME PruneInv, [Next]_vars PROVE PruneInv'
  OBVIOUS
<1>1. IndInv' /\ TypeOK /\ LockInv /\ \A q \in Procs : ProcInv(q) /\ CandidateInv(q)
  BY NextInv DEF PruneInv, IndInv
<1>2. ASSUME NEW p \in Procs, RunStep(p) \/ Crash(p), NEW q \in Procs PROVE CandidateInv(q)'
  <2>1. CASE q = p
    BY <1>1, <1>2, <2>1, CandidatesOwnStep
  <2>2. CASE q # p
    <3>1. Same(q) /\ SeesWrites(q)
      BY <1>1, <1>2, <2>2, OthersBeforeLoop, OthersInLoop, OthersAfterLoop DEF RunStep
    <3> QED BY <1>1, <1>2, <2>2, <3>1, PruneOutcomeIsOwn, CandidatesUntouched
  <2> QED BY <2>1, <2>2
<1>3. ASSUME NEW q \in Procs,
             \/ \E p \in Procs : Interrupt(p) \/ CancelContext(p)
             \/ \E op \in pending : Land(op) \/ Lose(op)
             \/ \E u \in Uids, i \in Idx : AdminEdit(u, i)
             \/ \E l \in Locs : EditFile(l)
             \/ \E l, m \in Locs : MoveNote(l, m)
             \/ UNCHANGED vars
      PROVE  CandidateInv(q)'
  <2>1. Same(q) /\ SeesWrites(q)
    BY <1>1, <1>3, AroundIsSeen
  <2>2. UNCHANGED prunev
    BY <1>3 DEF Interrupt, CancelContext, Land, Lose, AdminEdit, EditFile, MoveNote, Disturb, vars
  <2> QED BY <1>1, <2>1, <2>2, CandidatesUntouched DEF prunev
<1>4. \A q \in Procs : CandidateInv(q)'
  BY <1>2, <1>3 DEF Next
<1> QED BY <1>1, <1>4 DEF PruneInv

(* PruneInv holds in every state the system reaches: what a prune deleted stays
   deleted for it, and its report is of the whole list (pruneOrphans, Prune). *)
THEOREM PruneInvariance == Spec => []PruneInv
<1> QED BY InitPruneInv, NextPruneInv, PTL DEF Spec

(* A prune that reports without an error has come to the end of its list. *)
LEMMA ReportedPruneIsWhole == ASSUME PruneInv PROVE CleanPruneExitLeavesNoOrphan
<1>1. ASSUME NEW p \in Procs, pc[p] = "report", opt[p].prune, Outcome(p) = "ok"
      PROVE  /\ OrphansScanned(p)
             /\ \A o \in orphans[p] : Cleared(p, o.uid)
  <2>1. ~pruneFailed[p] /\ ~interrupted[p]
    BY <1>1 DEF Outcome
  <2>2. OrphansScanned(p) /\ Doomed(p) = {}
    BY <1>1, <2>1 DEF PruneInv, CandidateInv
  <2>3. \A o \in orphans[p] : o.uid \in gone[p]
    BY <2>2 DEF Doomed
  <2> QED BY <1>1, <2>2, <2>3 DEF PruneInv, CandidateInv
<1> QED BY <1>1 DEF CleanPruneExitLeavesNoOrphan, Cleared

(* A --prune that exits 0 read the index, and every uid it lists as deleted has no
   points left, unless somebody outside its lock wrote it since or the server still
   has the accepted delete to apply (pruneOrphans, Prune). *)
THEOREM PruneIsComplete == Spec => []CleanPruneExitLeavesNoOrphan
<1>1. PruneInv => CleanPruneExitLeavesNoOrphan
  BY ReportedPruneIsWhole
<1> QED BY <1>1, PruneInvariance, PTL

-----------------------------------------------------------------------------
(* The report: what a run says of the uids that have points and no note, from the
   two lists it keeps and ReportInv behind them. *)

(* The lists, the scan and the snapshot of a run move together or not at all. *)
SameLists(q) == /\ scan'[q] = scan[q] /\ snap'[q] = snap[q] /\ opt'[q] = opt[q]
                /\ orphans'[q] = orphans[q] /\ onDisk'[q] = onDisk[q]

LEMMA ListsStand ==
    ASSUME NEW q \in Procs, ListedOnce(q), SameLists(q)
    PROVE  ListedOnce(q)'
  BY DEF ListedOnce, SameLists, Candidates, Bare, OrphansScanned, StoredWithin, HasPoints

(* One candidate for each uid that has points of those vaults and no note. *)
LEMMA OrphansAreOfUids ==
    ASSUME NEW idx, NEW notes, NEW vaults, NEW first
    PROVE  LET named == ScanOrphans(idx, notes, vaults, first)
           IN  /\ \A a, b \in named : a.uid = b.uid => a = b
               /\ \A o \in named : notes[o.uid] = NoNote
               /\ \A u \in Uids :
                    (/\ notes[u] = NoNote /\ HasPoints(idx[u])
                     /\ VaultOf[idx[u][first[u]].fields.loc] \in vaults) => \E o \in named : o.uid = u
<1> DEFINE stored(u) == idx[u][first[u]].fields.loc
           claimed(l) == \E w \in Uids : notes[w] # NoNote /\ notes[w].loc = l
           dead == {u \in Uids : /\ notes[u] = NoNote /\ HasPoints(idx[u])
                                 /\ VaultOf[stored(u)] \in vaults}
           entry(u) == [uid |-> u, loc |-> stored(u), claimed |-> claimed(stored(u))]
           named == ScanOrphans(idx, notes, vaults, first)
<1>1. \A u : entry(u).uid = u
  BY Zenon
<1>2. named = {entry(u) : u \in dead}
  BY Zenon DEF ScanOrphans
<1>3. \A u \in dead : u \in Uids /\ notes[u] = NoNote
  OBVIOUS
<1>4. \A u \in Uids : (/\ notes[u] = NoNote /\ HasPoints(idx[u])
                       /\ VaultOf[idx[u][first[u]].fields.loc] \in vaults) => u \in dead
  OBVIOUS
<1> HIDE DEF entry, dead, named
<1>5. /\ \A a, b \in named : a.uid = b.uid => a = b
      /\ \A o \in named : notes[o.uid] = NoNote
      /\ \A u \in Uids :
            (/\ notes[u] = NoNote /\ HasPoints(idx[u])
             /\ VaultOf[idx[u][first[u]].fields.loc] \in vaults) => \E o \in named : o.uid = u
  BY <1>1, <1>2, <1>3, <1>4
<1> QED BY <1>5 DEF named

(* A snapshot lists each uid that has points and no note once (ScanOrphans). *)
LEMMA SnapshotListsOnce ==
    ASSUME TypeOK, NEW p \in Procs, ProcInv(p), ListedOnce(p), TakeSnapshot(p)
    PROVE  ListedOnce(p)'
<1>1. PICK first \in FirstRecords(index) :
        orphans'[p] = IF opt[p].filtered THEN {}
                      ELSE ScanOrphans(index, scan[p], opt[p].vaults, first)
  BY DEF TakeSnapshot, TypeOK
<1>2. onDisk'[p] = {} /\ snap'[p] = index /\ scan'[p] = scan[p] /\ opt'[p] = opt[p]
  BY DEF TakeSnapshot, TypeOK, ListedOnce, Candidates, ProcInv, PhaseInv, Early
<1> DEFINE named == ScanOrphans(index, scan[p], opt[p].vaults, first)
<1>3. /\ \A a, b \in named : a.uid = b.uid => a = b
      /\ \A o \in named : Bare(p, o.uid)
  BY OrphansAreOfUids DEF Bare
<1>4. ASSUME NEW u \in Uids, Bare(p, u), StoredWithin(index[u], opt[p].vaults)
      PROVE  \E o \in named : o.uid = u
  <2>1. HasPoints(index[u]) /\ first[u] \in Idx /\ index[u][first[u]] # NoPoint
    BY <1>4 DEF StoredWithin, FirstRecords
  <2>2. VaultOf[index[u][first[u]].fields.loc] \in opt[p].vaults
    BY <1>4, <2>1 DEF StoredWithin
  <2> QED BY <1>4, <2>1, <2>2, OrphansAreOfUids DEF Bare
<1>5. snap'[p] # NoSnap
  BY <1>2 DEF TypeOK
<1> HIDE DEF named
<1>6. opt[p].filtered => orphans'[p] = {}
  BY <1>1
<1>7. ~opt[p].filtered => orphans'[p] = named
  BY <1>1 DEF named
<1> QED BY <1>2, <1>3, <1>4, <1>5, <1>6, <1>7 DEF ListedOnce, Candidates, Bare, OrphansScanned

(* Setting candidates aside loses none: each stays on one of the two lists
   (splitStillOnDisk). *)
LEMMA SplitListsOnce ==
    ASSUME TypeOK, NEW p \in Procs, ListedOnce(p), SplitStillOnDisk(p), UNCHANGED <<scan, snap, opt>>
    PROVE  ListedOnce(p)'
<1>1. PICK unreadable \in SUBSET orphans[p] :
        /\ orphans'[p] = {o \in orphans[p] : StillOrphan(o, unreadable)}
        /\ onDisk'[p] = onDisk[p] \union {o \in orphans[p] : ~StillOrphan(o, unreadable)}
  BY DEF SplitStillOnDisk, TypeOK
<1>2. Candidates(p)' = Candidates(p) /\ orphans'[p] \intersect onDisk'[p] = {}
  BY <1>1 DEF Candidates, ListedOnce
<1> QED BY <1>2 DEF ListedOnce, Bare, OrphansScanned, StoredWithin, HasPoints

(* What has no note keeps its points while nobody writes it. *)
LEMMA BareIsKept ==
    ASSUME NEW q \in Procs, KeptInv(q), SameLists(q),
           pc[q] \in {"prune", "report"} => pc'[q] \in {"prune", "report"},
           \A u \in Uids \ foreign'[q] :
                snap[q] # NoSnap /\ Bare(q, u) => u \notin foreign[q] /\ index'[u] = index[u]
    PROVE  KeptInv(q)'
  BY DEF KeptInv, SameLists, Bare, Pruned

(* A step a process takes no part in leaves its lists true. *)
LEMMA ListsUntouched ==
    ASSUME TypeOK, NEW q \in Procs, ProcInv(q), ListedOnce(q), KeptInv(q), Same(q), SeesWrites(q)
    PROVE  (ListedOnce(q) /\ KeptInv(q))'
<1>1. SameLists(q)
  BY DEF Same, SameLists
<1>2. snap[q] # NoSnap => ~Early(q)
  BY DEF ProcInv, PhaseInv
<1> QED BY <1>1, <1>2, ListsStand, BareIsKept DEF Same, SeesWrites

(* A run writes the notes it scanned, and no other. *)
LEMMA RunWritesItsNotes ==
    ASSUME TypeOK, NEW p \in Procs, ProcInv(p), ListedOnce(p), KeptInv(p),
           \/ UpsertConfirmed(p) \/ UpsertNotConfirmed(p)
           \/ Trim(p) \/ TrimUnapplied(p) \/ TrimFails(p)
    PROVE  (ListedOnce(p) /\ KeptInv(p))'
<1>1. InNote(p) /\ cur[p] \in Uids /\ ~Bare(p, cur[p])
  BY DEF UpsertConfirmed, UpsertNotConfirmed, Trim, TrimUnapplied, TrimFails, InNote, ProcInv,
         PlanInv, Bare
<1>2. SameLists(p)
  BY DEF UpsertConfirmed, UpsertNotConfirmed, Trim, TrimUnapplied, TrimFails, SameLists, plan, prunev
<1>3. \A w \in Uids \ {cur[p]} : index'[w] = index[w]
  BY <1>1 DEF UpsertConfirmed, UpsertNotConfirmed, UpsertEffect, Trim, TrimUnapplied, TrimFails,
              DeleteEffect, Delete, TypeOK
<1>4. \A w \in Uids \ {cur[p]} : w \in foreign[p] => w \in foreign'[p]
  <2>1. foreign[p] \subseteq WroteBy(p, cur[p])[p]
    BY DEF WroteBy
  <2>2. CASE UpsertConfirmed(p)
    <3>1. foreign'[p] = WroteBy(p, cur[p])[p] \ {cur[p]}
      BY <2>2 DEF UpsertConfirmed, WroteBy
    <3> QED BY <2>1, <3>1
  <2>3. CASE UpsertNotConfirmed(p)
    BY <2>1, <2>3 DEF UpsertNotConfirmed, UpsertEffect
  <2>4. CASE Trim(p) \/ TrimUnapplied(p) \/ TrimFails(p)
    BY <2>1, <2>4 DEF Trim, TrimUnapplied, TrimFails, DeleteEffect, Delete
  <2> QED BY <2>2, <2>3, <2>4
<1>5. pc[p] \notin {"prune", "report"}
  BY <1>1 DEF InNote
<1>6. \A u \in Uids \ foreign'[p] : Bare(p, u) => u \notin foreign[p] /\ index'[u] = index[u]
  BY <1>1, <1>3, <1>4
<1> QED BY <1>2, <1>5, <1>6, ListsStand, BareIsKept

(* A prune takes the points of a candidate, all of them or none. *)
LEMMA PruneTakesCandidates ==
    ASSUME TypeOK, NEW p \in Procs, ListedOnce(p), KeptInv(p),
           PruneOrphan(p) \/ PruneUnapplied(p) \/ PruneFails(p)
    PROVE  (ListedOnce(p) /\ KeptInv(p))'
<1>1. PICK o \in Doomed(p) :
        \/ Delete(p, o.uid, 0)
        \/ UNCHANGED <<index, foreign>>
  BY DEF PruneOrphan, PruneUnapplied, PruneFails, DeleteEffect, DeleteUnapplied
<1>2. SameLists(p) /\ pc'[p] \in {"prune", "report"} /\ pc[p] = "prune"
  BY DEF PruneOrphan, PruneUnapplied, PruneFails, SameLists, Goto, plan, TypeOK
<1>3. o \in orphans[p] /\ o.uid \in Uids
  BY OrphanIsUid DEF Doomed
<1>4. /\ \A w \in Uids \ {o.uid} : index'[w] = index[w]
      /\ index'[o.uid] = index[o.uid] \/ ~HasPoints(index'[o.uid])
      /\ foreign[p] \subseteq foreign'[p]
  <2>1. CASE Delete(p, o.uid, 0)
    BY <1>3, <2>1, DeleteAllEmpties DEF Delete, WroteBy, TypeOK
  <2> QED BY <1>1, <2>1
<1>5. KeptInv(p)'
  BY <1>2, <1>3, <1>4 DEF KeptInv, SameLists, Bare, Pruned
<1> QED BY <1>2, <1>5, ListsStand

(* A step of the process itself keeps its lists true. *)
LEMMA ListsOwnStep ==
    ASSUME TypeOK, NEW p \in Procs, ProcInv(p), ListedOnce(p), KeptInv(p), RunStep(p) \/ Crash(p)
    PROVE  (ListedOnce(p) /\ KeptInv(p))'
<1> USE DEF Goto, plan, loopv, prunev, store
<1>1. CASE RefusedByLock(p) \/ ScanRefused(p) \/ HandshakeFails(p) \/ Finish(p) \/ Crash(p)
  <2>1. snap'[p] = NoSnap /\ orphans'[p] = {} /\ onDisk'[p] = {}
    BY <1>1 DEF RefusedByLock, ScanRefused, HandshakeFails, Finish, Crash, Exit, TypeOK
  <2> QED BY <2>1 DEF ListedOnce, KeptInv, Candidates, OrphansScanned
<1>2. CASE Start(p) \/ TryAcquire(p) \/ ScanVault(p) \/ SnapshotFails(p)
  <2>1. snap[p] = NoSnap /\ orphans[p] = {} /\ onDisk[p] = {}
    BY <1>2 DEF Start, TryAcquire, ScanVault, SnapshotFails, ProcInv, PhaseInv, Early, ListedOnce, Candidates
  <2>2. snap'[p] = NoSnap /\ orphans'[p] = {} /\ onDisk'[p] = {}
    BY <1>2, <2>1 DEF Start, TryAcquire, ScanVault, SnapshotFails
  <2> QED BY <2>2 DEF ListedOnce, KeptInv, Candidates, OrphansScanned
<1>3. CASE TakeSnapshot(p)
  <2>1. snap'[p] = index /\ index' = index
    BY <1>3 DEF TakeSnapshot, TypeOK
  <2> QED BY <1>3, <2>1, SnapshotListsOnce DEF KeptInv
<1>4. CASE \/ \E u \in Uids : SkipNote(p, u) \/ PreviewNote(p, u) \/ ReworkNote(p, u) \/ NoteFails(p, u)
           \/ Embed(p) \/ EmbedFails(p) \/ EndBatch(p) \/ PruneDone(p)
  <2>1. SameLists(p) /\ index' = index
    BY <1>4 DEF SkipNote, PreviewNote, ReworkNote, NoteFails, Embed, EmbedFails, EndBatch, PruneDone,
                SameLists
  <2>2. snap[p] # NoSnap => foreign'[p] = foreign[p]
    BY <1>4 DEF SkipNote, PreviewNote, ReworkNote, NoteFails, ReadFresh, Embed, EmbedFails, EndBatch,
                PruneDone, TypeOK
  <2>3. pc[p] \in {"prune", "report"} => pc'[p] \in {"prune", "report"}
    BY <1>4 DEF SkipNote, PreviewNote, ReworkNote, NoteFails, NextNote, Embed, EmbedFails, EndBatch,
                PruneDone, TypeOK
  <2> QED BY <2>1, <2>2, <2>3, ListsStand, BareIsKept
<1>5. CASE SplitForReport(p) \/ SplitForPrune(p)
  <2>1. /\ SplitStillOnDisk(p) /\ UNCHANGED <<scan, snap, opt, index, foreign>>
        /\ pc[p] \in {"split", "resplit"}
    BY <1>5 DEF SplitForReport, SplitForPrune
  <2>2. KeptInv(p)'
    BY <2>1 DEF KeptInv, Bare, Pruned
  <2> QED BY <2>1, <2>2, SplitListsOnce
<1>6. CASE \/ UpsertConfirmed(p) \/ UpsertNotConfirmed(p)
           \/ Trim(p) \/ TrimUnapplied(p) \/ TrimFails(p)
  BY <1>6, RunWritesItsNotes
<1>7. CASE PruneOrphan(p) \/ PruneUnapplied(p) \/ PruneFails(p)
  BY <1>7, PruneTakesCandidates
<1> QED BY <1>1, <1>2, <1>3, <1>4, <1>5, <1>6, <1>7 DEF RunStep

(* No run has listed anything at the start. *)
LEMMA InitReportInv == Init => ReportInv
<1>1. Init => \A p \in Procs : ListedOnce(p) /\ KeptInv(p)
  BY DEF Init, ListedOnce, KeptInv, Candidates, OrphansScanned
<1> QED BY <1>1, InitPruneInv DEF ReportInv

(* Whatever happens, the lists of each run stay true. *)
LEMMA NextReportInv == ReportInv /\ [Next]_vars => ReportInv'
<1> SUFFICES ASSUME ReportInv, [Next]_vars PROVE ReportInv'
  OBVIOUS
<1>1. /\ PruneInv' /\ TypeOK /\ LockInv
      /\ \A q \in Procs : ProcInv(q) /\ ListedOnce(q) /\ KeptInv(q)
  BY NextPruneInv DEF ReportInv, PruneInv, IndInv
<1>2. ASSUME NEW p \in Procs, RunStep(p) \/ Crash(p), NEW q \in Procs
      PROVE  (ListedOnce(q) /\ KeptInv(q))'
  <2>1. CASE q = p
    BY <1>1, <1>2, <2>1, ListsOwnStep
  <2>2. CASE q # p
    <3>1. Same(q) /\ SeesWrites(q)
      BY <1>1, <1>2, <2>2, OthersBeforeLoop, OthersInLoop, OthersAfterLoop DEF RunStep
    <3> QED BY <1>1, <3>1, ListsUntouched
  <2> QED BY <2>1, <2>2
<1>3. ASSUME NEW q \in Procs,
             \/ \E p \in Procs : Interrupt(p) \/ CancelContext(p)
             \/ \E op \in pending : Land(op) \/ Lose(op)
             \/ \E u \in Uids, i \in Idx : AdminEdit(u, i)
             \/ \E l \in Locs : EditFile(l)
             \/ \E l, m \in Locs : MoveNote(l, m)
             \/ UNCHANGED vars
      PROVE  (ListedOnce(q) /\ KeptInv(q))'
  <2>1. Same(q) /\ SeesWrites(q)
    BY <1>1, <1>3, AroundIsSeen
  <2> QED BY <1>1, <2>1, ListsUntouched
<1>4. \A q \in Procs : (ListedOnce(q) /\ KeptInv(q))'
  BY <1>2, <1>3 DEF Next
<1> QED BY <1>1, <1>4 DEF ReportInv

(* ReportInv holds in every state the system reaches: no uid falls between the two
   lists of a report, and what a report says was left alone was (splitStillOnDisk). *)
THEOREM ReportInvariance == Spec => []ReportInv
<1> QED BY InitReportInv, NextReportInv, PTL DEF Spec

(* A run that exits 0 accounts for every uid of the vaults it scanned: a prune left
   nothing of what it listed; and where nothing narrowed the run, a note that stayed on
   disk is in the index as it is there, and a uid with points and no note is listed, its
   points deleted or untouched as the list says (RunBatch, splitStillOnDisk, pruneOrphans). *)
THEOREM CleanRunAccounts == Spec => []CleanRunAccountsForAll
<1>1. ReportInv => CleanRunAccountsForAll
  <2>0. ReportInv => CleanPruneExitLeavesNoOrphan
    BY ReportedPruneIsWhole DEF ReportInv
  <2> SUFFICES ASSUME ReportInv, NEW p \in Procs, pc[p] = "report", Outcome(p) = "ok", ~opt[p].filtered,
                      NEW u \in Uids, u \notin foreign[p], ~DeleteOutstanding(u)
               PROVE  /\ \A l \in Locs \ disturbed[p] :
                          (LiveNote(l, u) /\ VaultOf[l] \in opt[p].vaults /\ ~opt[p].dryRun) =>
                              index[u] = ExpectedPoints([loc |-> l, ver |-> disk[l].ver])
                      /\ (OrphansScanned(p) /\ Bare(p, u) /\ StoredWithin(index[u], opt[p].vaults)) =>
                              Listed(p, u)
                      /\ (\E o \in onDisk[p] : o.uid = u) => index[u] = snap[p][u]
    BY <2>0 DEF CleanRunAccountsForAll, Bare
  <2>1. IndInv /\ CandidateInv(p) /\ ListedOnce(p) /\ KeptInv(p)
    BY DEF ReportInv, PruneInv
  <2>2. ASSUME NEW l \in Locs \ disturbed[p], LiveNote(l, u), VaultOf[l] \in opt[p].vaults, ~opt[p].dryRun
        PROVE  index[u] = ExpectedPoints([loc |-> l, ver |-> disk[l].ver])
    <3>1. scan[p][u] = [loc |-> l, ver |-> disk[l].ver]
      BY <2>1, <2>2 DEF IndInv, ProcInv, PhaseInv, ScannedInv, LiveNote
    <3>2. [loc |-> l, ver |-> disk[l].ver] \in Notes
      BY <2>2 DEF LiveNote, Files, Notes
    <3>3. u \in Selected(p)
      BY <3>1, <3>2 DEF Selected
    <3> QED BY <2>1, <2>2, <3>1, <3>3, CoveredAtExit
  <2>3. ASSUME OrphansScanned(p), Bare(p, u), StoredWithin(index[u], opt[p].vaults) PROVE Listed(p, u)
    <3>1. index[u] = snap[p][u] /\ HasPoints(index[u])
      BY <2>1, <2>3 DEF KeptInv, Pruned, OrphansScanned, StoredWithin
    <3>2. PICK o \in Candidates(p) : o.uid = u
      BY <2>1, <2>3, <3>1 DEF ListedOnce
    <3>3. opt[p].prune => o \notin orphans[p]
      BY <2>1, <3>1, <3>2 DEF CandidateInv, Doomed, Cleared, Outcome
    <3> QED BY <3>2, <3>3 DEF Candidates, Listed
  <2>4. ASSUME NEW o \in onDisk[p], o.uid = u PROVE index[u] = snap[p][u]
    <3>1. Bare(p, u) /\ snap[p] # NoSnap /\ ~\E a \in orphans[p] : a.uid = u
      BY <2>1, <2>4 DEF ListedOnce, Candidates
    <3> QED BY <2>1, <3>1 DEF KeptInv, Pruned
  <2> QED BY <2>2, <2>3, <2>4
<1> QED BY <1>1, ReportInvariance, PTL

=============================================================================
