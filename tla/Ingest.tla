------------------------------- MODULE Ingest -------------------------------
(***************************************************************************)
(* `knowrag ingest`: processes that bring the point index in line with the *)
(* notes on disk.                                                          *)
(*                                                                         *)
(* One process is one invocation of the command.  It takes the scope's     *)
(* file lock, scans the selected vaults one after another, reads the whole *)
(* tenant once, works through the notes (embed, upsert, delete the stale   *)
(* tail), and at the end may delete the points of notes that are gone.     *)
(*                                                                         *)
(* Around it: people who edit the vaults while a run is going on, SIGINT,  *)
(* processes that die, and a vector store whose calls fail, apply part of  *)
(* a write, or answer before the write is applied.                         *)
(***************************************************************************)
EXTENDS PointIndex

CONSTANTS
    Procs,        \* invocations of the command
    LockKey,      \* the lock file each process derives: host and scope
    NoProc,       \* nobody holds the lock
    Options,      \* flag sets an operator may use
    Disks,        \* vault contents a behaviour may start from
    EditStates,   \* what an edit may leave at a location
    Absent, Hidden, Invalid,
    NoSnap,       \* the whole-tenant read failed
    NoUid,
    UpsertAttempts,
    MaxEdits,     \* bound on edits of the vaults
    MaxFaults     \* bound on failures, crashes, interrupts, stray edits

Keys == {LockKey[p] : p \in Procs}

(* A file is a note, or it is there and the scan does not return it (excluded
   by configuration, or emptied), or it breaks the vault contract. *)
Files      == [uid : Uids, ver : Versions]
FileStates == Files \union {Absent, Hidden, Invalid}

OptionType == [dryRun : BOOLEAN, full : BOOLEAN, prune : BOOLEAN,
               filtered : BOOLEAN, only : SUBSET Locs, vaults : SUBSET Vaults \ {{}}]

ASSUME IngestAssumption ==
    /\ Options \subseteq OptionType /\ Options # {}
    /\ Disks \subseteq [Locs -> FileStates]
    /\ EditStates \subseteq FileStates
    /\ Files \intersect {Absent, Hidden, Invalid} = {}
    /\ Hidden # Absent /\ Invalid # Absent /\ Hidden # Invalid
    /\ LockKey \in [Procs -> Keys] /\ NoProc \notin Procs
    /\ NoUid \notin Uids
    /\ NoSnap \notin [Uids -> Rows]
    /\ UpsertAttempts \in Nat \ {0}
    /\ MaxEdits \in Nat /\ MaxFaults \in Nat

VARIABLES
    disk,         \* what is at each location
    index,        \* the points stored under each uid
    pending,      \* writes the server may still apply
    held,         \* the process that holds each lock file
    pc,           \* where each process is
    opt,          \* its flags
    unscanned,    \* vaults it has not scanned yet
    scan,         \* the notes it scanned
    snap,         \* the index as it read it
    todo,         \* uids it has not processed yet
    cur,          \* the uid in flight
    tries,        \* upserts attempted for it
    result,       \* the outcome per uid
    orphans,      \* deletion candidates
    onDisk,       \* candidates set aside because their file is there
    gone,         \* candidates whose points it deleted
    pruneFailed,  \* the prune was refused or stopped at an error
    signal,       \* none, stop (first SIGINT), cancel (second, or grace over)
    interrupted,  \* Report.Interrupted
    foreign,      \* history: uids somebody else wrote since it established them
    disturbed,    \* history: locations edited since it started
    edits, faults

world   == <<disk, disturbed, edits>>
store   == <<index, pending>>
plan    == <<opt, unscanned, scan, snap>>
loopv   == <<todo, cur, tries, result>>
prunev  == <<orphans, onDisk, gone, pruneFailed>>
stopv   == <<signal, interrupted>>
vars == <<world, store, held, pc, plan, loopv, prunev, stopv, foreign, faults>>

-----------------------------------------------------------------------------
Labels == {"idle", "acquire", "scan", "connect", "loop", "embed", "upsert", "trim",
           "split", "resplit", "prune", "report"}

Results == {"none", "skipped", "pruned", "failed"}

InFlight == [kind : {"upsert"}, uid : Uids, note : Notes, acked : BOOLEAN]
            \union [kind : {"delete"}, uid : Uids, from : 0 .. MaxChunks, acked : BOOLEAN]

Orphans == [uid : Uids, loc : Locs, claimed : BOOLEAN]

TypeOK ==
    /\ disk \in [Locs -> FileStates]
    /\ index \in [Uids -> Rows]
    /\ pending \subseteq InFlight
    /\ held \in [Keys -> Procs \union {NoProc}]
    /\ pc \in [Procs -> Labels]
    /\ opt \in [Procs -> Options]
    /\ unscanned \in [Procs -> SUBSET Vaults]
    /\ scan \in [Procs -> [Uids -> Notes \union {NoNote}]]
    /\ snap \in [Procs -> [Uids -> Rows] \union {NoSnap}]
    /\ todo \in [Procs -> SUBSET Uids]
    /\ cur \in [Procs -> Uids \union {NoUid}]
    /\ tries \in [Procs -> 0 .. UpsertAttempts - 1]
    /\ result \in [Procs -> [Uids -> Results]]
    /\ orphans \in [Procs -> SUBSET Orphans]
    /\ onDisk \in [Procs -> SUBSET Orphans]
    /\ gone \in [Procs -> SUBSET Uids]
    /\ pruneFailed \in [Procs -> BOOLEAN]
    /\ signal \in [Procs -> {"none", "stop", "cancel"}]
    /\ interrupted \in [Procs -> BOOLEAN]
    /\ foreign \in [Procs -> SUBSET Uids]
    /\ disturbed \in [Procs -> SUBSET Locs]
    /\ edits \in 0 .. MaxEdits
    /\ faults \in 0 .. MaxFaults

-----------------------------------------------------------------------------
(* Helpers. *)
NoteAt(d, u) ==
    LET l == CHOOSE l \in Locs : d[l] \in Files /\ d[l].uid = u
    IN [loc |-> l, ver |-> d[l].ver]

OnDisk(d, u) == \E l \in Locs : d[l] \in Files /\ d[l].uid = u

(* The index a clean run over the whole disk leaves. *)
Ingested(d) == [u \in Uids |-> IF OnDisk(d, u) THEN ExpectedPoints(NoteAt(d, u)) ELSE Nothing]

NothingScanned == [u \in Uids |-> NoNote]

AnyOption == CHOOSE o \in Options : TRUE

Running(p) == pc[p] # "idle"

(* A write to u by p: news to every running process under another lock, or
   under none. *)
WroteBy(p, u) ==
    [q \in Procs |-> IF Running(q) /\ (LockKey[q] # LockKey[p] \/ opt[q].dryRun)
                     THEN foreign[q] \union {u} ELSE foreign[q]]

(* A write to u that no running process made. *)
WroteByNobody(u) == [q \in Procs |-> IF Running(q) THEN foreign[q] \union {u} ELSE foreign[q]]

Fault == faults < MaxFaults /\ faults' = faults + 1

(* A call that fails because the environment does, or because its context is cancelled. *)
FaultOrCancelled(p) ==
    \/ signal[p] = "cancel" /\ UNCHANGED faults
    \/ signal[p] # "cancel" /\ Fault

Goto(p, l) == pc' = [pc EXCEPT ![p] = l]

(* A lock file whose existence is the lock: it outlives its process. *)
ReleaseForgotten(p) == UNCHANGED held

(* The kernel drops the flock of a process that ends, released or not. *)
Release(p) == held' = [k \in Keys |-> IF held[k] = p THEN NoProc ELSE held[k]]

(* The process ends, whatever the reason, and what it knew is gone. *)
Exit(p) ==
    /\ Goto(p, "idle")
    /\ Release(p)
    /\ opt' = [opt EXCEPT ![p] = AnyOption]
    /\ unscanned' = [unscanned EXCEPT ![p] = {}]
    /\ scan' = [scan EXCEPT ![p] = NothingScanned]
    /\ snap' = [snap EXCEPT ![p] = NoSnap]
    /\ todo' = [todo EXCEPT ![p] = {}]
    /\ cur' = [cur EXCEPT ![p] = NoUid]
    /\ tries' = [tries EXCEPT ![p] = 0]
    /\ result' = [result EXCEPT ![p] = [u \in Uids |-> "none"]]
    /\ orphans' = [orphans EXCEPT ![p] = {}]
    /\ onDisk' = [onDisk EXCEPT ![p] = {}]
    /\ gone' = [gone EXCEPT ![p] = {}]
    /\ pruneFailed' = [pruneFailed EXCEPT ![p] = FALSE]
    /\ signal' = [signal EXCEPT ![p] = "none"]
    /\ interrupted' = [interrupted EXCEPT ![p] = FALSE]
    /\ foreign' = [foreign EXCEPT ![p] = {}]
    /\ disturbed' = [disturbed EXCEPT ![p] = {}]

Init ==
    /\ disk \in Disks
    /\ index \in {[u \in Uids |-> Nothing], Ingested(disk)}
    /\ pending = {}
    /\ held = [k \in Keys |-> NoProc]
    /\ pc = [p \in Procs |-> "idle"]
    /\ opt = [p \in Procs |-> AnyOption]
    /\ unscanned = [p \in Procs |-> {}]
    /\ scan = [p \in Procs |-> NothingScanned]
    /\ snap = [p \in Procs |-> NoSnap]
    /\ todo = [p \in Procs |-> {}]
    /\ cur = [p \in Procs |-> NoUid]
    /\ tries = [p \in Procs |-> 0]
    /\ result = [p \in Procs |-> [u \in Uids |-> "none"]]
    /\ orphans = [p \in Procs |-> {}]
    /\ onDisk = [p \in Procs |-> {}]
    /\ gone = [p \in Procs |-> {}]
    /\ pruneFailed = [p \in Procs |-> FALSE]
    /\ signal = [p \in Procs |-> "none"]
    /\ interrupted = [p \in Procs |-> FALSE]
    /\ foreign = [p \in Procs |-> {}]
    /\ disturbed = [p \in Procs |-> {}]
    /\ edits = 0
    /\ faults = 0

-----------------------------------------------------------------------------
(* Before the batch: flags, lock, scan, handshake, snapshot. *)

(* A destructive flag over a run that cannot support it is refused.  A --prune
   in Options is one the operator confirmed. *)
ValidModes(o) == ~(o.prune /\ o.dryRun) /\ ~(o.prune /\ o.filtered)

Start(p) ==
    /\ pc[p] = "idle"
    /\ \E o \in Options :
        /\ ValidModes(o)
        /\ opt' = [opt EXCEPT ![p] = o]
        /\ unscanned' = [unscanned EXCEPT ![p] = o.vaults]
        /\ Goto(p, IF o.dryRun THEN "scan" ELSE "acquire")
    /\ UNCHANGED <<world, store, held, scan, snap, loopv, prunev, stopv, foreign, faults>>

(* An acquisition that takes the lock away from its holder. *)
TryAcquireAnyway(p) ==
    /\ pc[p] = "acquire"
    /\ held' = [held EXCEPT ![LockKey[p]] = p]
    /\ Goto(p, "scan")
    /\ UNCHANGED <<world, store, plan, loopv, prunev, stopv, foreign, faults>>

TryAcquire(p) ==
    /\ pc[p] = "acquire"
    /\ held[LockKey[p]] = NoProc
    /\ held' = [held EXCEPT ![LockKey[p]] = p]
    /\ Goto(p, "scan")
    /\ UNCHANGED <<world, store, plan, loopv, prunev, stopv, foreign, faults>>

RefusedByLock(p) ==
    /\ pc[p] = "acquire"
    /\ held[LockKey[p]] # NoProc
    /\ Exit(p)
    /\ UNCHANGED <<disk, edits, store, faults>>

Found(v) == {l \in Locs : VaultOf[l] = v /\ disk[l] \in Files}

(* A file that breaks the contract, or a uid found twice in this vault or in
   one already scanned, fails the run before anything is written. *)
ScanFails(p, v) ==
    \/ \E l \in Locs : VaultOf[l] = v /\ disk[l] = Invalid
    \/ \E l, m \in Found(v) : l # m /\ disk[l].uid = disk[m].uid
    \/ \E l \in Found(v) : scan[p][disk[l].uid] # NoNote

ScanVault(p) ==
    /\ pc[p] = "scan"
    /\ \E v \in unscanned[p] :
        /\ ~ScanFails(p, v)
        /\ scan' = [scan EXCEPT ![p] =
                [u \in Uids |-> IF \E l \in Found(v) : disk[l].uid = u
                                THEN LET l == CHOOSE l \in Found(v) : disk[l].uid = u
                                     IN [loc |-> l, ver |-> disk[l].ver]
                                ELSE scan[p][u]]]
        /\ unscanned' = [unscanned EXCEPT ![p] = @ \ {v}]
        /\ Goto(p, IF unscanned[p] = {v} THEN "connect" ELSE "scan")
    /\ UNCHANGED <<world, store, held, opt, snap, loopv, prunev, stopv, foreign, faults>>

ScanRefused(p) ==
    /\ pc[p] = "scan"
    /\ \E v \in unscanned[p] : ScanFails(p, v)
    /\ Exit(p)
    /\ UNCHANGED <<disk, edits, store, faults>>

HandshakeFails(p) ==
    /\ pc[p] = "connect"
    /\ FaultOrCancelled(p)
    /\ Exit(p)
    /\ UNCHANGED <<disk, edits, store>>

(* FilterByGlob, over what was scanned. *)
Selected(p) == {u \in Uids : /\ scan[p][u] # NoNote
                             /\ opt[p].filtered => scan[p][u].loc \in opt[p].only}

OrphansScanned(p) == snap[p] # NoSnap /\ ~opt[p].filtered

TakeSnapshot(p) ==
    /\ pc[p] = "connect"
    /\ signal[p] # "cancel"
    /\ snap' = [snap EXCEPT ![p] = index]
    /\ \E first \in FirstRecords(index) :
        orphans' = [orphans EXCEPT ![p] =
                IF opt[p].filtered THEN {}
                ELSE ScanOrphans(index, scan[p], opt[p].vaults, first)]
    /\ todo' = [todo EXCEPT ![p] = Selected(p)]
    /\ foreign' = [foreign EXCEPT ![p] = {}]
    /\ Goto(p, "loop")
    /\ UNCHANGED <<world, store, held, opt, unscanned, scan, cur, tries, result,
                   onDisk, gone, pruneFailed, stopv, faults>>

SnapshotFails(p) ==
    /\ pc[p] = "connect"
    /\ FaultOrCancelled(p)
    /\ todo' = [todo EXCEPT ![p] = Selected(p)]
    /\ foreign' = [foreign EXCEPT ![p] = {}]
    /\ Goto(p, "loop")
    /\ UNCHANGED <<world, store, held, plan, cur, tries, result, prunev, stopv>>

-----------------------------------------------------------------------------
(* The note loop. *)

(* What the run believes is stored under u: the snapshot, or a read of its own. *)
Stored(p, u) == IF snap[p] # NoSnap THEN snap[p][u] ELSE index[u]

ReadFresh(p, u) == foreign' = [foreign EXCEPT ![p] = IF snap[p] = NoSnap THEN @ \ {u} ELSE @]

(* The interrupt is looked at between notes, never inside one. *)
NextNote(p, u) ==
    /\ pc[p] = "loop"
    /\ signal[p] = "none"
    /\ u \in todo[p]
    /\ todo' = [todo EXCEPT ![p] = @ \ {u}]

Integral(p, u) == ~opt[p].full /\ CheckIntegrity(Stored(p, u), scan[p][u])

Settle(p, u, r) == result' = [result EXCEPT ![p][u] = r]

SkipNote(p, u) ==
    /\ NextNote(p, u)
    /\ Integral(p, u)
    /\ Settle(p, u, "skipped")
    /\ ReadFresh(p, u)
    /\ UNCHANGED <<world, store, held, pc, plan, cur, tries, prunev, stopv, faults>>

PreviewNote(p, u) ==
    /\ NextNote(p, u)
    /\ ~Integral(p, u) /\ opt[p].dryRun
    /\ Settle(p, u, "pruned")
    /\ ReadFresh(p, u)
    /\ UNCHANGED <<world, store, held, pc, plan, cur, tries, prunev, stopv, faults>>

ReworkNote(p, u) ==
    /\ NextNote(p, u)
    /\ ~Integral(p, u) /\ ~opt[p].dryRun
    /\ cur' = [cur EXCEPT ![p] = u]
    /\ Goto(p, "embed")
    /\ ReadFresh(p, u)
    /\ UNCHANGED <<world, store, held, plan, tries, result, prunev, stopv, faults>>

(* Chunking failed (the tokenizer did not answer), or reading the points back did. *)
NoteFails(p, u) ==
    /\ NextNote(p, u)
    /\ Fault
    /\ Settle(p, u, "failed")
    /\ UNCHANGED <<world, store, held, pc, plan, cur, tries, prunev, stopv, foreign>>

CurNote(p) == scan[p][cur[p]]

(* Everything is embedded before anything is written.  A note with no chunks
   needs no call. *)
Embed(p) ==
    /\ pc[p] = "embed"
    /\ signal[p] # "cancel" \/ ChunksOf(CurNote(p)) = {}
    /\ Goto(p, "upsert")
    /\ UNCHANGED <<world, store, held, plan, loopv, prunev, stopv, foreign, faults>>

(* The note in flight ends as r and the loop goes on. *)
EndNote(p, r) ==
    /\ Settle(p, cur[p], r)
    /\ cur' = [cur EXCEPT ![p] = NoUid]
    /\ tries' = [tries EXCEPT ![p] = 0]
    /\ Goto(p, "loop")
    /\ UNCHANGED todo

EmbedFails(p) ==
    /\ pc[p] = "embed"
    /\ ChunksOf(CurNote(p)) # {}
    /\ FaultOrCancelled(p)
    /\ EndNote(p, "failed")
    /\ UNCHANGED <<world, store, held, plan, prunev, stopv, foreign>>

UpsertConfirmed(p) ==
    /\ pc[p] = "upsert"
    /\ signal[p] # "cancel" \/ ChunksOf(CurNote(p)) = {}
    /\ index' = [index EXCEPT ![cur[p]] = UpsertPoints(@, CurNote(p), ChunksOf(CurNote(p)))]
    /\ foreign' = [WroteBy(p, cur[p]) EXCEPT ![p] = @ \ {cur[p]}]
    /\ Goto(p, "trim")
    /\ UNCHANGED <<world, pending, held, plan, loopv, prunev, stopv, faults>>

(* An upsert that was not confirmed: WaitTimeout (the server has the write and
   will apply it), or an error after which nothing, a part or all of it is
   applied, or it is still on its way. *)
UpsertEffect(p) ==
    LET u == cur[p]
        n == CurNote(p)
        late(acked) == [kind |-> "upsert", uid |-> u, note |-> n, acked |-> acked]
    IN \/ /\ signal[p] # "cancel"
          /\ pending' = pending \union {late(TRUE)}
          /\ UNCHANGED <<index, foreign>>
       \/ /\ pending' = pending \union {late(FALSE)}
          /\ UNCHANGED <<index, foreign>>
       \/ /\ \E S \in SUBSET ChunksOf(n) :
                index' = [index EXCEPT ![u] = UpsertPoints(@, n, S)]
          /\ foreign' = WroteBy(p, u)
          /\ UNCHANGED pending

Retries(p) == tries[p] + 1 < UpsertAttempts /\ signal[p] # "cancel"

UpsertNotConfirmed(p) ==
    /\ pc[p] = "upsert"
    /\ ChunksOf(CurNote(p)) # {}
    /\ FaultOrCancelled(p)
    /\ UpsertEffect(p)
    /\ IF Retries(p)
       THEN /\ tries' = [tries EXCEPT ![p] = @ + 1]
            /\ UNCHANGED <<pc, todo, cur, result>>
       ELSE EndNote(p, "failed")
    /\ UNCHANGED <<world, held, plan, prunev, stopv>>

(* Deleting u's points from an index on: applied. *)
Delete(p, u, from) ==
    /\ index' = [index EXCEPT ![u] = DeleteByFilter(@, from)]
    /\ foreign' = WroteBy(p, u)

(* The server has the delete and will apply it.  The status that says so is
   not read, so the caller takes it for a delete that was applied. *)
DeleteUnapplied(u, from) ==
    pending' = pending \union {[kind |-> "delete", uid |-> u, from |-> from, acked |-> TRUE]}

(* The delete call returned an error: it was applied, it may be later, or it never will be. *)
DeleteEffect(p, u, from) ==
    \/ Delete(p, u, from) /\ UNCHANGED pending
    \/ /\ pending' = pending \union {[kind |-> "delete", uid |-> u, from |-> from, acked |-> FALSE]}
       /\ UNCHANGED <<index, foreign>>
    \/ UNCHANGED <<index, pending, foreign>>

(* The last chunk of the note taken for the first stale one. *)
TailFromOffByOne(p) == IF ChunksOf(CurNote(p)) = {} THEN 0 ELSE ChunkCount[CurNote(p).ver] - 1

TailFrom(p) == ChunkCount[CurNote(p).ver]

Trim(p) ==
    /\ pc[p] = "trim"
    /\ signal[p] # "cancel"
    /\ Delete(p, cur[p], TailFrom(p))
    /\ EndNote(p, "pruned")
    /\ UNCHANGED <<world, pending, held, plan, prunev, stopv, faults>>

TrimUnapplied(p) ==
    /\ pc[p] = "trim"
    /\ signal[p] # "cancel"
    /\ Fault
    /\ DeleteUnapplied(cur[p], TailFrom(p))
    /\ EndNote(p, "pruned")
    /\ UNCHANGED <<world, index, held, plan, prunev, stopv, foreign>>

TrimFails(p) ==
    /\ pc[p] = "trim"
    /\ FaultOrCancelled(p)
    /\ DeleteEffect(p, cur[p], TailFrom(p))
    /\ EndNote(p, "failed")
    /\ UNCHANGED <<world, held, plan, prunev, stopv>>

(* The loop is over: every note was processed, or the interrupt was seen. *)
EndBatch(p) ==
    /\ pc[p] = "loop"
    /\ todo[p] = {} \/ signal[p] # "none"
    /\ interrupted' = [interrupted EXCEPT ![p] = signal[p] # "none"]
    /\ Goto(p, "split")
    /\ UNCHANGED <<world, store, held, plan, loopv, prunev, signal, foreign, faults>>

-----------------------------------------------------------------------------
(* After the batch: the deletion candidates. *)

(* "The scan did not return it" taken for "it was deleted". *)
StillOrphanIfUnscanned(o, unreadable) == o.claimed \/ (o \notin unreadable /\ disk[o.loc] \notin Files)

(* Only a proven absence keeps a candidate, or a path that belongs to a scanned
   note.  A file that cannot be read proves nothing. *)
StillOrphan(o, unreadable) == o.claimed \/ (o \notin unreadable /\ disk[o.loc] = Absent)

(* The second look reports only what it set aside itself. *)
SplitReportsLast(p) ==
    \E unreadable \in SUBSET orphans[p] :
        /\ IF unreadable = {} THEN UNCHANGED faults ELSE Fault
        /\ orphans' = [orphans EXCEPT ![p] = {o \in @ : StillOrphan(o, unreadable)}]
        /\ onDisk' = [onDisk EXCEPT ![p] = {o \in orphans[p] : ~StillOrphan(o, unreadable)}]

SplitStillOnDisk(p) ==
    \E unreadable \in SUBSET orphans[p] :
        /\ IF unreadable = {} THEN UNCHANGED faults ELSE Fault
        /\ orphans' = [orphans EXCEPT ![p] = {o \in @ : StillOrphan(o, unreadable)}]
        /\ onDisk' = [onDisk EXCEPT ![p] = @ \union {o \in orphans[p] : ~StillOrphan(o, unreadable)}]

SplitForReport(p) ==
    /\ pc[p] = "split"
    /\ SplitStillOnDisk(p)
    /\ Goto(p, IF opt[p].prune THEN "resplit" ELSE "report")
    /\ UNCHANGED <<world, store, held, plan, loopv, gone, pruneFailed, stopv, foreign>>

(* A prune that takes place although the run was interrupted. *)
MayPruneInterrupted(p) == OrphansScanned(p)

(* An interrupted run skips the prune, and a run that never read the index
   refuses it. *)
MayPrune(p) == ~interrupted[p] /\ OrphansScanned(p)

(* The second look, in front of the deletion. *)
SplitForPrune(p) ==
    /\ pc[p] = "resplit"
    /\ SplitStillOnDisk(p)
    /\ pruneFailed' = [pruneFailed EXCEPT ![p] = ~interrupted[p] /\ ~OrphansScanned(p)]
    /\ Goto(p, IF MayPrune(p) THEN "prune" ELSE "report")
    /\ UNCHANGED <<world, store, held, plan, loopv, gone, stopv, foreign>>

Doomed(p) == {o \in orphans[p] : o.uid \notin gone[p]}

PruneOrphan(p) ==
    /\ pc[p] = "prune"
    /\ signal[p] # "cancel"
    /\ \E o \in Doomed(p) :
        /\ Delete(p, o.uid, 0)
        /\ gone' = [gone EXCEPT ![p] = @ \union {o.uid}]
    /\ UNCHANGED <<world, pending, held, pc, plan, loopv, orphans, onDisk, pruneFailed, stopv, faults>>

PruneUnapplied(p) ==
    /\ pc[p] = "prune"
    /\ signal[p] # "cancel"
    /\ Fault
    /\ \E o \in Doomed(p) :
        /\ DeleteUnapplied(o.uid, 0)
        /\ gone' = [gone EXCEPT ![p] = @ \union {o.uid}]
    /\ UNCHANGED <<world, index, held, pc, plan, loopv, orphans, onDisk, pruneFailed, stopv, foreign>>

(* The prune stops at the first delete that fails. *)
PruneFails(p) ==
    /\ pc[p] = "prune"
    /\ FaultOrCancelled(p)
    /\ \E o \in Doomed(p) : DeleteEffect(p, o.uid, 0)
    /\ pruneFailed' = [pruneFailed EXCEPT ![p] = TRUE]
    /\ Goto(p, "report")
    /\ UNCHANGED <<world, held, plan, loopv, orphans, onDisk, gone, stopv>>

PruneDone(p) ==
    /\ pc[p] = "prune"
    /\ Doomed(p) = {}
    /\ Goto(p, "report")
    /\ UNCHANGED <<world, store, held, plan, loopv, prunev, stopv, foreign, faults>>

(* An outcome that does not look at the prune. *)
OutcomeIgnoresPrune(p) ==
    IF interrupted[p] THEN "interrupted"
    ELSE IF \E u \in Uids : result[p][u] = "failed" THEN "failed"
    ELSE "ok"

(* runOutcome: what the process exits on. *)
Outcome(p) ==
    IF pruneFailed[p] THEN "prune failed"
    ELSE IF interrupted[p] THEN "interrupted"
    ELSE IF \E u \in Uids : result[p][u] = "failed" THEN "failed"
    ELSE "ok"

Finish(p) ==
    /\ pc[p] = "report"
    /\ Exit(p)
    /\ UNCHANGED <<disk, edits, store, faults>>

-----------------------------------------------------------------------------
(* Signals and deaths. *)

(* SIGINT once the handler is installed, which a dry run never does. *)
Armed(p) == pc[p] \notin {"idle", "acquire", "scan"} /\ ~opt[p].dryRun

Interrupt(p) ==
    /\ Armed(p) /\ signal[p] = "none"
    /\ Fault
    /\ signal' = [signal EXCEPT ![p] = "stop"]
    /\ UNCHANGED <<world, store, held, pc, plan, loopv, prunev, interrupted, foreign>>

(* A second SIGINT, or the grace period is over. *)
CancelContext(p) ==
    /\ Armed(p) /\ signal[p] = "stop"
    /\ signal' = [signal EXCEPT ![p] = "cancel"]
    /\ UNCHANGED <<world, store, held, pc, plan, loopv, prunev, interrupted, foreign, faults>>

(* The call the process was waiting for when it died may still reach the server. *)
LastCall(p) ==
    CASE pc[p] = "upsert" /\ ChunksOf(CurNote(p)) # {} ->
            {[kind |-> "upsert", uid |-> cur[p], note |-> CurNote(p), acked |-> FALSE]}
      [] pc[p] = "trim" ->
            {[kind |-> "delete", uid |-> cur[p], from |-> TailFrom(p), acked |-> FALSE]}
      [] pc[p] = "prune" ->
            {[kind |-> "delete", uid |-> o.uid, from |-> 0, acked |-> FALSE] : o \in Doomed(p)}
      [] OTHER -> {}

Crash(p) ==
    /\ Running(p)
    /\ Fault
    /\ \/ UNCHANGED pending
       \/ \E op \in LastCall(p) : pending' = pending \union {op}
    /\ Exit(p)
    /\ UNCHANGED <<disk, edits, index>>

-----------------------------------------------------------------------------
(* The store and the people around the runs. *)

Land(op) ==
    /\ op \in pending
    /\ pending' = pending \ {op}
    /\ index' = [index EXCEPT ![op.uid] =
            IF op.kind = "upsert" THEN UpsertPoints(@, op.note, ChunksOf(op.note))
                                  ELSE DeleteByFilter(@, op.from)]
    /\ foreign' = WroteByNobody(op.uid)
    /\ UNCHANGED <<world, held, pc, plan, loopv, prunev, stopv, faults>>

Lose(op) ==
    /\ op \in pending /\ ~op.acked
    /\ pending' = pending \ {op}
    /\ UNCHANGED <<world, index, held, pc, plan, loopv, prunev, stopv, foreign, faults>>

(* A payload edited straight in the store, which leaves the fingerprint alone. *)
AdminEdit(u, i) ==
    /\ index[u][i] # NoPoint
    /\ Fault
    /\ \E n \in Notes : index' = [index EXCEPT ![u][i].fields = n]
    /\ foreign' = WroteByNobody(u)
    /\ UNCHANGED <<world, pending, held, pc, plan, loopv, prunev, stopv>>

Disturb(S) ==
    /\ edits < MaxEdits /\ edits' = edits + 1
    /\ disturbed' = [q \in Procs |-> IF Running(q) THEN disturbed[q] \union S ELSE disturbed[q]]
    /\ UNCHANGED <<store, held, pc, plan, loopv, prunev, stopv, foreign, faults>>

EditFile(l) ==
    /\ \E f \in EditStates \ {disk[l]} : disk' = [disk EXCEPT ![l] = f]
    /\ Disturb({l})

MoveNote(l, m) ==
    /\ disk[l] \in Files /\ disk[m] = Absent
    /\ disk' = [disk EXCEPT ![l] = Absent, ![m] = disk[l]]
    /\ Disturb({l, m})

-----------------------------------------------------------------------------
RunStep(p) ==
    \/ Start(p) \/ TryAcquire(p) \/ RefusedByLock(p)
    \/ ScanVault(p) \/ ScanRefused(p)
    \/ HandshakeFails(p) \/ TakeSnapshot(p) \/ SnapshotFails(p)
    \/ \E u \in Uids : SkipNote(p, u) \/ PreviewNote(p, u) \/ ReworkNote(p, u) \/ NoteFails(p, u)
    \/ Embed(p) \/ EmbedFails(p)
    \/ UpsertConfirmed(p) \/ UpsertNotConfirmed(p)
    \/ Trim(p) \/ TrimUnapplied(p) \/ TrimFails(p)
    \/ EndBatch(p)
    \/ SplitForReport(p) \/ SplitForPrune(p)
    \/ PruneOrphan(p) \/ PruneUnapplied(p) \/ PruneFails(p) \/ PruneDone(p)
    \/ Finish(p)

Next ==
    \/ \E p \in Procs : RunStep(p) \/ Interrupt(p) \/ CancelContext(p) \/ Crash(p)
    \/ \E op \in pending : Land(op) \/ Lose(op)
    \/ \E u \in Uids, i \in Idx : AdminEdit(u, i)
    \/ \E l \in Locs : EditFile(l)
    \/ \E l, m \in Locs : MoveNote(l, m)

Spec == Init /\ [][Next]_vars

-----------------------------------------------------------------------------
(* Safety. *)

(* A delete of u the server took and has not applied yet. *)
DeleteOutstanding(u) == \E op \in pending : op.kind = "delete" /\ op.acked /\ op.uid = u

(* A note reported skipped, or pruned by a run that writes, is in the index
   exactly as the run read it from disk: every chunk, nothing else, until
   somebody outside this lock writes it.  This is what lets a later run trust
   what an earlier one left (ProcessNote, CheckIntegrity). *)
Exact(p) ==
    \A u \in Uids :
        (/\ \/ result[p][u] = "skipped"
            \/ result[p][u] = "pruned" /\ ~opt[p].dryRun
         /\ u \notin foreign[p]
         /\ ~DeleteOutstanding(u)) => index[u] = ExpectedPoints(scan[p][u])

ReportedNoteIsExact == \A p \in Procs : Exact(p)

(* The command exits 0 only if every note it selected was brought in line: an
   interrupt that stopped the loop, or a note that failed, never reads as a
   clean run (RunBatch, runOutcome). *)
CleanExitCoversSelection ==
    \A p \in Procs :
        (pc[p] = "report" /\ Outcome(p) = "ok" /\ ~opt[p].dryRun) =>
            \A u \in Selected(p) : \/ index[u] = ExpectedPoints(scan[p][u])
                                  \/ u \in foreign[p] \/ DeleteOutstanding(u)

(* A --prune that exits 0 looked at the index, and no uid it listed as deleted
   still answers searches (pruneOrphans, Prune). *)
CleanPruneExitLeavesNoOrphan ==
    \A p \in Procs :
        (pc[p] = "report" /\ opt[p].prune /\ Outcome(p) = "ok") =>
            /\ OrphansScanned(p)
            /\ \A o \in orphans[p] : \/ ~HasPoints(index[o.uid])
                                    \/ o.uid \in foreign[p] \/ DeleteOutstanding(o.uid)

LiveNote(l, u) == disk[l] \in Files /\ disk[l].uid = u

StoredWithin(rows, vaults) ==
    HasPoints(rows) /\ \A i \in Idx : rows[i] # NoPoint => VaultOf[rows[i].fields.loc] \in vaults

Listed(p, u) == \/ \E o \in onDisk[p] : o.uid = u
                \/ ~opt[p].prune /\ \E o \in orphans[p] : o.uid = u

(* What a run that exits 0 says of the vaults it scanned is the whole of it.  A
   --prune left nothing it listed; and where no filter narrowed the run, a note
   that has been on disk since the run started is in the index as it is there; a
   uid that has points in those vaults and no note is listed, as deleted where the
   run prunes, and then has no points any more, or as a file that is still on disk,
   and then its points are the ones the run read (RunBatch, splitStillOnDisk,
   pruneOrphans). *)
CleanRunAccountsForAll ==
    /\ CleanPruneExitLeavesNoOrphan
    /\ \A p \in Procs :
        (pc[p] = "report" /\ Outcome(p) = "ok" /\ ~opt[p].filtered) =>
            \A u \in Uids :
                \/ u \in foreign[p] \/ DeleteOutstanding(u)
                \/ /\ \A l \in Locs \ disturbed[p] :
                        (LiveNote(l, u) /\ VaultOf[l] \in opt[p].vaults /\ ~opt[p].dryRun) =>
                            index[u] = ExpectedPoints([loc |-> l, ver |-> disk[l].ver])
                   /\ (OrphansScanned(p) /\ scan[p][u] = NoNote /\ StoredWithin(index[u], opt[p].vaults)) =>
                            Listed(p, u)
                   /\ (\E o \in onDisk[p] : o.uid = u) => index[u] = snap[p][u]

(* The orphan prune never takes the points of a note that has been on disk, in
   a vault of the run, since the run started; nor of a uid whose file has been
   at its stored path all along, unless a scanned note owns that path
   (ScanOrphans, splitStillOnDisk). *)
PruneSparesLiveNotes ==
    \A p \in Procs : pc[p] = "prune" =>
        \A o \in Doomed(p) :
            /\ \A l \in Locs \ disturbed[p] : VaultOf[l] \in opt[p].vaults => ~LiveNote(l, o.uid)
            /\ (~o.claimed /\ o.loc \notin disturbed[p]) => disk[o.loc] = Absent

(* Points are deleted for good only after a whole pass: the index was read, no
   filter narrowed the run, and every scanned note reached an outcome. *)
PruneFollowsWholePass ==
    \A p \in Procs : pc[p] = "prune" =>
        /\ OrphansScanned(p)
        /\ \A u \in Uids : scan[p][u] # NoNote => result[p][u] # "none"

(* At most one process works on the index under one lock file, and the lock is
   never left behind by a process that ended, however it ended. *)
Writing(p) == pc[p] \notin {"idle", "acquire"} /\ ~opt[p].dryRun

OneWriterPerLock ==
    /\ \A p, q \in Procs : (Writing(p) /\ Writing(q) /\ LockKey[p] = LockKey[q]) => p = q
    /\ \A k \in Keys : held[k] # NoProc => Writing(held[k])

(* Insert, then prune: no step of a run takes the last points of a note that has
   been on disk, non-empty, in a vault of the run, since the run started, so a
   search keeps finding it while it is rewritten. *)
Stepped(p) == pc'[p] # pc[p] \/ gone'[p] # gone[p]

LiveNoteStaysSearchable ==
    [][\A p \in Procs, u \in Uids :
        (/\ Stepped(p) /\ pc[p] # "idle" /\ pc'[p] # "idle"
         /\ HasPoints(index[u]) /\ ~HasPoints(index'[u])
         /\ u \notin foreign[p]) =>
            \A l \in Locs \ disturbed[p] :
                (LiveNote(l, u) /\ VaultOf[l] \in opt[p].vaults) => ChunkCount[disk[l].ver] = 0]_vars

-----------------------------------------------------------------------------
(* Liveness. *)

(* The timers start the command again and again and it runs to its end, and the
   server gets round to what it was sent.  Which flags a run has is left open:
   the timers give none, so nothing says that any run ever prunes. *)
Fairness ==
    /\ \A p \in Procs : WF_vars(RunStep(p))
    /\ WF_vars(\E op \in pending : Land(op) \/ Lose(op))

FairSpec == Spec /\ Fairness

Scannable ==
    /\ \A l \in Locs : disk[l] # Invalid
    /\ \A l, m \in Locs : (disk[l] \in Files /\ disk[m] \in Files /\ disk[l].uid = disk[m].uid) => l = m

(* The index has the points of every note on disk. *)
NotesConverged ==
    \A u \in Uids : OnDisk(disk, u) => index[u] = ExpectedPoints(NoteAt(disk, u))

(* It has no others, but for the points whose file is there without being scanned. *)
OrphansGone ==
    \A u \in Uids : ~OnDisk(disk, u) =>
        \A i \in Idx : index[u][i] # NoPoint => \E j \in Idx :
            index[u][j] # NoPoint /\ disk[index[u][j].fields.loc] = Hidden

PruningRunUnderWay == \E p \in Procs : pc[p] # "idle" /\ opt[p].prune

(* Runs converge: whatever crashed, failed, landed late or was edited before,
   once that stops the index has the notes of the disk and keeps them, whether
   or not any run prunes; and it keeps nothing else if the operator runs --prune
   again and again, which no timer does. *)
EventuallyConverges ==
    /\ <>[](Scannable => NotesConverged)
    /\ []<>PruningRunUnderWay => <>[](Scannable => OrphansGone)

-----------------------------------------------------------------------------
(* What comments of the code say of it. *)

(* StatePruned is "written, confirmed, tail removed" (internal/ingest/state.go). *)
PrunedMeansTailRemoved ==
    \A p \in Procs, u \in Uids :
        (~opt[p].dryRun /\ result[p][u] = "pruned" /\ u \notin foreign[p]) =>
            index[u] = ExpectedPoints(scan[p][u])

(* "splitStillOnDisk moves every candidate whose file is still on disk out of the
   prune list" (cmd/cli/ingest_modes.go): whichever of the points the pipeline
   wrote for the candidate names that file. *)
ByPipeline(rows) == \A i \in Idx : rows[i] # NoPoint => rows[i].hash = rows[i].fields

FilesOnDiskLeavePruneList ==
    \A p \in Procs : pc[p] = "prune" =>
        \A o \in Doomed(p), i \in Idx :
            LET rows == snap[p][o.uid]
            IN (/\ ByPipeline(rows) /\ rows[i] # NoPoint
                /\ rows[i].fields.loc \notin disturbed[p]) =>
                   disk[rows[i].fields.loc] # Hidden

(* The snapshot is "sound only while this process is the single writer for the
   scope. On this machine it is enforced" (internal/ingest/prefetch.go): what the
   run still believes of a note it has not reached is what the index holds. *)
SnapshotStaysCurrent ==
    \A p \in Procs : (pc[p] = "loop" /\ snap[p] # NoSnap) =>
        \A u \in todo[p] : ByPipeline(index[u]) => index[u] = snap[p][u]

=============================================================================
