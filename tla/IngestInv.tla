----------------------------- MODULE IngestInv -----------------------------
(***************************************************************************)
(* The inductive invariant behind the safety properties of Ingest.  Each   *)
(* part is a fact about one process, p, or about the lock files.           *)
(***************************************************************************)
EXTENDS Ingest

(* Exactly the processes that may write hold their lock file. *)
LockInv ==
    /\ \A p \in Procs : Writing(p) => held[LockKey[p]] = p
    /\ \A k \in Keys : held[k] # NoProc => Writing(held[k]) /\ LockKey[held[k]] = k

(* What has not begun has left nothing behind. *)
Early(p) == pc[p] \in {"idle", "acquire", "scan", "connect"}
Late(p)  == pc[p] \in {"split", "resplit", "prune", "report"}
InNote(p) == pc[p] \in {"embed", "upsert", "trim"}

PhaseInv(p) ==
    /\ pc[p] # "idle" => ValidModes(opt[p])
    /\ pc[p] = "acquire" => ~opt[p].dryRun
    /\ pc[p] = "idle" => unscanned[p] = {}
    /\ pc[p] \in {"idle", "acquire"} => scan[p] = NothingScanned
    /\ pc[p] = "acquire" => unscanned[p] = opt[p].vaults
    /\ pc[p] \notin {"acquire", "scan"} => unscanned[p] = {}
    /\ Early(p) => /\ todo[p] = {} /\ orphans[p] = {} /\ snap[p] = NoSnap
                   /\ \A u \in Uids : result[p][u] = "none"

(* Every scanned note the run selected is waiting, in flight, or has an outcome. *)
PlanInv(p) ==
    /\ \A u \in todo[p] : scan[p][u] # NoNote /\ result[p][u] = "none"
    /\ \A u \in Uids : result[p][u] # "none" => scan[p][u] # NoNote
    /\ ~Early(p) => \A u \in Selected(p) :
            u \in todo[p] \/ result[p][u] # "none" \/ (InNote(p) /\ cur[p] = u)
    /\ InNote(p) => /\ cur[p] \in Uids \ todo[p]
                    /\ scan[p][cur[p]] # NoNote
                    /\ result[p][cur[p]] = "none"
                    /\ ~opt[p].dryRun
    /\ (Late(p) /\ ~interrupted[p]) => todo[p] = {}

(* The snapshot of a note the run has not reached is the index, unless somebody
   outside the lock wrote it. *)
SnapInv(p) ==
    snap[p] # NoSnap => \A u \in todo[p] \ foreign[p] : index[u] = snap[p][u]

(* Between a confirmed upsert and the delete every chunk of the note is there. *)
InsertedInv(p) ==
    (pc[p] = "trim" /\ cur[p] \notin foreign[p]) =>
        \A i \in ChunksOf(CurNote(p)) : index[cur[p]][i] = PointOf(CurNote(p))

(* A note that stayed as it was in a vault the run scanned is in the scan, as it is. *)
ScannedInv(p) ==
    \A l \in Locs \ disturbed[p] :
        (VaultOf[l] \in opt[p].vaults \ unscanned[p] /\ disk[l] \in Files /\ pc[p] # "idle") =>
            scan[p][disk[l].uid] = [loc |-> l, ver |-> disk[l].ver]

(* A candidate has no scanned note, and in front of the deletion its file is gone. *)
OrphanInv(p) ==
    /\ \A o \in orphans[p] : scan[p][o.uid] = NoNote
    /\ pc[p] \in {"resplit", "prune"} => opt[p].prune
    /\ pc[p] = "prune" =>
        /\ MayPrune(p)
        /\ \A o \in orphans[p] : (~o.claimed /\ o.loc \notin disturbed[p]) => disk[o.loc] = Absent

ProcInv(p) ==
    /\ PhaseInv(p) /\ PlanInv(p) /\ SnapInv(p) /\ InsertedInv(p)
    /\ ScannedInv(p) /\ OrphanInv(p) /\ Exact(p)

IndInv == TypeOK /\ LockInv /\ \A p \in Procs : ProcInv(p)

(* What a prune has deleted stays without points, and one that ended neither at an
   error nor before it began has come to the end of its candidates.  Inductive
   together with IndInv. *)
Cleared(p, u) == ~HasPoints(index[u]) \/ u \in foreign[p] \/ DeleteOutstanding(u)

CandidateInv(p) ==
    /\ pc[p] \notin {"prune", "report"} => gone[p] = {}
    /\ \A u \in gone[p] : Cleared(p, u)
    /\ (pc[p] = "report" /\ opt[p].prune) =>
            pruneFailed[p] \/ interrupted[p] \/ (OrphansScanned(p) /\ Doomed(p) = {})

PruneInv == IndInv /\ \A p \in Procs : CandidateInv(p)

(* Each uid that had points in the vaults of the run and has no note is on one of
   two lists, once; and what had no note has the points the run read, until a prune
   takes the points of a candidate.  Inductive together with IndInv. *)
Candidates(p) == orphans[p] \union onDisk[p]

Bare(p, u) == scan[p][u] = NoNote

ListedOnce(p) ==
    /\ snap[p] = NoSnap => Candidates(p) = {}
    /\ orphans[p] \intersect onDisk[p] = {}
    /\ \A a, b \in Candidates(p) : a.uid = b.uid => a = b
    /\ \A o \in Candidates(p) : Bare(p, o.uid)
    /\ OrphansScanned(p) => \A u \in Uids :
            Bare(p, u) /\ StoredWithin(snap[p][u], opt[p].vaults) => \E o \in Candidates(p) : o.uid = u

Pruned(p, u) == /\ pc[p] \in {"prune", "report"} /\ ~HasPoints(index[u])
                /\ \E o \in orphans[p] : o.uid = u

KeptInv(p) ==
    snap[p] # NoSnap => \A u \in Uids \ foreign[p] :
        Bare(p, u) => index[u] = snap[p][u] \/ Pruned(p, u)

ReportInv == PruneInv /\ \A p \in Procs : ListedOnce(p) /\ KeptInv(p)

=============================================================================
