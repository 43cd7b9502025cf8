----------------------------- MODULE Operations -----------------------------
(***************************************************************************)
(* The two drills of scripts/ over a deployed index, each a sequence of    *)
(* commands that can fail, be interrupted or be killed in between, beside  *)
(* the scheduled ingestion and people who edit the vault.  A note is the   *)
(* number of points of its file; 0 is no file, or no point.                *)
(***************************************************************************)
EXTENDS Naturals, FiniteSets

CONSTANTS Notes, Drilled,          \* the notes of the tenant, the one the prune drill takes
          MaxPoints,               \* points of a note at most
          MaxEdits, MaxFaults      \* bounds: edits of the vault, commands that fail

ASSUME OperationsAssumption ==
    /\ Drilled \in Notes /\ IsFiniteSet(Notes)
    /\ MaxPoints \in Nat /\ MaxEdits \in Nat /\ MaxFaults \in Nat

VARIABLES disk,        \* the files of the vault
          stash,       \* the note the prune drill moved aside
          index,       \* the points the tenant has
          qdrant,      \* "up", "stopped", "removed" with its volume, "blank" without collections
          drifted,     \* the build embeds with another revision than the recorded one
          prune,       \* the prune drill: its step, the index it counted, the orphan it read
          recover,     \* the recovery drill
          edits, faults

opsVars == <<disk, stash, index, qdrant, drifted, prune, recover, edits, faults>>

PointsOf(notes, ix) == Cardinality({p \in notes \X (1 .. MaxPoints) : p[2] <= ix[p[1]]})
Points(ix) == PointsOf(Notes, ix)
Uids(ix) == Cardinality({n \in Notes : ix[n] > 0})
Counts(ix) == <<Points(ix), Uids(ix)>>
NoPoints == [n \in Notes |-> 0]

(* Takes a note that has points for ingested. *)
OnlyMissing == [n \in Notes |-> IF index[n] = 0 THEN disk[n] ELSE index[n]]

(* What a whole run leaves: the notes on disk, and the points of those that are gone. *)
Ingested == [n \in Notes |-> IF disk[n] > 0 THEN disk[n] ELSE index[n]]
Orphans == {n \in Notes : disk[n] = 0 /\ index[n] > 0}
Partly(target) == \E S \in SUBSET Notes :
                    index' = [n \in Notes |-> IF n \in S THEN target[n] ELSE index[n]]

NoDrill == [pc |-> "off", was |-> NoPoints, orphan |-> 0, calm |-> TRUE, lost |-> FALSE]

OpsInit ==
    /\ disk \in [Notes -> 1 .. MaxPoints] /\ index = disk
    /\ stash = 0 /\ qdrant = "up" /\ drifted \in BOOLEAN
    /\ prune = NoDrill /\ recover = NoDrill
    /\ edits = 0 /\ faults = 0

Fault == faults < MaxFaults /\ faults' = faults + 1

-----------------------------------------------------------------------------
(* The prune drill. *)

Ended(drill) == drill.pc \in {"off", "confirmed", "recovered", "aborted", "killed"}
PruneGoes(from, to) == prune.pc = from /\ prune' = [prune EXCEPT !.pc = to]

(* What the trap on EXIT does, when there is something to move back. *)
Restore == IF stash = 0 THEN UNCHANGED <<disk, stash>>
           ELSE disk' = [disk EXCEPT ![Drilled] = stash] /\ stash' = 0

(* Without the trap. *)
LeaveTheStash == UNCHANGED <<disk, stash>>

OnExit == Restore

PruneDies == OnExit /\ prune' = [prune EXCEPT !.pc = "aborted"]

(* Nothing starts over an empty index, or for a note that is not a file. *)
CountBefore ==
    /\ prune.pc = "off" /\ qdrant = "up" /\ disk[Drilled] > 0 /\ Points(index) > 0
    /\ prune' = [prune EXCEPT !.pc = "counted", !.was = index, !.calm = (index = disk)]
    /\ UNCHANGED <<disk, stash, index, qdrant, drifted, recover, edits, faults>>

Park ==
    /\ disk[Drilled] > 0 /\ PruneGoes("counted", "parked")
    /\ stash' = disk[Drilled] /\ disk' = [disk EXCEPT ![Drilled] = 0]
    /\ UNCHANGED <<index, qdrant, drifted, recover, edits, faults>>

(* To another filesystem the move is a copy, and then the file is removed.  Cut in
   the copy, by a signal or for want of space, it leaves the file and a copy of a
   part of it; the trap moves that over the file. *)
ParkTorn ==
    /\ prune.pc = "counted" /\ Fault
    /\ \E k \in 1 .. disk[Drilled] - 1 : disk' = [disk EXCEPT ![Drilled] = k]
    /\ prune' = [prune EXCEPT !.pc = "aborted", !.lost = TRUE]
    /\ recover' = [recover EXCEPT !.calm = FALSE]
    /\ UNCHANGED <<stash, index, qdrant, drifted, edits>>

(* The run whose report must name this note and no other. *)
ReportOrphan ==
    /\ prune.pc = "parked" /\ qdrant = "up" /\ index' = Ingested
    /\ IF Orphans = {Drilled}
       THEN prune' = [prune EXCEPT !.pc = "reported", !.orphan = index[Drilled]]
            /\ UNCHANGED <<disk, stash>>
       ELSE PruneDies
    /\ UNCHANGED <<qdrant, drifted, recover, edits, faults>>

(* The count of the report is matched as text: below ten points, as a number. *)
PruneOrphan ==
    /\ prune.pc = "reported" /\ qdrant = "up" /\ index' = disk
    /\ IF PointsOf(Orphans, index) = prune.orphan
       THEN PruneGoes("reported", "pruned") /\ UNCHANGED <<disk, stash>>
       ELSE PruneDies
    /\ UNCHANGED <<qdrant, drifted, recover, edits, faults>>

CountAfter ==
    /\ prune.pc = "pruned" /\ qdrant = "up"
    /\ IF Counts(index) = <<Points(prune.was) - prune.orphan, Uids(prune.was) - 1>>
       THEN PruneGoes("pruned", "tallied") /\ UNCHANGED <<disk, stash>>
       ELSE PruneDies
    /\ UNCHANGED <<index, qdrant, drifted, recover, edits, faults>>

(* A move that fails is reported, and the drill goes on with the trap taken off. *)
PutBack ==
    /\ \/ Restore /\ PruneGoes("tallied", "restored") /\ UNCHANGED faults
       \/ /\ Fault /\ prune.pc = "tallied" /\ UNCHANGED <<disk, stash>>
          /\ prune' = [prune EXCEPT !.pc = "restored", !.lost = TRUE]
    /\ UNCHANGED <<index, qdrant, drifted, recover, edits>>

IngestBack ==
    /\ qdrant = "up" /\ PruneGoes("restored", "reingested") /\ index' = Ingested
    /\ UNCHANGED <<disk, stash, qdrant, drifted, recover, edits, faults>>

(* Confirms without the last count. *)
TakesItAsRestored(drill, verdict) == [drill EXCEPT !.pc = verdict]

(* The counts of before, or no verdict. *)
Compare(drill, verdict) ==
    [drill EXCEPT !.pc = IF Counts(index) = Counts(drill.was) THEN verdict ELSE "aborted"]

ConfirmPrune ==
    /\ prune.pc = "reingested" /\ qdrant = "up"
    /\ prune' = Compare(prune, "confirmed")
    /\ UNCHANGED <<disk, stash, index, qdrant, drifted, recover, edits, faults>>

(* From the move back on there is nothing the trap would restore. *)
Exits == IF prune.pc \in {"restored", "reingested"}
         THEN prune' = [prune EXCEPT !.pc = "aborted"] /\ UNCHANGED <<disk, stash>>
         ELSE PruneDies

(* A command fails, Qdrant is away, or a signal stops the script. *)
PruneFails ==
    /\ ~Ended(prune) /\ Exits
    /\ IF qdrant = "up" THEN Fault ELSE UNCHANGED faults
    /\ IF qdrant = "up"
       THEN IF prune.pc = "reported" THEN Partly(disk)
            ELSE IF prune.pc \in {"parked", "restored"} THEN Partly(Ingested)
            ELSE UNCHANGED index
       ELSE UNCHANGED index
    /\ UNCHANGED <<qdrant, drifted, recover, edits>>

(* Nothing runs at a SIGKILL, and the trap's own move can fail. *)
PruneKilled ==
    /\ ~Ended(prune) /\ Fault
    /\ prune' = [prune EXCEPT !.pc = "killed", !.lost = TRUE]
    /\ UNCHANGED <<disk, stash, index, qdrant, drifted, recover, edits>>

PruneDrill == \/ CountBefore \/ Park \/ ReportOrphan \/ PruneOrphan \/ CountAfter
              \/ PutBack \/ IngestBack \/ ConfirmPrune

-----------------------------------------------------------------------------
(* The recovery drill. *)

RecoverGoes(from, to) == recover.pc = from /\ recover' = [recover EXCEPT !.pc = to]

(* The machine answers, the volume fits, and a dry run of the ingestion ends well. *)
Preflight ==
    /\ qdrant = "up" /\ RecoverGoes("off", "checked")
    /\ UNCHANGED <<disk, stash, index, qdrant, drifted, prune, edits, faults>>

MeasureBefore ==
    /\ recover.pc = "checked" /\ qdrant = "up" /\ Points(index) > 0
    /\ recover' = [recover EXCEPT !.pc = "measured", !.was = index, !.calm = (index = disk)]
    /\ UNCHANGED <<disk, stash, index, qdrant, drifted, prune, edits, faults>>

ComposeDown ==
    /\ qdrant = "up" /\ RecoverGoes("measured", "down") /\ qdrant' = "stopped"
    /\ UNCHANGED <<disk, stash, index, drifted, prune, edits, faults>>

RemoveVolume ==
    /\ RecoverGoes("down", "wiped") /\ qdrant' = "removed" /\ index' = NoPoints
    /\ UNCHANGED <<disk, stash, drifted, prune, edits, faults>>

ComposeUp ==
    /\ RecoverGoes("wiped", "waiting") /\ qdrant' = "blank"
    /\ UNCHANGED <<disk, stash, index, drifted, prune, edits, faults>>

(* A revision that is not the recorded one is refused at every attempt. *)
SchemaApplies == qdrant = "blank" /\ ~drifted /\ qdrant' = "up"

ApplySchema ==
    /\ SchemaApplies /\ RecoverGoes("waiting", "rebuilding")
    /\ UNCHANGED <<disk, stash, index, drifted, prune, edits, faults>>

WaitsInVain ==
    /\ drifted /\ RecoverGoes("waiting", "aborted")
    /\ UNCHANGED <<disk, stash, index, qdrant, drifted, prune, edits, faults>>

Reingest ==
    /\ qdrant = "up" /\ RecoverGoes("rebuilding", "rebuilt") /\ index' = Ingested
    /\ UNCHANGED <<disk, stash, qdrant, drifted, prune, edits, faults>>

Verdict ==
    /\ recover.pc = "rebuilt" /\ qdrant = "up"
    /\ recover' = Compare(recover, "recovered")
    /\ UNCHANGED <<disk, stash, index, qdrant, drifted, prune, edits, faults>>

(* It has no trap: a signal ends it where it is, as a failed command does. *)
RecoverFails ==
    /\ ~Ended(recover) /\ Fault
    /\ recover' = [recover EXCEPT !.pc = "aborted"]
    /\ IF recover.pc = "rebuilding" THEN Partly(Ingested) ELSE UNCHANGED index
    /\ UNCHANGED <<disk, stash, qdrant, drifted, prune, edits>>

RecoveryDrill == \/ Preflight \/ MeasureBefore \/ ComposeDown \/ RemoveVolume \/ ComposeUp
                 \/ ApplySchema \/ WaitsInVain \/ Reingest \/ Verdict

-----------------------------------------------------------------------------
(* What the scripts print for a drill that stopped on the way. *)
ComposeUpByHand ==
    /\ recover.pc = "aborted"
    /\ \/ qdrant = "stopped" /\ qdrant' = "up"
       \/ qdrant = "removed" /\ qdrant' = "blank"
    /\ UNCHANGED <<disk, stash, index, drifted, prune, recover, edits, faults>>

ApplyByHand ==
    /\ recover.pc = "aborted" /\ SchemaApplies
    /\ UNCHANGED <<disk, stash, index, drifted, prune, recover, edits, faults>>

(* The timers: never with --prune, and to no effect while the collections are away. *)
ScheduledIngest ==
    /\ index' = IF qdrant = "up" THEN Ingested ELSE index
    /\ UNCHANGED <<disk, stash, qdrant, drifted, prune, recover, edits, faults>>

(* A file is written, deleted or brought back by a pull. *)
EditVault ==
    /\ edits < MaxEdits /\ edits' = edits + 1
    /\ \E n \in Notes, k \in 0 .. MaxPoints : k # disk[n] /\ disk' = [disk EXCEPT ![n] = k]
    /\ prune' = [prune EXCEPT !.calm = FALSE] /\ recover' = [recover EXCEPT !.calm = FALSE]
    /\ UNCHANGED <<stash, index, qdrant, drifted, faults>>

OpsNext == \/ PruneDrill \/ ParkTorn \/ PruneFails \/ PruneKilled
           \/ RecoveryDrill \/ RecoverFails
           \/ ComposeUpByHand \/ ApplyByHand \/ ScheduledIngest \/ EditVault

OpsFairness == /\ WF_opsVars(PruneDrill) /\ WF_opsVars(RecoveryDrill)
               /\ WF_opsVars(ComposeUpByHand) /\ WF_opsVars(ApplyByHand)
               /\ WF_opsVars(ScheduledIngest)

OpsSpec == OpsInit /\ [][OpsNext]_opsVars /\ OpsFairness

-----------------------------------------------------------------------------
(* A drill that ends well in a vault nobody edited proves what it prints: the
   index is the one it counted, the drilled note and its file included.
   Counts are all the scripts compare. *)
VerdictsAreTrue ==
    [][/\ prune.pc # "confirmed" /\ prune'.pc = "confirmed" /\ prune.calm
            => index' = prune.was /\ disk'[Drilled] = prune.was[Drilled]
       /\ recover.pc # "recovered" /\ recover'.pc = "recovered" /\ recover.calm
            => index' = recover.was]_opsVars

(* However the prune drill ends, short of a kill or of a move that failed, the
   note is back in the vault, and unless somebody edited it, as it was; the
   ingestion then puts it back in the index. *)
NoteComesBack ==
    Ended(prune) /\ prune.pc # "off" /\ ~prune.lost =>
        stash = 0 /\ (prune.calm => disk[Drilled] = prune.was[Drilled])

(* Whatever stops the drills, following what they print and the scheduled
   ingestion bring back every note that is on disk, unless the volume was
   removed under a build whose revision the recorded state refuses: the
   preflight does not look at it. *)
IndexComesBack ==
    \/ drifted /\ <>(qdrant = "removed")
    \/ <>[](\A n \in Notes : disk[n] > 0 => index[n] = disk[n])
=============================================================================
