------------------------------ MODULE MCIngest ------------------------------
(* Instances of Ingest for TLC. *)
EXTENDS IngestInv, TLC

CONSTANTS u1, u2, va, vb, a1, a2, b1, v0, v1, v2, p1, p2

MCVaultOf    == [l \in Locs |-> IF l = b1 THEN vb ELSE va]
MCChunkCount == [v \in Versions |-> IF v = v0 THEN 0 ELSE IF v = v1 THEN 1 ELSE 2]

(* Two processes that share a lock are interchangeable. *)
TwoProcs == Permutations({p1, p2})

OneKey   == [p \in Procs |-> "key"]
TwoKeys == [p \in Procs |-> IF p = p1 THEN "key1" ELSE "key2"]

Plain(vaults) == [dryRun |-> FALSE, full |-> FALSE, prune |-> FALSE,
                  filtered |-> FALSE, only |-> {}, vaults |-> vaults]
Only(locs)    == [Plain(Vaults) EXCEPT !.filtered = TRUE, !.only = locs]

(* Flag sets: the plain run, the pruning run, and the others, over every vault or one. *)
PlainRuns   == {Plain(Vaults)}
PruneRuns   == {[Plain(Vaults) EXCEPT !.prune = TRUE]}
TimedAndPruneRuns == PlainRuns \union PruneRuns
AllPruneRuns == {[Plain(V) EXCEPT !.prune = TRUE] : V \in {{va}, Vaults}}
OtherRuns   == {Only({a1}), [Plain(Vaults) EXCEPT !.full = TRUE],
                [Plain(Vaults) EXCEPT !.dryRun = TRUE],
                [Plain(Vaults) EXCEPT !.dryRun = TRUE, !.prune = TRUE],
                [Only({a1}) EXCEPT !.prune = TRUE]}
AllRuns == AllPruneRuns \union OtherRuns

Note(u, v) == [uid |-> u, ver |-> v]

(* Edits that delete the note or shorten it. *)
GoneOrShorter == {Absent, Note(u1, v1)}

OneNote == {[l \in Locs |-> IF l = a1 THEN Note(u1, v2) ELSE Absent]}
TwoNotes == {[l \in Locs |-> CASE l = a1 -> Note(u1, v2) [] l \in {a2, b1} -> Note(u2, v1) [] OTHER -> Absent]}
=============================================================================
