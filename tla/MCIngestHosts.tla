--------------------------- MODULE MCIngestHosts ----------------------------
(* Convergence is asked of one host with failures, and of two hosts, a lock
   file each, whose runs overlap without any: a host that is not there never
   starts a run, and with two the edits only delete the note or shorten it.
   Runs are those of the timers and, in no set order, pruning ones. *)
EXTENDS MCIngest

VARIABLE hosts

TwoHosts  == hosts = {p1, p2}

HostsVars == <<vars, hosts>>

HostsInit == Init /\ hosts \in {{p1}, {p1, p2}}

HostsNext ==
    /\ Next /\ UNCHANGED hosts
    /\ \A p \in Procs \ hosts : pc'[p] = pc[p]
    /\ TwoHosts => /\ faults' = 0
                   /\ disk' # disk => disk'[a1] \in GoneOrShorter /\ disk'[b1] = Absent
    /\ ~TwoHosts => edits' <= 1

HostsSpec == /\ HostsInit /\ [][HostsNext]_HostsVars
             /\ \A p \in Procs : WF_HostsVars(p \in hosts /\ RunStep(p) /\ UNCHANGED hosts)
             /\ WF_HostsVars((\E op \in pending : Land(op) \/ Lose(op)) /\ UNCHANGED hosts)
=============================================================================
