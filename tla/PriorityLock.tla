---------------------------- MODULE PriorityLock ----------------------------
(***************************************************************************)
(* What gpu() of the embedding service promises the requests it admits: a  *)
(* lock with two classes of holder, each request holding it at most once.  *)
(* A query that has registered is ahead of every batch.  The condition     *)
(* variable, the counter and the flag are not visible here.                *)
(***************************************************************************)
CONSTANTS
    Queries,  \* requests a person waits for
    Batches   \* every other request

VARIABLE phase  \* where each request is: outside, asking, registered, holding, over

Requests == Queries \union Batches

Free == \A r \in Requests : phase[r] # "holding"

NobodyAhead == \A q \in Queries : phase[q] # "registered"

Init == phase = [r \in Requests |-> "outside"]

Ask(r) ==
    /\ phase[r] = "outside"
    /\ phase' = [phase EXCEPT ![r] = "asking"]

(* Only a lock that is taken makes a query wait: queries do not defer to anybody. *)
Register(q) ==
    /\ phase[q] = "asking"
    /\ ~Free
    /\ phase' = [phase EXCEPT ![q] = "registered"]

Grant(r) ==
    /\ phase[r] \in {"asking", "registered"}
    /\ Free
    /\ r \in Batches => NobodyAhead
    /\ phase' = [phase EXCEPT ![r] = "holding"]

GiveUp(r) ==
    /\ phase[r] \in {"asking", "registered"}
    /\ phase' = [phase EXCEPT ![r] = "over"]

Return(r) ==
    /\ phase[r] = "holding"
    /\ phase' = [phase EXCEPT ![r] = "over"]

(* The process ends with every request it has accepted. *)
Stop ==
    phase' = [r \in Requests |-> IF phase[r] = "outside" THEN "outside" ELSE "over"]

Next ==
    \/ \E r \in Requests : Ask(r) \/ Grant(r) \/ GiveUp(r) \/ Return(r)
    \/ \E q \in Queries : Register(q)
    \/ Stop

Spec == Init /\ [][Next]_phase
=============================================================================
