-------------------------- MODULE AtomicEmbedding ---------------------------
(***************************************************************************)
(* What an embedding call promises its caller (the Embedder contract of    *)
(* internal/embed): it is answered once, with one vector for every part of *)
(* its input or with an error, and nothing is embedded before a backend    *)
(* was confirmed.  Sub-batches, retries and the gate are not visible here. *)
(***************************************************************************)
EXTENDS Naturals

CONSTANTS
    Calls,    \* calls of EmbedQuery and EmbedDocuments
    Parts,    \* the number of sub-batches the input of a call is cut into
    Vectors   \* what a sub-batch can be embedded to

VARIABLES
    phase,     \* where each call is
    result,    \* the vectors of an answered call
    confirmed  \* a backend reported the pinned configuration

vars == <<phase, result, confirmed>>

Answers(c) == [1 .. Parts[c] -> Vectors]

Init ==
    /\ phase = [c \in Calls |-> "idle"]
    /\ result = [c \in Calls |-> <<>>]
    /\ confirmed = FALSE

Ask(c) ==
    /\ phase[c] = "idle"
    /\ phase' = [phase EXCEPT ![c] = "busy"]
    /\ UNCHANGED <<result, confirmed>>

Confirm ==
    /\ confirmed' = TRUE
    /\ UNCHANGED <<phase, result>>

(* All the vectors at once.  An empty input asks nothing of the backend. *)
Answer(c) ==
    /\ phase[c] = "busy"
    /\ confirmed \/ Parts[c] = 0
    /\ phase' = [phase EXCEPT ![c] = "answered"]
    /\ \E vectors \in Answers(c) : result' = [result EXCEPT ![c] = vectors]
    /\ UNCHANGED confirmed

Fail(c) ==
    /\ phase[c] = "busy"
    /\ phase' = [phase EXCEPT ![c] = "failed"]
    /\ UNCHANGED <<result, confirmed>>

Next ==
    \/ \E c \in Calls : Ask(c) \/ Answer(c) \/ Fail(c)
    \/ Confirm

Spec == Init /\ [][Next]_vars
=============================================================================
