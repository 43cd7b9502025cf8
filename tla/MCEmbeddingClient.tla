------------------------- MODULE MCEmbeddingClient --------------------------
(* Instances of EmbeddingClient for TLC. *)
EXTENDS EmbeddingClient

CONSTANTS ingest, query, model, sparse

(* A document call of two sub-batches and a query. *)
MCParts == [c \in Calls |-> IF c = ingest THEN 2 ELSE 1]

Pinned         == [f \in Fields |-> "pinned"]
OtherModel     == [Pinned EXCEPT ![model] = "other"]
NoSparseReport == [Pinned EXCEPT ![sparse] = "absent"]
MCBackends     == {Pinned, OtherModel, NoSparseReport}
=============================================================================
