--------------------------- MODULE MCSchemaApply ----------------------------
(* Instances of SchemaApply for TLC. *)
EXTENDS SchemaApply

CONSTANTS laptop, server, interno, clientes, tenantId, uid, r1, r2

MCManifest == <<interno, clientes>>
MCIndexes  == <<tenantId, uid>>
=============================================================================
