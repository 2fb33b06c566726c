---------------------------- MODULE MCSchemaCache ---------------------------
(* SchemaCache with two concurrent requests about two tenants. *)
EXTENDS SchemaCache
=============================================================================
