-------------------------- MODULE MCTenantLifecycle -------------------------
(* TenantLifecycle with two requests about one tenant id. *)
EXTENDS TenantLifecycle
=============================================================================
