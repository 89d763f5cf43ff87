------------------------- MODULE MCTenantSupervisor -------------------------
(* Small instances of a pooled tenant for TLC.                              *)
EXTENDS TenantSupervisor

=============================================================================
