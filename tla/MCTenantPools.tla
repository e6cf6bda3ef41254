--------------------------- MODULE MCTenantPools ---------------------------
(* Instances of TenantPools for TLC. *)
EXTENDS TenantPools, TLC

CONSTANTS t1, t2, t3, r1, r2, noone
=============================================================================
