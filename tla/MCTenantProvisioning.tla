------------------------ MODULE MCTenantProvisioning ------------------------
(* Two calls of tenants.provision over one business name: the second is a  *)
(* rival of the first or, begun after it, its retry.                       *)
EXTENDS TenantProvisioning
=============================================================================
