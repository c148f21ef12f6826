----------------------------- MODULE MCGateway -----------------------------
(***************************************************************************)
(* Gateway for TLC, with the routes and handlers of the backend.           *)
(***************************************************************************)
EXTENDS Gateway, ApiHandlers

\* Somebody who is no member of the tenant he asks for, a customer whose token is for
\* another tenant in which he is an admin, and an admin.
MCCallers ==
    [role : {"none", "customer", "tenant_admin"}, claim : {"tenant_admin"}]

=============================================================================
