---------------------------- MODULE ApiContract ----------------------------
(***************************************************************************)
(* What the routers promise: for each route whether authenticateToken      *)
(* stands before it, the roles authorizeRoles lets through, and the status *)
(* codes its OpenAPI annotation lists.  The schemas of bodies and answers  *)
(* are left out.                                                           *)
(***************************************************************************)
EXTENDS Naturals

AllRoles == {"superadmin", "tenant_admin", "provider", "staff", "customer"}

Public(answers) == [auth |-> FALSE, roles |-> AllRoles, answers |-> answers]

Members(answers) == [auth |-> TRUE, roles |-> AllRoles, answers |-> answers]

Only(roles, answers) == [auth |-> TRUE, roles |-> roles, answers |-> answers]

(***************************************************************************)
(* /api/auth, /api/tenants and /api/users                                  *)
(***************************************************************************)
PostLogin == Public({200, 400, 401, 403, 500})

PostOnboard == Public({201, 400, 403, 404, 409, 410, 500})

GetProviders == Only({"tenant_admin"}, {200, 401, 403, 500})

(***************************************************************************)
(* /api/availabilities                                                     *)
(***************************************************************************)
SlotEditors == {"tenant_admin", "provider"}

PostAvailability == Only(SlotEditors, {201, 400, 403, 409, 500})

GetAvailabilities == Members({200, 500})

GetAvailability == Members({200, 404, 500})

PutAvailability == Only(SlotEditors, {200, 400, 403, 404, 409, 500})

DeleteAvailability == Only(SlotEditors, {200, 403, 404, 409, 500})

(***************************************************************************)
(* /api/bookings                                                           *)
(***************************************************************************)
PostCheckout == Only({"customer"}, {201, 400, 401, 403, 404, 409, 500})

PostBooking == Only({"customer"}, {201, 400, 401, 403, 404, 409, 500})

GetBookings == Members({200, 401, 500})

GetBooking == Members({200, 401, 404, 500})

PatchStatus == Only({"tenant_admin", "staff"}, {200, 400, 401, 403, 404, 409, 500})

(***************************************************************************)
(* /api/invitations, /api/public/availabilities and /api/webhooks          *)
(***************************************************************************)
PostInvitation == Only({"tenant_admin"}, {201, 400, 401, 403, 409, 500})

PostAccept == Public({200, 400, 404, 409, 410, 500})

GetPublicList == Public({200, 500})

GetPublicSlot == Public({200, 404, 500})

PostStripe == Public({200, 400, 404, 409, 500})

=============================================================================
