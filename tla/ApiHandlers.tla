---------------------------- MODULE ApiHandlers ----------------------------
(***************************************************************************)
(* What the handlers of those routes do with the database, seen from       *)
(* outside: whether one works in a transaction (tx) and takes a row with   *)
(* FOR UPDATE in it (locks), the codes it answers before it asks for a     *)
(* client (early), its returns after that, each with the statement it has  *)
(* awaited (exits), the statement of its catch block (catch), and whether  *)
(* a finally block releases the client (frees).  A fault is a 500          *)
(* everywhere; an early 500 is a JWT_SECRET that is not set.               *)
(***************************************************************************)
EXTENDS ApiContract

After(statement, codes) == {[code |-> code, ends |-> statement] : code \in codes}

Reads(early, refusals) ==
    [tx |-> FALSE, locks |-> FALSE, early |-> early,
     exits |-> After("nothing", refusals \cup {200}), catch |-> "nothing", frees |-> TRUE]

Inserts(early, refusals) ==
    [tx |-> TRUE, locks |-> FALSE, early |-> early,
     exits |-> After("ROLLBACK", refusals) \cup After("COMMIT", {201}),
     catch |-> "ROLLBACK", frees |-> TRUE]

Locks(early, refusals, ok) ==
    [tx |-> TRUE, locks |-> TRUE, early |-> early,
     exits |-> After("ROLLBACK", refusals) \cup After("COMMIT", {ok}),
     catch |-> "ROLLBACK", frees |-> TRUE]

loginUser == Reads({400, 500}, {401, 403})

listProviders == Reads({}, {})

listAvailabilities == Reads({}, {})

getAvailability == Reads({}, {404})

\* A booking of another tenant answered with 403.
getBooking_Forbids == Reads({}, {403})

getBooking == Reads({}, {404})

listBookings == Reads({}, {})

publicList == Reads({}, {})

publicSlot == Reads({}, {404})

createAvailability == Inserts({400, 403}, {409})

createInvitation == Inserts({400}, {409})

updateAvailability == Locks({}, {400, 403, 404, 409}, 200)

deleteAvailability == Locks({}, {403, 404, 409}, 200)

\* Its finally block removed.
createBooking_NotReleased == [Locks({400}, {404, 409}, 201) EXCEPT !.frees = FALSE]

createBooking == Locks({400}, {404, 409}, 201)

createCheckoutSession == Locks({400}, {404, 409}, 201)

\* The return for a booking that is final, without its ROLLBACK.
updateBookingStatus_NoRollback ==
    [Locks({400}, {404}, 200) EXCEPT !.exits = @ \cup After("nothing", {409})]

updateBookingStatus == Locks({400}, {404, 409}, 200)

acceptInvitation == Locks({400, 500}, {400, 404, 409, 410}, 200)

\* Onboarding without a token creates a tenant and locks nothing; with one it joins the
\* tenant of an invitation, whose row it locks.  A slug or address that is taken is
\* found out by the catch block, after its ROLLBACK.
registerTenantAdmin == Inserts({400, 500}, {409})

registerInvited == Locks({400, 500}, {403, 404, 409, 410}, 201)

\* 200 at once for an event of another type; 500 for one that cannot be read, outside of
\* the try block.
handleStripeWebhook == Locks({200, 400, 500}, {404, 409}, 200)

(***************************************************************************)
(* The mount points of app.js and the routers behind them.                 *)
(***************************************************************************)
ApiEndpoints ==
    {"loginUser", "listProviders", "listAvailabilities", "getAvailability", "getBooking",
     "listBookings", "publicList", "publicSlot", "createAvailability", "createInvitation",
     "updateAvailability", "deleteAvailability", "createBooking", "createCheckoutSession",
     "updateBookingStatus", "acceptInvitation", "registerTenantAdmin",
     "registerInvited", "handleStripeWebhook"}

ApiHandler ==
    [loginUser             |-> loginUser,
     listProviders         |-> listProviders,
     listAvailabilities    |-> listAvailabilities,
     getAvailability       |-> getAvailability,
     getBooking            |-> getBooking,
     listBookings          |-> listBookings,
     publicList            |-> publicList,
     publicSlot            |-> publicSlot,
     createAvailability    |-> createAvailability,
     createInvitation      |-> createInvitation,
     updateAvailability    |-> updateAvailability,
     deleteAvailability    |-> deleteAvailability,
     createBooking         |-> createBooking,
     createCheckoutSession |-> createCheckoutSession,
     updateBookingStatus   |-> updateBookingStatus,
     acceptInvitation      |-> acceptInvitation,
     registerTenantAdmin   |-> registerTenantAdmin,
     registerInvited       |-> registerInvited,
     handleStripeWebhook   |-> handleStripeWebhook]

ApiRoute ==
    [loginUser             |-> PostLogin,
     listProviders         |-> GetProviders,
     listAvailabilities    |-> GetAvailabilities,
     getAvailability       |-> GetAvailability,
     getBooking            |-> GetBooking,
     listBookings          |-> GetBookings,
     publicList            |-> GetPublicList,
     publicSlot            |-> GetPublicSlot,
     createAvailability    |-> PostAvailability,
     createInvitation      |-> PostInvitation,
     updateAvailability    |-> PutAvailability,
     deleteAvailability    |-> DeleteAvailability,
     createBooking         |-> PostBooking,
     createCheckoutSession |-> PostCheckout,
     updateBookingStatus   |-> PatchStatus,
     acceptInvitation      |-> PostAccept,
     registerTenantAdmin   |-> PostOnboard,
     registerInvited       |-> PostOnboard,
     handleStripeWebhook   |-> PostStripe]

=============================================================================
