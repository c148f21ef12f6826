# A verification project for booking-invoice-engine

The repository is a multi-tenant booking service: an Express API over
PostgreSQL (`src/backend`), a React client (`src/frontend`) and Stripe for
payments. Staff publish time slots, customers book them, directly or by paying,
and administrators move bookings through their life. The hard part is not any
one handler. It is that two replicas of the API, with a pool of connections
each, run the handlers side by side over the same rows, that Stripe calls back
as often as it likes, that browsers keep copies of everything, and that
everything can fail between two awaits.

This directory holds TLA+ modules of the system, TLC configurations that check
them on small instances, and proofs that TLAPS checks for instances of any size.

## 1. The system

| part | code | state | operations |
|---|---|---|---|
| slots | `controllers/availabilityController.js` | rows of `availabilities` | create, update, delete (and two reads) |
| bookings | `controllers/bookingController.js` | `bookings`, `invoices`, `is_booked` | createBooking, updateBookingStatus (and two reads) |
| payments | `createCheckoutSession`, `controllers/stripeWebhookController.js` | PaymentIntents at Stripe, then a booking | checkout, webhook |
| schema | `__tests__/schema.sql` | keys, `UNIQUE`, `REFERENCES`, `CHECK` | refuse a write |
| invitations | `controllers/invitationController.js` | `tenant_invitations`, `users`, `tenant_users` | create, accept |
| onboarding | `controllers/tenantController.js` | the same and `tenants` | register, join by token |
| login, auth middleware | `controllers/authController.js`, `middleware/authMiddleware.js` | none; a JWT, one query per request | login, authenticate, authorize |
| pool | `config/db.js` | at most 10 clients per replica | connect, release, time out after 2 s |
| routes | `app.js`, `routes/*.js` | none | what stands before a handler; OpenAPI annotations |
| browser session | `context/AuthContext.jsx`, `api/axios.js`, `Layout`, `Login`, `Register` | React state and `localStorage` | login, register, logout, switchTenant, acceptInvite, 401 |
| invitation page | `AcceptInvitation.jsx` | its form, an effect, a timer | accept, sign in and accept, register and accept |
| booking page | `BookingForm.jsx`, `StripeProvider.jsx` | slot, amount, client secret, step | checkout, back, confirm |
| dashboard | `AdminDashboard.jsx`, `SlotForm.jsx`, `SlotCard.jsx` | a copy of the slots; a form | refresh, delete, edit, create |

How they interact: every authenticated request passes the middleware (tenant,
role and user) and reaches one handler; middleware and handler take one client
each from the pool; a handler opens one `READ COMMITTED` transaction and answers
once. Handlers meet only in the tables. The checkout leaves nothing in the
tables: the booking to be made travels in the metadata of the PaymentIntent and
comes back in the webhook. The browser keeps its own copies of what the API
answered: the session twice, in React and in `localStorage`, and each page what
it fetched when it was mounted.

What is hard about each part, and what makes it correct:

* **slots**: a check (owner, booked, overlap) and the write it allows are
  different queries. A booked slot must not move or vanish; a provider must
  touch only his own; what the overlap check lets through must overlap nothing.
* **bookings**: `is_booked`, the booking's status and the invoice's status say
  the same thing three times and are written by three statements. They must
  agree whenever a transaction commits; two customers must never both get a
  slot; a finished booking must stay finished.
* **payments**: deliveries are repeated, concurrent and late; answers get lost
  after COMMIT. A payment must buy at most one booking, and a paid slot must not
  stay on offer. Two conversions of one amount must agree.
* **locks**: cancelling locks the booking and then its slot; deleting a slot
  locks it and then, through the foreign key, its bookings. That must not
  deadlock.
* **invitations, onboarding**: uniqueness is checked by SELECT before INSERT;
  a token must work once, for the address it names, and an accepted invitation
  must have made a member; keys are waited for with other keys in hand.
* **pool and middleware**: `next()` runs the handler up to its `connect()` while
  the middleware's own client is still checked out; handlers wait for rows with
  a client in hand and return early from the middle of a transaction.
* **session**: React and `localStorage` are written in different places, by
  answers in any order; effects and timers belong to a render that is over.
* **pages**: lists patched by hand while writes overlap reads, components
  mounted anew, times and amounts converted back and forth.

`PROJECT.json` lists every hazard at its line, with the properties that would
notice.

## 2. The modules

Four systems that share no state. The first two are over the database, query by
query; the third is one process of the API, await by await; the fourth, in two
parts, is a browser tab, event by event.

```
Schema ------------- BookingLedger             the promise: whole operations
  |                        ^
BookingStore               | ImplementsLedger  (INSTANCE in BookingEngine; checked and proved)
  |        \        \      |
Availability Bookings Payments
       \        |       /
          BookingEngine ---- BookingInvariant ---- MCBookingEngine                      (TLC)
                                       \---------- BookingEngineProofs --- LedgerProofs  (TLAPS)
                                                                     \---- StepProofs

Directory --- Invitations --- Onboarding --- Workspaces --- WorkspacesInvariant --- MCWorkspaces      (TLC)
                                                                        \---------- WorkspacesProofs  (TLAPS)

ApiContract --- ApiHandlers ---\
                     Gateway --- MCGateway   (TLC)
                        \------- GatewayProofs  (TLAPS)

Session --- InvitePage --- Browser --- SessionInvariant --- MCSession      (TLC)
                                                   \------- SessionProofs  (TLAPS)

Money (TLAPS) --- Tab --- Dashboard   ---\
                    \---- BookingPage --- Pages --- PagesInvariant --- MCPages      (TLC)
                                                              \------- PagesProofs  (TLAPS)
```

### The booking core

* **Schema**: the three tables as committed. `slots`, `bookings` and `invoices`
  map a primary key to a row; a key not minted yet has state `"none"`, a deleted
  slot `"deleted"`. `open`/`booked` is `is_booked`. The invoice of a booking is
  stored at the booking's key (`booking_id` is `UNIQUE`). Also here: the overlap
  condition of the two queries and the agreement of the tables, so that the
  abstract and the detailed specification have the same invariants.
* **BookingLedger**: the abstract specification. Six operations, `Publish`,
  `Move`, `Withdraw`, `Reserve`, `Progress` and `Cancel`, each in one step on
  the three tables.
* **BookingStore**: how a handler reaches the tables. A worker is a request in
  flight with its transaction: `pc` says how far it has come, `req` holds the
  caller and the fields the handler reads, `slotLock` and `bookingLock` are the
  row locks, `reply` is the answer. It defines what the handlers share: waiting
  for and re-reading a `FOR UPDATE` row, refusals, COMMIT, faults, and the three
  statements that insert a booking.
* **Availability**, **Bookings**, **Payments**: the six handlers, each action
  named after what it does in the code. `Payments` adds Stripe: `payments` holds
  the PaymentIntents, `Pay` is the customer, `DeliverEvent` the delivery.
* **BookingEngine**: all handlers together, fairness, the properties, and the
  refinement mapping (the tables are the tables).
* **BookingInvariant**: the inductive invariant, used both by TLC and the proofs.

### The ways into a workspace

* **Directory**: `tenants`, `users`, `tenant_users` and `tenant_invitations`, and
  the same kind of workers as in BookingStore. A tenant is known by its slug and
  a user by the address (both UNIQUE, and no code deletes or renames them), so
  `members[t][e]` is the role of the membership row. An invitation's id stands
  for its token. `uses` is a history field: how many transactions that used the
  invitation have committed.
* **Invitations**: createInvitation and acceptInvitation. The first locks
  nothing before its DELETE; the second opens with `SELECT ... FOR UPDATE`.
* **Onboarding**: registerTenantAdmin, with a token ("join") and without
  ("register").
* **Workspaces**: all of them together, and the properties. `Waits` says when
  PostgreSQL keeps the next statement of a transaction waiting: a SELECT ... FOR
  UPDATE or a DELETE for the row of an invitation (`AwaitsRow`), an INSERT for
  the same key in flight elsewhere (`AwaitsKey`). A step is taken when it does not.
* **WorkspacesInvariant**: the inductive invariant, for TLC and the proofs.

| handler | actions, in the order of the code |
|---|---|
| createAvailability | `RequestCreate`, `RefuseCreate` or `CheckNewSlot`, `InsertSlot` |
| updateAvailability | `RequestUpdate`, `LockForUpdate`, `CheckMovedSlot`, `UpdateSlot` |
| deleteAvailability | `RequestDelete`, `LockForDelete`, `DeleteSlot` |
| createBooking | `RequestBooking`, `LockForBooking`, `InsertPending`, `CommitPending` |
| updateBookingStatus | `RequestStatus`, `LockBooking`, `CommitStatus` or `ReleaseSlot`, `CommitCancel` |
| createCheckoutSession | `RequestCheckout`, `LockForCheckout`, `CreateIntent`, `CommitCheckout` |
| handleStripeWebhook | `DeliverEvent`, `LockForWebhook`, `InsertConfirmed`, `CommitConfirmed` |
| createInvitation | `RequestInvite`, `FindInvitee`, `CheckMember`, `FindPending`, `DeletePending`, `CommitInvite` |
| acceptInvitation | `RequestAccept`, `LockForAccept`, `FindAccount`, `CreateAccount`, `FindMembership`, `AddMembership`, `CommitAccept` |
| registerTenantAdmin with a token | `RequestJoin`, `LockForJoin`, `JoinAccount`, `JoinMembership`, `CommitJoin` |
| registerTenantAdmin without | `RequestRegister`, `InsertTenant`, `RegisterAccount`, `RegisterMembership`, `CommitRegister` |
| any catch block | `Fail` (as `Break`, which also tells Stripe) |

### One process of the API

* **ApiContract**: for each of the eighteen routes whether `authenticateToken`
  stands before it, the roles of its `authorizeRoles`, and the status codes its
  OpenAPI annotation lists.
* **ApiHandlers**: for each handler the codes it may answer before it asks for a
  client, whether it opens a transaction, whether that begins with a
  `SELECT ... FOR UPDATE`, every return after that with the statement it has awaited
  (`COMMIT`, `ROLLBACK` or nothing), the statement of its catch block, and whether a
  finally block releases the client. `ApiRoute` and `ApiHandler` are the wiring of
  `app.js`. There are nineteen flows on eighteen routes: onboarding locks a row with
  a token (`registerInvited`) and none without (`registerTenantAdmin`).
* **Gateway**: a request's way through middleware, pool, handler and back.
  `stage` says how far it is (`auth_wait` and `wait` are in the queue of the
  pool, `auth` is the middleware with its client, `open`, `begun` and `working`
  the handler with its own, `leaving` the handler before its finally block), `owner`
  who has which client, `inTx` which clients have a transaction open, and `row` is
  one row that all transactions want.

| code | actions |
|---|---|
| a request comes in | `Receive` |
| authenticateToken | `RefuseToken`, `Authenticate`, `NotAllowed`, `AuthFault` or `Admit` (which ends with the handler's `connect()`, and then the `finally` block) |
| a public handler | `EnterPublic` |
| `pool.connect()` | `Serve`, `TimeOut` |
| a handler | `Read`, or `BeginTx`, `NotFound` or `LockRow`, `Conclude` |
| its catch block | `Catch` |
| its finally block | `Finally` |

`Take` is a way out of a handler, and does what the table says of that way out:
an exit with `"nothing"` leaves its transaction open and its row locked, and a
handler with `frees` false keeps its client. That none of the nineteen flows has
such a way out is what `CleanClients` and `NoClientLeaks` find out; the mutated
tables `updateBookingStatus_NoRollback` (one early return without its ROLLBACK)
and `createBooking_NotReleased` (no finally block) violate them. A fault may hit
before BEGIN, at any statement and after COMMIT; the statement of the catch block
is executed in each case.

### The browser

A step is one event: a click, an answer, a timer. What its handler does up to
the next await, the render that follows and the effects of that render belong to
the step, since JavaScript runs them without letting anything between.

* **Session**: `storage` is `localStorage`, `react` the state of `AuthProvider`,
  both as a user (with his token), his workspaces and the active one. `calls`
  are the requests in flight: each knows whose token the interceptor found and
  which memberships the closure that sent it knew. `Unauthorized` is the
  response interceptor, which knows `localStorage` only; `PersistAuth`,
  `ClearAuth` and `SwitchTenant` are AuthProvider's writers.
* **InvitePage**: `AcceptInvitation`. `RunEffect` is its effect with the guard
  `!success && !loading`, run when the page is mounted and when
  `isAuthenticated` has become true; `TimerFires` is the `setTimeout` of 1.5 s
  with the `switchTenant` of its old closure; `AnswerAccept` and
  `AnswerRegister` write `localStorage` past `AuthProvider`.
* **Browser**: both together, with the properties.
* **Tab**: the state of the pages that work on slots, what the server does for
  them, and navigation, which unmounts one page and mounts another. A booking that
  was cancelled leaves its slot `"released"`: it looks free and its row stays.
* **Dashboard**: `AdminDashboard` and `SlotForm`. `fetchData` is two reads at
  different moments and one update; deletion filters the list; a save goes to
  `/dashboard`, wherever the tab is when it is answered. Each write in flight has a
  number, and a component remembers the numbers of its own (`deleting`,
  `submitting`): the answer to a request of an unmounted dashboard or form sets
  nothing in the one mounted since (`HearDeleted`, `NotSaved`).
* **BookingPage**: `BookingForm` keeps the client secret, `BookingFormInner`
  everything else, and `StripeProvider` returns a different tree once there is a
  secret, so that `BookingFormInner` is mounted anew (`FreshInner`).
  `confirmPayment` ends in one of five ways: accepted, which may still mean
  processing (`ConfirmAccepted`), by way of a bank (`ConfirmRedirects`), with an
  error (`ConfirmRefused`, or `ConfirmLost` when the payment was accepted all the
  same), or rejected (`ConfirmRejected`). `Settle` is Stripe's later decision.
* **Money**: what is charged and what is invoiced for an amount.
* **Pages**: all of them, with other people who book and cancel.
* **SessionInvariant**, **PagesInvariant**: the inductive invariants, for TLC and
  the proofs.

### What a step is, over the database

A step is one awaited query, or a run of queries that touch only rows the
transaction has already locked; nothing another transaction does can fall
between those and be noticed. Three consequences:

* Writes appear in the tables in the step that commits. Before that PostgreSQL
  shows them to nobody, and whoever wants the same row waits for its lock.
  Where an uncommitted write does matter it is in the model: a unique index
  makes the second INSERT wait for the first (`HasInserted`), and the foreign
  key check of a DELETE waits for a locked booking (`DeleteSlot`). In
  `Directory` three keys can be waited for: the address of a new user, the
  primary key of a membership and the slug of a tenant (`UserInFlight`,
  `MemberInFlight`, `TenantInFlight`).
* A handler that locks a row, looks at it and answers 4xx at once takes one
  step: the lock is gained and given back, and nobody can tell.
* The overlap query locks nothing, so it is a step of its own and the INSERT or
  UPDATE that follows is another.

A waiting `FOR UPDATE` is a disabled action (in `Workspaces` by `Waits`); when it
is enabled again it reads the row afresh, as `READ COMMITTED` does, so a slot deleted meanwhile is a 404.
`Fail` is any failing query, dropped connection or killed pod before COMMIT, and
`Commit` has a second outcome, `"lost"`, for an answer that does not arrive.
Both count against `MaxFaults`.

Naming: the uuid of a new slot is chosen when the create request arrives instead
of at its INSERT (it is fresh either way), and that of a booking at its commit.
`paidBy` is a history field, the PaymentIntent behind a booking; the code keeps
no such link, and no guard reads it.

Left out: amounts (but see Money), currency and timestamps; validation of the
body that only depends on the body, except the time range and `staff_id`, which
can also be wrong in combination with a row; the reads, which change nothing (the
pages and the gateway have them); `is_booked` of slots that a seed script or an
administrator could set by hand.

## 3. What TLC checks

`Offered` selects the requests that clients send to the two database systems, so
that each run spends its states on one question. Ids are model values; symmetry
is used in the safety runs only (workers run the same code, ids are only compared
for equality; times are numbers and are not permuted).

| run | question | instance |
|---|---|---|
| `MCEdits` | can an edit that read an open slot touch a booked one or somebody else's; does the overlap check see what is committed; is the invariant of the proof invariant | 2 workers: create, update, delete, book; 2 slots, 2 staff, 2 instants |
| `MCPayments` | do the tables agree; does a payment buy at most one booking, whatever Stripe repeats; do losers get a 409; do bookings stay in their tenant | 2 workers: checkout, book, status, webhook; 2 slots, 2 payments; 2 tenants whose requests name any id; 1 fault |
| `MCDelivery` | is the engine a ledger; is every request answered, and is a paid slot taken in the end | 2 workers: delete, book, status, checkout, webhook; 1 slot, 1 fault |
| `MCInviteRaces` | does a token work once, for its addressee and with its role; can transactions wait in a circle; is the invariant of the proof invariant | 2 workers, every request; 2 workspaces, 2 invitations and 2 roles, 3 addresses of which two differ in case only |
| `MCGateway` | can the pool leak, deadlock or hand on a transaction; who gets to a handler, and what is he told | 2 requests, 2 clients, all 18 routes with 19 flows, 3 callers, any number of faults and timeouts |
| `MCSession` | do React and `localStorage` stay one session; does the invitation page accept once; is the invariant of the proof invariant | 2 people, 2 workspaces, 3 requests in flight, 2 faults |
| `MCPages` | is a card lost with its slot in place; do untouched forms move a slot by the clock's offset only; is at most one payment of a visit accepted, and charged as it is invoiced; do buttons come back; is the invariant of the proof invariant | 1 slot, every role, a clock one hour ahead of UTC, 2 shifts, 2 writes in flight, 3 intents, 3 amounts, 1 fault |

The properties, by what they are about (`IInv`, `WInv`, `SessionInv` and `PagesInv`
are the inductive invariants of section 4, with the types of the variables in them):

* agreement of the tables: `SlotMatchesBookings`, `InvoiceFollowsBooking`,
  `BookingStaysInTenant`, `OneBookingPerSlot`;
* races: `LosersGetConflict` (the UNIQUE constraint is never what decides a
  race), `TerminalIsFinal`, `BookedSlotIsFrozen`, `ProviderEditsOwnSlots`,
  `OverlapsAreRefused`, `IntentsAreForOpenSlots`;
* payments: `OnePaymentOneBooking`, `PaidSlotIsTaken`. Nothing in the webhook
  remembers an event: what makes `OnePaymentOneBooking` hold is `is_booked`
  while the booking lives and the UNIQUE constraint after it was cancelled;
* locks: `NoHoldAndWait`, `EveryRequestAnswered`, `NoWaitCycle`;
* refinement: `ImplementsLedger`;
* workspaces: `InvitationUsedOnce`, `AcceptedMeansMember`, `MembersAreInvited`
  (whoever appears in `tenant_users` has founded the workspace or has just used
  up a pending invitation to his address and role), `RolesAreKept`;
* the process: `NobodyHoldsAndWaits`, `CleanClients`, `NoClientLeaks`,
  `WorkIsAuthorised`, `AnswersAreDocumented`, `EveryRequestAnswered`;
* the session: `TokenIsOfShownUser`, `ActiveIsListed`, `AcceptsOnce`,
  `GhostsLeave`;
* the pages: `CardsVanishWithSlots`, `UntouchedSavesShift`, `PaidOnce`,
  `ChargedIsInvoiced`, `ButtonsComeBack`.

Five of them say exactly how far a promise reaches. `ActiveIsListed` excepts
tabs in which an acceptance was applied after its session had ended (`strayed`):
there a workspace of one person really ends up in the session of another.
`CardsVanishWithSlots` is about a mounted dashboard that has its lists, and one
direction only: no card is lost. The other one fails, see `MCStaleList`.
`PaidOnce` counts an intent from the moment Stripe has accepted it until Stripe says
otherwise; that the page shows "Payment Confirmed!" for an intent that is still
processing, and may fail, is what the code does (`BookingForm.jsx:108-122` never
reads `paymentIntent.status`), and no property excludes it. `PaidOnce` and
`ChargedIsInvoiced` are about a page whose hooks give null outside of `<Elements>`,
as its null checks expect; with the installed library the page never gets that far
(see below). `ButtonsComeBack` leaves out the button that pays:
`handleSubmit` has no try, so a rejected `confirmPayment` leaves it disabled until
the page is left (`ConfirmRejected`).
`UntouchedSavesShift` says that a save of an untouched form is not harmless: the
form shows the digits of UTC in an input of local time and converts them back,
so each save moves the slot by the offset of the clock, and by nothing else.

**Bounds.** Each lock protocol involves at most two rows, each race at most two
writers, and no property of the tables speaks of more than two requests: two
workers let every pair of handlers collide, over one row or two, and the proofs
lift the safety properties to any number. The payments need two intents for one
slot and one event delivered twice. There are at least as many booking ids as
slots (a slot has at most one booking), with ids to spare where a mutated
constraint would let in more. One fault covers a lost answer or a failed
transaction with a retry after it. Slot ids bound the number of creations; when
they are used up create requests stop and everything else goes on. In
`MCInviteRaces` two invitations let one replace, race or follow the other, for
one address or for two; the second workspace is there for a membership of one
that must not be mistaken for the other's; the addresses `ann` and `Ann` are
two accounts for the UNIQUE constraint and one for the comparison of onboarding.
A fault leaves nothing behind but the answer (uncommitted rows and locks vanish, so
the tables are as if the request had not come, or had been answered), which no
property of `Workspaces` reads; `View` therefore tells no states apart by answers
and faults, nor by what nobody reads of an invitation that is used up or deleted.
In `MCGateway` as many requests as clients is where a
pool deadlocks first. Three requests in flight let an acceptance, a sign-in and
the data of a dashboard overlap. An amount of 4 tenths of a cent is charged as
nothing, 15 ends in half a cent and 20 is whole. In `MCPages`
`MaxShift` leaves room for two shifts by the offset of the clock: a save of an untouched form,
its repetition, which sends the same time, and a save of a form opened after it; a
third hour is cut off. A clock behind UTC is the same instance with the signs of all
times changed. One slot is enough there, since no component relates one slot
to another, and two writes let a deletion overlap a save, or the same deletion sent
by an earlier dashboard. The third intent comes after the two that a visit needs to
reach the payment: `<Elements>` never hears of it.

**Fairness.** `BookingEngine` has `SF` on each worker's handler: PostgreSQL
queues the waiters of a row lock and grants in order, so a handler whose row
becomes free again and again is not passed over for ever. `SF` on the redelivery
of an event that has not been acknowledged: Stripe retries, with pauses, and
finds a free worker sooner or later. (Stripe gives up after some days; a payment
whose deliveries all fail for that long is outside of `PaidSlotIsTaken`.) No
fairness on arrivals, on `Pay` or on faults: nobody has to send a request.
`Gateway` has the same `SF` on the steps of a request, which wait for the one
row, and `WF` on the pool serving the head of its queue; none on `TimeOut`, so
that `EveryRequestAnswered` shows that requests do not depend on it. The session has
`WF` on answers (a request is answered or fails) and on the timer, and none on
clicks; the pages have it on the answers of the mounted page and on each write in
flight by itself, none on clicks, and none on `Settle`, since Stripe may take its time. `Workspaces` has no fairness: `NoWaitCycle` says as an invariant that
whatever transactions hold and wait for, the next statement of one of them waits
for nothing; that a statement which does not wait has an outcome in every state
can be read off the cases of its action. `MCDelivery`
leaves out the edits of slots, which make its graph too large for a liveness
check; they lock one row at a time, and `NoDeadlock` covers them.

### What the code does not do

Five runs are expected to fail. Each checks one sentence of the repository.

* `MCRebook`: "On cancellation, the availability slot is released"
  (`bookingController.js:382`). `is_booked` goes back to false, but the
  cancelled booking keeps its row and `bookings.availability_id` is UNIQUE. The
  slot is listed as open and every attempt to book or pay for it ends in a 500.
* `MCOverlapRace`: "Overlapping unbooked slots are rejected."
  (`availabilityRoutes.js:32`). Two concurrent creations both pass the check.
* `MCPaid`: "Your booking is being finalized." (`BookingForm.jsx:216`). In the run
  one customer opens two intents for one slot and pays both (two customers can do the
  same); the second payment is answered 409 at every delivery and leaves no trace in
  the database.
* `MCSignInAccepts`: "Existing users sign in, then the invite is accepted"
  (`AcceptInvitation.jsx:7`). `handleLoginAndAccept` leaves `loading` set, so the
  effect that should accept does nothing in the only render that runs it, and the
  page keeps its spinner. (A reload accepts.)
* `MCStaleList`: "Deletes a slot after confirmation and updates local state."
  (`AdminDashboard.jsx:51`). A refresh whose query ran before the DELETE and whose
  answer is set after it puts the deleted slot back on the list, until the next one.

More disagreements were met while modelling and have no run:

* "Enforces valid state transitions" (`bookingController.js:377`): the handler
  writes any status over a non-terminal one, as `RequestStatus` has it.
* "If a pending invite already exists for the same email/tenant, it is replaced."
  (`invitationController.js:22`): two concurrent invitations both find none, and
  `(tenant_id, email)` is not UNIQUE. Each of the two tokens then works once.
* "creates the user account if they don't exist" (`tenantController.js:24`): with
  a token the user is always inserted, so an invited person who has an account
  gets a 409, and has to accept through `/invitations/accept` (`JoinAccount`).
* The address typed at onboarding is compared with the invited one without case
  and stored as typed: one person can end up with two accounts. `MembersAreInvited`
  therefore speaks of addresses up to case.
* The annotation of `POST /bookings/checkout` lists 401 for a missing or invalid
  JWT (`bookingRoutes.js:79`); the middleware answers an invalid one 403
  (`authMiddleware.js:86`), and several reads list neither. `AnswersAreDocumented`
  is therefore about the handlers.
* The status buttons of the dashboard call `/api/bookings/...` on a client whose
  base URL is `/api` (`AdminDashboard.jsx:65`): they always fail.
* A wrong password on the invitation page is a 401, and the interceptor leaves for
  `/login`: the link is lost (`Unauthorized`). A late 401 of an old session ends
  the newer one in the same way.
* The return address for payments at a bank, `/book/:slotId/success`
  (`BookingForm.jsx:111`), is no route of `App.jsx` (`ConfirmRedirects`).
* "1. Fetch and display slot details" (`BookingForm.jsx:5`): `StripeProvider` renders
  its children bare until there is a client secret, and `useStripe()` of the library
  (`@stripe/react-stripe-js` ^6.7.0) throws outside of `<Elements>`. With no error
  boundary in the app the first render leaves the tab blank, and no slot is ever
  fetched. `HooksThrow = TRUE` is this page (`ShowBooking`), as in `MCStaleList`;
  `MCPages` sets it to `FALSE`, to look at what the rest of the component does. The
  theorems hold for both.
* Did the hooks not throw, "3. Initialize Stripe PaymentIntent", "4. Render Stripe
  <PaymentElement>" (`BookingForm.jsx:7-8`) would take two checkouts: the first
  secret mounts the form anew, which asks for the amount again, and `<Elements>` keeps
  that secret, so what is paid is the first intent, whatever amount the button shows
  (`AfterCheckout`, `Elements`).
* An open slot whose booking was cancelled cannot be deleted: the foreign key refuses,
  and the answer is a 500 (`AnswerDelete`, `DeleteSlot` of `Availability`).
* Less than half a cent passes the validation of `total_amount`, is 0 cents for
  Stripe and is answered 500 (`RefuseCheckout`).

## 4. What is proved

For every value of the constants: any number of workers, slots, bookings,
payments, tenants, users, instants, addresses, invitations, requests, clients,
routes, calls in flight, amounts, offsets of a clock and faults.

| module | theorem | says |
|---|---|---|
| `BookingEngineProofs` | `Inductive` | `Spec => []IInv` |
| | `TypeCorrect` | `Spec => []TypeOK` |
| | `InvoicesAgree` | `Spec => []InvoiceFollowsBooking` |
| | `TenantsAreApart` | `Spec => []BookingStaysInTenant` |
| | `NoDoubleBooking` | `Spec => []OneBookingPerSlot` |
| | `MarksAreTrue` | `Spec => []SlotMatchesBookings` |
| | `NoDeadlock` | `Spec => []NoHoldAndWait` |
| `LedgerProofs` | `Refinement` | `Spec => ImplementsLedger` |
| | `StatusesAreFinal` | `Spec => TerminalIsFinal` |
| | `BookingsFreezeSlots` | `Spec => BookedSlotIsFrozen` |
| | `PaymentsBuyOnce` | `Spec => []OnePaymentOneBooking` |
| `StepProofs` | `OverlapsAreSeen` | `Spec => OverlapsAreRefused` |
| | `ProvidersStayHome` | `Spec => ProviderEditsOwnSlots` |
| | `LosersAreTold` | `Spec => LosersGetConflict` |
| | `IntentsAreFair` | `Spec => IntentsAreForOpenSlots` |
| `WorkspacesProofs` | `Inductive` | `Spec => []WInv` |
| | `TypeCorrect` | `Spec => []TypeOK` |
| | `TokensWorkOnce` | `Spec => []InvitationUsedOnce` |
| | `AcceptanceJoins` | `Spec => []AcceptedMeansMember` |
| | `RolesNeverChange` | `Spec => RolesAreKept` |
| | `NobodyJoinsUninvited` | `Spec => MembersAreInvited` |
| | `NobodyWaitsInACircle` | `Spec => []NoWaitCycle` |
| `GatewayProofs` | `Inductive` | `Spec => []GatewayInv`, for handlers that clean up (`HandlersCleanUp`) |
| | `PoolCannotDeadlock` | `Spec => []NobodyHoldsAndWaits`, for handlers that clean up (`HandlersCleanUp`) |
| | `PoolStaysClean` | `Spec => []CleanClients`, for the handlers of `ApiHandlers` |
| | `NothingLeaks` | `Spec => []NoClientLeaks`, for the handlers of `ApiHandlers` |
| | `OnlyAllowedRolesWork` | `Spec => []WorkIsAuthorised`, for handlers that clean up (`HandlersCleanUp`) |
| | `HandlersKeepTheContract` | `Spec => AnswersAreDocumented`, for the routes and handlers of `ApiHandlers` |
| `SessionProofs` | `SessionsAgree` | `Spec => []SessionInv` |
| | `SessionTypes` | `Spec => []TypeOK` |
| | `TokensAreOfShownUsers` | `Spec => []TokenIsOfShownUser` |
| | `ActiveWorkspacesAreListed` | `Spec => []ActiveIsListed` |
| | `VisitsAcceptOnce` | `Spec => []AcceptsOnce` |
| `PagesProofs` | `PagesAreRight` | `Spec => []PagesInv` |
| | `PageTypes` | `Spec => []TypeOK` |
| | `CardsGoWithSlots` | `Spec => CardsVanishWithSlots` |
| | `UntouchedFormsShift` | `Spec => []UntouchedSavesShift` |
| | `VisitsPayOnce` | `Spec => []PaidOnce` |
| | `ChargesAreInvoiced` | `Spec => []ChargedIsInvoiced` |
| `Money` | `ChargeMatchesInvoice` | every charge agrees with its invoice, but for half a cent |

Assumptions: `None` is no id, worker or request, instants and `MaxFaults` are
natural numbers, `Offered` contains only requests the handlers know; for the
workspaces also that only provider, staff and customer can be invited, and that
lower case of lower case is lower case; for the gateway that routes, handlers and
callers have the shape of those of `ApiHandlers`; for the tab that the bounds are
numbers (`FaultsAreCounted`, `BoundsAreNumbers`, `NumbersAreNumbers`) and `None` is
no slot or amount (`NoneIsNoValue`). TLC evaluates them in every run. Only
`PoolStaysClean`, `NothingLeaks` and `HandlersKeepTheContract` fix constants: they
say something about the nineteen flows, and so take `Handler` (the last one `Route`,
too) to be theirs.

**Bookings.** None of the properties is inductive. `SlotMatchesBookings`, for one,
survives `CommitPending` only if the slot is still open at that moment, which the
handler found out steps ago. `IInv` says what carries such knowledge across steps:

* `RequestsOK`, `EditsOK`, `FreshIdsOK`: a handler that stands at a label has the
  fields it needs, and what passed a check can be written;
* `LocksOK`: a worker has exactly the locks its progress implies, no more (so
  that a finished handler leaves none behind) and no fewer;
* `ReadsOK`: what a handler read from a row it has locked is still so. A slot
  past its lock is open and in the caller's tenant, a booking past its lock is
  pending or confirmed, a cancellation past the slot's lock has that slot
  booked (through `SlotMatchesBookings`), an inserted booking is the only one;
* `PaymentsOK`: a checkout has its intent to itself, and a webhook carries what
  its intent was opened for.

Each step is proved to keep `IInv` by its shape: a refusal changes only the
worker (`RefuseStep`), an advance changes a label (`AdvanceStep`), a lock is
gained on a row nobody has (`LockSlotStep`), and a commit writes one slot and at
most one booking, which by `OneOwner` no other worker has read
(`EditIsPrivate`, `CommitStep`). `NoDeadlock` then needs no induction of its
own: a cancellation that waits for its slot with the booking locked would have
to meet another handler past the lock of that slot, which needs it open, while
the booking makes it booked.

**The ledger.** `Refinement` needs no more than `IInv`: there is one lemma for each
committing step, and every other step leaves the tables alone (`NextRefined`).
That a terminal status is final and a booked slot frozen is then a matter of the
six operations of the ledger, not of two dozen steps of handlers.
`OnePaymentOneBooking` is stronger than what `IInv` says of payments, since the
webhook that made a booking is long over when its event comes again. It needs
`PaidForOK`: what a payment has bought is a booking of the slot that payment was
for. Two bookings of one payment would then be two bookings of one slot, which
`OneBookingPerSlot` excludes.

**Steps.** The theorems of `StepProofs` are about a step and the state it starts
from. `StepsAreLocal` says that a step moves one worker, so only its handler has
to be looked at; what the handler has read is in `IInv`.

**Workspaces.** That a token works once does not follow from the state of the
invitation alone: the transaction that uses it read "pending" some queries ago.
`WInv` is two conjuncts. `RowsInv` has, for each worker (`WorkerOK`): an invitation in use is locked by its
user, still pending, and carries the tenant, role and address its user is about
to write (`UsedOK`); what a replacement is about to delete is locked by it or gone
(`ReplacedOK`: the DELETE goes by id, not by state, so it may also remove an
invitation accepted meanwhile, but never one in use); a new token is known to
nobody else (`TokenOK`); membership and tenant rows in flight are the only ones
with their keys (`MemberOK`, `FounderOK`); an acceptance about to commit has made
or found a membership (`JoinedOK`). A step that writes no table is an instance of
one lemma (`QuietStep`), so that only the worker that moves has to be looked at;
the four commits show what they leave of the other workers' knowledge. The two
action properties then only concern the three commits that write `tenant_users`
(`OnlyCommitsAddMembers`).

`OrderInv` is the other conjunct, and inductive once `RowsInv` is: which
statements each handler has left when a row or key of its own is in flight
(`StageOK`), and that an invitation's row is locked by a transaction past the
statement that locks it (`LockOK`). All three handlers take what can be waited
for in one order, the invitation's row or `tenants.slug`, `users.email`, the key of
`tenant_users`. So a membership in flight belongs to a transaction that only has
to commit; if nobody can do that, nobody waits for a membership; then a user in
flight belongs to one that waits for nothing, and so on back to the first lock.
`NobodyWaitsInACircle` needs no bound on the number of transactions.

**The gateway.** `GatewayInv` ties the stage of a request to the queue and the
clients: who waits is in the queue once and has no client, who holds has one, and
only a request in the middle of a transaction has a client with a transaction
open. It is inductive only if the handlers clean up after themselves, which
`HandlersCleanUp` says of the tables: a handler with a transaction ends it at every
exit and in its catch block, and every handler releases. That is a hypothesis of
the general theorems, and `ApiHandlersCleanUp` proves it of the nineteen flows, exit
by exit, so that it can be dropped for them. The proof goes through the ways a step
can end: an answer before there is a client to give back (`ReplyInHand`), an exit
(`TakeKeeps`, `ExitKeeps`) and the finally block after it (`FinallyKeeps`), a wait
for a client (`AskKeeps`) or a client gained (`ServeKeeps`). `AskKeeps` is where `next()` matters: the handler joins the queue
and the middleware's client is back before anything else can run.
`HandlersKeepTheContract` has a step lemma (an answer carries a code of its
handler's table, `StepListed`) and a lemma that compares the tables route by route
(`ApiCodesAreListed`).

**The session.** That `localStorage` never holds a token of somebody else than the
page shows is simple once it is known what late answers carry. `SessionInv` says:
a request was sent with what its answer will be stored with, and the closure of an
acceptance knows the memberships of whoever its token is of, until the invitation
is accepted (`CallsOK`); the invitation page has one request out at most, with its
buttons disabled, and counts its acceptance (`VisitOK`), which is what makes
`AcceptsOnce` inductive, since the effect runs again when accepting has made the
visitor authenticated; who has a session is a member somewhere, and before the
acceptance his session lists just his workspaces (`SessionsOK`); React offers
nothing `localStorage` does not list, unless the tab strayed (`StorageKnows`),
without which a switch of workspace would break `ActiveIsListed`. Each conjunct is
about one of the places a session is written, and the proof has one lemma per
click, answer, timer and expiry.

**The pages.** `PagesInv` extends each property to the moments between. A list that
a refresh has read but not set leaves out only slots that are gone (`ListOK`): what
is gone stays gone, so it does not matter how old the list is when it is set.
`CardsGoWithSlots` then has two steps to look at, the arrival of such a list and the
answer to a DELETE (`CardsStay`). Times are shifted by whole saves in the table, in
the input of the form and in the saves under way (`TimesAreShifted`): an untouched
save only sends what the form was filled with. `PaidOnce` rests on `PaymentOK`: the
only intent that may be accepted is the one `<Elements>` was mounted with, because
`<Elements>` keeps its first secret. A page that is not shown has no state
(`OnePage`), so leaving it forgets its intents. `ChargedIsInvoiced` uses
`ChargeMatchesInvoice` of `Money` for every amount, not for the three of the run.

**Model-checked only**: liveness under fairness, which is out of the prover's
reach (`PaidSlotIsTaken`, `EveryRequestAnswered` of the engine and of the gateway,
`GhostsLeave`, `ButtonsComeBack`). Every invariant and every action property that a
run checks is also a theorem. The five runs that end in a violation need no proof:
their counterexamples are there.

## 5. Not modelled

* The status buttons of the dashboard, which cannot reach the API (above), and the
  list of bookings beyond its fetch. `InviteProviderForm`, `PublicDashboard` and
  `Unauthorized`: one request or none, and no state that outlives its answer.
* The doubled effects of React's StrictMode in development (`main.jsx`).
* Several tabs over one `localStorage`, the history buttons of the browser, and
  reloading a page of `Pages`. A payment leaves for the page of a bank only from a tab
  that awaits no other answer. `AuthProvider` has no `storage` listener, so tabs
  would simply be further writers of `localStorage`; the model has one.
* Slots created, edited or deleted by somebody else than the tab in `Pages`, where
  other people book and cancel; that they race on the server is in `BookingEngine`.
* An editor who moves a slot between a customer's view of it and the checkout. The
  customer then books a time he has not seen; nothing in the code would notice.
* The signature of a webhook, the verification of a JWT, password hashes: choices
  between their outcomes. The role of a member is read once per request; that it
  changes while the handler runs is not in `Gateway`.
* CORS, body parsing, `/health`, the generated API page, manifests and styling:
  no behaviour to check.
