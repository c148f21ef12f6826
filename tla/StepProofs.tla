------------------------------ MODULE StepProofs ------------------------------
(***************************************************************************)
(* Proofs of what a step of BookingEngine may never do, beyond what        *)
(* follows from the ledger: these properties are about requests and        *)
(* answers, which the ledger does not have.                                *)
(***************************************************************************)
EXTENDS BookingEngineProofs

Untouched(v) == pc'[v] = pc[v] /\ req'[v] = req[v] /\ reply'[v] = reply[v]

LEMMA PaymentIsLocal ==
    ASSUME CoreInv, NEW w \in Workers, PaymentStep(w)
    PROVE  \A v \in Workers \ {w} : Untouched(v)
<1>0. /\ pc \in [Workers -> Labels] /\ req \in [Workers -> Request]
      /\ reply \in [Workers -> Replies]
  BY DEF CoreInv, TypeOK, StoreTypeOK
<1>1. ASSUME NEW code, Finish(w, code) PROVE \A v \in Workers \ {w} : Untouched(v)
  BY <1>1, FinishIsLocal DEF Untouched
<1>2. CASE LockForCheckout(w) \/ LockForWebhook(w)
  BY <1>0, <1>1, <1>2 DEF LockForCheckout, LockForWebhook, LockOpenSlot, SlotMissing, Refuse,
                          KeepSlotLocked, Untouched
<1>3. CASE CreateIntent(w) \/ InsertConfirmed(w)
  BY <1>0, <1>1, <1>3 DEF CreateIntent, InsertConfirmed, InsertBooking, Refuse, Untouched
<1>4. CASE CommitCheckout(w) \/ CommitConfirmed(w)
  BY <1>1, <1>4 DEF CommitCheckout, CommitConfirmed, CommitBooking, Commit
<1> QED
  BY <1>2, <1>3, <1>4 DEF PaymentStep

\* Only its own steps change what a worker is doing.
LEMMA StepsAreLocal ==
    ASSUME IInv, [Next]_vars, NEW w \in Workers
    PROVE  Untouched(w) \/ Arrive(w) \/ Handle(w) \/ Break(w)
<1>0. CoreInv
  BY DEF IInv
<1>1. ASSUME NEW v \in Workers, v # w, Arrive(v) PROVE Untouched(w)
  BY <1>0, <1>1, BeginFacts
     DEF Arrive, RequestCreate, RequestUpdate, RequestDelete, RequestBooking, RequestStatus,
         RequestCheckout, DeliverEvent, Untouched
<1>2. ASSUME NEW v \in Workers, v # w, Handle(v) PROVE Untouched(w)
  BY <1>0, <1>2, AvailabilityIsLocal, BookingIsLocal, PaymentIsLocal DEF Handle, Untouched
<1>3. ASSUME NEW v \in Workers, v # w, Break(v) PROVE Untouched(w)
  BY <1>0, <1>3, FinishIsLocal DEF Break, Fail, Untouched
<1>4. ASSUME NEW p \in PaymentIds, Pay(p) PROVE Untouched(w)
  BY <1>4 DEF Pay, storeVars, Untouched
<1>5. CASE UNCHANGED vars
  BY <1>5 DEF vars, storeVars, Untouched
<1> QED
  BY <1>1, <1>2, <1>3, <1>4, <1>5 DEF Next

LEMMA ArrivalFacts ==
    ASSUME CoreInv, NEW w \in Workers, Arrive(w)
    PROVE  pc'[w] = "begin" /\ reply'[w] = "none" /\ pc[w] = "idle"
BY BeginFacts
   DEF Arrive, RequestCreate, RequestUpdate, RequestDelete, RequestBooking, RequestStatus,
       RequestCheckout, DeliverEvent, Begin

(***************************************************************************)
(* Overlaps.                                                               *)
(***************************************************************************)

\* What the overlap query of a new or moved slot has let through was on offer
\* nowhere else when it ran.
THEOREM OverlapsAreSeen == Spec => OverlapsAreRefused
<1>1. ASSUME IInv, [Next]_vars, NEW w \in Workers, NEW s \in SlotIds,
             pc[w] # "checked", pc'[w] = "checked", s # req[w].slot
      PROVE  ~Clash(req[w].tenant, EffectiveStaff(w), req[w].from, req[w].to, s)
  <2>0. CoreInv /\ pc \in [Workers -> Labels]
    BY <1>1 DEF IInv, CoreInv, TypeOK, StoreTypeOK
  <2>1. ASSUME NEW code, Finish(w, code) PROVE FALSE
    BY <1>1, <2>0, <2>1 DEF Finish
  <2>2. ~Arrive(w) /\ ~Break(w) /\ ~Untouched(w)
    BY <1>1, <2>0, <2>1, ArrivalFacts DEF Break, Fail, Untouched
  <2>3. CheckNewSlot(w) \/ CheckMovedSlot(w)
    <3>1. ~BookingStep(w)
      BY <1>1, <2>0, <2>1
         DEF BookingStep, LockForBooking, LockOpenSlot, SlotMissing, Refuse, KeepSlotLocked,
             InsertPending, InsertBooking, CommitPending, CommitBooking, Commit, LockBooking,
             CommitStatus, ReleaseSlot, CommitCancel
    <3>2. ~PaymentStep(w)
      BY <1>1, <2>0, <2>1
         DEF PaymentStep, LockForCheckout, LockForWebhook, LockOpenSlot, SlotMissing, Refuse,
             KeepSlotLocked, CreateIntent, CommitCheckout, InsertConfirmed, InsertBooking,
             CommitConfirmed, CommitBooking, Commit
    <3>3. ~(RefuseCreate(w) \/ InsertSlot(w) \/ LockForUpdate(w) \/ UpdateSlot(w)
            \/ LockForDelete(w) \/ DeleteSlot(w))
      BY <1>1, <2>0, <2>1
         DEF RefuseCreate, InsertSlot, LockForUpdate, UpdateSlot, LockForDelete, DeleteSlot,
             LockOwnSlot, SlotMissing, Refuse, KeepSlotLocked, Commit
    <3> QED
      BY <1>1, <2>2, <3>1, <3>2, <3>3, StepsAreLocal DEF Handle, AvailabilityStep
  <2>4. s \notin UnbookedOverlaps(req[w].tenant, EffectiveStaff(w), req[w].from, req[w].to)
    <3>1. CASE CheckNewSlot(w)
      BY <2>1, <3>1 DEF CheckNewSlot, Refuse
    <3>2. CASE CheckMovedSlot(w)
      <4>1. MayEdit(w) /\ req[w].op = "update" /\ OtherOverlaps(w) = {}
        BY <2>0, <2>1, <3>2 DEF CheckMovedSlot, Refuse, At, CoreInv, ReadsOK, PastLock
      <4>2. EffectiveStaff(w) = req[w].staff
        BY <2>0, <3>2 DEF CoreInv, EditsOK, CheckMovedSlot, At
      <4> QED
        BY <1>1, <4>1, <4>2 DEF OtherOverlaps
    <3> QED
      BY <2>3, <3>1, <3>2
  <2>5. /\ req[w].from \in Times /\ req[w].to \in Times
        /\ slots[s].state = "open" => slots[s].from \in Times /\ slots[s].to \in Times
    BY <2>0, <2>3 DEF CheckNewSlot, CheckMovedSlot, At, CoreInv, RequestsOK, Complete, NoRequest,
                      EditsOK, TypeOK, StoreTypeOK, TablesTypeOK, LiveSlot, NoSlot, DeletedSlot
  <2> SUFFICES ASSUME NEW x \in Times, slots[s].state = "open",
                      slots[s].tenant = req[w].tenant, slots[s].staff = EffectiveStaff(w),
                      req[w].from <= x, x < req[w].to, slots[s].from <= x, x < slots[s].to
               PROVE  FALSE
    BY DEF Clash
  <2>6. slots[s].from < req[w].to /\ slots[s].to > req[w].from
    <3>1. /\ x \in Nat /\ req[w].from \in Nat /\ req[w].to \in Nat
          /\ slots[s].from \in Nat /\ slots[s].to \in Nat
      BY <2>5, TimesAreInstants
    <3> QED
      BY <3>1
  <2> QED
    BY <1>1, <2>4, <2>6 DEF UnbookedOverlaps, Overlaps
<1>2. IInv /\ [Next]_vars =>
         [\A w \in Workers, s \in SlotIds :
             pc[w] # "checked" /\ pc'[w] = "checked" /\ s # req[w].slot =>
                 ~Clash(req[w].tenant, EffectiveStaff(w), req[w].from, req[w].to, s)]_vars
  BY <1>1
<1> QED
  BY <1>2, Inductive, PTL DEF Spec, OverlapsAreRefused

(***************************************************************************)
(* Edits.                                                                  *)
(***************************************************************************)

\* Whatever happens between a provider's check and his write, what he commits is of
\* slots that are his.
THEOREM ProvidersStayHome == Spec => ProviderEditsOwnSlots
<1>1. ASSUME IInv, [Next]_vars, NEW w \in Workers, NEW s \in SlotIds, Edits(w, s), IsProvider(w)
      PROVE  /\ slots[s].state = "none" \/ slots[s].staff = req[w].user
             /\ slots'[s].state = "deleted" \/ slots'[s].staff = req[w].user
  <2>0. /\ CoreInv /\ slots \in [SlotIds -> LiveSlot \cup {NoSlot, DeletedSlot}]
        /\ req[w].op \in {"create", "update", "delete"} /\ req'[w] # req[w]
        /\ slots'[s] # slots[s]
    BY <1>1 DEF IInv, CoreInv, TypeOK, StoreTypeOK, TablesTypeOK, Edits
  <2>1. ~Untouched(w) /\ ~Break(w)
    BY <2>0 DEF Untouched, Break, Fail, tables
  <2>2. ~Arrive(w)
    BY <2>0, ArrivalFacts DEF CoreInv, RequestsOK, NoRequest
  <2>3. ~BookingStep(w) /\ ~PaymentStep(w)
    BY <2>0 DEF BookingStep, LockForBooking, InsertPending, CommitPending, LockBooking,
       CommitStatus, ReleaseSlot, CommitCancel, PaymentStep, LockForCheckout, CreateIntent,
       CommitCheckout, LockForWebhook, InsertConfirmed, CommitConfirmed, At
  <2>4. InsertSlot(w) \/ UpdateSlot(w) \/ DeleteSlot(w)
    BY <1>1, <2>0, <2>1, <2>2, <2>3, StepsAreLocal
       DEF Handle, AvailabilityStep, RefuseCreate, CheckNewSlot, CheckMovedSlot, LockForUpdate,
           LockForDelete, LockOwnSlot, SlotMissing, KeepSlotLocked, Refuse, tables
  <2>5. CASE InsertSlot(w)
    <3>1. slots' = [slots EXCEPT ![req[w].slot] =
                      OpenSlot(req[w].tenant, req[w].user, req[w].from, req[w].to)]
      BY <1>1, <2>5 DEF InsertSlot, EffectiveStaff
    <3>2. slots[req[w].slot].state = "none"
      BY <2>0, <2>5, RequestFacts DEF InsertSlot, At
    <3> QED
      BY <2>0, <3>1, <3>2 DEF OpenSlot
  <2>6. CASE UpdateSlot(w)
    <3>1. /\ slots[req[w].slot].staff = req[w].user /\ slots[req[w].slot].state = "open"
          /\ req[w].staff = req[w].user
      BY <1>1, <2>0, <2>6, RequestFacts
         DEF UpdateSlot, At, CoreInv, ReadsOK, EditsOK, PastLock, MayEdit, EffectiveStaff, SlotOps
    <3>2. slots[req[w].slot] \in LiveSlot /\ s = req[w].slot
      BY <2>0, <2>6, <3>1 DEF UpdateSlot, NoSlot, DeletedSlot
    <3>3. [slots[s] EXCEPT !.staff = req[w].staff, !.from = req[w].from,
                           !.to = req[w].to].staff = req[w].staff
      BY <3>2 DEF LiveSlot
    <3> QED
      BY <2>0, <2>6, <3>1, <3>2, <3>3 DEF UpdateSlot
  <2>7. CASE DeleteSlot(w)
    <3>1. slots[req[w].slot].staff = req[w].user
      BY <1>1, <2>0, <2>7 DEF DeleteSlot, At, CoreInv, ReadsOK, PastLock, MayEdit
    <3> QED
      BY <2>0, <2>7, <3>1 DEF DeleteSlot, Refuse, tables, DeletedSlot, NoSlot
  <2> QED
    BY <2>4, <2>5, <2>6, <2>7
<1>2. IInv /\ [Next]_vars =>
         [\A w \in Workers, s \in SlotIds : Edits(w, s) /\ IsProvider(w) =>
             /\ slots[s].state = "none" \/ slots[s].staff = req[w].user
             /\ slots'[s].state = "deleted" \/ slots'[s].staff = req[w].user]_vars
  BY <1>1
<1> QED
  BY <1>2, Inductive, PTL DEF Spec, ProviderEditsOwnSlots

(***************************************************************************)
(* Answers and payments.                                                   *)
(***************************************************************************)

\* Whoever loses the race for a slot is told so with a 409; the UNIQUE violation,
\* a 500, needs an earlier booking that was cancelled.
THEOREM LosersAreTold == Spec => LosersGetConflict
<1>1. ASSUME IInv, [Next]_vars, NEW w \in Workers, reply[w] # "duplicate", reply'[w] = "duplicate"
      PROVE  \E b \in BookingsOn(req[w].slot) : bookings[b].status = "cancelled"
  <2>0. CoreInv /\ reply \in [Workers -> Replies]
    BY <1>1 DEF IInv, CoreInv, TypeOK, StoreTypeOK
  <2>1. ASSUME NEW code, Finish(w, code) PROVE code = "duplicate"
    BY <1>1, <2>0, <2>1 DEF Finish
  <2>2. ~Untouched(w) /\ ~Arrive(w) /\ ~Break(w)
    BY <1>1, <2>0, <2>1, ArrivalFacts DEF Untouched, Break, Fail
  <2>3. ~LockOpenSlot(w) /\ ~LockOwnSlot(w) /\ ~KeepSlotLocked(w) /\ ~Commit(w)
    BY <1>1, <2>1 DEF LockOpenSlot, LockOwnSlot, SlotMissing, Refuse, KeepSlotLocked, Commit
  <2>4. ~AvailabilityStep(w)
    BY <1>1, <2>1, <2>3
       DEF AvailabilityStep, RefuseCreate, CheckNewSlot, InsertSlot, LockForUpdate,
           CheckMovedSlot, UpdateSlot, LockForDelete, DeleteSlot, Refuse
  <2>5. BookingStep(w) => InsertPending(w)
    BY <1>1, <2>1, <2>3
       DEF BookingStep, LockForBooking, CommitPending, CommitBooking, LockBooking, CommitStatus,
           ReleaseSlot, CommitCancel, Refuse
  <2>6. PaymentStep(w) => InsertConfirmed(w)
    BY <1>1, <2>3
       DEF PaymentStep, LockForCheckout, CreateIntent, CommitCheckout, LockForWebhook,
           CommitConfirmed, CommitBooking
  <2>7. InsertPending(w) \/ InsertConfirmed(w)
    BY <1>1, <2>2, <2>4, <2>5, <2>6, StepsAreLocal DEF Handle
  <2>8. /\ BookingsOn(req[w].slot) # {} /\ pc[w] = "locked"
        /\ req[w].op \in {"book", "webhook"}
    BY <1>1, <2>7 DEF InsertPending, InsertConfirmed, InsertBooking, ViolatesUnique, At
  <2>9. req[w].slot \in SlotIds /\ slots[req[w].slot].state = "open"
    BY <2>0, <2>8, RequestFacts DEF SlotOps, PastLock
  <2>10. PICK b \in BookingsOn(req[w].slot) : ~IsActive(b)
    BY <2>0, <2>8, <2>9 DEF CoreInv, Consistent, SlotMatchesBookings
  <2>11. bookings[b] \in LiveBooking /\ b \in BookingIds
    BY <2>0, <2>10 DEF BookingsOn, BookingExists, CoreInv, TypeOK, StoreTypeOK, TablesTypeOK,
                       NoBooking
  <2> QED
    BY <2>10, <2>11 DEF IsActive, BookingStatus, LiveBooking
<1>2. IInv /\ [Next]_vars =>
         [\A w \in Workers : reply[w] # "duplicate" /\ reply'[w] = "duplicate" =>
             \E b \in BookingsOn(req[w].slot) : bookings[b].status = "cancelled"]_vars
  BY <1>1
<1> QED
  BY <1>2, Inductive, PTL DEF Spec, LosersGetConflict

\* Stripe is asked for money only while the slot is open, however long the handler
\* has been waiting for it.
THEOREM IntentsAreFair == Spec => IntentsAreForOpenSlots
<1>1. ASSUME IInv, [Next]_vars, NEW p \in PaymentIds,
             payments[p].state = "none", payments'[p].state = "created"
      PROVE  slots[payments'[p].slot].state = "open"
  <2>0. CoreInv /\ payments \in [PaymentIds -> Intent \cup {NoPayment}]
    BY <1>1 DEF IInv, CoreInv, TypeOK, PaymentsTypeOK
  <2>1. payments[p] = NoPayment
    BY <1>1, <2>0 DEF Intent
  <2>2. ASSUME NEW w \in Workers, Settle(w) PROVE FALSE
    BY <1>1, <2>0, <2>1, <2>2 DEF Settle, NoPayment
  <2>3. ASSUME NEW w \in Workers, CommitCheckout(w) PROVE FALSE
    <3>1. payments[req[w].payment].state = "created"
      BY <1>1, <2>3 DEF CommitCheckout, At, IInv, PaymentsOK
    <3> QED
      BY <1>1, <2>0, <2>3, <3>1 DEF CommitCheckout
  <2>4. ASSUME NEW q \in PaymentIds, Pay(q) PROVE FALSE
    BY <1>1, <2>0, <2>1, <2>4 DEF Pay, NoPayment
  <2>5. payments' # payments
    BY <1>1
  <2>6. ~UNCHANGED vars /\ \A w \in Workers : ~Arrive(w)
    BY <2>5 DEF vars, Arrive, RequestCheckout, DeliverEvent
  <2>7. PICK w \in Workers : CreateIntent(w)
    BY <1>1, <2>2, <2>3, <2>4, <2>5, <2>6
       DEF Next, Handle, PaymentStep, LockForCheckout, LockForWebhook, InsertConfirmed,
           CommitConfirmed, Break
  <2>8. slots[req[w].slot].state = "open" /\ req[w].payment \in PaymentIds
    BY <2>0, <2>7, RequestFacts
       DEF CreateIntent, At, SlotOps, PastLock, CoreInv, RequestsOK, Complete, NoRequest
  <2> QED
    BY <1>1, <2>0, <2>7, <2>8 DEF CreateIntent
<1>2. IInv /\ [Next]_vars =>
         [\A p \in PaymentIds : payments[p].state = "none" /\ payments'[p].state = "created" =>
             slots[payments'[p].slot].state = "open"]_vars
  BY <1>1
<1> QED
  BY <1>2, Inductive, PTL DEF Spec, IntentsAreForOpenSlots

=============================================================================
