------------------------- MODULE BookingEngineProofs -------------------------
(***************************************************************************)
(* Proofs about BookingEngine for every set of slots, bookings, workers    *)
(* and tenants: IInv is inductive, and what follows from it.               *)
(***************************************************************************)
EXTENDS BookingInvariant, TLAPS

USE NoneIsNoId, TimesAreInstants, NoneIsNoWorker, FaultsAreBounded

LEMMA InitIInv == Init => IInv
<1> SUFFICES ASSUME Init PROVE IInv
  OBVIOUS
<1> USE DEF Init, InitStore, InitTables, InitPayments
<1>1. TypeOK
  BY DEF TypeOK, StoreTypeOK, TablesTypeOK, PaymentsTypeOK, LiveSlot, LiveBooking,
         NoBooking, NoPayment, NoRequest, Request, Labels, Replies
<1>2. Consistent
  BY DEF Consistent, SlotMatchesBookings, InvoiceFollowsBooking, BookingStaysInTenant,
         OneBookingPerSlot, BookingsOn, BookingExists, NoBooking, NoSlot, LiveSlot
<1>3. RequestsOK /\ EditsOK /\ FreshIdsOK
  BY DEF RequestsOK, EditsOK, FreshIdsOK, At, NoRequest
<1>4. LocksOK /\ ReadsOK
  BY DEF LocksOK, ReadsOK, OwnsSlot, OwnsBooking, PastLock, At, NoRequest
<1>5. PaymentsOK
  BY DEF PaymentsOK, NoRequest
<1> QED
  BY <1>1, <1>2, <1>3, <1>4, <1>5 DEF CoreInv, IInv

\* Two transactions never own the same row.
LEMMA OneOwner ==
    ASSUME CoreInv, NEW v \in Workers, NEW w \in Workers
    PROVE  /\ \A s \in SlotIds : OwnsSlot(v, s) /\ OwnsSlot(w, s) => v = w
           /\ \A b \in BookingIds : OwnsBooking(v, b) /\ OwnsBooking(w, b) => v = w
BY DEF CoreInv, LocksOK

\* What a request in flight says of the rows it is about.
LEMMA RequestFacts ==
    ASSUME CoreInv, NEW v \in Workers
    PROVE  /\ req[v].op = "create" => req[v].slot \in SlotIds /\ slots[req[v].slot].state = "none"
           /\ req[v].op \in SlotOps => req[v].slot \in SlotIds
           /\ req[v].op \in SlotOps /\ PastLock(v) =>
                 /\ OwnsSlot(v, req[v].slot)
                 /\ slots[req[v].slot].state = "open"
                 /\ slots[req[v].slot].tenant = req[v].tenant
           /\ req[v].op = "status" => req[v].booking \in BookingIds
           /\ req[v].op = "status" /\ PastLock(v) =>
                 /\ OwnsBooking(v, req[v].booking)
                 /\ BookingExists(req[v].booking)
<1>1. /\ req[v].op = "create" => req[v].slot \in SlotIds /\ slots[req[v].slot].state = "none"
      /\ req[v].op \in SlotOps => req[v].slot \in SlotIds
      /\ req[v].op = "status" => req[v].booking \in BookingIds
  BY DEF CoreInv, RequestsOK, Complete, FreshIdsOK, NoRequest, SlotOps
<1>2. req[v].op \in SlotOps /\ PastLock(v) =>
         /\ OwnsSlot(v, req[v].slot)
         /\ slots[req[v].slot].state = "open"
         /\ slots[req[v].slot].tenant = req[v].tenant
  BY DEF CoreInv, ReadsOK, OwnsSlot
<1>3. req[v].op = "status" /\ PastLock(v) =>
         OwnsBooking(v, req[v].booking) /\ BookingExists(req[v].booking)
  BY DEF CoreInv, ReadsOK, OwnsBooking, BookingExists
<1> QED
  BY <1>1, <1>2, <1>3

(***************************************************************************)
(* Steps that leave the tables alone.                                      *)
(***************************************************************************)

\* Finish touches one worker and gives back exactly the rows that it had.
LEMMA FinishFacts ==
    ASSUME CoreInv, NEW w \in Workers, NEW code \in Replies, Finish(w, code)
    PROVE  /\ pc'[w] = "idle" /\ req'[w] = NoRequest
           /\ \A v \in Workers \ {w} : pc'[v] = pc[v] /\ req'[v] = req[v]
           /\ \A v \in Workers, s \in SlotIds : slotLock'[s] = v <=> v # w /\ slotLock[s] = v
           /\ \A v \in Workers, b \in BookingIds :
                 bookingLock'[b] = v <=> v # w /\ bookingLock[b] = v
           /\ pc' \in [Workers -> Labels] /\ req' \in [Workers -> Request]
           /\ reply' \in [Workers -> Replies]
           /\ slotLock' \in [SlotIds -> Workers \cup {None}]
           /\ bookingLock' \in [BookingIds -> Workers \cup {None}]
<1> USE DEF CoreInv, TypeOK, StoreTypeOK, Finish
<1>1. NoRequest \in Request /\ "idle" \in Labels
  BY DEF NoRequest, Request, Labels
<1> QED
  BY <1>1

LEMMA FinishStep ==
    ASSUME CoreInv, NEW w \in Workers, NEW code \in Replies, Finish(w, code),
           UNCHANGED tables, faults' \in 0 .. MaxFaults, PaymentsTypeOK'
    PROVE  CoreInv'
<1> USE FinishFacts DEF CoreInv, tables
<1>1. TypeOK'
  BY DEF TypeOK, StoreTypeOK, TablesTypeOK
<1>2. Consistent'
  BY DEF Consistent, SlotMatchesBookings, InvoiceFollowsBooking, BookingStaysInTenant,
         OneBookingPerSlot, BookingsOn, BookingExists, SlotExists, IsActive
<1>3. RequestsOK' /\ EditsOK' /\ FreshIdsOK'
  BY DEF RequestsOK, EditsOK, FreshIdsOK, At, NoRequest, EffectiveStaff, IsProvider
<1>4. LocksOK'
  BY DEF LocksOK, OwnsSlot, OwnsBooking, PastLock, At, NoRequest
<1>5. ReadsOK'
  BY DEF ReadsOK, PastLock, At, NoRequest, MayEdit, IsProvider, BookingsOn, BookingExists
<1> QED
  BY <1>1, <1>2, <1>3, <1>4, <1>5

LEMMA BeginStep ==
    ASSUME CoreInv, NEW w \in Workers, NEW r \in Request, r.op \in Ops, Complete(r),
           r.op = "create" => Fresh(r.slot), Begin(w, r), PaymentsTypeOK'
    PROVE  CoreInv'
<1> USE DEF CoreInv, tables, locks, Begin
<1>0. /\ pc'[w] = "begin" /\ req'[w] = r /\ pc[w] = "idle"
      /\ \A v \in Workers \ {w} : pc'[v] = pc[v] /\ req'[v] = req[v]
  BY DEF TypeOK, StoreTypeOK
<1>1. TypeOK'
  BY DEF TypeOK, StoreTypeOK, TablesTypeOK, Labels, Replies
<1>2. Consistent'
  BY DEF Consistent, SlotMatchesBookings, InvoiceFollowsBooking, BookingStaysInTenant,
         OneBookingPerSlot, BookingsOn, BookingExists, SlotExists, IsActive
<1>3. RequestsOK' /\ EditsOK'
  BY <1>0 DEF RequestsOK, EditsOK, At, EffectiveStaff, IsProvider, Reached
<1>4. FreshIdsOK'
  BY <1>0 DEF FreshIdsOK, Fresh
<1>5. LocksOK'
  BY <1>0 DEF LocksOK, OwnsSlot, OwnsBooking, PastLock, At
<1>6. ReadsOK'
  BY <1>0 DEF ReadsOK, PastLock, At, MayEdit, IsProvider, BookingsOn, BookingExists
<1> QED
  BY <1>1, <1>2, <1>3, <1>4, <1>5, <1>6

\* A handler that goes on without locking another row.
LEMMA AdvanceStep ==
    ASSUME CoreInv, NEW w \in Workers, NEW label \in {"checked", "written"},
           pc' = [pc EXCEPT ![w] = label],
           UNCHANGED <<tables, locks, req, reply, faults>>, PaymentsTypeOK',
           pc[w] # "idle", Reached(req[w].op, label), req[w].op # "status",
           req[w].op # "create" => pc[w] = "locked",
           req[w].op = "create" =>
               EffectiveStaff(w) \in Staff /\ req[w].from < req[w].to,
           req[w].op \in {"book", "webhook"} => BookingsOn(req[w].slot) = {}
    PROVE  CoreInv'
<1> USE DEF CoreInv, tables, locks
<1>0. pc'[w] = label /\ \A v \in Workers \ {w} : pc'[v] = pc[v]
  BY DEF TypeOK, StoreTypeOK
<1>1. TypeOK'
  BY DEF TypeOK, StoreTypeOK, TablesTypeOK, Labels
<1>2. Consistent'
  BY DEF Consistent, SlotMatchesBookings, InvoiceFollowsBooking, BookingStaysInTenant,
         OneBookingPerSlot, BookingsOn, BookingExists, SlotExists, IsActive
<1>3. RequestsOK' /\ FreshIdsOK'
  BY <1>0 DEF RequestsOK, FreshIdsOK, Reached
<1>4. EditsOK'
  BY <1>0 DEF EditsOK, RequestsOK, Reached, At, EffectiveStaff, IsProvider
<1>5. LocksOK'
  BY <1>0 DEF LocksOK, RequestsOK, Reached, SlotOps, OwnsSlot, OwnsBooking, PastLock, At
<1>6. ReadsOK'
  BY <1>0 DEF ReadsOK, RequestsOK, Reached, SlotOps, PastLock, At, MayEdit, IsProvider,
              BookingsOn, BookingExists
<1> QED
  BY <1>1, <1>2, <1>3, <1>4, <1>5, <1>6

\* A handler that gets the lock of an open slot in its tenant, and may have filled
\* in the fields of its request from the row.
LEMMA LockSlotStep ==
    ASSUME CoreInv, NEW w \in Workers, SlotSelected(w), ~IsBooked(req[w].slot),
           KeepSlotLocked(w), PaymentsTypeOK', req[w].op \in SlotOps,
           NEW r \in Request, req' = [req EXCEPT ![w] = r],
           Complete(r), r.op = req[w].op, r.slot = req[w].slot, r.tenant = req[w].tenant,
           r.role = req[w].role, r.user = req[w].user,
           r.op = "update" => /\ MayEdit(w) /\ r.staff \in Staff
                              /\ r.from \in Times /\ r.to \in Times /\ r.from < r.to
                              /\ r.role = "provider" => r.staff = r.user,
           r.op = "delete" => MayEdit(w)
    PROVE  CoreInv'
<1> USE DEF CoreInv, tables, KeepSlotLocked
<1>0. /\ pc[w] = "begin" /\ pc'[w] = "locked" /\ req'[w] = r
      /\ \A v \in Workers \ {w} : pc'[v] = pc[v] /\ req'[v] = req[v]
  BY DEF TypeOK, StoreTypeOK, SlotSelected
<1>1. req[w].slot \in SlotIds
  BY <1>0 DEF RequestsOK, Complete
<1>2. /\ slots[req[w].slot].state = "open" /\ slots[req[w].slot].tenant = req[w].tenant
      /\ slotLock[req[w].slot] = None
  BY DEF SlotSelected, SlotVisible, SlotExists, SlotLockFree, IsBooked
<1>3. TypeOK'
  BY <1>1 DEF TypeOK, StoreTypeOK, TablesTypeOK, Labels
<1>4. Consistent'
  BY DEF Consistent, SlotMatchesBookings, InvoiceFollowsBooking, BookingStaysInTenant,
         OneBookingPerSlot, BookingsOn, BookingExists, SlotExists, IsActive
<1>5. RequestsOK' /\ FreshIdsOK'
  BY <1>0 DEF RequestsOK, FreshIdsOK, Reached, SlotOps
<1>6. EditsOK'
  BY <1>0 DEF EditsOK, At, EffectiveStaff, IsProvider, SlotOps
<1>7. LocksOK'
  BY <1>0, <1>1, <1>2 DEF LocksOK, OwnsSlot, OwnsBooking, PastLock, At, SlotOps, TypeOK, StoreTypeOK
<1>8. ReadsOK'
  BY <1>0, <1>2 DEF ReadsOK, PastLock, At, MayEdit, IsProvider, SlotOps, BookingsOn, BookingExists
<1> QED
  BY <1>3, <1>4, <1>5, <1>6, <1>7, <1>8

(***************************************************************************)
(* One lemma per handler step of Availability.                             *)
(***************************************************************************)
LEMMA RefuseStep ==
    ASSUME CoreInv, NEW w \in Workers, NEW code \in Replies, Refuse(w, code), PaymentsTypeOK'
    PROVE  CoreInv'
BY FinishStep DEF Refuse, CoreInv, TypeOK, StoreTypeOK, tables

LEMMA CreateSteps ==
    ASSUME CoreInv, NEW w \in Workers, UNCHANGED payments, RefuseCreate(w) \/ CheckNewSlot(w)
    PROVE  CoreInv'
<1>0. PaymentsTypeOK'
  BY DEF CoreInv, TypeOK, PaymentsTypeOK
<1>1. CASE RefuseCreate(w)
  BY <1>0, <1>1, RefuseStep DEF RefuseCreate, Replies
<1>2. CASE CheckNewSlot(w)
  <2> USE <1>2 DEF CheckNewSlot
  <2>1. CASE Refuse(w, "conflict")
    BY <1>0, <2>1, RefuseStep DEF Replies
  <2>2. CASE ~Refuse(w, "conflict")
    <3>1. /\ pc' = [pc EXCEPT ![w] = "checked"]
          /\ UNCHANGED <<tables, locks, req, reply, faults>>
          /\ At(w, "create", "begin")
      BY <2>2
    <3>2. req[w] \in Request /\ Complete(req[w])
      BY <3>1 DEF CoreInv, TypeOK, StoreTypeOK, RequestsOK, At
    <3>3. EffectiveStaff(w) \in Staff /\ req[w].from < req[w].to
      BY <3>1, <3>2 DEF Request, Complete, At, EffectiveStaff, IsProvider
    <3> QED
      BY <1>0, <3>1, <3>3, AdvanceStep DEF At, Reached
  <2> QED
    BY <2>1, <2>2
<1> QED
  BY <1>1, <1>2

LEMMA LockOwnSlotStep ==
    ASSUME CoreInv, NEW w \in Workers, LockOwnSlot(w), PaymentsTypeOK'
    PROVE  CoreInv'
BY RefuseStep DEF LockOwnSlot, SlotMissing, Replies

LEMMA LockForUpdateStep ==
    ASSUME CoreInv, NEW w \in Workers, LockForUpdate(w), PaymentsTypeOK'
    PROVE  CoreInv'
<1> USE DEF LockForUpdate
<1>1. CASE LockOwnSlot(w)
  BY <1>1, LockOwnSlotStep
<1>2. CASE Refuse(w, "invalid")
  BY <1>2, RefuseStep DEF Replies
<1>3. CASE /\ CanEdit(w) /\ Merged(w).to > Merged(w).from
           /\ req' = [req EXCEPT ![w] = Merged(w)] /\ KeepSlotLocked(w)
  <2> DEFINE r == Merged(w)
  <2>1. /\ req[w] \in Request /\ Complete(req[w]) /\ req[w].op = "update"
        /\ req[w].slot \in SlotIds
    BY DEF CoreInv, TypeOK, StoreTypeOK, RequestsOK, At, SlotSelected, CanEdit, Complete, SlotOps
  <2>2. slots[req[w].slot] \in LiveSlot
    BY <1>3, <2>1 DEF CanEdit, SlotSelected, SlotVisible, SlotExists, CoreInv, TypeOK, StoreTypeOK,
                      TablesTypeOK, NoSlot, DeletedSlot
  <2>3. PICK st \in Staff, f \in Times, e \in Times :
           /\ r = [req[w] EXCEPT !.staff = st, !.from = f, !.to = e]
           /\ req[w].role = "provider" => st = req[w].user
    <3> DEFINE st == IF IsProvider(w) THEN req[w].user ELSE Or(req[w].staff, slots[req[w].slot].staff)
               f == Or(req[w].from, slots[req[w].slot].from)
               e == Or(req[w].to, slots[req[w].slot].to)
    <3>1. st \in Staff /\ f \in Times /\ e \in Times
      BY <2>1, <2>2 DEF Or, LiveSlot, Request, Complete, IsProvider
    <3>2. r = [req[w] EXCEPT !.staff = st, !.from = f, !.to = e]
      BY <2>1 DEF Merged, Request
    <3> QED
      BY <3>1, <3>2 DEF IsProvider
  <2> HIDE DEF r
  <2>4. /\ r \in Request /\ r.op = "update" /\ r.slot = req[w].slot /\ r.tenant = req[w].tenant
        /\ r.role = req[w].role /\ r.user = req[w].user
        /\ r.staff \in Staff /\ r.from \in Times /\ r.to \in Times
        /\ r.role = "provider" => r.staff = r.user
    BY <2>1, <2>3 DEF Request
  <2>5. Complete(r) /\ r.from < r.to
    <3>1. r.from < r.to
      BY <1>3, <2>4 DEF r
    <3> QED
      BY <2>1, <2>4, <3>1 DEF Complete
  <2>6. req' = [req EXCEPT ![w] = r] /\ MayEdit(w) /\ KeepSlotLocked(w)
        /\ SlotSelected(w) /\ ~IsBooked(req[w].slot)
    BY <1>3 DEF r, CanEdit
  <2> QED
    BY <2>1, <2>4, <2>5, <2>6, LockSlotStep DEF SlotOps
<1> QED
  BY <1>1, <1>2, <1>3

LEMMA CheckMovedSlotStep ==
    ASSUME CoreInv, NEW w \in Workers, CheckMovedSlot(w), PaymentsTypeOK'
    PROVE  CoreInv'
<1> USE DEF CheckMovedSlot
<1>1. CASE Refuse(w, "conflict")
  BY <1>1, RefuseStep DEF Replies
<1>2. CASE ~Refuse(w, "conflict")
  BY <1>2, AdvanceStep DEF At, Reached
<1> QED
  BY <1>1, <1>2

LEMMA LockForDeleteStep ==
    ASSUME CoreInv, NEW w \in Workers, LockForDelete(w), PaymentsTypeOK'
    PROVE  CoreInv'
<1> USE DEF LockForDelete
<1>1. CASE LockOwnSlot(w)
  BY <1>1, LockOwnSlotStep
<1>2. CASE CanEdit(w) /\ KeepSlotLocked(w) /\ UNCHANGED req
  <2>1. req[w] \in Request /\ Complete(req[w]) /\ req[w].op = "delete"
    BY DEF CoreInv, TypeOK, StoreTypeOK, RequestsOK, At
  <2>2. req' = [req EXCEPT ![w] = req[w]]
    BY <1>2 DEF CoreInv, TypeOK, StoreTypeOK
  <2> QED
    BY <1>2, <2>1, <2>2, LockSlotStep DEF CanEdit, SlotOps
<1> QED
  BY <1>1, <1>2

(***************************************************************************)
(* Committing steps.                                                       *)
(***************************************************************************)
LEMMA CommitIsFinish ==
    ASSUME CoreInv, NEW w \in Workers, Commit(w)
    PROVE  /\ \E code \in Replies : Finish(w, code)
           /\ faults' \in 0 .. MaxFaults
BY DEF Commit, Replies, CoreInv, TypeOK, StoreTypeOK

\* What a commit does to the state of the workers, and what it leaves to show of
\* the tables.
LEMMA CommitStep ==
    ASSUME CoreInv, NEW w \in Workers, Commit(w), TablesTypeOK', PaymentsTypeOK', Consistent',
           \A b \in BookingIds : BookingExists(b) =>
               /\ bookings'[b].slot = bookings[b].slot
               /\ bookings'[b].tenant = bookings[b].tenant,
           \A v \in Workers \ {w} : req[v].op = "create" =>
               slots'[req[v].slot].state = "none",
           \A v \in Workers \ {w}, s \in SlotIds :
               req[v].op \in SlotOps /\ PastLock(v) /\ req[v].slot = s =>
                   slots'[s] = slots[s] /\ BookingsOn(s)' = BookingsOn(s),
           \A v \in Workers \ {w} : req[v].op = "status" /\ PastLock(v) =>
               bookings'[req[v].booking] = bookings[req[v].booking]
    PROVE  CoreInv'
<1>0. PICK code \in Replies : Finish(w, code) /\ faults' \in 0 .. MaxFaults
  BY CommitIsFinish
<1> USE <1>0, FinishFacts DEF CoreInv
<1>1. TypeOK'
  BY DEF TypeOK, StoreTypeOK
<1>2. RequestsOK' /\ EditsOK' /\ FreshIdsOK'
  BY DEF RequestsOK, EditsOK, FreshIdsOK, At, NoRequest, EffectiveStaff, IsProvider
<1>3. LocksOK'
  <2>1. ASSUME NEW v \in Workers, NEW s \in SlotIds
        PROVE  slotLock'[s] = v <=> OwnsSlot(v, s)'
    <3>1. CASE v = w
      BY <3>1 DEF OwnsSlot, PastLock, At, NoRequest, SlotOps
    <3>2. CASE v # w
      <4>1. At(v, "status", "written") => BookingExists(req[v].booking) /\ req[v].booking \in BookingIds
        BY DEF ReadsOK, RequestsOK, Complete, PastLock, At, BookingExists
      <4>2. slotLock[s] = v <=> OwnsSlot(v, s)
        BY DEF LocksOK
      <4> QED
        BY <3>2, <4>1, <4>2 DEF OwnsSlot, PastLock, At
    <3> QED
      BY <3>1, <3>2
  <2>2. \A v \in Workers, b \in BookingIds : bookingLock'[b] = v <=> OwnsBooking(v, b)'
    BY DEF LocksOK, OwnsBooking, PastLock, NoRequest
  <2> QED
    BY <2>1, <2>2 DEF LocksOK
<1>4. ReadsOK'
  <2> SUFFICES ASSUME NEW v \in Workers \ {w}
               PROVE  /\ req[v].op \in SlotOps /\ PastLock(v) =>
                            /\ slots'[req[v].slot].state = "open"
                            /\ slots'[req[v].slot].tenant = req[v].tenant
                      /\ req[v].op \in {"update", "delete"} /\ PastLock(v) =>
                            (IsProvider(v) => slots'[req[v].slot].staff = req[v].user)
                      /\ req[v].op = "status" /\ PastLock(v) =>
                            /\ bookings'[req[v].booking].status \in {"pending", "confirmed"}
                            /\ bookings'[req[v].booking].tenant = req[v].tenant
                      /\ At(v, "status", "written") => req[v].status = "cancelled"
                      /\ req[v].op \in {"book", "webhook"} /\ pc[v] = "written" =>
                            BookingsOn(req[v].slot)' = {}
    BY DEF ReadsOK, PastLock, At, NoRequest, MayEdit, IsProvider, SlotOps, BookingsOn
  <2>1. req[v].op \in SlotOps /\ PastLock(v) =>
           /\ slots'[req[v].slot] = slots[req[v].slot]
           /\ BookingsOn(req[v].slot)' = BookingsOn(req[v].slot)
    BY RequestFacts
  <2> QED
    BY <2>1 DEF ReadsOK, PastLock, At, MayEdit, IsProvider, SlotOps
<1> QED
  BY <1>1, <1>2, <1>3, <1>4

\* A slot that is not booked can be published, moved or deleted under the feet of
\* nobody: the tables still agree, and no other transaction notices.
LEMMA EditIsPrivate ==
    ASSUME CoreInv, NEW w \in Workers, NEW s \in SlotIds, NEW row,
           slots' = [slots EXCEPT ![s] = row], UNCHANGED <<bookings, invoices>>,
           \/ slots[s].state = "none" /\ req[w].op = "create" /\ req[w].slot = s
           \/ slots[s].state = "open" /\ OwnsSlot(w, s),
           row.state # "booked",
           BookingsOn(s) # {} => row.state = "open" /\ row.tenant = slots[s].tenant
    PROVE  /\ Consistent'
           /\ \A v \in Workers \ {w} : req[v].op = "create" => slots'[req[v].slot].state = "none"
           /\ \A v \in Workers \ {w}, x \in SlotIds :
                 req[v].op \in SlotOps /\ PastLock(v) /\ req[v].slot = x =>
                     slots'[x] = slots[x] /\ BookingsOn(x)' = BookingsOn(x)
<1>1. /\ slots'[s] = row
      /\ \A x \in SlotIds \ {s} : slots'[x] = slots[x]
  BY DEF CoreInv, TypeOK, StoreTypeOK, TablesTypeOK
<1>2. \A x \in SlotIds : BookingsOn(x)' = BookingsOn(x)
  BY DEF BookingsOn, BookingExists
<1>3. \A b \in BookingIds : BookingExists(b)' = BookingExists(b) /\ IsActive(b)' = IsActive(b)
  BY DEF BookingExists, IsActive
<1>4. SlotMatchesBookings'
  BY <1>1, <1>2, <1>3 DEF CoreInv, Consistent, SlotMatchesBookings, BookingsOn
<1>5. BookingStaysInTenant'
  BY <1>1, <1>3 DEF CoreInv, Consistent, BookingStaysInTenant, SlotExists, BookingsOn
<1>6. InvoiceFollowsBooking' /\ OneBookingPerSlot'
  BY <1>3 DEF CoreInv, Consistent, InvoiceFollowsBooking, OneBookingPerSlot
<1>7. ASSUME NEW v \in Workers \ {w}, req[v].op = "create"
      PROVE  slots'[req[v].slot].state = "none"
  BY <1>1, <1>7, RequestFacts DEF CoreInv, FreshIdsOK
<1>8. ASSUME NEW v \in Workers \ {w}, NEW x \in SlotIds, req[v].op \in SlotOps, PastLock(v),
             req[v].slot = x
      PROVE  slots'[x] = slots[x] /\ BookingsOn(x)' = BookingsOn(x)
  BY <1>1, <1>2, <1>8, RequestFacts, OneOwner
<1> QED
  BY <1>4, <1>5, <1>6, <1>7, <1>8 DEF Consistent

LEMMA InsertSlotStep ==
    ASSUME CoreInv, NEW w \in Workers, InsertSlot(w), PaymentsTypeOK'
    PROVE  CoreInv'
<1> DEFINE s == req[w].slot
           row == OpenSlot(req[w].tenant, EffectiveStaff(w), req[w].from, req[w].to)
<1>1. /\ s \in SlotIds /\ slots[s].state = "none" /\ req[w].op = "create"
      /\ req[w].tenant \in Tenants /\ req[w].from \in Times /\ req[w].to \in Times
      /\ EffectiveStaff(w) \in Staff /\ req[w].from < req[w].to
  BY RequestFacts DEF CoreInv, InsertSlot, At, RequestsOK, Complete, EditsOK
<1>2. row \in LiveSlot /\ row.state = "open"
  BY <1>1 DEF OpenSlot, LiveSlot
<1>3. slots' = [slots EXCEPT ![s] = row] /\ Commit(w) /\ UNCHANGED <<bookings, invoices>>
  BY DEF InsertSlot
<1>4. TablesTypeOK'
  BY <1>1, <1>2, <1>3 DEF CoreInv, TypeOK, StoreTypeOK, TablesTypeOK
<1>5. BookingsOn(s) = {}
  BY <1>1 DEF CoreInv, Consistent, BookingStaysInTenant, BookingsOn, SlotExists
<1> HIDE DEF row
<1> QED
  BY <1>1, <1>2, <1>3, <1>4, <1>5, EditIsPrivate, CommitStep

LEMMA UpdateSlotStep ==
    ASSUME CoreInv, NEW w \in Workers, UpdateSlot(w), PaymentsTypeOK'
    PROVE  CoreInv'
<1> DEFINE s == req[w].slot
           row == [slots[s] EXCEPT !.staff = req[w].staff, !.from = req[w].from, !.to = req[w].to]
<1>1. /\ s \in SlotIds /\ slots[s].state = "open" /\ OwnsSlot(w, s)
  BY RequestFacts DEF UpdateSlot, At, PastLock, SlotOps
<1>2. /\ req[w].staff \in Staff /\ req[w].from \in Times /\ req[w].to \in Times
      /\ req[w].from < req[w].to
  BY DEF CoreInv, UpdateSlot, At, EditsOK
<1>3. slots[s] \in LiveSlot
  BY <1>1 DEF CoreInv, TypeOK, StoreTypeOK, TablesTypeOK, NoSlot, DeletedSlot
<1>4. slots' = [slots EXCEPT ![s] = row] /\ Commit(w) /\ UNCHANGED <<bookings, invoices>>
  BY <1>1, <1>3 DEF UpdateSlot, CoreInv, TypeOK, StoreTypeOK, TablesTypeOK, LiveSlot
<1>5. row \in LiveSlot /\ row.state = "open" /\ row.tenant = slots[s].tenant
  BY <1>1, <1>2, <1>3 DEF LiveSlot
<1>6. TablesTypeOK'
  BY <1>1, <1>4, <1>5 DEF CoreInv, TypeOK, StoreTypeOK, TablesTypeOK
<1> HIDE DEF row
<1> QED
  BY <1>1, <1>4, <1>5, <1>6, EditIsPrivate, CommitStep

LEMMA DeleteSlotStep ==
    ASSUME CoreInv, NEW w \in Workers, DeleteSlot(w), PaymentsTypeOK'
    PROVE  CoreInv'
<1> DEFINE s == req[w].slot
<1>1. /\ s \in SlotIds /\ slots[s].state = "open" /\ OwnsSlot(w, s)
  BY RequestFacts DEF DeleteSlot, At, PastLock, SlotOps
<1>2. CASE Refuse(w, "reference")
  BY <1>2, RefuseStep DEF Replies
<1>3. CASE ~Refuse(w, "reference")
  <2>1. /\ BookingsOn(s) = {} /\ slots' = [slots EXCEPT ![s] = DeletedSlot]
        /\ Commit(w) /\ UNCHANGED <<bookings, invoices>>
    BY <1>3 DEF DeleteSlot, IsReferenced
  <2>2. TablesTypeOK'
    BY <2>1 DEF CoreInv, TypeOK, StoreTypeOK, TablesTypeOK
  <2>3. DeletedSlot.state # "booked"
    BY DEF DeletedSlot, NoSlot
  <2> QED
    BY <1>1, <2>1, <2>2, <2>3, EditIsPrivate, CommitStep
<1> QED
  BY <1>2, <1>3

(***************************************************************************)
(* createBooking, the checkout and the webhook.                            *)
(***************************************************************************)
LEMMA LockOpenSlotStep ==
    ASSUME CoreInv, NEW w \in Workers, LockOpenSlot(w), PaymentsTypeOK',
           req[w].op \in {"book", "checkout", "webhook"}
    PROVE  CoreInv'
<1>1. CASE SlotMissing(w) \/ Refuse(w, "conflict")
  BY <1>1, RefuseStep DEF SlotMissing, Replies
<1>2. CASE /\ SlotSelected(w) /\ ~IsBooked(req[w].slot)
           /\ KeepSlotLocked(w) /\ UNCHANGED req
  <2>1. req[w] \in Request /\ Complete(req[w])
    BY DEF CoreInv, TypeOK, StoreTypeOK, RequestsOK, NoRequest
  <2>2. req' = [req EXCEPT ![w] = req[w]]
    BY <1>2 DEF CoreInv, TypeOK, StoreTypeOK
  <2> QED
    BY <1>2, <2>1, <2>2, LockSlotStep DEF SlotOps
<1> QED
  BY <1>1, <1>2 DEF LockOpenSlot

LEMMA InsertBookingStep ==
    ASSUME CoreInv, NEW w \in Workers, InsertBooking(w), PaymentsTypeOK',
           req[w].op \in {"book", "webhook"}
    PROVE  CoreInv'
<1>1. CASE Refuse(w, "duplicate")
  BY <1>1, RefuseStep DEF Replies
<1>2. CASE ~Refuse(w, "duplicate")
  BY <1>2, AdvanceStep DEF InsertBooking, ViolatesUnique, Reached
<1> QED
  BY <1>1, <1>2

LEMMA CommitBookingStep ==
    ASSUME CoreInv, NEW w \in Workers, NEW row \in LiveBooking, CommitBooking(w, row),
           PaymentsTypeOK', req[w].op \in {"book", "webhook"},
           row.status \in {"pending", "confirmed"},
           row.slot = req[w].slot, row.tenant = req[w].tenant
    PROVE  CoreInv'
<1> DEFINE s == req[w].slot
<1>1. /\ s \in SlotIds /\ slots[s].state = "open" /\ OwnsSlot(w, s)
      /\ slots[s].tenant = row.tenant /\ BookingsOn(s) = {}
  BY RequestFacts DEF CommitBooking, PastLock, SlotOps, CoreInv, ReadsOK
<1>2. PICK b \in BookingIds : /\ ~BookingExists(b)
                              /\ bookings' = [bookings EXCEPT ![b] = row]
                              /\ invoices' = [invoices EXCEPT ![b] = "unpaid"]
  BY DEF CommitBooking
<1>3. slots' = [slots EXCEPT ![s].state = "booked"] /\ Commit(w)
  BY DEF CommitBooking
<1>4. slots[s] \in LiveSlot
  BY <1>1 DEF CoreInv, TypeOK, StoreTypeOK, TablesTypeOK, NoSlot, DeletedSlot
<1>5. /\ slots'[s] \in LiveSlot
      /\ slots'[s].state = "booked" /\ slots'[s].tenant = row.tenant
      /\ \A x \in SlotIds \ {s} : slots'[x] = slots[x]
  BY <1>1, <1>3, <1>4 DEF CoreInv, TypeOK, StoreTypeOK, TablesTypeOK, LiveSlot
<1>6. TablesTypeOK'
  BY <1>1, <1>2, <1>3, <1>5 DEF CoreInv, TypeOK, StoreTypeOK, TablesTypeOK, InvoiceStatus
<1>7. /\ bookings'[b] = row /\ invoices'[b] = "unpaid"
      /\ \A x \in BookingIds \ {b} : bookings'[x] = bookings[x] /\ invoices'[x] = invoices[x]
  BY <1>2 DEF CoreInv, TypeOK, StoreTypeOK, TablesTypeOK
<1>8. Consistent'
  <2> USE <1>1, <1>5, <1>7 DEF CoreInv, Consistent
  <2>1. SlotMatchesBookings'
    <3>1. b \in {y \in BookingIds : BookingExists(y)' /\ bookings'[y].slot = s} /\ IsActive(b)'
      BY DEF BookingExists, IsActive, BookingStatus
    <3>2. ASSUME NEW x \in SlotIds \ {s}
          PROVE  /\ BookingsOn(x)' = BookingsOn(x)
                 /\ \A y \in BookingsOn(x) : IsActive(y)' <=> IsActive(y)
      BY <1>2 DEF BookingsOn, BookingExists, IsActive
    <3> QED
      BY <3>1, <3>2 DEF SlotMatchesBookings, BookingsOn
  <2>2. InvoiceFollowsBooking'
    BY DEF InvoiceFollowsBooking, BookingExists
  <2>3. BookingStaysInTenant'
    BY DEF BookingStaysInTenant, BookingExists, SlotExists, BookingsOn
  <2>4. OneBookingPerSlot'
    BY DEF OneBookingPerSlot, BookingExists, BookingsOn
  <2> QED
    BY <2>1, <2>2, <2>3, <2>4
<1>9. \A y \in BookingIds : BookingExists(y) => bookings'[y] = bookings[y]
  BY <1>2, <1>7
<1>10. ASSUME NEW v \in Workers \ {w}, req[v].op = "create"
       PROVE  slots'[req[v].slot].state = "none"
  BY <1>1, <1>5, <1>10, RequestFacts
<1>11. ASSUME NEW v \in Workers \ {w}, NEW x \in SlotIds, req[v].op \in SlotOps, PastLock(v),
              req[v].slot = x
       PROVE  slots'[x] = slots[x] /\ BookingsOn(x)' = BookingsOn(x)
  <2>1. x # s
    BY <1>1, <1>11, RequestFacts, OneOwner
  <2> QED
    BY <1>1, <1>2, <1>5, <1>7, <2>1 DEF BookingsOn, BookingExists
<1>12. ASSUME NEW v \in Workers \ {w}, req[v].op = "status", PastLock(v)
       PROVE  bookings'[req[v].booking] = bookings[req[v].booking]
  BY <1>9, <1>12, RequestFacts
<1> QED
  BY <1>3, <1>6, <1>8, <1>9, <1>10, <1>11, <1>12, CommitStep

(***************************************************************************)
(* updateBookingStatus.                                                    *)
(***************************************************************************)

\* A status change between its lock and its COMMIT: the booking is active, so its
\* slot is booked and no handler that went past the is_booked check has it.
LEMMA StatusFacts ==
    ASSUME CoreInv, NEW w \in Workers, req[w].op = "status", PastLock(w)
    PROVE  /\ req[w].booking \in BookingIds /\ OwnsBooking(w, req[w].booking)
           /\ bookings[req[w].booking] \in LiveBooking
           /\ bookings[req[w].booking].status \in {"pending", "confirmed"}
           /\ bookings[req[w].booking].tenant = req[w].tenant
           /\ bookings[req[w].booking].slot \in SlotIds
           /\ slots[bookings[req[w].booking].slot].state = "booked"
           /\ slots[bookings[req[w].booking].slot].tenant = req[w].tenant
           /\ slots[bookings[req[w].booking].slot] \in LiveSlot
<1> DEFINE b == req[w].booking
<1>1. /\ b \in BookingIds /\ OwnsBooking(w, b) /\ BookingExists(b)
      /\ bookings[b].status \in {"pending", "confirmed"} /\ bookings[b].tenant = req[w].tenant
  BY RequestFacts DEF CoreInv, ReadsOK
<1>2. bookings[b] \in LiveBooking
  BY <1>1 DEF CoreInv, TypeOK, StoreTypeOK, TablesTypeOK, NoBooking
<1>3. /\ bookings[b].slot \in SlotIds
      /\ slots[bookings[b].slot].state = "booked"
      /\ slots[bookings[b].slot].tenant = req[w].tenant
  BY <1>1 DEF CoreInv, Consistent, SlotMatchesBookings, BookingStaysInTenant, BookingsOn, IsActive,
              BookingStatus
<1>4. slots[bookings[b].slot] \in LiveSlot
  BY <1>3 DEF CoreInv, TypeOK, StoreTypeOK, TablesTypeOK, NoSlot, DeletedSlot
<1> QED
  BY <1>1, <1>2, <1>3, <1>4

LEMMA LockBookingStep ==
    ASSUME CoreInv, NEW w \in Workers, LockBooking(w), PaymentsTypeOK'
    PROVE  CoreInv'
<1> DEFINE b == req[w].booking
<1>1. CASE Refuse(w, "not_found") \/ Refuse(w, "conflict")
  BY <1>1, RefuseStep DEF Replies
<1>2. CASE ~(Refuse(w, "not_found") \/ Refuse(w, "conflict"))
  <2>1. /\ BookingSelected(w) /\ ~IsTerminal(b)
        /\ bookingLock' = [bookingLock EXCEPT ![b] = w]
        /\ pc' = [pc EXCEPT ![w] = "locked"]
        /\ UNCHANGED <<tables, slotLock, req, reply, faults>>
        /\ req[w].op = "status" /\ pc[w] = "begin"
    BY <1>2 DEF LockBooking, At
  <2>2. b \in BookingIds /\ bookingLock[b] = None /\ bookings[b].tenant = req[w].tenant
        /\ bookings[b].status \in {"pending", "confirmed"}
    BY <2>1, RequestFacts DEF BookingSelected, BookingVisible, BookingLockFree, BookingExists,
          IsTerminal, TerminalStatus, CoreInv, TypeOK, StoreTypeOK, TablesTypeOK, LiveBooking,
          NoBooking, BookingStatus
  <2>3. pc'[w] = "locked" /\ \A v \in Workers \ {w} : pc'[v] = pc[v]
    BY <2>1 DEF CoreInv, TypeOK, StoreTypeOK
  <2> USE <2>1, <2>2, <2>3 DEF CoreInv, tables
  <2>4. TypeOK'
    BY DEF TypeOK, StoreTypeOK, TablesTypeOK, Labels
  <2>5. Consistent'
    BY DEF Consistent, SlotMatchesBookings, InvoiceFollowsBooking, BookingStaysInTenant,
           OneBookingPerSlot, BookingsOn, BookingExists, SlotExists, IsActive
  <2>6. RequestsOK' /\ EditsOK' /\ FreshIdsOK'
    BY DEF RequestsOK, EditsOK, FreshIdsOK, Reached, At, EffectiveStaff, IsProvider
  <2>7. LocksOK'
    BY DEF LocksOK, OwnsSlot, OwnsBooking, PastLock, At, SlotOps, TypeOK, StoreTypeOK
  <2>8. ReadsOK'
    BY DEF ReadsOK, PastLock, At, MayEdit, IsProvider, SlotOps, BookingsOn, BookingExists
  <2> QED
    BY <2>4, <2>5, <2>6, <2>7, <2>8
<1> QED
  BY <1>1, <1>2

LEMMA ReleaseSlotStep ==
    ASSUME CoreInv, NEW w \in Workers, ReleaseSlot(w), PaymentsTypeOK'
    PROVE  CoreInv'
<1> DEFINE s == bookings[req[w].booking].slot
<1>1. /\ slotLock' = [slotLock EXCEPT ![s] = w] /\ slotLock[s] = None
      /\ pc' = [pc EXCEPT ![w] = "written"]
      /\ UNCHANGED <<tables, bookingLock, req, reply, faults>>
      /\ req[w].op = "status" /\ pc[w] = "locked" /\ req[w].status = "cancelled"
  BY DEF ReleaseSlot, At, SlotLockFree
<1>2. s \in SlotIds
  BY <1>1, StatusFacts DEF PastLock
<1>3. pc'[w] = "written" /\ \A v \in Workers \ {w} : pc'[v] = pc[v]
  BY <1>1 DEF CoreInv, TypeOK, StoreTypeOK
<1> HIDE DEF s
<1> USE <1>1, <1>2, <1>3 DEF CoreInv, tables
<1>4. TypeOK'
  BY DEF TypeOK, StoreTypeOK, TablesTypeOK, Labels
<1>5. Consistent'
  BY DEF Consistent, SlotMatchesBookings, InvoiceFollowsBooking, BookingStaysInTenant,
         OneBookingPerSlot, BookingsOn, BookingExists, SlotExists, IsActive
<1>6. RequestsOK' /\ EditsOK' /\ FreshIdsOK'
  BY DEF RequestsOK, EditsOK, FreshIdsOK, Reached, At, EffectiveStaff, IsProvider
<1>7. LocksOK'
  BY DEF LocksOK, OwnsSlot, OwnsBooking, PastLock, At, SlotOps, TypeOK, StoreTypeOK, s
<1>8. ReadsOK'
  BY DEF ReadsOK, PastLock, At, MayEdit, IsProvider, SlotOps, BookingsOn, BookingExists
<1> QED
  BY <1>4, <1>5, <1>6, <1>7, <1>8

LEMMA CommitStatusStep ==
    ASSUME CoreInv, NEW w \in Workers, CommitStatus(w), PaymentsTypeOK'
    PROVE  CoreInv'
<1> DEFINE b == req[w].booking
           st == req[w].status
<1>1. /\ req[w].op = "status" /\ PastLock(w) /\ st \in BookingStatus \ {"cancelled"}
      /\ bookings' = [bookings EXCEPT ![b].status = st]
      /\ Commit(w) /\ UNCHANGED <<slots, invoices>>
  BY DEF CommitStatus, At, PastLock, CoreInv, RequestsOK, Complete
<1>2. /\ b \in BookingIds /\ OwnsBooking(w, b) /\ bookings[b] \in LiveBooking
      /\ bookings[b].status \in {"pending", "confirmed"}
  BY <1>1, StatusFacts
<1>3. /\ bookings' = [bookings EXCEPT ![b] = [bookings[b] EXCEPT !.status = st]]
      /\ [bookings[b] EXCEPT !.status = st] \in LiveBooking
  BY <1>1, <1>2 DEF CoreInv, TypeOK, StoreTypeOK, TablesTypeOK, LiveBooking
<1>4. TablesTypeOK'
  BY <1>1, <1>2, <1>3 DEF CoreInv, TypeOK, StoreTypeOK, TablesTypeOK
<1>5. /\ bookings'[b].status = st
      /\ bookings'[b].slot = bookings[b].slot /\ bookings'[b].tenant = bookings[b].tenant
      /\ \A x \in BookingIds \ {b} : bookings'[x] = bookings[x]
  BY <1>1, <1>2, <1>3 DEF CoreInv, TypeOK, StoreTypeOK, TablesTypeOK, LiveBooking
<1>6. /\ \A x \in BookingIds : BookingExists(x)' <=> BookingExists(x)
      /\ \A x \in BookingIds : IsActive(x)' <=> IsActive(x)
      /\ \A x \in SlotIds : BookingsOn(x)' = BookingsOn(x)
  BY <1>1, <1>2, <1>5 DEF BookingExists, IsActive, BookingsOn, BookingStatus
<1>7. Consistent'
  <2> USE <1>1, <1>2, <1>5, <1>6 DEF CoreInv, Consistent
  <2>1. SlotMatchesBookings'
    BY DEF SlotMatchesBookings, BookingsOn
  <2>2. InvoiceFollowsBooking'
    BY DEF InvoiceFollowsBooking
  <2>3. BookingStaysInTenant' /\ OneBookingPerSlot'
    BY DEF BookingStaysInTenant, OneBookingPerSlot, SlotExists
  <2> QED
    BY <2>1, <2>2, <2>3
<1>8. ASSUME NEW v \in Workers \ {w}, req[v].op = "status", PastLock(v)
      PROVE  bookings'[req[v].booking] = bookings[req[v].booking]
  BY <1>2, <1>5, <1>8, RequestFacts, OneOwner
<1> QED
  BY <1>1, <1>4, <1>5, <1>6, <1>7, <1>8, RequestFacts, CommitStep

LEMMA CommitCancelStep ==
    ASSUME CoreInv, NEW w \in Workers, CommitCancel(w), PaymentsTypeOK'
    PROVE  CoreInv'
<1> DEFINE b == req[w].booking
           s == bookings[b].slot
<1>1. /\ req[w].op = "status" /\ PastLock(w) /\ OwnsSlot(w, s)
      /\ bookings' = [bookings EXCEPT ![b].status = "cancelled"]
      /\ slots' = [slots EXCEPT ![s] = Released(s, req[w].tenant)]
      /\ invoices' = [invoices EXCEPT ![b] = "void"]
      /\ Commit(w)
  BY DEF CommitCancel, At, PastLock, OwnsSlot, VoidInvoice
<1>2. /\ b \in BookingIds /\ OwnsBooking(w, b) /\ bookings[b] \in LiveBooking
      /\ bookings[b].status \in {"pending", "confirmed"}
      /\ s \in SlotIds /\ slots[s].state = "booked" /\ slots[s].tenant = req[w].tenant
      /\ slots[s] \in LiveSlot
  BY <1>1, StatusFacts
<1>3. /\ Released(s, req[w].tenant) \in LiveSlot
      /\ Released(s, req[w].tenant).state = "open"
      /\ Released(s, req[w].tenant).tenant = slots[s].tenant
  BY <1>2 DEF Released, SlotVisible, SlotExists, LiveSlot
<1>4. /\ bookings' = [bookings EXCEPT ![b] = [bookings[b] EXCEPT !.status = "cancelled"]]
      /\ [bookings[b] EXCEPT !.status = "cancelled"] \in LiveBooking
  BY <1>1, <1>2 DEF CoreInv, TypeOK, StoreTypeOK, TablesTypeOK, LiveBooking, BookingStatus
<1>5. TablesTypeOK'
  BY <1>1, <1>2, <1>3, <1>4 DEF CoreInv, TypeOK, StoreTypeOK, TablesTypeOK, InvoiceStatus
<1>6. /\ bookings'[b].status = "cancelled" /\ invoices'[b] = "void"
      /\ bookings'[b].slot = s /\ bookings'[b].tenant = bookings[b].tenant
      /\ \A x \in BookingIds \ {b} : bookings'[x] = bookings[x] /\ invoices'[x] = invoices[x]
      /\ slots'[s].state = "open" /\ slots'[s].tenant = slots[s].tenant
      /\ \A x \in SlotIds \ {s} : slots'[x] = slots[x]
  BY <1>1, <1>2, <1>3, <1>4 DEF CoreInv, TypeOK, StoreTypeOK, TablesTypeOK, LiveBooking
<1>7. /\ \A x \in BookingIds : BookingExists(x)' <=> BookingExists(x)
      /\ \A x \in BookingIds : IsActive(x)' <=> IsActive(x) /\ x # b
      /\ \A x \in SlotIds : BookingsOn(x)' = BookingsOn(x)
  BY <1>2, <1>6 DEF BookingExists, IsActive, BookingsOn, BookingStatus
<1> HIDE DEF s
<1>8. Consistent'
  <2> USE <1>2, <1>6, <1>7 DEF CoreInv, Consistent
  <2>1. SlotMatchesBookings'
    <3>1. b \in BookingsOn(s) /\ \A x \in BookingsOn(s) : x = b
      BY DEF BookingsOn, BookingExists, OneBookingPerSlot, s
    <3>2. \A x \in SlotIds \ {s} : b \notin BookingsOn(x)
      BY DEF BookingsOn, s
    <3> QED
      BY <3>1, <3>2 DEF SlotMatchesBookings, BookingsOn
  <2>2. InvoiceFollowsBooking'
    BY DEF InvoiceFollowsBooking, BookingExists
  <2>3. BookingStaysInTenant' /\ OneBookingPerSlot'
    BY DEF BookingStaysInTenant, OneBookingPerSlot, SlotExists, s
  <2> QED
    BY <2>1, <2>2, <2>3
<1>9. ASSUME NEW v \in Workers \ {w}, req[v].op = "create"
      PROVE  slots'[req[v].slot].state = "none"
  BY <1>2, <1>6, <1>9, RequestFacts
<1>10. ASSUME NEW v \in Workers \ {w}, NEW x \in SlotIds, req[v].op \in SlotOps, PastLock(v),
              req[v].slot = x
       PROVE  slots'[x] = slots[x] /\ BookingsOn(x)' = BookingsOn(x)
  <2>1. x # s
    BY <1>1, <1>10, RequestFacts, OneOwner
  <2> QED
    BY <1>6, <1>7, <2>1
<1>11. ASSUME NEW v \in Workers \ {w}, req[v].op = "status", PastLock(v)
       PROVE  bookings'[req[v].booking] = bookings[req[v].booking]
  BY <1>2, <1>6, <1>11, RequestFacts, OneOwner
<1> QED
  BY <1>1, <1>5, <1>6, <1>8, <1>9, <1>10, <1>11, CommitStep DEF s

(***************************************************************************)
(* The PaymentIntents.                                                     *)
(***************************************************************************)

\* A step that ends a transaction concerns one worker.
LEMMA FinishIsLocal ==
    ASSUME CoreInv, NEW w \in Workers, NEW code, Finish(w, code)
    PROVE  /\ \A v \in Workers \ {w} : pc'[v] = pc[v] /\ req'[v] = req[v] /\ reply'[v] = reply[v]
           /\ req'[w] = NoRequest
BY DEF Finish, CoreInv, TypeOK, StoreTypeOK

\* A step of a handler that neither starts nor advances a checkout.
LEMMA PaymentsKept ==
    ASSUME IInv, NEW w \in Workers, UNCHANGED payments,
           \A v \in Workers \ {w} : pc'[v] = pc[v] /\ req'[v] = req[v] /\ reply'[v] = reply[v],
           \/ req'[w].op \notin {"checkout", "webhook"}
           \/ /\ req'[w] = req[w] /\ reply'[w] = reply[w]
              /\ req[w].op = "checkout" => (pc'[w] = "written" <=> pc[w] = "written")
    PROVE  PaymentsTypeOK' /\ PaymentsOK'
<1>1. PaymentsTypeOK'
  BY DEF IInv, CoreInv, TypeOK, PaymentsTypeOK
<1>2. PaymentsOK'
  <2> DEFINE Was(v) == req'[v] = req[v] /\ reply'[v] = reply[v]
                       /\ (req[v].op = "checkout" => (pc'[v] = "written" <=> pc[v] = "written"))
  <2>1. ASSUME NEW v \in Workers, req'[v].op \in {"checkout", "webhook"} PROVE Was(v)
    BY <2>1
  <2>2. ASSUME NEW v \in Workers, req'[v].op = "checkout"
        PROVE  /\ payments[req'[v].payment].state =
                     (IF pc'[v] = "written" THEN "created" ELSE "none")
               /\ \A u \in Workers :
                     req'[u].op = "checkout" /\ req'[u].payment = req'[v].payment => u = v
    BY <2>1, <2>2 DEF IInv, PaymentsOK
  <2>3. ASSUME NEW v \in Workers, req'[v].op = "webhook"
        PROVE  /\ reply'[v] = "none"
               /\ payments[req'[v].payment].state \in {"paid", "settled"}
               /\ payments[req'[v].payment].slot = req'[v].slot
               /\ payments[req'[v].payment].tenant = req'[v].tenant
               /\ payments[req'[v].payment].customer = req'[v].user
    BY <2>1, <2>3 DEF IInv, PaymentsOK
  <2> QED
    BY <2>2, <2>3 DEF PaymentsOK
<1> QED
  BY <1>1, <1>2

\* The request of a worker that finishes is gone.
LEMMA PaymentsFinished ==
    ASSUME IInv, NEW w \in Workers, NEW code \in Replies, Finish(w, code), UNCHANGED payments
    PROVE  PaymentsTypeOK' /\ PaymentsOK'
<1>1. CoreInv
  BY DEF IInv
<1>2. /\ req'[w].op \notin {"checkout", "webhook"}
      /\ \A v \in Workers \ {w} : pc'[v] = pc[v] /\ req'[v] = req[v] /\ reply'[v] = reply[v]
  BY <1>1, FinishIsLocal DEF NoRequest
<1> QED
  BY <1>2, PaymentsKept

LEMMA SettleStep ==
    ASSUME IInv, NEW w \in Workers, NEW code \in Replies, Finish(w, code), Settle(w)
    PROVE  PaymentsTypeOK' /\ PaymentsOK'
<1> DEFINE p == req[w].payment
<1>0. CoreInv
  BY DEF IInv
<1>1. CASE UNCHANGED payments
  BY <1>1, PaymentsFinished
<1>2. CASE ~UNCHANGED payments
  <2>1. req[w].op = "webhook" /\ payments' = [payments EXCEPT ![p].state = "settled"]
    BY <1>2 DEF Settle
  <2>2. /\ p \in PaymentIds /\ payments[p].state \in {"paid", "settled"}
        /\ payments[p] \in Intent
    BY <1>0, <2>1 DEF CoreInv, RequestsOK, Complete, NoRequest, IInv, PaymentsOK, TypeOK,
                      PaymentsTypeOK, NoPayment
  <2>3. /\ payments' = [payments EXCEPT ![p] = [payments[p] EXCEPT !.state = "settled"]]
        /\ [payments[p] EXCEPT !.state = "settled"] \in Intent
    BY <1>0, <2>1, <2>2 DEF CoreInv, TypeOK, PaymentsTypeOK, Intent
  <2>4. PaymentsTypeOK'
    BY <1>0, <2>2, <2>3 DEF CoreInv, TypeOK, PaymentsTypeOK
  <2>5. /\ payments'[p].state = "settled" /\ payments'[p].slot = payments[p].slot
        /\ payments'[p].tenant = payments[p].tenant
        /\ payments'[p].customer = payments[p].customer
        /\ \A x \in PaymentIds \ {p} : payments'[x] = payments[x]
    BY <1>0, <2>2, <2>3 DEF CoreInv, TypeOK, PaymentsTypeOK, Intent
  <2>6. \A v \in Workers : req[v].op \in {"checkout", "webhook"} => req[v].payment \in PaymentIds
    BY <1>0 DEF CoreInv, RequestsOK, Complete, NoRequest
  <2>7. /\ req'[w].op \notin {"checkout", "webhook"}
        /\ \A v \in Workers \ {w} : pc'[v] = pc[v] /\ req'[v] = req[v] /\ reply'[v] = reply[v]
    BY <1>0, FinishIsLocal DEF NoRequest
  <2>8. PaymentsOK'
    BY <2>2, <2>5, <2>6, <2>7 DEF IInv, PaymentsOK
  <2> QED
    BY <2>4, <2>8
<1> QED
  BY <1>1, <1>2

(***************************************************************************)
(* Every step of the engine.                                               *)
(***************************************************************************)

\* A step of a handler is a step of its own worker, on the same request until it
\* is answered.
LEMMA AvailabilityIsLocal ==
    ASSUME CoreInv, NEW w \in Workers, AvailabilityStep(w)
    PROVE  /\ \A v \in Workers \ {w} : pc'[v] = pc[v] /\ req'[v] = req[v] /\ reply'[v] = reply[v]
           /\ req'[w].op \notin {"checkout", "webhook"}
<1> DEFINE Local == /\ \A v \in Workers \ {w} : pc'[v] = pc[v] /\ req'[v] = req[v] /\ reply'[v] = reply[v]
                    /\ req'[w].op \notin {"checkout", "webhook"}
<1>0. /\ pc \in [Workers -> Labels] /\ req \in [Workers -> Request]
      /\ reply \in [Workers -> Replies]
      /\ NoRequest.op \notin {"checkout", "webhook"}
  BY DEF CoreInv, TypeOK, StoreTypeOK, NoRequest
<1>1. ASSUME NEW code, Refuse(w, code) PROVE Local
  BY <1>0, <1>1, FinishIsLocal DEF Refuse
<1>2. ASSUME Commit(w) PROVE Local
  BY <1>0, <1>2, FinishIsLocal DEF Commit
<1>3. CASE RefuseCreate(w)
  BY <1>1, <1>3 DEF RefuseCreate
<1>4. CASE CheckNewSlot(w)
  BY <1>0, <1>1, <1>4 DEF CheckNewSlot, At
<1>5. CASE InsertSlot(w) \/ UpdateSlot(w)
  BY <1>2, <1>5 DEF InsertSlot, UpdateSlot
<1>6. CASE LockForUpdate(w)
  <2>1. req[w].op = "update" => Merged(w).op = "update"
    BY <1>0 DEF Merged, Request
  <2> QED
    BY <1>0, <1>1, <1>6, <2>1 DEF LockForUpdate, LockOwnSlot, SlotMissing, KeepSlotLocked, At
<1>7. CASE CheckMovedSlot(w)
  BY <1>0, <1>1, <1>7 DEF CheckMovedSlot, At
<1>8. CASE LockForDelete(w)
  BY <1>0, <1>1, <1>8 DEF LockForDelete, LockOwnSlot, SlotMissing, KeepSlotLocked, At
<1>9. CASE DeleteSlot(w)
  BY <1>1, <1>2, <1>9 DEF DeleteSlot
<1> QED
  BY <1>3, <1>4, <1>5, <1>6, <1>7, <1>8, <1>9 DEF AvailabilityStep

LEMMA BookingIsLocal ==
    ASSUME CoreInv, NEW w \in Workers, BookingStep(w)
    PROVE  /\ \A v \in Workers \ {w} : pc'[v] = pc[v] /\ req'[v] = req[v] /\ reply'[v] = reply[v]
           /\ req'[w].op \notin {"checkout", "webhook"}
<1> DEFINE Local == /\ \A v \in Workers \ {w} : pc'[v] = pc[v] /\ req'[v] = req[v] /\ reply'[v] = reply[v]
                    /\ req'[w].op \notin {"checkout", "webhook"}
<1>0. /\ pc \in [Workers -> Labels] /\ req \in [Workers -> Request]
      /\ reply \in [Workers -> Replies]
      /\ NoRequest.op \notin {"checkout", "webhook"}
  BY DEF CoreInv, TypeOK, StoreTypeOK, NoRequest
<1>1. ASSUME NEW code, Refuse(w, code) PROVE Local
  BY <1>0, <1>1, FinishIsLocal DEF Refuse
<1>2. ASSUME Commit(w) PROVE Local
  BY <1>0, <1>2, FinishIsLocal DEF Commit
<1>3. CASE LockForBooking(w)
  BY <1>0, <1>1, <1>3 DEF LockForBooking, LockOpenSlot, SlotMissing, KeepSlotLocked, At
<1>4. CASE InsertPending(w)
  BY <1>0, <1>1, <1>4 DEF InsertPending, InsertBooking, At
<1>5. CASE CommitPending(w) \/ CommitStatus(w) \/ CommitCancel(w)
  BY <1>2, <1>5 DEF CommitPending, CommitBooking, CommitStatus, CommitCancel
<1>6. CASE LockBooking(w)
  BY <1>0, <1>1, <1>6 DEF LockBooking, At
<1>7. CASE ReleaseSlot(w)
  BY <1>0, <1>7 DEF ReleaseSlot, At
<1> QED
  BY <1>3, <1>4, <1>5, <1>6, <1>7 DEF BookingStep

LEMMA AvailabilityInv ==
    ASSUME IInv, NEW w \in Workers, AvailabilityStep(w), UNCHANGED payments
    PROVE  IInv'
<1>0. CoreInv
  BY DEF IInv
<1>1. PaymentsTypeOK' /\ PaymentsOK'
  BY <1>0, AvailabilityIsLocal, PaymentsKept
<1>2. CoreInv'
  BY <1>0, <1>1, CreateSteps, InsertSlotStep, LockForUpdateStep, CheckMovedSlotStep,
     UpdateSlotStep, LockForDeleteStep, DeleteSlotStep DEF AvailabilityStep
<1> QED
  BY <1>1, <1>2 DEF IInv

LEMMA BookingInv ==
    ASSUME IInv, NEW w \in Workers, BookingStep(w), UNCHANGED payments
    PROVE  IInv'
<1>0. CoreInv
  BY DEF IInv
<1>1. PaymentsTypeOK' /\ PaymentsOK'
  BY <1>0, BookingIsLocal, PaymentsKept
<1>2. CASE LockForBooking(w)
  BY <1>0, <1>1, <1>2, LockOpenSlotStep DEF LockForBooking, At, IInv
<1>3. CASE InsertPending(w)
  BY <1>0, <1>1, <1>3, InsertBookingStep DEF InsertPending, At, IInv
<1>4. CASE CommitPending(w)
  <2> DEFINE row == [status |-> "pending", tenant |-> req[w].tenant, customer |-> req[w].user,
                     slot |-> req[w].slot, paidBy |-> None]
  <2>1. row \in LiveBooking
    BY <1>0, <1>4 DEF CommitPending, At, CoreInv, RequestsOK, Complete, LiveBooking,
                      BookingStatus, SlotOps
  <2>2. row.status = "pending" /\ row.slot = req[w].slot /\ row.tenant = req[w].tenant
    OBVIOUS
  <2>3. CommitBooking(w, row) /\ req[w].op = "book"
    BY <1>4 DEF CommitPending, At
  <2> HIDE DEF row
  <2> QED
    BY <1>0, <1>1, <2>1, <2>2, <2>3, CommitBookingStep DEF IInv
<1>5. CASE LockBooking(w) \/ CommitStatus(w) \/ ReleaseSlot(w) \/ CommitCancel(w)
  BY <1>0, <1>1, <1>5, LockBookingStep, CommitStatusStep, ReleaseSlotStep, CommitCancelStep
     DEF IInv
<1> QED
  BY <1>2, <1>3, <1>4, <1>5 DEF BookingStep

LEMMA CheckoutInv ==
    ASSUME IInv, NEW w \in Workers,
           LockForCheckout(w) \/ CreateIntent(w) \/ CommitCheckout(w)
    PROVE  IInv'
<1> DEFINE p == req[w].payment
<1>0. CoreInv /\ PaymentsOK /\ payments \in [PaymentIds -> Intent \cup {NoPayment}]
      /\ pc \in [Workers -> Labels] /\ req \in [Workers -> Request]
  BY DEF IInv, CoreInv, TypeOK, StoreTypeOK, PaymentsTypeOK
<1>1. CASE LockForCheckout(w)
  <2>1. PaymentsTypeOK' /\ PaymentsOK'
    <3>1. CASE \E code \in Replies : Finish(w, code)
      BY <1>1, <3>1, PaymentsFinished DEF LockForCheckout
    <3>2. CASE ~\E code \in Replies : Finish(w, code)
      <4>1. KeepSlotLocked(w) /\ UNCHANGED <<req, reply, payments>> /\ pc[w] = "begin"
        BY <1>1, <3>2 DEF LockForCheckout, LockOpenSlot, SlotMissing, Refuse, Replies, At,
                                KeepSlotLocked
      <4>2. pc'[w] = "locked" /\ \A v \in Workers \ {w} : pc'[v] = pc[v]
        BY <1>0, <4>1 DEF KeepSlotLocked
      <4> QED
        BY <4>1, <4>2, PaymentsKept
    <3> QED
      BY <3>1, <3>2
  <2> QED
    BY <1>0, <1>1, <2>1, LockOpenSlotStep DEF LockForCheckout, At, IInv
<1>2. CASE CreateIntent(w)
  <2> DEFINE intent == [state |-> "created", tenant |-> req[w].tenant,
                        slot |-> req[w].slot, customer |-> req[w].user]
  <2>1. /\ req[w].op = "checkout" /\ pc[w] = "locked"
        /\ payments' = [payments EXCEPT ![p] = intent]
        /\ pc' = [pc EXCEPT ![w] = "written"]
        /\ UNCHANGED <<tables, locks, req, reply, faults>>
    BY <1>2 DEF CreateIntent, At
  <2>2. Complete(req[w])
    BY <1>0, <2>1 DEF CoreInv, RequestsOK
  <2>3. intent \in Intent /\ intent.state = "created" /\ p \in PaymentIds
    BY <2>1, <2>2 DEF Complete, Intent, SlotOps
  <2> HIDE DEF intent
  <2>4. PaymentsTypeOK'
    BY <1>0, <2>1, <2>3 DEF PaymentsTypeOK
  <2>5. /\ payments'[p].state = "created"
        /\ \A x \in PaymentIds \ {p} : payments'[x] = payments[x]
        /\ pc'[w] = "written" /\ \A v \in Workers \ {w} : pc'[v] = pc[v]
    BY <1>0, <2>1, <2>3
  <2>6. \A v \in Workers : req[v].op \in {"checkout", "webhook"} => req[v].payment \in PaymentIds
    BY <1>0 DEF CoreInv, RequestsOK, Complete, NoRequest
  <2>7. PaymentsOK'
    BY <1>0, <2>1, <2>5, <2>6 DEF PaymentsOK
  <2>8. CoreInv'
    BY <1>0, <2>1, <2>4, AdvanceStep DEF Reached
  <2> QED
    BY <2>7, <2>8 DEF IInv
<1>3. CASE CommitCheckout(w)
  <2>1. PICK code \in Replies : Finish(w, code) /\ faults' \in 0 .. MaxFaults
    BY <1>0, <1>3, CommitIsFinish DEF CommitCheckout
  <2>2. UNCHANGED tables /\ req[w].op = "checkout" /\ pc[w] = "written"
    BY <1>3 DEF CommitCheckout, At
  <2>3. /\ p \in PaymentIds /\ payments[p].state = "created" /\ payments[p] \in Intent
    BY <1>0, <2>2 DEF CoreInv, RequestsOK, Complete, PaymentsOK, NoPayment
  <2>4. PICK st \in {"created", "open"} :
           payments' = [payments EXCEPT ![p] = [payments[p] EXCEPT !.state = st]]
    <3>1. payments' = [payments EXCEPT ![p].state =
                          IF reply'[w] = "ok" THEN "open" ELSE @]
      BY <1>3 DEF CommitCheckout
    <3>2. [payments[p] EXCEPT !.state = "created"] = payments[p]
      BY <2>3 DEF Intent
    <3> QED
      BY <1>0, <2>3, <3>1, <3>2
  <2>5. [payments[p] EXCEPT !.state = st] \in Intent
    BY <2>3 DEF Intent
  <2>6. PaymentsTypeOK'
    BY <1>0, <2>3, <2>4, <2>5 DEF PaymentsTypeOK
  <2>7. \A x \in PaymentIds \ {p} : payments'[x] = payments[x]
    BY <1>0, <2>3, <2>4
  <2>8. \A v \in Workers : req[v].op \in {"checkout", "webhook"} => req[v].payment \in PaymentIds
    BY <1>0 DEF CoreInv, RequestsOK, Complete, NoRequest
  <2>9. /\ req'[w].op \notin {"checkout", "webhook"}
        /\ \A v \in Workers \ {w} : pc'[v] = pc[v] /\ req'[v] = req[v] /\ reply'[v] = reply[v]
    BY <1>0, <2>1, FinishIsLocal DEF NoRequest
  <2>10. PaymentsOK'
    <3>1. \A v \in Workers : req[v].op \in {"checkout", "webhook"} /\ v # w => req[v].payment # p
      BY <1>0, <2>2, <2>3 DEF PaymentsOK
    <3> QED
      BY <1>0, <2>7, <2>8, <2>9, <3>1 DEF PaymentsOK
  <2>11. CoreInv'
    BY <1>0, <2>1, <2>2, <2>6, FinishStep
  <2> QED
    BY <2>10, <2>11 DEF IInv
<1> QED
  BY <1>1, <1>2, <1>3

LEMMA WebhookInv ==
    ASSUME IInv, NEW w \in Workers,
           LockForWebhook(w) \/ InsertConfirmed(w) \/ CommitConfirmed(w)
    PROVE  IInv'
<1>0. CoreInv /\ PaymentsOK
      /\ pc \in [Workers -> Labels] /\ req \in [Workers -> Request]
      /\ reply \in [Workers -> Replies]
  BY DEF IInv, CoreInv, TypeOK, StoreTypeOK
<1>1. Settle(w) /\ req[w].op = "webhook"
  BY DEF LockForWebhook, InsertConfirmed, CommitConfirmed, At
<1>2. PaymentsTypeOK' /\ PaymentsOK'
  <2>1. CASE \E code \in Replies : Finish(w, code)
    BY <1>1, <2>1, SettleStep
  <2>2. CASE ~\E code \in Replies : Finish(w, code)
    <3>1. /\ UNCHANGED <<req, reply>> /\ pc[w] # "idle"
          /\ \/ pc' = [pc EXCEPT ![w] = "locked"]
             \/ pc' = [pc EXCEPT ![w] = "written"]
      BY <1>0, <2>2, CommitIsFinish
         DEF LockForWebhook, LockOpenSlot, SlotMissing, Refuse, Replies, KeepSlotLocked, At,
             InsertConfirmed, InsertBooking, CommitConfirmed, CommitBooking
    <3>2. \A v \in Workers \ {w} : pc'[v] = pc[v] /\ req'[v] = req[v] /\ reply'[v] = reply[v]
      BY <1>0, <3>1
    <3>3. UNCHANGED payments
      BY <1>0, <1>1, <3>1 DEF Settle, Acknowledges, PaymentsOK
    <3> QED
      BY <1>1, <3>1, <3>2, <3>3, PaymentsKept
  <2> QED
    BY <2>1, <2>2
<1>3. CASE LockForWebhook(w)
  BY <1>0, <1>1, <1>2, <1>3, LockOpenSlotStep DEF LockForWebhook, IInv
<1>4. CASE InsertConfirmed(w)
  BY <1>0, <1>1, <1>2, <1>4, InsertBookingStep DEF InsertConfirmed, IInv
<1>5. CASE CommitConfirmed(w)
  <2> DEFINE row == [status |-> "confirmed", tenant |-> req[w].tenant, customer |-> req[w].user,
                     slot |-> req[w].slot, paidBy |-> req[w].payment]
  <2>1. row \in LiveBooking
    BY <1>0, <1>1 DEF CoreInv, RequestsOK, Complete, LiveBooking, BookingStatus, SlotOps, NoRequest
  <2>2. row.status = "confirmed" /\ row.slot = req[w].slot /\ row.tenant = req[w].tenant
    OBVIOUS
  <2>3. CommitBooking(w, row)
    BY <1>5 DEF CommitConfirmed
  <2> HIDE DEF row
  <2> QED
    BY <1>0, <1>1, <1>2, <2>1, <2>2, <2>3, CommitBookingStep DEF IInv
<1> QED
  BY <1>3, <1>4, <1>5

LEMMA BreakInv ==
    ASSUME IInv, NEW w \in Workers, Break(w)
    PROVE  IInv'
<1>1. Finish(w, "fault") /\ UNCHANGED tables /\ faults' \in 0 .. MaxFaults /\ CoreInv
  BY DEF Break, Fail, IInv, CoreInv, TypeOK, StoreTypeOK
<1>2. PaymentsTypeOK' /\ PaymentsOK'
  BY <1>1, SettleStep DEF Break, Replies
<1> QED
  BY <1>1, <1>2, FinishStep DEF IInv, Replies

LEMMA PayInv ==
    ASSUME IInv, NEW p \in PaymentIds, Pay(p)
    PROVE  IInv'
<1>1. /\ payments[p] \in Intent /\ payments[p].state = "open"
      /\ payments' = [payments EXCEPT ![p] = [payments[p] EXCEPT !.state = "paid"]]
      /\ [payments[p] EXCEPT !.state = "paid"] \in Intent
      /\ UNCHANGED storeVars
  BY DEF Pay, IInv, CoreInv, TypeOK, PaymentsTypeOK, Intent, NoPayment
<1>2. PaymentsTypeOK'
  BY <1>1 DEF IInv, CoreInv, TypeOK, PaymentsTypeOK
<1>3. \A x \in PaymentIds \ {p} : payments'[x] = payments[x]
  BY <1>1 DEF IInv, CoreInv, TypeOK, PaymentsTypeOK
<1>4. \A v \in Workers : req[v].op \in {"checkout", "webhook"} =>
         req[v].payment \in PaymentIds \ {p}
  BY <1>1 DEF IInv, CoreInv, RequestsOK, Complete, NoRequest, PaymentsOK
<1>5. PaymentsOK'
  BY <1>1, <1>3, <1>4 DEF IInv, PaymentsOK, storeVars
<1>6. CoreInv'
  BY <1>1, <1>2 DEF storeVars, IInv, CoreInv, TypeOK, StoreTypeOK, TablesTypeOK, Consistent,
     SlotMatchesBookings, InvoiceFollowsBooking, BookingStaysInTenant, OneBookingPerSlot,
     BookingsOn, BookingExists, SlotExists, IsActive, RequestsOK, EditsOK, FreshIdsOK, LocksOK,
     ReadsOK, At, EffectiveStaff, IsProvider, OwnsSlot, OwnsBooking, PastLock, MayEdit
<1> QED
  BY <1>5, <1>6 DEF IInv

LEMMA BeginFacts ==
    ASSUME CoreInv, NEW w \in Workers, NEW r, Begin(w, r)
    PROVE  /\ req'[w] = r /\ pc'[w] = "begin" /\ reply'[w] = "none"
           /\ \A v \in Workers \ {w} : pc'[v] = pc[v] /\ req'[v] = req[v] /\ reply'[v] = reply[v]
BY DEF Begin, CoreInv, TypeOK, StoreTypeOK

\* A request that is neither a checkout nor a webhook arrives.
LEMMA PlainBegin ==
    ASSUME IInv, NEW w \in Workers, NEW r \in Request, r.op \in {"create", "update", "delete",
           "book", "status"}, Complete(r), r.op = "create" => Fresh(r.slot), Begin(w, r),
           UNCHANGED payments
    PROVE  IInv'
<1>0. CoreInv
  BY DEF IInv
<1>1. PaymentsTypeOK' /\ PaymentsOK'
  BY <1>0, BeginFacts, PaymentsKept
<1>2. CoreInv'
  BY <1>0, <1>1, BeginStep DEF Ops, SlotOps
<1> QED
  BY <1>1, <1>2 DEF IInv

LEMMA ArriveInv ==
    ASSUME IInv, NEW w \in Workers, Arrive(w)
    PROVE  IInv'
<1> USE DEF Request, NoRequest, Complete, Ops, SlotOps
<1>0. CoreInv /\ PaymentsOK /\ payments \in [PaymentIds -> Intent \cup {NoPayment}]
  BY DEF IInv, CoreInv, TypeOK, PaymentsTypeOK
<1>1. CASE RequestCreate(w) /\ UNCHANGED payments
  <2>1. PICK t \in Tenants, c \in Callers, s \in SlotIds, st \in Staff \cup {None},
             f \in Times, e \in Times :
           /\ Fresh(s)
           /\ Begin(w, [NoRequest EXCEPT !.op = "create", !.tenant = t, !.role = c.role,
                           !.user = c.user, !.slot = s, !.staff = st, !.from = f, !.to = e])
    BY <1>1 DEF RequestCreate
  <2>2. /\ c.role \in {"tenant_admin", "provider"} /\ c.user \in Staff \cup {None}
        /\ c.role = "provider" => c.user \in Staff
    BY DEF Callers
  <2> QED
    BY <1>1, <2>1, <2>2, PlainBegin
<1>2. CASE RequestUpdate(w) /\ UNCHANGED payments
  <2>1. PICK t \in Tenants, c \in Callers, s \in SlotIds, st \in Staff \cup {None},
             f \in Times \cup {None}, e \in Times \cup {None} :
           Begin(w, [NoRequest EXCEPT !.op = "update", !.tenant = t, !.role = c.role,
                        !.user = c.user, !.slot = s, !.staff = st, !.from = f, !.to = e])
    BY <1>2 DEF RequestUpdate
  <2>2. /\ c.role \in {"tenant_admin", "provider"} /\ c.user \in Staff \cup {None}
        /\ c.role = "provider" => c.user \in Staff
    BY DEF Callers
  <2> QED
    BY <1>2, <2>1, <2>2, PlainBegin
<1>3. CASE RequestDelete(w) /\ UNCHANGED payments
  <2>1. PICK t \in Tenants, c \in Callers, s \in SlotIds :
           Begin(w, [NoRequest EXCEPT !.op = "delete", !.tenant = t, !.role = c.role,
                        !.user = c.user, !.slot = s])
    BY <1>3 DEF RequestDelete
  <2>2. /\ c.role \in {"tenant_admin", "provider"} /\ c.user \in Staff \cup {None}
        /\ c.role = "provider" => c.user \in Staff
    BY DEF Callers
  <2> QED
    BY <1>3, <2>1, <2>2, PlainBegin
<1>4. CASE RequestBooking(w) /\ UNCHANGED payments
  <2>1. PICK t \in Tenants, c \in Customers, s \in SlotIds :
           Begin(w, [NoRequest EXCEPT !.op = "book", !.tenant = t, !.user = c, !.slot = s])
    BY <1>4 DEF RequestBooking
  <2> QED
    BY <1>4, <2>1, PlainBegin
<1>5. CASE RequestStatus(w) /\ UNCHANGED payments
  <2>1. PICK t \in Tenants, b \in BookingIds, st \in BookingStatus :
           Begin(w, [NoRequest EXCEPT !.op = "status", !.tenant = t, !.booking = b,
                                      !.status = st])
    BY <1>5 DEF RequestStatus
  <2> QED
    BY <1>5, <2>1, PlainBegin
<1>6. CASE RequestCheckout(w)
  <2>1. PICK t \in Tenants, c \in Customers, s \in SlotIds, p \in PaymentIds :
           /\ Unused(p)
           /\ Begin(w, [NoRequest EXCEPT !.op = "checkout", !.tenant = t, !.user = c,
                                         !.slot = s, !.payment = p])
    BY <1>6 DEF RequestCheckout
  <2> DEFINE r == [NoRequest EXCEPT !.op = "checkout", !.tenant = t, !.user = c,
                                    !.slot = s, !.payment = p]
  <2>2. /\ r \in Request /\ Complete(r) /\ r.op = "checkout" /\ r.payment = p
    OBVIOUS
  <2> HIDE DEF r
  <2>3. UNCHANGED payments /\ Unused(p) /\ Begin(w, r)
    BY <1>6, <2>1 DEF RequestCheckout, r
  <2>4. PaymentsTypeOK'
    BY <1>0, <2>3 DEF PaymentsTypeOK
  <2>5. PaymentsOK'
    BY <1>0, <2>2, <2>3, BeginFacts DEF PaymentsOK, Unused
  <2>6. CoreInv'
    BY <1>0, <2>2, <2>3, <2>4, BeginStep
  <2> QED
    BY <2>5, <2>6 DEF IInv
<1>7. CASE \E p \in PaymentIds : DeliverEvent(w, p)
  <2>1. PICK p \in PaymentIds : DeliverEvent(w, p)
    BY <1>7
  <2> DEFINE r == [NoRequest EXCEPT !.op = "webhook", !.tenant = payments[p].tenant,
                                    !.user = payments[p].customer,
                                    !.slot = payments[p].slot, !.payment = p]
  <2>2. /\ payments[p].state \in {"paid", "settled"} /\ UNCHANGED payments /\ Begin(w, r)
    BY <2>1 DEF DeliverEvent
  <2>3. payments[p] \in Intent
    BY <1>0, <2>2 DEF NoPayment
  <2>4. /\ r \in Request /\ Complete(r) /\ r.op = "webhook" /\ r.payment = p
        /\ r.slot = payments[p].slot /\ r.tenant = payments[p].tenant
        /\ r.user = payments[p].customer
    BY <2>3 DEF Intent
  <2> HIDE DEF r
  <2>5. PaymentsTypeOK'
    BY <1>0, <2>2 DEF PaymentsTypeOK
  <2>6. PaymentsOK'
    BY <1>0, <2>2, <2>4, BeginFacts DEF PaymentsOK
  <2>7. CoreInv'
    BY <1>0, <2>2, <2>4, <2>5, BeginStep
  <2> QED
    BY <2>6, <2>7 DEF IInv
<1> QED
  BY <1>1, <1>2, <1>3, <1>4, <1>5, <1>6, <1>7 DEF Arrive

LEMMA StutterInv == IInv /\ UNCHANGED vars => IInv'
BY DEF vars, storeVars, IInv, PaymentsOK, CoreInv, TypeOK, StoreTypeOK, PaymentsTypeOK,
     TablesTypeOK, Consistent,
     SlotMatchesBookings, InvoiceFollowsBooking, BookingStaysInTenant, OneBookingPerSlot,
     BookingsOn, BookingExists, SlotExists, IsActive, RequestsOK, EditsOK, FreshIdsOK, LocksOK,
     ReadsOK, At, EffectiveStaff, IsProvider, OwnsSlot, OwnsBooking, PastLock, MayEdit

LEMMA NextIInv == IInv /\ [Next]_vars => IInv'
<1>1. ASSUME IInv, NEW w \in Workers, Arrive(w) \/ Break(w) PROVE IInv'
  BY <1>1, ArriveInv, BreakInv
<1>2. ASSUME IInv, NEW w \in Workers, Handle(w) PROVE IInv'
  BY <1>2, AvailabilityInv, BookingInv, CheckoutInv, WebhookInv DEF Handle, PaymentStep
<1>3. ASSUME IInv, NEW p \in PaymentIds, Pay(p) PROVE IInv'
  BY <1>3, PayInv
<1> QED
  BY <1>1, <1>2, <1>3, StutterInv DEF Next

(***************************************************************************)
(* The theorems.                                                           *)
(***************************************************************************)

\* The inductive invariant holds of every behaviour of the engine.
THEOREM Inductive == Spec => []IInv
<1>1. Init => IInv
  BY InitIInv
<1>2. IInv /\ [Next]_vars => IInv'
  BY NextIInv
<1> QED
  BY <1>1, <1>2, PTL DEF Spec

\* Every row, lock, request and PaymentIntent keeps the shape that the schema and
\* the handlers give it: NOT NULL columns, end_time > start_time, declared statuses.
THEOREM TypeCorrect == Spec => []TypeOK
<1>1. IInv => TypeOK
  BY DEF IInv, CoreInv
<1> QED
  BY <1>1, Inductive, PTL

\* However the handlers interleave and fail, each booking has one invoice, void
\* exactly when the booking is cancelled.
THEOREM InvoicesAgree == Spec => []InvoiceFollowsBooking
<1>1. IInv => InvoiceFollowsBooking
  BY DEF IInv, CoreInv, Consistent
<1> QED
  BY <1>1, Inductive, PTL

\* A booking's slot exists, in the booking's own tenant.
THEOREM TenantsAreApart == Spec => []BookingStaysInTenant
<1>1. IInv => BookingStaysInTenant
  BY DEF IInv, CoreInv, Consistent
<1> QED
  BY <1>1, Inductive, PTL

\* Double booking does not happen: a slot never has two bookings.
THEOREM NoDoubleBooking == Spec => []OneBookingPerSlot
<1>1. IInv => OneBookingPerSlot
  BY DEF IInv, CoreInv, Consistent
<1> QED
  BY <1>1, Inductive, PTL

\* A slot is marked booked exactly while an uncancelled booking has it.
THEOREM MarksAreTrue == Spec => []SlotMatchesBookings
<1>1. IInv => SlotMatchesBookings
  BY DEF IInv, CoreInv, Consistent
<1> QED
  BY <1>1, Inductive, PTL

LEMMA OwnersDoNotWait == CoreInv => NoHoldAndWait
<1> SUFFICES ASSUME CoreInv, NEW w \in Workers, HasALock(w), Blocked(w)
             PROVE  FALSE
  BY DEF NoHoldAndWait
<1>1. PastLock(w)
  BY DEF HasALock, CoreInv, LocksOK, OwnsSlot, OwnsBooking, PastLock, At
<1>2. \A v \in Workers : /\ \A s \in SlotIds : slotLock[s] = v => OwnsSlot(v, s)
                         /\ \A b \in BookingIds : bookingLock[b] = v => OwnsBooking(v, b)
  BY DEF CoreInv, LocksOK
<1>3. /\ \A s \in SlotIds : slotLock[s] \in Workers \cup {None}
      /\ \A b \in BookingIds : bookingLock[b] \in Workers \cup {None}
  BY DEF CoreInv, TypeOK, StoreTypeOK
<1>4. CASE pc[w] = "begin"
  BY <1>1, <1>4 DEF PastLock
<1>5. CASE /\ At(w, "status", "locked") /\ req[w].status = "cancelled"
           /\ slotLock[bookings[req[w].booking].slot] \notin {None, w}
  <2> DEFINE b == req[w].booking
             s == bookings[b].slot
  <2>1. /\ req[w].op = "status" /\ b \in BookingIds /\ OwnsBooking(w, b)
        /\ s \in SlotIds /\ slots[s].state = "booked" /\ BookingExists(b)
    BY <1>1, <1>5, StatusFacts, RequestFacts DEF At
  <2>2. PICK v \in Workers : slotLock[s] = v /\ v # w
    BY <1>3, <1>5, <2>1
  <2>3. OwnsSlot(v, s)
    BY <1>2, <2>1, <2>2
  <2>4. req[v].op = "status" /\ PastLock(v) /\ bookings[req[v].booking].slot = s
    BY <2>1, <2>3, RequestFacts DEF OwnsSlot, PastLock, At
  <2>5. req[v].booking \in BookingIds /\ BookingExists(req[v].booking)
        /\ OwnsBooking(v, req[v].booking)
    BY <2>4, RequestFacts
  <2>6. req[v].booking = b
    BY <2>1, <2>4, <2>5 DEF CoreInv, Consistent, OneBookingPerSlot
  <2> QED
    BY <2>1, <2>2, <2>5, <2>6, OneOwner
<1>6. CASE /\ At(w, "delete", "locked")
           /\ \E b \in BookingsOn(req[w].slot) : bookingLock[b] \notin {None, w}
  <2>1. PICK b \in BookingsOn(req[w].slot) : bookingLock[b] \notin {None, w}
    BY <1>6
  <2>2. b \in BookingIds /\ BookingExists(b) /\ bookings[b].slot = req[w].slot
    BY DEF BookingsOn
  <2>3. PICK v \in Workers : bookingLock[b] = v
    BY <1>3, <2>1, <2>2
  <2>4. req[v].op = "status" /\ PastLock(v) /\ req[v].booking = b
    BY <1>2, <2>2, <2>3 DEF OwnsBooking
  <2>5. slots[req[w].slot].state = "booked"
    BY <2>2, <2>4, StatusFacts
  <2>6. slots[req[w].slot].state = "open"
    BY <1>1, <1>6, RequestFacts DEF At, SlotOps
  <2> QED
    BY <2>5, <2>6
<1>7. CASE /\ req[w].op \in {"book", "webhook"} /\ pc[w] = "locked"
           /\ \E v \in Workers : HasInserted(v, req[w].slot)
  <2>1. PICK v \in Workers : HasInserted(v, req[w].slot)
    BY <1>7
  <2>2. OwnsSlot(w, req[w].slot) /\ req[w].slot \in SlotIds
    BY <1>1, <1>7, RequestFacts DEF SlotOps
  <2>3. OwnsSlot(v, req[w].slot) /\ v # w
    BY <1>7, <2>1, RequestFacts DEF HasInserted, PastLock, SlotOps
  <2> QED
    BY <2>2, <2>3, OneOwner
<1> QED
  BY <1>4, <1>5, <1>6, <1>7 DEF Blocked, At

\* Of two handlers that want the same rows one always waits without holding any,
\* so Postgres never has a deadlock between them to break.
THEOREM NoDeadlock == Spec => []NoHoldAndWait
<1>1. IInv => NoHoldAndWait
  BY OwnersDoNotWait DEF IInv
<1> QED
  BY <1>1, Inductive, PTL

=============================================================================
