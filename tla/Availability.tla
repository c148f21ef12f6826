---------------------------- MODULE Availability ----------------------------
(***************************************************************************)
(* availabilityController.js: how slots are created, changed and deleted.  *)
(* A tenant_admin acts on every slot of the tenant, a provider on his own. *)
(* The two listings and getAvailability change nothing and are left out.   *)
(***************************************************************************)
EXTENDS BookingStore

(***************************************************************************)
(* Requests.  Whoever may call these routes (authorizeRoles) may send any  *)
(* combination of fields and any id, one that was deleted or never minted  *)
(* included.                                                               *)
(***************************************************************************)
Callers == [role : {"provider"}, user : Staff] \cup [role : {"tenant_admin"}, user : {None}]

Fresh(s) ==
    /\ slots[s].state = "none"
    /\ \A v \in Workers : req[v].slot # s

\* The uuid that the INSERT will mint is named here, when the request arrives.
RequestCreate(w) ==
    \E t \in Tenants, c \in Callers, s \in SlotIds,
       st \in Staff \cup {None}, f \in Times, e \in Times :
        /\ Fresh(s)
        /\ Begin(w, [NoRequest EXCEPT !.op = "create", !.tenant = t, !.role = c.role,
                        !.user = c.user, !.slot = s, !.staff = st, !.from = f, !.to = e])

RequestUpdate(w) ==
    \E t \in Tenants, c \in Callers, s \in SlotIds,
       st \in Staff \cup {None}, f \in Times \cup {None}, e \in Times \cup {None} :
        Begin(w, [NoRequest EXCEPT !.op = "update", !.tenant = t, !.role = c.role,
                     !.user = c.user, !.slot = s, !.staff = st, !.from = f, !.to = e])

RequestDelete(w) ==
    \E t \in Tenants, c \in Callers, s \in SlotIds :
        Begin(w, [NoRequest EXCEPT !.op = "delete", !.tenant = t, !.role = c.role,
                     !.user = c.user, !.slot = s])

(***************************************************************************)
(* createAvailability.  The overlap query is a plain SELECT: it sees what  *)
(* is committed when it runs and keeps nothing locked until the INSERT.    *)
(***************************************************************************)
IsProvider(w) == req[w].role = "provider"

EffectiveStaff(w) == IF IsProvider(w) THEN req[w].user ELSE req[w].staff

RefuseCreate(w) ==
    /\ At(w, "create", "begin")
    /\ \/ /\ req[w].to <= req[w].from \/ EffectiveStaff(w) = None
          /\ Refuse(w, "invalid")
       \/ /\ req[w].to > req[w].from
          /\ IsProvider(w) /\ req[w].staff \notin {None, req[w].user}
          /\ Refuse(w, "forbidden")

CheckNewSlot(w) ==
    /\ At(w, "create", "begin")
    /\ req[w].to > req[w].from
    /\ EffectiveStaff(w) # None
    /\ IsProvider(w) => req[w].staff \in {None, req[w].user}
    /\ \/ /\ UnbookedOverlaps(req[w].tenant, EffectiveStaff(w), req[w].from, req[w].to) # {}
          /\ Refuse(w, "conflict")
       \/ /\ UnbookedOverlaps(req[w].tenant, EffectiveStaff(w), req[w].from, req[w].to) = {}
          /\ pc' = [pc EXCEPT ![w] = "checked"]
          /\ UNCHANGED <<tables, locks, req, reply, faults>>

InsertSlot(w) ==
    /\ At(w, "create", "checked")
    /\ slots' = [slots EXCEPT ![req[w].slot] =
                   OpenSlot(req[w].tenant, EffectiveStaff(w), req[w].from, req[w].to)]
    /\ Commit(w)
    /\ UNCHANGED <<bookings, invoices>>

(***************************************************************************)
(* updateAvailability and deleteAvailability share their opening: lock the *)
(* row, then turn away a provider who does not own it, then a booked slot. *)
(***************************************************************************)

\* Only the booked check.
MayEdit_AnyProvider(w) == TRUE

MayEdit(w) == IsProvider(w) => slots[req[w].slot].staff = req[w].user

LockOwnSlot(w) ==
    \/ SlotMissing(w)
    \/ /\ SlotSelected(w)
       /\ ~MayEdit(w)
       /\ Refuse(w, "forbidden")
    \/ /\ SlotSelected(w)
       /\ MayEdit(w) /\ IsBooked(req[w].slot)
       /\ Refuse(w, "conflict")

CanEdit(w) == SlotSelected(w) /\ MayEdit(w) /\ ~IsBooked(req[w].slot)

Or(given, existing) == IF given = None THEN existing ELSE given

\* The request with every absent field taken from the row.
Merged(w) ==
    LET row == slots[req[w].slot]
    IN  [req[w] EXCEPT !.staff = IF IsProvider(w) THEN req[w].user ELSE Or(@, row.staff),
                       !.from  = Or(@, row.from),
                       !.to    = Or(@, row.to)]

LockForUpdate(w) ==
    /\ At(w, "update", "begin")
    /\ \/ LockOwnSlot(w)
       \/ /\ CanEdit(w)
          /\ Merged(w).to <= Merged(w).from
          /\ Refuse(w, "invalid")
       \/ /\ CanEdit(w)
          /\ Merged(w).to > Merged(w).from
          /\ req' = [req EXCEPT ![w] = Merged(w)]
          /\ KeepSlotLocked(w)

\* A check of the hours of whoever has the slot so far.
OtherOverlaps_FormerStaff(w) ==
    UnbookedOverlaps(req[w].tenant, slots[req[w].slot].staff, req[w].from, req[w].to)
        \ {req[w].slot}

OtherOverlaps(w) ==
    UnbookedOverlaps(req[w].tenant, req[w].staff, req[w].from, req[w].to) \ {req[w].slot}

CheckMovedSlot(w) ==
    /\ At(w, "update", "locked")
    /\ \/ OtherOverlaps(w) # {} /\ Refuse(w, "conflict")
       \/ /\ OtherOverlaps(w) = {}
          /\ pc' = [pc EXCEPT ![w] = "checked"]
          /\ UNCHANGED <<tables, locks, req, reply, faults>>

UpdateSlot(w) ==
    /\ At(w, "update", "checked")
    /\ slots' = [slots EXCEPT ![req[w].slot].staff = req[w].staff,
                              ![req[w].slot].from  = req[w].from,
                              ![req[w].slot].to    = req[w].to]
    /\ Commit(w)
    /\ UNCHANGED <<bookings, invoices>>

LockForDelete(w) ==
    /\ At(w, "delete", "begin")
    /\ \/ LockOwnSlot(w)
       \/ CanEdit(w) /\ KeepSlotLocked(w) /\ UNCHANGED req

\* A foreign key declared without REFERENCES availabilities(id).
IsReferenced_NoForeignKey(s) == FALSE

IsReferenced(s) == BookingsOn(s) # {}

\* The foreign key check takes a key-share lock on each booking of the slot, so
\* it waits for a transaction that has one locked, and then refuses the DELETE.
DeleteSlot(w) ==
    /\ At(w, "delete", "locked")
    /\ \A b \in BookingsOn(req[w].slot) : bookingLock[b] = None
    /\ \/ IsReferenced(req[w].slot) /\ Refuse(w, "reference")
       \/ /\ ~IsReferenced(req[w].slot)
          /\ slots' = [slots EXCEPT ![req[w].slot] = DeletedSlot]
          /\ Commit(w)
          /\ UNCHANGED <<bookings, invoices>>

AvailabilityStep(w) ==
    \/ RefuseCreate(w) \/ CheckNewSlot(w) \/ InsertSlot(w)
    \/ LockForUpdate(w) \/ CheckMovedSlot(w) \/ UpdateSlot(w)
    \/ LockForDelete(w) \/ DeleteSlot(w)

=============================================================================
