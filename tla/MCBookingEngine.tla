--------------------------- MODULE MCBookingEngine ---------------------------
(***************************************************************************)
(* BookingEngine for TLC: the sets of model values that the configurations *)
(* MC*.cfg put for its constants.                                          *)
(***************************************************************************)
EXTENDS BookingInvariant, TLC

\* Workers run the same code and all ids are only ever compared, so permuting
\* them changes nothing that a safety property can see.
Symmetry ==
    UNION {Permutations(Ids) : Ids \in {Workers, SlotIds, BookingIds, PaymentIds,
                                         Tenants, Staff, Customers}}

=============================================================================
