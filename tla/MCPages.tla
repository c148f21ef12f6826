------------------------------ MODULE MCPages ------------------------------
(***************************************************************************)
(* One slot and one tab, an hour east of Greenwich.                        *)
(***************************************************************************)
EXTENDS PagesInvariant

CONSTANT s1

=============================================================================
