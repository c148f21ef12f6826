----------------------------- MODULE MCSession -----------------------------
(***************************************************************************)
(* Two people, two workspaces and one invitation in one tab.               *)
(***************************************************************************)
EXTENDS SessionInvariant

CONSTANTS ann, bob, t1, t2

MCUsers == {ann, bob}

MCTenants == {t1, t2}

=============================================================================
