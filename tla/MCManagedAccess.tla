--------------------------- MODULE MCManagedAccess ---------------------------
(***************************************************************************)
(* Instances of ManagedAccess for TLC.                                     *)
(***************************************************************************)
EXTENDS ManagedAccessProperties, TLC

CONSTANTS l1, l2, m1, m2, s1, t1, t2, p1, p2, h1, h2, c1, c2

B(t, p) == [session |-> s1, turn |-> t, scope |-> p]
G(m, t, p) == [manager |-> m, session |-> s1, turn |-> t, scope |-> p]

\* Two leases of one manager session for the same turn that differ in scope:
\* the pair the code tells apart by scope alone, which next() does not compare.
TwoScopes == (l1 :> G(m1, t1, p1)) @@ (l2 :> G(m1, t1, p2))

\* Leases of two manager sessions for one prompt; the second one is for any
\* scope.
TwoManagers == (l1 :> G(m1, t1, p1)) @@ (l2 :> G(m2, t1, AnyScope))

\* A single lease, and a single prompt it covers; or no prompt at all.
OneLease == l1 :> G(m1, t1, p1)

OnePrompt == h1 :> B(t1, p1)
NoPrompts == [h \in {} |-> B(t1, p1)]

Threads == Permutations(Call)
=============================================================================
