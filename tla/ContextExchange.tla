--------------------------- MODULE ContextExchange ---------------------------
(***************************************************************************)
(* What managed context promises a host hook, without threads, locks or    *)
(* clocks.  At most one lease is in force; a lease comes into force at     *)
(* most once, unless it comes too late, and never returns after it was     *)
(* withdrawn.  A prompt may be offered to the manager; only the lease in   *)
(* force can answer it, only if it suits the prompt, and only while the    *)
(* exchange is open.  What ended without an answer stays without one.      *)
(***************************************************************************)
CONSTANTS
    Hook,      \* the hook calls
    Lease,     \* the leases
    NoLease,   \* no lease in force
    Suited     \* Suited[l]: the hook calls lease l may answer

VARIABLES
    exchange,  \* what became of each hook call
    force,     \* the lease in force
    spent,     \* the leases that can never come into force again
    giver      \* the lease each answer was given under

vars == <<exchange, force, spent, giver>>

Unfinished == {"idle", "asked", "offered", "answered"}

TypeOK ==
    /\ exchange \in [Hook -> Unfinished \cup {"delivered", "closed"}]
    /\ force \in Lease \cup {NoLease}
    /\ spent \subseteq Lease
    /\ giver \in [Hook -> Lease \cup {NoLease}]

Init ==
    /\ exchange = [h \in Hook |-> "idle"]
    /\ force = NoLease
    /\ spent = {}
    /\ giver = [h \in Hook |-> NoLease]

\* The exchange after those of S that still ran were closed.
Closing(S) ==
    [h \in Hook |-> IF h \in S /\ exchange[h] \in Unfinished
                     THEN "closed" ELSE exchange[h]]

Enforce(l) ==
    /\ l \notin spent
    /\ force' = l
    /\ spent' = spent \cup {l}
    /\ UNCHANGED <<exchange, giver>>

\* A lease that comes too late: it is spent without having been in force, and
\* the lease in force goes out with it.
Waste(l) ==
    /\ l \notin spent
    /\ force' = NoLease
    /\ spent' = spent \cup {l}
    /\ UNCHANGED <<exchange, giver>>

\* A lease goes out of force, and any exchanges may end with it.
Withdraw(S) ==
    /\ force' = NoLease
    /\ exchange' = Closing(S)
    /\ UNCHANGED <<spent, giver>>

Close(S) ==
    /\ exchange' = Closing(S)
    /\ UNCHANGED <<force, spent, giver>>

Put(h) ==
    /\ exchange[h] = "idle"
    /\ exchange' = [exchange EXCEPT ![h] = "asked"]
    /\ UNCHANGED <<force, spent, giver>>

Offer(h, S) ==
    /\ exchange[h] = "asked"
    /\ exchange' = [Closing(S) EXCEPT ![h] = "offered"]
    /\ UNCHANGED <<force, spent, giver>>

Respond(h) ==
    /\ exchange[h] = "offered"
    /\ force # NoLease
    /\ h \in Suited[force]
    /\ exchange' = [exchange EXCEPT ![h] = "answered"]
    /\ giver' = [giver EXCEPT ![h] = force]
    /\ UNCHANGED <<force, spent>>

Deliver(h) ==
    /\ exchange[h] = "answered"
    /\ exchange' = [exchange EXCEPT ![h] = "delivered"]
    /\ UNCHANGED <<force, spent, giver>>

Next ==
    \/ \E l \in Lease : Enforce(l) \/ Waste(l)
    \/ \E S \in SUBSET Hook : Withdraw(S) \/ Close(S)
    \/ \E h \in Hook : Put(h) \/ Respond(h) \/ Deliver(h)
    \/ \E h \in Hook, S \in SUBSET Hook : Offer(h, S)

Spec == Init /\ [][Next]_vars
=============================================================================
