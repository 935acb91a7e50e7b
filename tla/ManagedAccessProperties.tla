----------------------- MODULE ManagedAccessProperties -----------------------
(***************************************************************************)
(* What managed access must guarantee, and what its documentation says of  *)
(* it that the interleavings of its critical sections do not keep.         *)
(***************************************************************************)
EXTENDS ManagedAccess

\* A context that reaches a hook was written for exactly the host session,
\* turn and scope of that hook's prompt, under a lease that covers them and
\* belongs to the manager session the prompt was addressed to, however the
\* leases were replaced between the four critical sections of the request
\* and those of next() and complete().
BoundDelivery ==
    \A h \in Hook :
        delivered[h] # NoAnswer =>
            LET l == granted[delivered[h].by] IN
              /\ delivered[h].for = Ask[h]
              /\ Covers(l, Ask[h])
              /\ Grant[l].manager = manager[h]

\* No lease is ever installed twice: neither two threads that verify the same
\* lease at once, nor a ledger entry that another thread prunes at expiry
\* between a verification and its consume(), nor a restart that empties the
\* ledger gives a lease a second capability.
LeaseActivatedOnce ==
    \A j, k \in 1 .. issued : granted[j] = granted[k] => j = k

\* A hook call that waits although its request has left the queue, or has its
\* result, is always woken: revoke(), pruning and complete() each set the
\* event of what they touch, so nobody sleeps out HOOK_WAIT_SECONDS for nothing.
NoStrandedHook ==
    \A h \in Hook :
        hook[h] = "waiting" /\ (h \notin queue \/ answer[h] # NoAnswer) => h \in signalled

\* A capability that lapsed, expired, was revoked or was replaced is never
\* usable again: no privileged call, late heartbeat or activation revives it.
DeadCapabilityStaysDead ==
    [][\A k \in 1 .. issued : Usable(k)' => Usable(k)]_vars

\* A hook call always ends, with or without a manager: it never keeps the
\* host's prompt waiting for an answer, a revocation or a restart.
EveryHookReturns ==
    \A h \in Hook : hook[h] = "admitted" ~> hook[h] = "done"

-----------------------------------------------------------------------------
\* The exchange a hook call can see.  A request that left the queue is over
\* for it even before its thread wakes up.
ExchangeOf(h) ==
    CASE hook[h] = "idle" -> "idle"
      [] hook[h] \in {"admitted", "leased", "resolved"} -> "asked"
      [] hook[h] = "waiting" ->
            IF h \notin queue THEN "closed"
            ELSE IF answer[h] # NoAnswer THEN "answered"
            ELSE IF h \in assigned THEN "offered" ELSE "asked"
      [] hook[h] = "done" ->
            IF delivered[h] # NoAnswer THEN "delivered" ELSE "closed"

Exchange == INSTANCE ContextExchange WITH
    exchange <- [h \in Hook |-> ExchangeOf(h)],
    force    <- IF Live THEN session ELSE NoLease,
    spent    <- {granted[k] : k \in 1 .. issued},
    giver    <- [h \in Hook |-> IF answer[h] = NoAnswer THEN NoLease
                                ELSE granted[answer[h].by]],
    Suited   <- [l \in Lease |-> {h \in Hook : Covers(l, Ask[h])}]

\* Registry, verifier, broker, hooks and controls together are an exchange in
\* which only the lease in force answers, only an open exchange is answered,
\* and a lease that was withdrawn never comes back.
ImplementsExchange == Exchange!Spec

-----------------------------------------------------------------------------
\* MANAGED_LIBRARY.md: "`DISABLED`: both access paths are denied."  A context
\* is never accepted from the manager while the persisted mode is DISABLED.
\* An activation that read the mode before the user changed it installs its
\* session after the change revoked the registry, so this fails.
DisabledDeniesContext ==
    [][\A h \in Hook : answer'[h] # answer[h] => mode # "DISABLED"]_vars

=============================================================================
