-------------------------- MODULE ManagedAuthority --------------------------
(***************************************************************************)
(* The in-memory lease state of managed access: the authority registry     *)
(* (managed_access/authority.py) and the replay ledger of the lease        *)
(* verifier (managed_access/capability.py).  A lease is known by its       *)
(* capability identifier; Grant says what its claims bind it to.  Every    *)
(* operator below is the body of one critical section of the registry lock *)
(* or of the ledger lock; the calls that use them are in ManagedAccess.    *)
(***************************************************************************)
EXTENDS Naturals, FiniteSets

CONSTANTS
    Lease,              \* capability identifiers of the leases in play
    Grant,              \* the claims of each lease
    Manager,            \* opaque manager session references
    HostSession,        \* opaque host session references
    HostTurn,           \* opaque host turn references
    Scope,              \* host-qualified scopes, bound_scope(host, scope)
    AnyScope,           \* the wildcard scope "*"
    NoLease,            \* registry without a session
    DisconnectTimeout,  \* clock steps without a privileged call, 10 s in the code
    MaxReplayEntries,   \* capacity of the ledger, 4096 in the code
    MaxActivations      \* bound on the capabilities issued in a behaviour

Binding == [session : HostSession, turn : HostTurn, scope : Scope]

ASSUME GrantAssumption ==
    Grant \in [Lease -> [manager : Manager, session : HostSession,
                         turn : HostTurn, scope : Scope \cup {AnyScope}]]
ASSUME NoLeaseAssumption == NoLease \notin Lease
ASSUME AuthorityBounds ==
    /\ DisconnectTimeout \in Nat
    /\ MaxReplayEntries \in Nat
    /\ MaxActivations \in Nat

VARIABLES
    session,     \* _session: the installed lease, or NoLease
    capability,  \* _capability: number of the live token, 0 for None
    idle,        \* clock steps since _last_seen, while a session is installed
    issued,      \* tokens issued so far; token_urlsafe never repeats one
    granted,     \* history: the lease each token was issued for
    ledger,      \* _entries: leases that were consumed
    expired      \* leases whose expires_at has passed

registryVars == <<session, capability, idle, issued, granted>>

\* Session, token and heartbeat are of one activation, or all are cleared; no
\* token is known that was not issued.
OneActivation ==
    /\ IF session = NoLease
         THEN capability = 0 /\ idle = 0
         ELSE capability \in 1 .. issued /\ granted[capability] = session
    /\ \A k \in 1 .. MaxActivations : granted[k] \in Lease <=> k <= issued

AuthorityTypeOK ==
    /\ session \in Lease \cup {NoLease}
    /\ capability \in 0 .. MaxActivations
    /\ idle \in 0 .. DisconnectTimeout + 1
    /\ issued \in 0 .. MaxActivations
    /\ granted \in [1 .. MaxActivations -> Lease \cup {NoLease}]
    /\ ledger \subseteq Lease
    /\ expired \subseteq Lease
    /\ OneActivation

AuthorityInit ==
    /\ session = NoLease
    /\ capability = 0
    /\ idle = 0
    /\ issued = 0
    /\ granted = [k \in 1 .. MaxActivations |-> NoLease]
    /\ ledger = {}
    /\ expired = {}

-----------------------------------------------------------------------------
Connected == session # NoLease /\ idle <= DisconnectTimeout

Live == Connected /\ session \notin expired

\* Scope, host session and host turn of a request against those of a lease.
Covers(l, b) ==
    /\ Grant[l].scope \in {AnyScope, b.scope}
    /\ Grant[l].session = b.session
    /\ Grant[l].turn = b.turn

\* A capability a privileged call could still use.
Usable(k) == Live /\ capability = k

\* Mutant: the session is dropped and its token is kept.
ClearSessionOnly ==
    /\ session' = NoLease
    /\ idle' = 0
    /\ UNCHANGED <<capability, issued, granted>>

ClearSession ==
    /\ session' = NoLease
    /\ capability' = 0
    /\ idle' = 0
    /\ UNCHANGED <<issued, granted>>

\* authority() and the head of session_for_scope: a dead session is dropped.
DropIfDead == IF Live THEN UNCHANGED registryVars ELSE ClearSession

\* Mutant: require() does not look at the heartbeat.
PresentsIgnoringHeartbeat(k) == session # NoLease /\ capability = k

\* require(): the token is compared first, expiry drops the session, a
\* binding mismatch leaves everything alone, and success renews _last_seen.
Presents(k) == Connected /\ capability = k

RequireGranted(k) ==
    /\ Presents(k)
    /\ session \notin expired
    /\ idle' = 0
    /\ UNCHANGED <<session, capability, issued, granted>>

RequireExpired(k) ==
    /\ Presents(k)
    /\ session \in expired
    /\ ClearSession

RequireRefused(k) ==
    /\ ~Presents(k)
    /\ UNCHANGED registryVars

\* require() for a binding b as well.
RequireCovered(k, b) == RequireGranted(k) /\ Covers(session, b)

RequireMismatched(k, b) ==
    /\ Usable(k)
    /\ ~Covers(session, b)
    /\ UNCHANGED registryVars

\* The locked part of activate(): whatever was installed is overwritten.
InstallSession(l) ==
    /\ issued < MaxActivations
    /\ issued' = issued + 1
    /\ granted' = [granted EXCEPT ![issued + 1] = l]
    /\ session' = l
    /\ capability' = issued + 1
    /\ idle' = 0

\* What the ledger keeps when consume() prunes with the caller's own clock
\* reading; was is the set of leases that had expired at that reading.
Unexpired(was) == ledger \ was

\* Mutant: consume() does not look the lease up.
ConsumableAgain(l, was) == Cardinality(Unexpired(was)) < MaxReplayEntries

\* consume(): a replay and a full ledger are both refused, after pruning.
Consumable(l, was) ==
    /\ l \notin Unexpired(was)
    /\ Cardinality(Unexpired(was)) < MaxReplayEntries

ConsumeLease(l, was) ==
    ledger' = IF Consumable(l, was) THEN Unexpired(was) \cup {l}
                                    ELSE Unexpired(was)
=============================================================================
