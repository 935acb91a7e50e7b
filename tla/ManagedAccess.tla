---------------------------- MODULE ManagedAccess ----------------------------
(***************************************************************************)
(* Managed Library access as the runtime serves it: every HTTP request is  *)
(* a thread of the bridge or Library server, and the registry, the replay  *)
(* ledger, the broker, the pairing and the policy file each have a lock of *)
(* their own.  An action is one critical section, so the steps of hooks,   *)
(* manager calls and human controls interleave between any two of them.    *)
(***************************************************************************)
EXTENDS ContextBroker

CONSTANTS
    Call,         \* bridge threads that serve the manager's calls
    Selectable,   \* modes the human picks from
    MaxPairings,  \* bound on the secrets the pairing hands out
    MaxRestarts   \* bound on runtime restarts

Mode == {"DIRECT_LOCAL", "MANAGED_EXCLUSIVE", "DISABLED"}

ASSUME AccessBounds ==
    /\ Selectable \subseteq Mode
    /\ MaxPairings \in Nat
    /\ MaxRestarts \in Nat

VARIABLES
    mode,       \* the persisted access mode
    secret,     \* number of the pairing secret in force, 0 when unpaired
    pairings,   \* secrets handed out so far
    code,       \* whether a pairing code is outstanding
    instance,   \* runtime_instance_reference
    minted,     \* external: the secret and instance each lease was signed for
    hook,       \* program counter of each hook call
    delivered,  \* what each hook call got as additionalContext
    call,       \* what each manager thread is doing
    human       \* what the thread of the human's control is doing

policyVars == <<mode, secret, pairings, code, instance, minted>>
accessVars == <<policyVars, hook, delivered, call, human>>
vars == <<registryVars, ledger, expired, brokerVars, accessVars>>

Idle == [pc |-> "idle"]

\* A manager thread between two critical sections, with its local variables.
CallState ==
    {Idle}
    \cup [pc : {"verify", "check", "install"}, lease : Lease]
    \cup [pc : {"consume"}, lease : Lease, was : SUBSET Lease]
    \cup [pc : {"next", "revoke"}, cap : 0 .. MaxActivations]
    \cup [pc : {"poll"}, cap : 0 .. MaxActivations, lease : Lease]
    \cup [pc : {"complete"}, cap : 0 .. MaxActivations, request : Hook, for : Binding]
    \cup [pc : {"read"}, cap : 0 .. MaxActivations, for : Binding]
    \cup [pc : {"clearAuthority", "clearBroker", "readMode", "readAuthority", "status"}]

HumanState ==
    {Idle}
    \cup [pc : {"modeBroker", "modePolicy"}, mode : Mode]
    \cup [pc : {"unpairAuthority", "unpairBroker", "stopBroker", "stopped"}]

PolicyTypeOK ==
    /\ mode \in Mode
    /\ secret \in 0 .. MaxPairings
    /\ pairings \in 0 .. MaxPairings
    /\ code \in {"none", "outstanding"}
    /\ instance \in 0 .. MaxRestarts
    /\ minted \in [Lease -> [secret : 0 .. MaxPairings, instance : 0 .. MaxRestarts]]

ThreadTypeOK ==
    /\ hook \in [Hook -> {"idle", "admitted", "leased", "resolved", "waiting", "done"}]
    /\ delivered \in [Hook -> Answer \cup {NoAnswer}]
    /\ call \in [Call -> CallState]
    /\ human \in HumanState

TypeOK == AuthorityTypeOK /\ BrokerTypeOK /\ PolicyTypeOK /\ ThreadTypeOK

\* A first start: no policy file, no pairing.
Init ==
    /\ AuthorityInit
    /\ BrokerInit
    /\ mode = "DIRECT_LOCAL"
    /\ secret = 0
    /\ pairings = 0
    /\ code = "none"
    /\ instance = 0
    /\ minted = [l \in Lease |-> [secret |-> 0, instance |-> 0]]
    /\ hook = [h \in Hook |-> "idle"]
    /\ delivered = [h \in Hook |-> NoAnswer]
    /\ call = [t \in Call |-> Idle]
    /\ human = Idle

-----------------------------------------------------------------------------
\* Hook calls: hook_client.request_managed_context, the ingress and request().

HookGoes(h, pc) == hook' = [hook EXCEPT ![h] = pc]

\* The mode is read before anything else; in another mode nothing is asked.
Submit(h) ==
    /\ hook[h] = "idle"
    /\ HookGoes(h, IF mode = "MANAGED_EXCLUSIVE" THEN "admitted" ELSE "done")
    /\ UNCHANGED <<registryVars, ledger, expired, brokerVars, policyVars,
                   delivered, call, human>>

\* authority(): the manager session the request will be addressed to.
ReadLease(h) ==
    /\ hook[h] = "admitted"
    /\ DropIfDead
    /\ IF Live
         THEN /\ manager' = [manager EXCEPT ![h] = Grant[session].manager]
              /\ HookGoes(h, "leased")
         ELSE /\ UNCHANGED manager
              /\ HookGoes(h, "done")
    /\ UNCHANGED <<ledger, expired, queue, assigned, answer, signalled, stale,
                   policyVars, delivered, call, human>>

\* session_for_scope(): by now the registry may hold another session.
ResolveScope(h) ==
    /\ hook[h] = "leased"
    /\ DropIfDead
    /\ HookGoes(h, IF Live /\ Covers(session, Ask[h]) THEN "resolved" ELSE "done")
    /\ UNCHANGED <<ledger, expired, brokerVars, policyVars, delivered, call, human>>

Enqueue(h) ==
    /\ hook[h] = "resolved"
    /\ Insert(h)
    /\ HookGoes(h, "waiting")
    /\ UNCHANGED <<registryVars, ledger, expired, policyVars, delivered, call, human>>

\* Mutant: the hook waits for its event without a timeout.
CollectWithoutTimeout(h) ==
    /\ hook[h] = "waiting"
    /\ h \in signalled
    /\ Pop(h)
    /\ HookGoes(h, "done")
    /\ UNCHANGED <<registryVars, ledger, expired, policyVars, delivered, call, human>>

\* The wait ends with the event or after HOOK_WAIT_SECONDS, and the hook
\* process may itself have stopped listening.  The client takes an answer
\* only for its own turn and scope.
Collect(h) ==
    /\ hook[h] = "waiting"
    /\ Pop(h)
    /\ HookGoes(h, "done")
    /\ \/ UNCHANGED delivered
       \/ /\ h \in queue
          /\ answer[h] # NoAnswer
          /\ delivered' = [delivered EXCEPT ![h] = answer[h]]
    /\ UNCHANGED <<registryVars, ledger, expired, policyVars, call, human>>

-----------------------------------------------------------------------------
\* Manager calls: local_ingress._managed_action and ManagedIngress.post.

CallGoes(t, state) == call' = [call EXCEPT ![t] = state]

\* external: the paired manager signs a lease for the runtime it talks to.
MintLease(l) ==
    /\ secret # 0
    /\ minted[l].secret = 0
    /\ minted' = [minted EXCEPT ![l] = [secret |-> secret, instance |-> instance]]
    /\ UNCHANGED <<registryVars, ledger, expired, brokerVars, mode, secret, pairings,
                   code, instance, hook, delivered, call, human>>

\* Request authentication against the secret in force, then the mode check.
StartActivate(t, l) ==
    /\ call[t] = Idle
    /\ minted[l].secret # 0
    /\ secret # 0
    /\ mode = "MANAGED_EXCLUSIVE"
    /\ CallGoes(t, [pc |-> "verify", lease |-> l])
    /\ UNCHANGED <<registryVars, ledger, expired, brokerVars, policyVars,
                   hook, delivered, human>>

\* verify(): signature, expiry and instance, with the clock read once.
VerifyLease(t) ==
    /\ call[t].pc = "verify"
    /\ LET l == call[t].lease IN
         CallGoes(t, IF /\ secret # 0
                        /\ minted[l] = [secret |-> secret, instance |-> instance]
                        /\ l \notin expired
                       THEN [pc |-> "consume", lease |-> l, was |-> expired]
                       ELSE Idle)
    /\ UNCHANGED <<registryVars, ledger, expired, brokerVars, policyVars,
                   hook, delivered, human>>

Consume(t) ==
    /\ call[t].pc = "consume"
    /\ ConsumeLease(call[t].lease, call[t].was)
    /\ CallGoes(t, IF Consumable(call[t].lease, call[t].was)
                     THEN [pc |-> "check", lease |-> call[t].lease] ELSE Idle)
    /\ UNCHANGED <<registryVars, expired, brokerVars, policyVars,
                   hook, delivered, human>>

\* Mutant: activate() relies on the expiry check of the verifier.
CheckNothing(t) ==
    /\ call[t].pc = "check"
    /\ CallGoes(t, [call[t] EXCEPT !.pc = "install"])
    /\ UNCHANGED <<registryVars, ledger, expired, brokerVars, policyVars,
                   hook, delivered, human>>

\* The head of activate(): the clock is read and expiry is checked again, but
\* before the registry's lock is taken.
CheckExpiry(t) ==
    /\ call[t].pc = "check"
    /\ CallGoes(t, IF call[t].lease \in expired
                     THEN Idle ELSE [pc |-> "install", lease |-> call[t].lease])
    /\ UNCHANGED <<registryVars, ledger, expired, brokerVars, policyVars,
                   hook, delivered, human>>

\* The locked part: by now the lease may have expired, and it is installed
\* over whatever session there is all the same.
Install(t) ==
    /\ call[t].pc = "install"
    /\ InstallSession(call[t].lease)
    /\ CallGoes(t, Idle)
    /\ UNCHANGED <<ledger, expired, brokerVars, policyVars, hook, delivered, human>>

\* The authenticated calls that present a capability, live or not.
StartNext(t, k) ==
    /\ call[t] = Idle
    /\ secret # 0
    /\ CallGoes(t, [pc |-> "next", cap |-> k])
    /\ UNCHANGED <<registryVars, ledger, expired, brokerVars, policyVars,
                   hook, delivered, human>>

StartRevoke(t, k) ==
    /\ call[t] = Idle
    /\ secret # 0
    /\ CallGoes(t, [pc |-> "revoke", cap |-> k])
    /\ UNCHANGED <<registryVars, ledger, expired, brokerVars, policyVars,
                   hook, delivered, human>>

\* The request identifier comes from an earlier next(); the binding in the
\* call is the manager's own word.
StartComplete(t, k, h, b) ==
    /\ call[t] = Idle
    /\ secret # 0
    /\ h \in assigned
    /\ CallGoes(t, [pc |-> "complete", cap |-> k, request |-> h, for |-> b])
    /\ UNCHANGED <<registryVars, ledger, expired, brokerVars, policyVars,
                   hook, delivered, human>>

StartRead(t, k, b) ==
    /\ call[t] = Idle
    /\ secret # 0
    /\ CallGoes(t, [pc |-> "read", cap |-> k, for |-> b])
    /\ UNCHANGED <<registryVars, ledger, expired, brokerVars, policyVars,
                   hook, delivered, human>>

\* require() of next() and of authority/revoke.
RequireOf(t, then) ==
    \/ RequireGranted(call[t].cap) /\ CallGoes(t, then)
    \/ RequireExpired(call[t].cap) /\ CallGoes(t, Idle)
    \/ RequireRefused(call[t].cap) /\ CallGoes(t, Idle)

RequireNext(t) ==
    /\ call[t].pc = "next"
    /\ RequireOf(t, [pc |-> "poll", cap |-> call[t].cap, lease |-> session])
    /\ UNCHANGED <<ledger, expired, brokerVars, policyVars, hook, delivered, human>>

\* The poll holds on to the session it resolved, for as long as it waits.
PollTakes(t, h) ==
    /\ call[t].pc = "poll"
    /\ Assign(h, call[t].lease)
    /\ CallGoes(t, Idle)
    /\ UNCHANGED <<registryVars, ledger, expired, policyVars, hook, delivered, human>>

PollFindsNothing(t) ==
    /\ call[t].pc = "poll"
    /\ ScanInVain(call[t].lease)
    /\ \/ CallGoes(t, Idle)
       \/ UNCHANGED call
    /\ UNCHANGED <<registryVars, ledger, expired, policyVars, hook, delivered, human>>

\* complete() runs under the broker condition; require() is nested in it and
\* asks for the request's host session and turn and the caller's scope.
Complete(t) ==
    /\ call[t].pc = "complete"
    /\ LET k == call[t].cap
           h == call[t].request
           b == call[t].for
           asked == [Ask[h] EXCEPT !.scope = b.scope]
       IN \/ ~Open(h) /\ UNCHANGED <<registryVars, brokerVars>>
          \/ /\ Open(h)
             /\ RequireRefused(k) \/ RequireExpired(k) \/ RequireMismatched(k, asked)
             /\ UNCHANGED brokerVars
          \/ /\ Open(h)
             /\ RequireCovered(k, asked)
             /\ IF Matches(h, session, b) THEN Record(h, k, b)
                                          ELSE UNCHANGED brokerVars
    /\ CallGoes(t, Idle)
    /\ UNCHANGED <<ledger, expired, policyVars, hook, delivered, human>>

\* library/read: require, then the gate reads the mode and asks for the
\* authority again.  What the read returns is not modelled.
RequireRead(t) ==
    /\ call[t].pc = "read"
    /\ LET k == call[t].cap
           b == call[t].for
       IN \/ /\ RequireRefused(k) \/ RequireExpired(k) \/ RequireMismatched(k, b)
             /\ CallGoes(t, Idle)
          \/ /\ RequireCovered(k, b)
             /\ CallGoes(t, [pc |-> "readMode"])
    /\ UNCHANGED <<ledger, expired, brokerVars, policyVars, hook, delivered, human>>

ReadMode(t) ==
    /\ call[t].pc = "readMode"
    /\ CallGoes(t, IF mode = "DISABLED" THEN Idle ELSE [pc |-> "readAuthority"])
    /\ UNCHANGED <<registryVars, ledger, expired, brokerVars, policyVars,
                   hook, delivered, human>>

\* The registry is asked by the gate of a read and by the status that ends a
\* pairing call; either way a dead session is dropped.
AskAuthority(t) ==
    /\ call[t].pc \in {"readAuthority", "status"}
    /\ DropIfDead
    /\ CallGoes(t, Idle)
    /\ UNCHANGED <<ledger, expired, brokerVars, policyVars, hook, delivered, human>>

\* authority/revoke: require, then registry, then broker.
RequireRevoke(t) ==
    /\ call[t].pc = "revoke"
    /\ RequireOf(t, [pc |-> "clearAuthority"])
    /\ UNCHANGED <<ledger, expired, brokerVars, policyVars, hook, delivered, human>>

RevokeClearsAuthority(t) ==
    /\ call[t].pc = "clearAuthority"
    /\ ClearSession
    /\ CallGoes(t, [pc |-> "clearBroker"])
    /\ UNCHANGED <<ledger, expired, brokerVars, policyVars, hook, delivered, human>>

RevokeClearsBroker(t) ==
    /\ call[t].pc = "clearBroker"
    /\ RevokeAll
    /\ CallGoes(t, Idle)
    /\ UNCHANGED <<registryVars, ledger, expired, policyVars, hook, delivered, human>>

-----------------------------------------------------------------------------
\* Human controls of the Library UI: application._set_access_mode,
\* _revoke_managed_pairing, pairing codes, and the end of the runtime.

SetAccessMode(m) ==
    /\ human = Idle
    /\ ClearSession
    /\ human' = [pc |-> "modeBroker", mode |-> m]
    /\ UNCHANGED <<ledger, expired, brokerVars, policyVars, hook, delivered, call>>

SetModeClearsBroker ==
    /\ human.pc = "modeBroker"
    /\ RevokeAll
    /\ human' = [human EXCEPT !.pc = "modePolicy"]
    /\ UNCHANGED <<registryVars, ledger, expired, policyVars, hook, delivered, call>>

\* The policy file is replaced atomically.
SetModeWritesPolicy ==
    /\ human.pc = "modePolicy"
    /\ mode' = human.mode
    /\ human' = Idle
    /\ UNCHANGED <<registryVars, ledger, expired, brokerVars, secret, pairings, code,
                   instance, minted, hook, delivered, call>>

IssueCode ==
    /\ human = Idle
    /\ pairings < MaxPairings
    /\ code' = "outstanding"
    /\ UNCHANGED <<registryVars, ledger, expired, brokerVars, mode, secret, pairings,
                   instance, minted, hook, delivered, call, human>>

\* pair() with the outstanding code rotates the secret and nothing else: a
\* session installed under the previous secret stays.
Pair(t) ==
    /\ call[t] = Idle
    /\ code = "outstanding"
    /\ code' = "none"
    /\ pairings < MaxPairings
    /\ pairings' = pairings + 1
    /\ secret' = pairings + 1
    /\ CallGoes(t, [pc |-> "status"])
    /\ UNCHANGED <<registryVars, ledger, expired, brokerVars, mode, instance, minted,
                   hook, delivered, human>>

CodeExpires ==
    /\ code = "outstanding"
    /\ code' = "none"
    /\ UNCHANGED <<registryVars, ledger, expired, brokerVars, mode, secret, pairings,
                   instance, minted, hook, delivered, call, human>>

Unpair ==
    /\ human = Idle
    /\ secret' = 0
    /\ code' = "none"
    /\ human' = [pc |-> "unpairAuthority"]
    /\ UNCHANGED <<registryVars, ledger, expired, brokerVars, mode, pairings, instance,
                   minted, hook, delivered, call>>

UnpairClearsAuthority ==
    /\ human.pc = "unpairAuthority"
    /\ ClearSession
    /\ human' = [pc |-> "unpairBroker"]
    /\ UNCHANGED <<ledger, expired, brokerVars, policyVars, hook, delivered, call>>

UnpairClearsBroker ==
    /\ human.pc = "unpairBroker"
    /\ RevokeAll
    /\ human' = Idle
    /\ UNCHANGED <<registryVars, ledger, expired, policyVars, hook, delivered, call>>

\* The Library page and the health snapshot report the managed status.
ReportStatus ==
    /\ DropIfDead
    /\ UNCHANGED <<ledger, expired, brokerVars, accessVars>>

\* stop(): registry, then broker, then the servers; the handler threads are
\* daemons and go on until the process ends.
Stop ==
    /\ human = Idle
    /\ instance < MaxRestarts
    /\ ClearSession
    /\ human' = [pc |-> "stopBroker"]
    /\ UNCHANGED <<ledger, expired, brokerVars, policyVars, hook, delivered, call>>

StopClearsBroker ==
    /\ human.pc = "stopBroker"
    /\ RevokeAll
    /\ human' = [pc |-> "stopped"]
    /\ UNCHANGED <<registryVars, ledger, expired, policyVars, hook, delivered, call>>

\* The process ends, on purpose or not, and the next one starts with nothing
\* in memory and an instance reference of its own.  The policy file and the
\* stored secret survive; connections are lost.
Restart ==
    /\ instance < MaxRestarts
    /\ instance' = instance + 1
    /\ ClearSession
    /\ ledger' = {}
    /\ queue' = {}
    /\ code' = "none"
    /\ hook' = [h \in Hook |-> IF hook[h] = "idle" THEN "idle" ELSE "done"]
    /\ call' = [t \in Call |-> Idle]
    /\ human' = Idle
    /\ UNCHANGED <<expired, manager, assigned, answer, signalled, stale, mode, secret,
                   pairings, minted, delivered>>

-----------------------------------------------------------------------------
\* Time: the disconnect clock, lease expiry and request expiry.

\* A session that has lapsed cannot come back, so its clock stops there.
Tick ==
    /\ session # NoLease
    /\ idle <= DisconnectTimeout
    /\ idle' = idle + 1
    /\ UNCHANGED <<session, capability, issued, granted, ledger, expired, brokerVars,
                   accessVars>>

LeaseExpires(l) ==
    /\ minted[l].secret # 0
    /\ l \notin expired
    /\ expired' = expired \cup {l}
    /\ UNCHANGED <<registryVars, ledger, brokerVars, accessVars>>

RequestExpires(h) ==
    /\ h \in queue \ stale
    /\ stale' = stale \cup {h}
    /\ UNCHANGED <<registryVars, ledger, expired, queue, manager, assigned, answer,
                   signalled, accessVars>>

-----------------------------------------------------------------------------
HookStep(h) ==
    Submit(h) \/ ReadLease(h) \/ ResolveScope(h) \/ Enqueue(h) \/ Collect(h)

CallStep(t) ==
    \/ \E l \in Lease : StartActivate(t, l)
    \/ VerifyLease(t) \/ Consume(t) \/ CheckExpiry(t) \/ Install(t)
    \/ \E k \in 1 .. issued : StartNext(t, k) \/ StartRevoke(t, k)
    \/ \E k \in 1 .. issued, h \in Hook, b \in Binding : StartComplete(t, k, h, b)
    \/ RequireNext(t)
    \/ \E h \in Hook : PollTakes(t, h)
    \/ PollFindsNothing(t)
    \/ Complete(t)
    \/ RequireRevoke(t) \/ RevokeClearsAuthority(t) \/ RevokeClearsBroker(t)
    \/ \E k \in 1 .. issued, b \in Binding : StartRead(t, k, b)
    \/ RequireRead(t) \/ ReadMode(t) \/ AskAuthority(t)
    \/ Pair(t)

HumanStep ==
    \/ \E m \in Selectable : SetAccessMode(m)
    \/ SetModeClearsBroker \/ SetModeWritesPolicy
    \/ IssueCode \/ CodeExpires \/ ReportStatus
    \/ Unpair \/ UnpairClearsAuthority \/ UnpairClearsBroker
    \/ Stop \/ StopClearsBroker \/ Restart

TimeStep ==
    \/ Tick
    \/ \E l \in Lease : LeaseExpires(l)
    \/ \E h \in Hook : RequestExpires(h)

Next ==
    \/ \E h \in Hook : HookStep(h)
    \/ \E t \in Call : CallStep(t)
    \/ \E l \in Lease : MintLease(l)
    \/ HumanStep
    \/ TimeStep

Spec == Init /\ [][Next]_vars

\* Handler threads are scheduled and every wait of a hook call is bounded.
FairSpec ==
    Spec /\ \A h \in Hook : WF_vars(ReadLease(h) \/ ResolveScope(h) \/ Enqueue(h) \/ Collect(h))
=============================================================================
