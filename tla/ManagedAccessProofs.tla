------------------------- MODULE ManagedAccessProofs -------------------------
(***************************************************************************)
(* Proofs about ManagedAccess for every value of its constants: its types, *)
(* its safety properties, and that it implements the exchange of contexts. *)
(* Each property rests on an inductive invariant of its own, which says    *)
(* how the local state of the threads agrees with the registry, the ledger *)
(* and the queue.                                                          *)
(***************************************************************************)
EXTENDS ManagedAccessProperties, TLAPS


\* The local variables of a manager thread, by program counter.
LEMMA CallLocals ==
    ASSUME NEW c \in CallState
    PROVE  /\ c.pc \in {"verify", "check", "install", "consume", "poll"} => c.lease \in Lease
           /\ c.pc = "consume" => c.was \subseteq Lease
           /\ c.pc \in {"next", "revoke", "poll", "complete", "read"} => c.cap \in 0 .. MaxActivations
           /\ c.pc = "complete" => c.request \in Hook /\ c.for \in Binding
           /\ c.pc = "read" => c.for \in Binding
    BY DEF CallState, Idle

\* The states a manager thread is put in.
LEMMA CallStates ==
    /\ Idle \in CallState
    /\ \A l \in Lease :
         /\ [pc |-> "verify", lease |-> l] \in CallState
         /\ [pc |-> "check", lease |-> l] \in CallState
         /\ [pc |-> "install", lease |-> l] \in CallState
         /\ \A W \in SUBSET Lease : [pc |-> "consume", lease |-> l, was |-> W] \in CallState
    /\ \A k \in 0 .. MaxActivations :
         /\ [pc |-> "next", cap |-> k] \in CallState
         /\ [pc |-> "revoke", cap |-> k] \in CallState
         /\ \A l \in Lease : [pc |-> "poll", cap |-> k, lease |-> l] \in CallState
         /\ \A h \in Hook, b \in Binding :
              [pc |-> "complete", cap |-> k, request |-> h, for |-> b] \in CallState
         /\ \A b \in Binding : [pc |-> "read", cap |-> k, for |-> b] \in CallState
    /\ \A s \in {"clearAuthority", "clearBroker", "readMode", "readAuthority", "status"} :
         [pc |-> s] \in CallState
    BY DEF CallState, Idle

\* The states the human's control is put in.
LEMMA HumanStates ==
    /\ Idle \in HumanState
    /\ \A m \in Mode : /\ [pc |-> "modeBroker", mode |-> m] \in HumanState
                       /\ [pc |-> "modePolicy", mode |-> m] \in HumanState
    /\ \A s \in {"unpairAuthority", "unpairBroker", "stopBroker", "stopped"} :
         [pc |-> s] \in HumanState
    /\ \A u \in HumanState :
         /\ u.pc \in {"modeBroker", "modePolicy"} => u.mode \in Mode
         /\ u.pc = "modeBroker" => [u EXCEPT !.pc = "modePolicy"] = [pc |-> "modePolicy", mode |-> u.mode]
    BY DEF HumanState, Idle

-----------------------------------------------------------------------------
\* Type correctness.

\* What leaves a group of variables alone preserves its type.
LEMMA AuthorityFrame ==
    TypeOK /\ UNCHANGED <<registryVars, ledger, expired>> => AuthorityTypeOK'
    BY DEF TypeOK, AuthorityTypeOK, OneActivation, registryVars

LEMMA BrokerFrame == TypeOK /\ UNCHANGED brokerVars => BrokerTypeOK'
    BY DEF TypeOK, BrokerTypeOK, brokerVars

LEMMA PolicyFrame == TypeOK /\ UNCHANGED policyVars => PolicyTypeOK'
    BY DEF TypeOK, PolicyTypeOK, policyVars

\* The critical sections of the registry preserve its type.
LEMMA RegistrySections ==
    ASSUME AuthorityTypeOK, UNCHANGED <<ledger, expired>>,
           \/ UNCHANGED registryVars
           \/ ClearSession
           \/ DropIfDead
           \/ \E k \in Nat : RequireGranted(k) \/ RequireExpired(k) \/ RequireRefused(k)
           \/ \E l \in Lease : InstallSession(l)
    PROVE  AuthorityTypeOK'
<1> USE AuthorityBounds, NoLeaseAssumption DEF AuthorityTypeOK, OneActivation, registryVars
<1>1. CASE UNCHANGED registryVars
  BY <1>1
<1>2. CASE ClearSession
  BY <1>2 DEF ClearSession
<1>3. CASE \E k \in Nat : RequireGranted(k) \/ RequireExpired(k) \/ RequireRefused(k)
  BY <1>3 DEF RequireGranted, RequireExpired, RequireRefused, ClearSession
<1>4. CASE \E l \in Lease : InstallSession(l)
  BY <1>4 DEF InstallSession
<1>5. QED
  BY <1>1, <1>2, <1>3, <1>4 DEF DropIfDead

\* The critical sections of the broker preserve its type.
LEMMA BrokerSections ==
    ASSUME BrokerTypeOK,
           \/ \E h \in Hook : Insert(h) \/ Pop(h)
           \/ \E h \in Hook, l \in Lease : Assign(h, l)
           \/ \E l \in Lease : ScanInVain(l)
           \/ \E h \in Hook, k \in 0 .. MaxActivations, b \in Binding : Record(h, k, b)
           \/ RevokeAll
    PROVE  BrokerTypeOK'
<1> USE DEF BrokerTypeOK, Fresh, WokenByPrune
<1>1. CASE \E h \in Hook : Insert(h) \/ Pop(h)
  BY <1>1 DEF Insert, Pop
<1>2. CASE \E h \in Hook, l \in Lease : Assign(h, l)
  BY <1>2 DEF Assign
<1>3. CASE \E l \in Lease : ScanInVain(l)
  BY <1>3 DEF ScanInVain
<1>4. CASE \E h \in Hook, k \in 0 .. MaxActivations, b \in Binding : Record(h, k, b)
  BY <1>4 DEF Record, Answer
<1>5. CASE RevokeAll
  BY <1>5 DEF RevokeAll
<1>6. QED
  BY <1>1, <1>2, <1>3, <1>4, <1>5

LEMMA HookStepType ==
    ASSUME TypeOK, NEW h \in Hook, HookStep(h)
    PROVE  TypeOK'
<1>1. CASE Submit(h)
  <2>1. ThreadTypeOK'
    BY <1>1 DEF Submit, TypeOK, ThreadTypeOK, HookGoes
  <2>2. QED
    BY <1>1, <2>1, AuthorityFrame, BrokerFrame, PolicyFrame DEF Submit, TypeOK
<1>2. CASE ReadLease(h)
  <2>1. ThreadTypeOK'
    BY <1>2 DEF ReadLease, TypeOK, ThreadTypeOK, HookGoes
  <2>2. AuthorityTypeOK'
    BY <1>2, RegistrySections DEF ReadLease, TypeOK
  <2>3. Live => Grant[session].manager \in Manager
    BY GrantAssumption DEF Live, Connected, TypeOK, AuthorityTypeOK
  <2>4. BrokerTypeOK'
    BY <1>2, <2>3 DEF ReadLease, TypeOK, BrokerTypeOK
  <2>5. QED
    BY <1>2, <2>1, <2>2, <2>4, PolicyFrame DEF ReadLease, TypeOK
<1>3. CASE ResolveScope(h)
  <2>1. ThreadTypeOK'
    BY <1>3 DEF ResolveScope, TypeOK, ThreadTypeOK, HookGoes
  <2>2. AuthorityTypeOK'
    BY <1>3, RegistrySections DEF ResolveScope, TypeOK
  <2>3. QED
    BY <1>3, <2>1, <2>2, BrokerFrame, PolicyFrame DEF ResolveScope, TypeOK
<1>4. CASE Enqueue(h)
  <2>1. ThreadTypeOK'
    BY <1>4 DEF Enqueue, TypeOK, ThreadTypeOK, HookGoes
  <2>2. BrokerTypeOK'
    BY <1>4, BrokerSections DEF Enqueue, TypeOK
  <2>3. QED
    BY <1>4, <2>1, <2>2, AuthorityFrame, PolicyFrame DEF Enqueue, TypeOK
<1>5. CASE Collect(h)
  <2>1. ThreadTypeOK'
    BY <1>5 DEF Collect, TypeOK, ThreadTypeOK, BrokerTypeOK, HookGoes
  <2>2. BrokerTypeOK'
    BY <1>5, BrokerSections DEF Collect, TypeOK
  <2>3. QED
    BY <1>5, <2>1, <2>2, AuthorityFrame, PolicyFrame DEF Collect, TypeOK
<1>6. QED
  BY <1>1, <1>2, <1>3, <1>4, <1>5 DEF HookStep

\* A manager thread that goes to a state of CallState, alone among the threads.
LEMMA ThreadFrame ==
    ASSUME TypeOK, NEW t \in Call, NEW state \in CallState, CallGoes(t, state),
           UNCHANGED <<hook, delivered, human>>
    PROVE  ThreadTypeOK'
    BY DEF TypeOK, ThreadTypeOK, CallGoes

LEMMA CallStepType ==
    ASSUME TypeOK, NEW t \in Call, CallStep(t)
    PROVE  TypeOK'
<1>0. call[t] \in CallState
  BY DEF TypeOK, ThreadTypeOK
<1>a. issued \in 0 .. MaxActivations
  BY DEF TypeOK, AuthorityTypeOK
<1>1. ASSUME NEW l \in Lease, StartActivate(t, l) PROVE TypeOK'
  <2>1. ThreadTypeOK'
    BY <1>1, CallStates, ThreadFrame DEF StartActivate
  <2>2. QED
    BY <1>1, <2>1, AuthorityFrame, BrokerFrame, PolicyFrame DEF StartActivate, TypeOK
<1>2. CASE VerifyLease(t)
  <2>1. ThreadTypeOK'
    <3>1. expired \in SUBSET Lease /\ call[t].lease \in Lease
      BY <1>0, <1>2, CallLocals DEF VerifyLease, TypeOK, AuthorityTypeOK
    <3>2. QED
      BY <1>2, <3>1, CallStates, ThreadFrame DEF VerifyLease
  <2>2. QED
    BY <1>2, <2>1, AuthorityFrame, BrokerFrame, PolicyFrame DEF VerifyLease, TypeOK
<1>3. CASE Consume(t)
  <2>1. call[t].lease \in Lease
    BY <1>0, <1>3, CallLocals DEF Consume
  <2>2. ThreadTypeOK'
    BY <1>3, <2>1, CallStates, ThreadFrame DEF Consume
  <2>3. AuthorityTypeOK'
    BY <1>3, <2>1 DEF Consume, ConsumeLease, Unexpired, TypeOK, AuthorityTypeOK, OneActivation, registryVars
  <2>4. QED
    BY <1>3, <2>2, <2>3, BrokerFrame, PolicyFrame DEF Consume, TypeOK
<1>c. CASE CheckExpiry(t)
  <2>1. ThreadTypeOK'
    <3>1. call[t].lease \in Lease
      BY <1>0, <1>c, CallLocals DEF CheckExpiry
    <3>2. QED
      BY <1>c, <3>1, CallStates, ThreadFrame DEF CheckExpiry
  <2>2. QED
    BY <1>c, <2>1, AuthorityFrame, BrokerFrame, PolicyFrame DEF CheckExpiry, TypeOK
<1>4. CASE Install(t)
  <2>1. call[t].lease \in Lease
    BY <1>0, <1>4, CallLocals DEF Install
  <2>2. ThreadTypeOK'
    BY <1>4, CallStates, ThreadFrame DEF Install
  <2>3. AuthorityTypeOK'
    BY <1>4, <2>1, RegistrySections DEF Install, TypeOK
  <2>4. QED
    BY <1>4, <2>2, <2>3, BrokerFrame, PolicyFrame DEF Install, TypeOK
<1>5. ASSUME NEW k \in 1 .. issued, StartNext(t, k) \/ StartRevoke(t, k) PROVE TypeOK'
  <2>1. k \in 0 .. MaxActivations
    BY <1>a, AuthorityBounds
  <2>2. ThreadTypeOK'
    BY <1>5, <2>1, CallStates, ThreadFrame DEF StartNext, StartRevoke
  <2>3. QED
    BY <1>5, <2>2, AuthorityFrame, BrokerFrame, PolicyFrame DEF StartNext, StartRevoke, TypeOK
<1>6. ASSUME NEW k \in 1 .. issued, NEW h \in Hook, NEW b \in Binding, StartComplete(t, k, h, b)
      PROVE  TypeOK'
  <2>1. k \in 0 .. MaxActivations
    BY <1>a, AuthorityBounds
  <2>2. [pc |-> "complete", cap |-> k, request |-> h, for |-> b] \in CallState
    BY <2>1, CallStates
  <2>3. ThreadTypeOK'
    BY <1>6, <2>2, ThreadFrame DEF StartComplete
  <2>4. QED
    BY <1>6, <2>3, AuthorityFrame, BrokerFrame, PolicyFrame DEF StartComplete, TypeOK
<1>7. ASSUME NEW then, RequireOf(t, then), Presents(call[t].cap) => then \in CallState,
             call[t].cap \in 0 .. MaxActivations,
             UNCHANGED <<ledger, expired, brokerVars, policyVars, hook, delivered, human>>
      PROVE  TypeOK'
  <2>1. ThreadTypeOK'
    BY <1>7, CallStates, ThreadFrame DEF RequireOf, RequireGranted
  <2>2. AuthorityTypeOK'
    BY <1>7, RegistrySections, AuthorityBounds DEF RequireOf, TypeOK
  <2>3. QED
    BY <1>7, <2>1, <2>2, BrokerFrame, PolicyFrame DEF TypeOK
<1>8. CASE RequireNext(t)
  <2>1. call[t].cap \in 0 .. MaxActivations
    BY <1>0, <1>8, CallLocals DEF RequireNext
  <2>2. Presents(call[t].cap) => session \in Lease
    BY DEF Presents, Connected, TypeOK, AuthorityTypeOK
  <2>3. QED
    BY <1>7, <1>8, <2>1, <2>2, CallStates DEF RequireNext
<1>9. CASE RequireRevoke(t)
  <2>1. call[t].cap \in 0 .. MaxActivations
    BY <1>0, <1>9, CallLocals DEF RequireRevoke
  <2>2. QED
    BY <1>7, <1>9, <2>1, CallStates DEF RequireRevoke
<1>10. ASSUME NEW h \in Hook, PollTakes(t, h) PROVE TypeOK'
  <2>1. ThreadTypeOK'
    BY <1>10, CallStates, ThreadFrame DEF PollTakes
  <2>2. BrokerTypeOK'
    BY <1>0, <1>10, BrokerSections, CallLocals DEF PollTakes, TypeOK
  <2>3. QED
    BY <1>10, <2>1, <2>2, AuthorityFrame, PolicyFrame DEF PollTakes, TypeOK
<1>11. CASE PollFindsNothing(t)
  <2>1. ThreadTypeOK'
    BY <1>11, CallStates, ThreadFrame DEF PollFindsNothing, TypeOK, ThreadTypeOK
  <2>2. BrokerTypeOK'
    BY <1>0, <1>11, BrokerSections, CallLocals DEF PollFindsNothing, TypeOK
  <2>3. QED
    BY <1>11, <2>1, <2>2, AuthorityFrame, PolicyFrame DEF PollFindsNothing, TypeOK
<1>12. CASE Complete(t)
  <2>1. /\ call[t].cap \in 0 .. MaxActivations
        /\ call[t].request \in Hook
        /\ call[t].for \in Binding
    BY <1>0, <1>12, CallLocals DEF Complete
  <2>2. ThreadTypeOK'
    BY <1>12, CallStates, ThreadFrame DEF Complete
  <2>3. AuthorityTypeOK'
    <3>1. call[t].cap \in Nat
      BY <2>1, AuthorityBounds
    <3>2. \/ UNCHANGED registryVars
          \/ RequireGranted(call[t].cap) \/ RequireExpired(call[t].cap) \/ RequireRefused(call[t].cap)
      BY <1>12, Zenon DEF Complete, RequireCovered, RequireMismatched
    <3>3. QED
      BY <1>12, <3>1, <3>2, RegistrySections DEF Complete, TypeOK
  <2>4. BrokerTypeOK'
    <3>1. UNCHANGED brokerVars \/ Record(call[t].request, call[t].cap, call[t].for)
      BY <1>12, Zenon DEF Complete
    <3>2. QED
      BY <2>1, <3>1, BrokerFrame, BrokerSections DEF TypeOK
  <2>5. QED
    BY <1>12, <2>2, <2>3, <2>4, PolicyFrame DEF Complete, TypeOK
<1>13. CASE RevokeClearsAuthority(t)
  <2>1. ThreadTypeOK'
    BY <1>13, CallStates, ThreadFrame DEF RevokeClearsAuthority
  <2>2. AuthorityTypeOK'
    BY <1>13, RegistrySections DEF RevokeClearsAuthority, TypeOK
  <2>3. QED
    BY <1>13, <2>1, <2>2, BrokerFrame, PolicyFrame DEF RevokeClearsAuthority, TypeOK
<1>14. CASE RevokeClearsBroker(t)
  <2>1. ThreadTypeOK'
    BY <1>14, CallStates, ThreadFrame DEF RevokeClearsBroker
  <2>2. BrokerTypeOK'
    BY <1>14, BrokerSections DEF RevokeClearsBroker, TypeOK
  <2>3. QED
    BY <1>14, <2>1, <2>2, AuthorityFrame, PolicyFrame DEF RevokeClearsBroker, TypeOK
<1>15. ASSUME NEW k \in 1 .. issued, NEW b \in Binding, StartRead(t, k, b) PROVE TypeOK'
  <2>1. k \in 0 .. MaxActivations
    BY <1>a, AuthorityBounds
  <2>2. ThreadTypeOK'
    BY <1>15, <2>1, CallStates, ThreadFrame DEF StartRead
  <2>3. QED
    BY <1>15, <2>2, AuthorityFrame, BrokerFrame, PolicyFrame DEF StartRead, TypeOK
<1>16. CASE RequireRead(t)
  <2>1. call[t].cap \in Nat
    BY <1>0, <1>16, CallLocals, AuthorityBounds DEF RequireRead
  <2>2. ThreadTypeOK'
    BY <1>16, CallStates, ThreadFrame DEF RequireRead
  <2>3. AuthorityTypeOK'
    <3>1. \/ UNCHANGED registryVars
          \/ RequireGranted(call[t].cap) \/ RequireExpired(call[t].cap) \/ RequireRefused(call[t].cap)
      BY <1>16, Zenon DEF RequireRead, RequireCovered, RequireMismatched
    <3>2. QED
      BY <1>16, <2>1, <3>1, RegistrySections DEF RequireRead, TypeOK
  <2>4. QED
    BY <1>16, <2>2, <2>3, BrokerFrame, PolicyFrame DEF RequireRead, TypeOK
<1>17. CASE ReadMode(t)
  <2>1. ThreadTypeOK'
    BY <1>17, CallStates, ThreadFrame DEF ReadMode
  <2>2. QED
    BY <1>17, <2>1, AuthorityFrame, BrokerFrame, PolicyFrame DEF ReadMode, TypeOK
<1>18. CASE AskAuthority(t)
  <2>1. ThreadTypeOK'
    BY <1>18, CallStates, ThreadFrame DEF AskAuthority
  <2>2. AuthorityTypeOK'
    BY <1>18, RegistrySections DEF AskAuthority, TypeOK
  <2>3. QED
    BY <1>18, <2>1, <2>2, BrokerFrame, PolicyFrame DEF AskAuthority, TypeOK
<1>19. CASE Pair(t)
  <2>1. ThreadTypeOK'
    BY <1>19, CallStates, ThreadFrame DEF Pair
  <2>2. PolicyTypeOK'
    BY <1>19, AccessBounds DEF Pair, TypeOK, PolicyTypeOK
  <2>3. QED
    BY <1>19, <2>1, <2>2, AuthorityFrame, BrokerFrame DEF Pair, TypeOK
<1>20. QED
  BY <1>1, <1>2, <1>3, <1>c, <1>4, <1>5, <1>6, <1>8, <1>9, <1>10, <1>11, <1>12, <1>13, <1>14,
     <1>15, <1>16, <1>17, <1>18, <1>19
  DEF CallStep

LEMMA ThreadsAlone == TypeOK /\ UNCHANGED <<hook, delivered, call, human>> => ThreadTypeOK'
    BY DEF TypeOK, ThreadTypeOK

LEMMA HumanStepType ==
    ASSUME TypeOK, HumanStep
    PROVE  TypeOK'
<1> DEFINE Controls == human' \in HumanState /\ UNCHANGED <<hook, delivered, call>>
<1>1. Controls => ThreadTypeOK'
  BY DEF TypeOK, ThreadTypeOK
<1>h. human \in HumanState
  BY DEF TypeOK, ThreadTypeOK
<1> HIDE DEF Controls
<1>2. ASSUME ClearSession, Controls, UNCHANGED <<ledger, expired, brokerVars, policyVars>>
      PROVE  TypeOK'
  BY <1>1, <1>2, RegistrySections, BrokerFrame, PolicyFrame DEF TypeOK
<1>3. ASSUME RevokeAll, Controls, UNCHANGED <<registryVars, ledger, expired, policyVars>>
      PROVE  TypeOK'
  BY <1>1, <1>3, BrokerSections, AuthorityFrame, PolicyFrame DEF TypeOK
<1>4. ASSUME PolicyTypeOK', Controls, UNCHANGED <<registryVars, ledger, expired, brokerVars>>
      PROVE  TypeOK'
  BY <1>1, <1>4, BrokerFrame, AuthorityFrame DEF TypeOK
<1>5. ASSUME NEW m \in Selectable, SetAccessMode(m) PROVE TypeOK'
  <2>1. Controls
    BY <1>5, HumanStates, AccessBounds DEF SetAccessMode, Controls
  <2>2. QED
    BY <1>2, <1>5, <2>1 DEF SetAccessMode
<1>6. CASE SetModeClearsBroker
  <2>1. Controls
    <3>1. human' \in HumanState
      <4>1. human.pc = "modeBroker" /\ human' = [human EXCEPT !.pc = "modePolicy"]
        BY <1>6 DEF SetModeClearsBroker
      <4>2. human.mode \in Mode /\ human' = [pc |-> "modePolicy", mode |-> human.mode]
        BY <1>h, <4>1, HumanStates
      <4>3. QED
        BY <4>2, HumanStates
    <3>2. QED
      BY <1>6, <3>1 DEF SetModeClearsBroker, Controls
  <2>2. QED
    BY <1>3, <1>6, <2>1 DEF SetModeClearsBroker
<1>7. CASE SetModeWritesPolicy
  <2>1. Controls
    BY <1>7, HumanStates DEF SetModeWritesPolicy, Controls
  <2>2. PolicyTypeOK'
    BY <1>7, <1>h, HumanStates DEF SetModeWritesPolicy, TypeOK, PolicyTypeOK
  <2>3. QED
    BY <1>4, <1>7, <2>1, <2>2 DEF SetModeWritesPolicy
<1>8. CASE IssueCode \/ CodeExpires
  <2>1. Controls
    BY <1>8, <1>h DEF IssueCode, CodeExpires, Controls
  <2>2. PolicyTypeOK'
    BY <1>8, AccessBounds DEF IssueCode, CodeExpires, TypeOK, PolicyTypeOK
  <2>3. QED
    BY <1>4, <1>8, <2>1, <2>2 DEF IssueCode, CodeExpires
<1>9. CASE Unpair
  <2>1. Controls
    BY <1>9, HumanStates DEF Unpair, Controls
  <2>2. PolicyTypeOK'
    BY <1>9, AccessBounds DEF Unpair, TypeOK, PolicyTypeOK
  <2>3. QED
    BY <1>4, <1>9, <2>1, <2>2 DEF Unpair
<1>10. CASE UnpairClearsAuthority
  BY <1>2, <1>10, HumanStates DEF UnpairClearsAuthority, Controls
<1>11. CASE UnpairClearsBroker
  BY <1>3, <1>11, HumanStates DEF UnpairClearsBroker, Controls
<1>12. CASE Stop
  BY <1>2, <1>12, HumanStates DEF Stop, Controls
<1>13. CASE StopClearsBroker
  BY <1>3, <1>13, HumanStates DEF StopClearsBroker, Controls
<1>14. CASE Restart
  <2>1. ThreadTypeOK'
    BY <1>14, CallStates, HumanStates DEF Restart, TypeOK, ThreadTypeOK
  <2>2. AuthorityTypeOK'
    BY <1>14, AuthorityBounds DEF Restart, ClearSession, TypeOK, AuthorityTypeOK, OneActivation
  <2>3. BrokerTypeOK'
    BY <1>14 DEF Restart, TypeOK, BrokerTypeOK
  <2>4. PolicyTypeOK'
    BY <1>14, AccessBounds DEF Restart, TypeOK, PolicyTypeOK
  <2>5. QED
    BY <2>1, <2>2, <2>3, <2>4 DEF TypeOK
<1>15. CASE ReportStatus
  <2>1. AuthorityTypeOK'
    BY <1>15, RegistrySections DEF ReportStatus, TypeOK
  <2>2. QED
    BY <1>15, <2>1, BrokerFrame, PolicyFrame, ThreadsAlone DEF ReportStatus, accessVars, TypeOK
<1>16. QED
  BY <1>5, <1>6, <1>7, <1>8, <1>9, <1>10, <1>11, <1>12, <1>13, <1>14, <1>15 DEF HumanStep

LEMMA TimeStepType ==
    ASSUME TypeOK, TimeStep
    PROVE  TypeOK'
<1>1. CASE Tick
  <2>1. AuthorityTypeOK'
    BY <1>1, AuthorityBounds DEF Tick, TypeOK, AuthorityTypeOK, OneActivation
  <2>2. QED
    BY <1>1, <2>1, BrokerFrame, PolicyFrame, ThreadsAlone DEF Tick, accessVars, TypeOK
<1>2. ASSUME NEW l \in Lease, LeaseExpires(l) PROVE TypeOK'
  <2>1. AuthorityTypeOK'
    BY <1>2 DEF LeaseExpires, TypeOK, AuthorityTypeOK, OneActivation, registryVars
  <2>2. QED
    BY <1>2, <2>1, BrokerFrame, PolicyFrame, ThreadsAlone DEF LeaseExpires, accessVars, TypeOK
<1>3. ASSUME NEW h \in Hook, RequestExpires(h) PROVE TypeOK'
  <2>1. BrokerTypeOK'
    BY <1>3 DEF RequestExpires, TypeOK, BrokerTypeOK
  <2>2. QED
    BY <1>3, <2>1, AuthorityFrame, PolicyFrame, ThreadsAlone DEF RequestExpires, accessVars, TypeOK
<1>4. QED
  BY <1>1, <1>2, <1>3 DEF TimeStep

LEMMA MintType ==
    ASSUME TypeOK, NEW l \in Lease, MintLease(l)
    PROVE  TypeOK'
<1>1. PolicyTypeOK'
  BY DEF MintLease, TypeOK, PolicyTypeOK
<1>2. QED
  BY <1>1, AuthorityFrame, BrokerFrame, ThreadsAlone DEF MintLease, TypeOK

\* Every variable of the registry, the broker, the threads and the controls
\* keeps its type: the session, its token, its clock and the thread locals
\* that carry leases and capabilities from one critical section to the next.
THEOREM TypeCorrect == Spec => []TypeOK
<1>1. Init => TypeOK
  <2>1. AuthorityInit => AuthorityTypeOK
    BY AuthorityBounds, NoLeaseAssumption DEF AuthorityInit, AuthorityTypeOK, OneActivation
  <2>2. BrokerInit => BrokerTypeOK
    BY DEF BrokerInit, BrokerTypeOK
  <2>3. Init => PolicyTypeOK
    BY AccessBounds DEF Init, PolicyTypeOK, Mode
  <2>4. Init => ThreadTypeOK
    BY CallStates, HumanStates DEF Init, ThreadTypeOK
  <2>5. QED
    BY <2>1, <2>2, <2>3, <2>4 DEF Init, TypeOK
<1>2. TypeOK /\ [Next]_vars => TypeOK'
  <2>1. TypeOK /\ UNCHANGED vars => TypeOK'
    BY AuthorityFrame, BrokerFrame, PolicyFrame, ThreadsAlone DEF TypeOK, vars, accessVars
  <2>2. QED
    BY <2>1, HookStepType, CallStepType, HumanStepType, TimeStepType, MintType DEF Next
<1>3. QED
  BY <1>1, <1>2, PTL DEF Spec

-----------------------------------------------------------------------------
\* Nobody sleeps for nothing.

Early == {"idle", "admitted", "leased", "resolved"}

\* A request in the queue has a hook that waits for it, and a hook that has
\* not queued its request yet has no answer.
QueueInv ==
    /\ \A h \in queue : hook[h] = "waiting"
    /\ \A h \in Hook : hook[h] \in Early => answer[h] = NoAnswer
    /\ NoStrandedHook

queueVars == <<hook, queue, answer, signalled>>

\* The steps that change what QueueInv is about.
QueueStep ==
    \/ \E h \in Hook : Submit(h) \/ ReadLease(h) \/ ResolveScope(h) \/ Enqueue(h) \/ Collect(h)
    \/ /\ UNCHANGED <<hook, answer>>
       /\ queue' = Fresh
       /\ signalled' = WokenByPrune
    \/ /\ UNCHANGED hook
       /\ \E h \in Hook, k \in Nat, b \in Binding : Open(h) /\ Record(h, k, b)
    \/ UNCHANGED hook /\ RevokeAll
    \/ Restart

LEMMA QueueSteps ==
    ASSUME TypeOK, [Next]_vars
    PROVE  UNCHANGED queueVars \/ QueueStep
<1> USE DEF queueVars, brokerVars, policyVars, accessVars
<1>1. CASE UNCHANGED vars
  BY <1>1 DEF vars
<1>2. ASSUME NEW h \in Hook, HookStep(h) PROVE QueueStep
  BY <1>2 DEF HookStep, QueueStep
<1>3. ASSUME NEW t \in Call, CallStep(t) PROVE UNCHANGED queueVars \/ QueueStep
  <2>1. CASE Complete(t)
    <3>1. call[t] \in CallState /\ call[t].pc = "complete"
      BY <2>1 DEF Complete, TypeOK, ThreadTypeOK
    <3>2. call[t].request \in Hook /\ call[t].cap \in Nat /\ call[t].for \in Binding
      BY <3>1, CallLocals, AuthorityBounds
    <3>3. \/ UNCHANGED brokerVars
          \/ Open(call[t].request) /\ Record(call[t].request, call[t].cap, call[t].for)
      BY <2>1, Zenon DEF Complete
    <3>4. UNCHANGED hook
      BY <2>1 DEF Complete
    <3>5. QED
      BY <3>2, <3>3, <3>4 DEF QueueStep
  <2>2. ASSUME NEW h \in Hook, PollTakes(t, h) PROVE QueueStep
    BY <2>2 DEF PollTakes, Assign, QueueStep
  <2>3. CASE PollFindsNothing(t)
    BY <2>3 DEF PollFindsNothing, ScanInVain, QueueStep
  <2>4. CASE RevokeClearsBroker(t)
    BY <2>4 DEF RevokeClearsBroker, QueueStep
  <2>5. CASE \/ \E l \in Lease : StartActivate(t, l)
             \/ VerifyLease(t) \/ Consume(t) \/ CheckExpiry(t) \/ Install(t)
             \/ \E k \in 1 .. issued : StartNext(t, k) \/ StartRevoke(t, k)
             \/ \E k \in 1 .. issued, h \in Hook, b \in Binding : StartComplete(t, k, h, b)
             \/ \E k \in 1 .. issued, b \in Binding : StartRead(t, k, b)
    BY <2>5 DEF StartActivate, VerifyLease, Consume, CheckExpiry, Install, StartNext, StartRevoke,
                StartComplete, StartRead
  <2>6. CASE \/ RequireNext(t) \/ RequireRevoke(t) \/ RequireRead(t) \/ ReadMode(t)
             \/ AskAuthority(t) \/ RevokeClearsAuthority(t) \/ Pair(t)
    BY <2>6 DEF RequireNext, RequireRevoke, RequireRead, ReadMode, AskAuthority,
                RevokeClearsAuthority, Pair
  <2>7. QED
    BY <1>3, <2>1, <2>2, <2>3, <2>4, <2>5, <2>6 DEF CallStep
<1>4. ASSUME NEW l \in Lease, MintLease(l) PROVE UNCHANGED queueVars
  BY <1>4 DEF MintLease
<1>5. CASE HumanStep
  <2>1. CASE SetModeClearsBroker \/ UnpairClearsBroker \/ StopClearsBroker \/ Restart
    BY <2>1 DEF SetModeClearsBroker, UnpairClearsBroker, StopClearsBroker, QueueStep
  <2>2. CASE \/ \E m \in Selectable : SetAccessMode(m)
             \/ SetModeWritesPolicy \/ IssueCode \/ CodeExpires \/ ReportStatus
             \/ Unpair \/ UnpairClearsAuthority \/ Stop
    BY <2>2 DEF SetAccessMode, SetModeWritesPolicy, IssueCode, CodeExpires, ReportStatus,
                Unpair, UnpairClearsAuthority, Stop
  <2>3. QED
    BY <1>5, <2>1, <2>2 DEF HumanStep
<1>6. CASE TimeStep
  BY <1>6 DEF TimeStep, Tick, LeaseExpires, RequestExpires
<1>7. QED
  BY <1>1, <1>2, <1>3, <1>4, <1>5, <1>6 DEF Next

\* Inductive: what is queued has a hook that waits for it, and a hook that has
\* queued nothing has no answer yet (ManagedContextBroker.request).
THEOREM QueueInvariant == Spec => []QueueInv
<1>1. Init => QueueInv
  BY DEF Init, BrokerInit, QueueInv, NoStrandedHook
<1>2. ASSUME TypeOK, QueueInv, [Next]_vars PROVE QueueInv'
  <2> USE DEF QueueInv, NoStrandedHook, Early
  <2>0. hook \in [Hook -> {"idle", "admitted", "leased", "resolved", "waiting", "done"}]
    BY <1>2 DEF TypeOK, ThreadTypeOK
  <2>1. CASE UNCHANGED queueVars
    BY <1>2, <2>1 DEF queueVars
  <2>2. ASSUME NEW h \in Hook, Submit(h) \/ ReadLease(h) \/ ResolveScope(h) PROVE QueueInv'
    <3>1. UNCHANGED <<queue, answer, signalled>> /\ hook[h] \in Early
      BY <2>2 DEF Submit, ReadLease, ResolveScope, brokerVars
    <3>2. PICK pc \in {"admitted", "leased", "resolved", "done"} :
            hook' = [hook EXCEPT ![h] = pc]
      BY <2>2, Zenon DEF Submit, ReadLease, ResolveScope, HookGoes
    <3>3. QED
      BY <1>2, <2>0, <3>1, <3>2
  <2>3. ASSUME NEW h \in Hook, Enqueue(h) PROVE QueueInv'
    BY <1>2, <2>0, <2>3 DEF Enqueue, Insert, Fresh, WokenByPrune, HookGoes
  <2>4. ASSUME NEW h \in Hook, Collect(h) PROVE QueueInv'
    BY <1>2, <2>0, <2>4 DEF Collect, Pop, HookGoes
  <2>5. CASE /\ UNCHANGED <<hook, answer>>
             /\ queue' = Fresh
             /\ signalled' = WokenByPrune
    BY <1>2, <2>5 DEF Fresh, WokenByPrune
  <2>6. ASSUME UNCHANGED hook,
               NEW h \in Hook, NEW k \in Nat, NEW b \in Binding, Open(h), Record(h, k, b)
        PROVE  QueueInv'
    <3>1. answer \in [Hook -> Answer \cup {NoAnswer}]
      BY <1>2 DEF TypeOK, BrokerTypeOK
    <3>2. hook[h] = "waiting"
      BY <1>2, <2>6 DEF Open
    <3>3. QED
      BY <1>2, <2>6, <3>1, <3>2 DEF Record
  <2>7. CASE UNCHANGED hook /\ RevokeAll
    BY <1>2, <2>7 DEF RevokeAll
  <2>8. CASE Restart
    BY <1>2, <2>0, <2>8 DEF Restart
  <2>9. QED
    BY <1>2, <2>1, <2>2, <2>3, <2>4, <2>5, <2>6, <2>7, <2>8, QueueSteps DEF QueueStep
<1>3. QED
  BY <1>1, <1>2, TypeCorrect, PTL DEF Spec

\* NoStrandedHook: revoke(), pruning and complete() wake what they touch, and
\* only a hook that waits can be touched.
THEOREM HooksAreWoken == Spec => []NoStrandedHook
<1>1. QueueInv => NoStrandedHook
  BY DEF QueueInv
<1>2. QED
  BY <1>1, QueueInvariant, PTL

-----------------------------------------------------------------------------
\* A lease is installed once.

\* Where a lease may be between its verification and its installation, and
\* why one that has been installed, or is about to be, cannot come past the
\* second check again: it is in the ledger, or has expired, or was signed for
\* an earlier instance.
ReplayInv ==
    /\ \A l \in Lease : minted[l].instance <= instance
    /\ \A t \in Call :
         /\ call[t].pc \in {"consume", "check", "install"} =>
              /\ minted[call[t].lease].secret # 0
              /\ minted[call[t].lease].instance = instance
         /\ call[t].pc = "consume" => call[t].was \subseteq expired
         /\ call[t].pc \in {"check", "install"} => call[t].lease \in ledger \cup expired
         /\ \A k \in 1 .. issued :
              granted[k] = call[t].lease =>
                /\ call[t].pc = "check" => call[t].lease \in expired
                /\ call[t].pc # "install"
    /\ \A t, u \in Call :
         /\ call[t].pc = "check"
         /\ call[u].pc \in {"check", "install"}
         /\ call[t].lease = call[u].lease
         /\ t # u
         => call[t].lease \in expired
    /\ \A t, u \in Call :
         /\ call[t].pc = "install"
         /\ call[u].pc = "install"
         /\ t # u
         => call[t].lease # call[u].lease
    /\ \A k \in 1 .. issued :
         /\ granted[k] \in Lease
         /\ minted[granted[k]].secret # 0
         /\ \/ granted[k] \in ledger \cup expired
            \/ minted[granted[k]].instance < instance
    /\ LeaseActivatedOnce

\* A step that leaves leases alone, except that one may expire.
LeaseFrame ==
    /\ UNCHANGED <<minted, instance, ledger, issued, granted>>
    /\ expired \subseteq expired'
    /\ \A t \in Call : call'[t] = call[t] \/ call'[t].pc \notin {"consume", "check", "install"}

\* Every step is one of seven for the leases.
LEMMA LeaseSteps ==
    ASSUME TypeOK, [Next]_vars
    PROVE  \/ LeaseFrame
           \/ \E l \in Lease : MintLease(l)
           \/ \E t \in Call : VerifyLease(t) \/ Consume(t) \/ CheckExpiry(t) \/ Install(t)
           \/ Restart
<1> USE DEF LeaseFrame, registryVars, policyVars, accessVars
<1>0. call \in [Call -> CallState] /\ Idle.pc = "idle"
  BY DEF TypeOK, ThreadTypeOK, Idle
<1>1. CASE UNCHANGED vars
  BY <1>1 DEF vars
<1>r. ASSUME ClearSession \/ DropIfDead \/ (\E k \in Nat : RequireGranted(k) \/ RequireExpired(k)
                                           \/ RequireRefused(k))
      PROVE  UNCHANGED <<issued, granted>>
  BY <1>r DEF ClearSession, DropIfDead, RequireGranted, RequireExpired, RequireRefused
<1>2. ASSUME NEW h \in Hook, HookStep(h) PROVE LeaseFrame
  BY <1>2, <1>r DEF HookStep, Submit, ReadLease, ResolveScope, Enqueue, Collect
<1>3. ASSUME NEW t \in Call, CallStep(t)
      PROVE  LeaseFrame \/ VerifyLease(t) \/ Consume(t) \/ CheckExpiry(t) \/ Install(t)
  <2>0. ASSUME NEW state, CallGoes(t, state), state.pc \notin {"consume", "check", "install"}
        PROVE  \A u \in Call : call'[u] = call[u] \/ call'[u].pc \notin {"consume", "check", "install"}
    BY <1>0, <2>0 DEF CallGoes
  <2>1. CASE \E l \in Lease : StartActivate(t, l)
    BY <2>0, <2>1 DEF StartActivate
  <2>2. CASE \E k \in 1 .. issued : StartNext(t, k) \/ StartRevoke(t, k)
    BY <2>0, <2>2 DEF StartNext, StartRevoke
  <2>3. CASE \E k \in 1 .. issued, h \in Hook, b \in Binding : StartComplete(t, k, h, b)
    BY <2>0, <2>3 DEF StartComplete
  <2>4. CASE \E k \in 1 .. issued, b \in Binding : StartRead(t, k, b)
    BY <2>0, <2>4 DEF StartRead
  <2>5. CASE RequireNext(t) \/ RequireRevoke(t)
    <3>1. call[t].cap \in Nat
      BY <1>0, <2>5, CallLocals, AuthorityBounds DEF RequireNext, RequireRevoke
    <3>2. QED
      BY <1>0, <1>r, <2>0, <2>5, <3>1 DEF RequireNext, RequireRevoke, RequireOf
  <2>6. CASE RequireRead(t)
    <3>1. call[t].cap \in Nat
      BY <1>0, <2>6, CallLocals, AuthorityBounds DEF RequireRead
    <3>2. UNCHANGED <<issued, granted>>
      BY <1>r, <2>6, <3>1 DEF RequireRead, RequireCovered, RequireMismatched
    <3>3. CallGoes(t, Idle) \/ CallGoes(t, [pc |-> "readMode"])
      BY <2>6, Zenon DEF RequireRead
    <3>4. QED
      BY <1>0, <2>0, <2>6, <3>2, <3>3 DEF RequireRead
  <2>7. CASE ReadMode(t) \/ AskAuthority(t) \/ Pair(t)
    BY <1>0, <1>r, <2>0, <2>7 DEF ReadMode, AskAuthority, Pair
  <2>8. CASE RevokeClearsAuthority(t) \/ RevokeClearsBroker(t)
    BY <1>0, <1>r, <2>0, <2>8 DEF RevokeClearsAuthority, RevokeClearsBroker
  <2>9. CASE (\E h \in Hook : PollTakes(t, h)) \/ PollFindsNothing(t)
    BY <1>0, <2>0, <2>9 DEF PollTakes, PollFindsNothing
  <2>10. CASE Complete(t)
    <3>1. call[t].cap \in Nat
      BY <1>0, <2>10, CallLocals, AuthorityBounds DEF Complete
    <3>2. UNCHANGED <<issued, granted>>
      BY <1>r, <2>10, <3>1 DEF Complete, RequireCovered, RequireMismatched
    <3>3. QED
      BY <1>0, <2>0, <2>10, <3>2 DEF Complete
  <2>11. QED
    BY <1>3, <2>1, <2>2, <2>3, <2>4, <2>5, <2>6, <2>7, <2>8, <2>9, <2>10 DEF CallStep
<1>4. CASE HumanStep
  <2>1. CASE \/ \E m \in Selectable : SetAccessMode(m)
             \/ UnpairClearsAuthority \/ Stop \/ ReportStatus
    BY <1>r, <2>1 DEF SetAccessMode, UnpairClearsAuthority, Stop, ReportStatus
  <2>2. CASE \/ SetModeClearsBroker \/ SetModeWritesPolicy \/ IssueCode \/ CodeExpires
             \/ Unpair \/ UnpairClearsBroker \/ StopClearsBroker
    BY <2>2 DEF SetModeClearsBroker, SetModeWritesPolicy, IssueCode, CodeExpires, Unpair,
                UnpairClearsBroker, StopClearsBroker
  <2>3. QED
    BY <1>4, <2>1, <2>2 DEF HumanStep
<1>5. CASE TimeStep
  BY <1>5 DEF TimeStep, Tick, LeaseExpires, RequestExpires
<1>6. QED
  BY <1>1, <1>2, <1>3, <1>4, <1>5 DEF Next

\* Of two threads that verified one lease only the first finds it consumable,
\* unless another thread pruned it; then it has expired, and activate() finds
\* that out when it checks again.
THEOREM ReplayInvariant == Spec => []ReplayInv
<1>1. Init => ReplayInv
  BY DEF Init, AuthorityInit, ReplayInv, LeaseActivatedOnce, Idle
<1>2. ASSUME TypeOK, ReplayInv, [Next]_vars PROVE ReplayInv'
  <2>t. /\ call \in [Call -> CallState]
        /\ minted \in [Lease -> [secret : 0 .. MaxPairings, instance : 0 .. MaxRestarts]]
        /\ instance \in Nat /\ issued \in Nat /\ MaxActivations \in Nat
        /\ granted \in [1 .. MaxActivations -> Lease \cup {NoLease}]
        /\ issued \in 0 .. MaxActivations
    BY <1>2, AuthorityBounds, AccessBounds DEF TypeOK, AuthorityTypeOK, PolicyTypeOK, ThreadTypeOK
  <2>l. \A t \in Call : call[t].pc \in {"verify", "consume", "check", "install"} => call[t].lease \in Lease
    BY <2>t, CallLocals
  <2>1. CASE LeaseFrame
    BY <1>2, <2>1 DEF LeaseFrame, ReplayInv, LeaseActivatedOnce
  <2>2. ASSUME NEW l \in Lease, MintLease(l) PROVE ReplayInv'
    <3>1. /\ UNCHANGED <<instance, call, ledger, expired, issued, granted>>
          /\ \A m \in Lease : minted'[m] = minted[m] \/ (m = l /\ minted[m].secret = 0)
          /\ minted'[l].instance = instance
      BY <2>t, <2>2 DEF MintLease, registryVars
    <3>2. \A m \in Lease : minted[m].secret # 0 => minted'[m] = minted[m]
      BY <3>1
    <3>3. ASSUME NEW m \in Lease PROVE minted'[m].instance <= instance
      <4>1. CASE minted'[m] = minted[m]
        BY <1>2, <4>1 DEF ReplayInv
      <4>2. CASE minted'[m] # minted[m]
        BY <2>t, <3>1, <4>2
      <4>3. QED
        BY <4>1, <4>2
    <3>4. QED
      BY <1>2, <2>l, <3>1, <3>2, <3>3 DEF ReplayInv, LeaseActivatedOnce
  <2>3. ASSUME NEW t \in Call, VerifyLease(t) PROVE ReplayInv'
    <3>1. /\ UNCHANGED <<minted, instance, ledger, expired, issued, granted>>
          /\ \A u \in Call : u # t => call'[u] = call[u]
          /\ call'[t].pc \notin {"check", "install"}
          /\ call'[t].pc = "consume" =>
               /\ call'[t].was = expired
               /\ minted[call'[t].lease].secret # 0
               /\ minted[call'[t].lease].instance = instance
      BY <2>t, <2>3 DEF VerifyLease, CallGoes, Idle, registryVars, policyVars
    <3>2. QED
      BY <1>2, <3>1 DEF ReplayInv, LeaseActivatedOnce
  <2>4. ASSUME NEW t \in Call, Consume(t) PROVE ReplayInv'
    <3> DEFINE l == call[t].lease
    <3>1. /\ UNCHANGED <<minted, instance, expired, issued, granted>>
          /\ \A u \in Call : u # t => call'[u] = call[u]
          /\ call'[t].pc # "consume"
          /\ ledger \subseteq ledger' \cup expired
      BY <1>2, <2>t, <2>4
      DEF Consume, ConsumeLease, Unexpired, ReplayInv, CallGoes, Idle, registryVars, policyVars
    <3>2. CASE ~Consumable(l, call[t].was)
      <4>1. call'[t].pc = "idle"
        BY <2>t, <2>4, <3>2 DEF Consume, CallGoes, Idle
      <4>2. QED
        BY <1>2, <3>1, <4>1 DEF ReplayInv, LeaseActivatedOnce
    <3>3. CASE Consumable(l, call[t].was)
      <4>1. call'[t] = [pc |-> "check", lease |-> l] /\ l \in ledger'
        BY <2>t, <2>4, <3>3 DEF Consume, ConsumeLease, CallGoes
      <4>2. l \notin ledger \/ l \in expired
        BY <1>2, <2>4, <3>3 DEF Consume, Consumable, Unexpired, ReplayInv
      <4>3. minted[l].secret # 0 /\ minted[l].instance = instance
        BY <1>2, <2>4 DEF Consume, ReplayInv
      <4>4. \A k \in 1 .. issued : granted[k] = l => l \in expired
        BY <1>2, <2>t, <4>2, <4>3 DEF ReplayInv
      <4>5. \A u \in Call :
              u # t /\ call[u].pc \in {"check", "install"} /\ call[u].lease = l => l \in expired
        BY <1>2, <4>2 DEF ReplayInv
      <4>6. QED
        BY <1>2, <3>1, <4>1, <4>3, <4>4, <4>5 DEF ReplayInv, LeaseActivatedOnce
    <3>4. QED
      BY <3>2, <3>3
  <2>c. ASSUME NEW t \in Call, CheckExpiry(t) PROVE ReplayInv'
    <3> DEFINE l == call[t].lease
    <3>1. /\ UNCHANGED <<minted, instance, ledger, expired, issued, granted>>
          /\ \A u \in Call : u # t => call'[u] = call[u]
          /\ call[t].pc = "check" /\ l \in Lease
      BY <2>t, <2>l, <2>c DEF CheckExpiry, CallGoes, registryVars, policyVars
    <3>2. CASE l \in expired
      <4>1. call'[t].pc = "idle"
        BY <2>t, <2>c, <3>2 DEF CheckExpiry, CallGoes, Idle
      <4>2. QED
        BY <1>2, <3>1, <4>1 DEF ReplayInv, LeaseActivatedOnce
    <3>3. CASE l \notin expired
      <4>1. call'[t] = [pc |-> "install", lease |-> l]
        BY <2>t, <2>c, <3>3 DEF CheckExpiry, CallGoes
      <4>2. /\ l \in ledger
            /\ minted[l].secret # 0 /\ minted[l].instance = instance
            /\ \A k \in 1 .. issued : granted[k] # l
            /\ \A u \in Call : u # t /\ call[u].pc \in {"check", "install"} => call[u].lease # l
        BY <1>2, <3>1, <3>3 DEF ReplayInv
      <4>3. QED
        BY <1>2, <3>1, <4>1, <4>2 DEF ReplayInv, LeaseActivatedOnce
    <3>4. QED
      BY <3>2, <3>3
  <2>5. ASSUME NEW t \in Call, Install(t) PROVE ReplayInv'
    <3> DEFINE l == call[t].lease
    <3>1. /\ UNCHANGED <<minted, instance, ledger, expired>>
          /\ \A u \in Call : u # t => call'[u] = call[u]
          /\ call'[t].pc = "idle"
          /\ call[t].pc = "install" /\ l \in Lease
      BY <2>t, <2>l, <2>5 DEF Install, CallGoes, Idle, policyVars
    <3>2. /\ issued' = issued + 1
          /\ issued + 1 \in 1 .. MaxActivations
          /\ granted' = [granted EXCEPT ![issued + 1] = l]
      BY <2>t, <2>5 DEF Install, InstallSession
    <3>3. /\ granted'[issued + 1] = l
          /\ \A k \in 1 .. issued : granted'[k] = granted[k]
          /\ \A k \in 1 .. issued' : k = issued + 1 \/ k \in 1 .. issued
      BY <2>t, <3>2
    <3>4. /\ l \in ledger \cup expired
          /\ minted[l].secret # 0
          /\ \A k \in 1 .. issued : granted[k] # l
          /\ \A u \in Call : u # t /\ call[u].pc = "install" => call[u].lease # l
          /\ \A u \in Call : u # t /\ call[u].pc = "check" /\ call[u].lease = l => l \in expired
      BY <1>2, <3>1 DEF ReplayInv
    <3>5. LeaseActivatedOnce'
      BY <1>2, <3>3, <3>4 DEF ReplayInv, LeaseActivatedOnce
    <3>6. \A k \in 1 .. issued' :
            /\ granted'[k] \in Lease
            /\ minted[granted'[k]].secret # 0
            /\ granted'[k] \in ledger \cup expired \/ minted[granted'[k]].instance < instance
      BY <1>2, <3>1, <3>3, <3>4 DEF ReplayInv
    <3>7. \A u \in Call, k \in 1 .. issued' : granted'[k] = call'[u].lease =>
            /\ call'[u].pc = "check" => call'[u].lease \in expired
            /\ call'[u].pc # "install"
      BY <1>2, <3>1, <3>3, <3>4 DEF ReplayInv
    <3>8. QED
      BY <1>2, <3>1, <3>5, <3>6, <3>7 DEF ReplayInv
  <2>6. CASE Restart
    <3>1. /\ UNCHANGED <<minted, expired, issued, granted>>
          /\ instance' = instance + 1
          /\ \A t \in Call : call'[t].pc = "idle"
      BY <2>6 DEF Restart, ClearSession, Idle
    <3>2. \A l \in Lease : minted[l].instance <= instance /\ minted[l].instance \in Nat
      BY <1>2, <2>t, AccessBounds DEF ReplayInv
    <3>3. \A l \in Lease : minted[l].instance < instance'
      BY <2>t, <3>1, <3>2
    <3>4. QED
      BY <1>2, <2>t, <3>1, <3>2, <3>3 DEF ReplayInv, LeaseActivatedOnce
  <2>7. QED
    BY <1>2, <2>1, <2>2, <2>3, <2>4, <2>c, <2>5, <2>6, LeaseSteps
<1>3. QED
  BY <1>1, <1>2, TypeCorrect, PTL DEF Spec

\* LeaseActivatedOnce: no lease is ever given a second capability.
THEOREM LeasesAreInstalledOnce == Spec => []LeaseActivatedOnce
<1>1. ReplayInv => LeaseActivatedOnce
  BY DEF ReplayInv
<1>2. QED
  BY <1>1, ReplayInvariant, PTL

-----------------------------------------------------------------------------
\* A dead capability stays dead.

\* Every step is one of five for the registry.
RegistryStep ==
    \/ UNCHANGED registryVars /\ expired \subseteq expired'
    \/ UNCHANGED expired /\ ClearSession
    \/ UNCHANGED expired /\ \E k \in Nat : RequireGranted(k)
    \/ UNCHANGED expired /\ \E l \in Lease : InstallSession(l)
    \/ Tick

LEMMA RegistrySteps ==
    ASSUME TypeOK, [Next]_vars
    PROVE  RegistryStep
<1> USE DEF policyVars, accessVars
<1>0. call \in [Call -> CallState]
  BY DEF TypeOK, ThreadTypeOK
<1>f. ASSUME UNCHANGED registryVars, UNCHANGED expired PROVE RegistryStep
  BY <1>f DEF RegistryStep
<1>c. ASSUME ClearSession, UNCHANGED expired PROVE RegistryStep
  BY <1>c DEF RegistryStep
<1>d. ASSUME DropIfDead, UNCHANGED expired PROVE RegistryStep
  BY <1>d, <1>f, <1>c DEF DropIfDead
<1>r. ASSUME NEW k \in Nat, RequireGranted(k) \/ RequireExpired(k) \/ RequireRefused(k),
             UNCHANGED expired
      PROVE  RegistryStep
  <2>1. RequireGranted(k) \/ ClearSession \/ UNCHANGED registryVars
    BY <1>r DEF RequireExpired, RequireRefused
  <2>2. QED
    BY <1>r, <1>f, <1>c, <2>1 DEF RegistryStep
<1>1. CASE UNCHANGED vars
  BY <1>1, <1>f DEF vars
<1>2. ASSUME NEW h \in Hook, HookStep(h) PROVE RegistryStep
  BY <1>2, <1>f, <1>d DEF HookStep, Submit, ReadLease, ResolveScope, Enqueue, Collect
<1>3. ASSUME NEW t \in Call, CallStep(t) PROVE RegistryStep
  <2>1. CASE \/ \E l \in Lease : StartActivate(t, l)
             \/ \E k \in 1 .. issued : StartNext(t, k) \/ StartRevoke(t, k)
             \/ \E k \in 1 .. issued, h \in Hook, b \in Binding : StartComplete(t, k, h, b)
             \/ \E k \in 1 .. issued, b \in Binding : StartRead(t, k, b)
             \/ VerifyLease(t) \/ Consume(t) \/ CheckExpiry(t) \/ ReadMode(t) \/ Pair(t) \/ RevokeClearsBroker(t)
             \/ (\E h \in Hook : PollTakes(t, h)) \/ PollFindsNothing(t)
    BY <1>f, <2>1 DEF StartActivate, StartNext, StartRevoke, StartComplete, StartRead,
       VerifyLease, Consume, CheckExpiry, ReadMode, Pair, RevokeClearsBroker, PollTakes, PollFindsNothing
  <2>2. CASE Install(t)
    <3>1. call[t].lease \in Lease
      BY <1>0, <2>2, CallLocals DEF Install
    <3>2. QED
      BY <1>f, <2>2, <3>1 DEF Install, RegistryStep
  <2>3. CASE RequireNext(t) \/ RequireRevoke(t)
    <3>1. call[t].cap \in Nat
      BY <1>0, <2>3, CallLocals, AuthorityBounds DEF RequireNext, RequireRevoke
    <3>2. QED
      BY <1>r, <2>3, <3>1 DEF RequireNext, RequireRevoke, RequireOf
  <2>4. CASE RequireRead(t)
    <3>1. call[t].cap \in Nat
      BY <1>0, <2>4, CallLocals, AuthorityBounds DEF RequireRead
    <3>2. QED
      BY <1>f, <1>r, <2>4, <3>1 DEF RequireRead, RequireCovered, RequireMismatched
  <2>5. CASE Complete(t)
    <3>1. call[t].cap \in Nat
      BY <1>0, <2>5, CallLocals, AuthorityBounds DEF Complete
    <3>2. QED
      BY <1>f, <1>r, <2>5, <3>1 DEF Complete, RequireCovered, RequireMismatched
  <2>6. CASE AskAuthority(t) \/ RevokeClearsAuthority(t)
    BY <1>c, <1>d, <2>6 DEF AskAuthority, RevokeClearsAuthority
  <2>7. QED
    BY <1>3, <2>1, <2>2, <2>3, <2>4, <2>5, <2>6 DEF CallStep
<1>4. ASSUME NEW l \in Lease, MintLease(l) PROVE RegistryStep
  BY <1>4, <1>f DEF MintLease
<1>5. CASE HumanStep
  BY <1>5, <1>c, <1>d, <1>f
  DEF HumanStep, SetAccessMode, SetModeClearsBroker, SetModeWritesPolicy, IssueCode, CodeExpires,
      ReportStatus, Unpair, UnpairClearsAuthority, UnpairClearsBroker, Stop, StopClearsBroker, Restart
<1>6. CASE TimeStep
  BY <1>6 DEF TimeStep, LeaseExpires, RequestExpires, RegistryStep
<1>7. QED
  BY <1>1, <1>2, <1>3, <1>4, <1>5, <1>6 DEF Next

\* DeadCapabilityStaysDead: only an installation makes a capability usable, and
\* it makes a new one.
THEOREM DeadCapabilitiesStayDead == Spec => DeadCapabilityStaysDead
<1>1. ASSUME TypeOK, [Next]_vars
      PROVE  \A k \in 1 .. issued : Usable(k)' => Usable(k)
  <2> SUFFICES ASSUME NEW k \in 1 .. issued, Usable(k)' PROVE Usable(k)
    OBVIOUS
  <2> USE DEF Usable, Live, Connected
  <2>0. issued \in Nat /\ DisconnectTimeout \in Nat /\ idle \in Nat
    BY <1>1, AuthorityBounds DEF TypeOK, AuthorityTypeOK
  <2>1. CASE UNCHANGED registryVars /\ expired \subseteq expired'
    BY <2>1 DEF registryVars
  <2>2. CASE UNCHANGED expired /\ ClearSession
    BY <2>2 DEF ClearSession
  <2>3. CASE UNCHANGED expired /\ \E j \in Nat : RequireGranted(j)
    BY <2>3 DEF RequireGranted, Presents
  <2>4. CASE UNCHANGED expired /\ \E l \in Lease : InstallSession(l)
    BY <2>0, <2>4 DEF InstallSession
  <2>5. CASE Tick
    BY <2>0, <2>5 DEF Tick
  <2>6. QED
    BY <1>1, <2>1, <2>2, <2>3, <2>4, <2>5, RegistrySteps DEF RegistryStep
<1>2. QED
  BY <1>1, TypeCorrect, PTL DEF Spec, DeadCapabilityStaysDead

-----------------------------------------------------------------------------
\* A context reaches the prompt it was written for.

\* Answer a suits the prompt of h and was given under a lease for it.
Proper(a, h) ==
    /\ a.by \in 1 .. issued
    /\ a.for = Ask[h]
    /\ Covers(granted[a.by], Ask[h])
    /\ Grant[granted[a.by]].manager = manager[h]

\* Stored and delivered answers are proper; only a hook that is done has one.
DeliveryInv ==
    \A h \in Hook :
      /\ answer[h] # NoAnswer => Proper(answer[h], h)
      /\ delivered[h] # NoAnswer => Proper(delivered[h], h) /\ hook[h] = "done"

\* Every step is one of four for the answers.
LEMMA AnswerSteps ==
    ASSUME TypeOK, [Next]_vars
    PROVE  \/ /\ UNCHANGED <<answer, delivered, manager>>
              /\ \A h \in Hook : hook[h] = "done" => hook'[h] = "done"
           \/ \E h \in Hook : ReadLease(h)
           \/ \E h \in Hook : Collect(h)
           \/ \E t \in Call : Complete(t)
<1> USE DEF policyVars, accessVars, brokerVars
<1>0. hook \in [Hook -> {"idle", "admitted", "leased", "resolved", "waiting", "done"}]
  BY DEF TypeOK, ThreadTypeOK
<1>1. CASE UNCHANGED vars
  BY <1>1 DEF vars
<1>2. ASSUME NEW h \in Hook, HookStep(h) PROVE ReadLease(h) \/ Collect(h) \/
        (/\ UNCHANGED <<answer, delivered, manager>>
         /\ \A g \in Hook : hook[g] = "done" => hook'[g] = "done")
  BY <1>0, <1>2 DEF HookStep, Submit, ResolveScope, Enqueue, Insert, HookGoes
<1>3. ASSUME NEW t \in Call, CallStep(t)
      PROVE  Complete(t) \/ UNCHANGED <<answer, delivered, manager, hook>>
  BY <1>3 DEF CallStep, StartActivate, VerifyLease, Consume, CheckExpiry, Install, StartNext, StartRevoke,
     StartComplete, StartRead, RequireNext, PollTakes, Assign, PollFindsNothing, ScanInVain,
     RequireRevoke, RevokeClearsAuthority, RevokeClearsBroker, RevokeAll, RequireRead, ReadMode,
     AskAuthority, Pair
<1>4. ASSUME NEW l \in Lease, MintLease(l) PROVE UNCHANGED <<answer, delivered, manager, hook>>
  BY <1>4 DEF MintLease
<1>5. CASE HumanStep
  <2>1. CASE Restart
    BY <1>0, <2>1 DEF Restart
  <2>2. CASE ~Restart
    BY <1>5, <2>2 DEF HumanStep, SetAccessMode, SetModeClearsBroker, SetModeWritesPolicy,
       IssueCode, CodeExpires, ReportStatus, Unpair, UnpairClearsAuthority, UnpairClearsBroker,
       Stop, StopClearsBroker, RevokeAll
  <2>3. QED
    BY <2>1, <2>2
<1>6. CASE TimeStep
  BY <1>6 DEF TimeStep, Tick, LeaseExpires, RequestExpires
<1>7. QED
  BY <1>1, <1>2, <1>3, <1>4, <1>5, <1>6 DEF Next

\* complete() records a context under the capability, the lease and the
\* manager session that are right at that moment, none of them can change for
\* a token once issued, and the manager session of a request is set before it
\* can have an answer.
THEOREM DeliveryInvariant == Spec => []DeliveryInv
<1>1. Init => DeliveryInv
  BY DEF Init, AuthorityInit, BrokerInit, DeliveryInv
<1>2. ASSUME TypeOK, QueueInv, DeliveryInv, [Next]_vars PROVE DeliveryInv'
  <2>t. /\ issued \in Nat /\ MaxActivations \in Nat
        /\ granted \in [1 .. MaxActivations -> Lease \cup {NoLease}]
        /\ session \in Lease \cup {NoLease}
        /\ answer \in [Hook -> Answer \cup {NoAnswer}]
        /\ delivered \in [Hook -> Answer \cup {NoAnswer}]
        /\ manager \in [Hook -> Manager \cup {NoManager}]
        /\ hook \in [Hook -> {"idle", "admitted", "leased", "resolved", "waiting", "done"}]
    BY <1>2, AuthorityBounds DEF TypeOK, AuthorityTypeOK, BrokerTypeOK, ThreadTypeOK
  <2>g. /\ issued' >= issued /\ issued' \in Nat
        /\ \A k \in 1 .. issued : granted'[k] = granted[k]
    <3>1. CASE UNCHANGED registryVars
      BY <1>2, <2>t, <3>1 DEF registryVars
    <3>2. CASE ClearSession
      BY <2>t, <3>2 DEF ClearSession
    <3>3. CASE \E k \in Nat : RequireGranted(k)
      BY <1>2, <2>t, <3>3 DEF RequireGranted
    <3>4. CASE \E l \in Lease : InstallSession(l)
      BY <2>t, <3>4 DEF InstallSession
    <3>5. CASE Tick
      BY <1>2, <2>t, <3>5 DEF Tick
    <3>6. QED
      BY <1>2, <3>1, <3>2, <3>3, <3>4, <3>5, RegistrySteps DEF RegistryStep
  <2>p. ASSUME NEW a, NEW h \in Hook, Proper(a, h), manager'[h] = manager[h] PROVE Proper(a, h)'
    BY <2>t, <2>g, <2>p DEF Proper, Covers
  <2>1. CASE /\ UNCHANGED <<answer, delivered, manager>>
             /\ \A h \in Hook : hook[h] = "done" => hook'[h] = "done"
    BY <1>2, <2>g, <2>p, <2>1 DEF DeliveryInv
  <2>2. ASSUME NEW h \in Hook, ReadLease(h) PROVE DeliveryInv'
    <3>1. /\ UNCHANGED <<answer, delivered>>
          /\ hook[h] = "admitted"
          /\ \A g \in Hook : g # h => manager'[g] = manager[g] /\ hook'[g] = hook[g]
      BY <2>t, <2>2 DEF ReadLease, HookGoes
    <3>2. answer[h] = NoAnswer /\ delivered[h] = NoAnswer
      BY <1>2, <3>1 DEF QueueInv, Early, DeliveryInv
    <3>3. QED
      BY <1>2, <2>g, <2>p, <3>1, <3>2 DEF DeliveryInv
  <2>3. ASSUME NEW h \in Hook, Collect(h) PROVE DeliveryInv'
    <3>1. /\ UNCHANGED <<answer, manager>>
          /\ hook'[h] = "done"
          /\ \A g \in Hook : g # h => delivered'[g] = delivered[g] /\ hook'[g] = hook[g]
          /\ delivered'[h] = delivered[h] \/ delivered'[h] = answer[h]
      BY <2>t, <2>3 DEF Collect, Pop, HookGoes
    <3>2. QED
      BY <1>2, <2>g, <2>p, <3>1 DEF DeliveryInv
  <2>4. ASSUME NEW t \in Call, Complete(t) PROVE DeliveryInv'
    <3> DEFINE k == call[t].cap
               h == call[t].request
               b == call[t].for
    <3>0. k \in 0 .. MaxActivations /\ h \in Hook /\ b \in Binding /\ UNCHANGED <<delivered, hook>>
      BY <1>2, <2>4, CallLocals DEF Complete, TypeOK, ThreadTypeOK
    <3>1. \/ UNCHANGED brokerVars
          \/ /\ RequireCovered(k, [Ask[h] EXCEPT !.scope = b.scope])
             /\ Matches(h, session, b)
             /\ Record(h, k, b)
      BY <2>4, Zenon DEF Complete
    <3>2. CASE UNCHANGED brokerVars
      BY <1>2, <2>g, <2>p, <3>0, <3>2 DEF DeliveryInv, brokerVars
    <3>3. CASE /\ RequireCovered(k, [Ask[h] EXCEPT !.scope = b.scope])
               /\ Matches(h, session, b)
               /\ Record(h, k, b)
      <4>1. k \in 1 .. issued /\ granted[k] = session
        BY <1>2, <3>3 DEF RequireCovered, RequireGranted, Presents, Connected, TypeOK,
           AuthorityTypeOK, OneActivation
      <4>2. b = Ask[h] /\ Grant[session].manager = manager[h]
        BY <3>3 DEF Matches
      <4>3. [Ask[h] EXCEPT !.scope = b.scope] = Ask[h]
        BY <3>0, <4>2 DEF Binding
      <4>4. Covers(session, Ask[h])
        BY <3>3, <4>3 DEF RequireCovered
      <4>5. Proper([by |-> k, for |-> b], h)
        BY <4>1, <4>2, <4>4 DEF Proper
      <4>6. /\ answer'[h] = [by |-> k, for |-> b]
            /\ \A g \in Hook : g # h => answer'[g] = answer[g]
            /\ UNCHANGED manager
        BY <2>t, <3>0, <3>3 DEF Record
      <4>7. QED
        BY <1>2, <2>g, <2>p, <3>0, <4>5, <4>6 DEF DeliveryInv
    <3>4. QED
      BY <3>1, <3>2, <3>3
  <2>5. QED
    BY <1>2, <2>1, <2>2, <2>3, <2>4, AnswerSteps
<1>3. QED
  BY <1>1, <1>2, TypeCorrect, QueueInvariant, PTL DEF Spec

\* BoundDelivery: a context reaches the prompt it was written for.
THEOREM DeliveriesAreBound == Spec => []BoundDelivery
<1>1. DeliveryInv => BoundDelivery
  BY DEF DeliveryInv, Proper, BoundDelivery
<1>2. QED
  BY <1>1, DeliveryInvariant, PTL

-----------------------------------------------------------------------------
\* Managed access implements the exchange of contexts.

\* Only a request that was queued can be assigned, and only an assigned one
\* can be answered.
OfferInv ==
    /\ \A h \in assigned : hook[h] \notin Early
    /\ \A h \in Hook : answer[h] # NoAnswer => h \in assigned

exchangeVars == <<hook, queue, assigned, answer, delivered>>

\* Every step is one of six for the exchanges of the hooks.
LEMMA ExchangeSteps ==
    ASSUME TypeOK, [Next]_vars
    PROVE  \/ UNCHANGED exchangeVars
           \/ \E h \in Hook : HookStep(h)
           \/ \E t \in Call : (\E h \in Hook : PollTakes(t, h)) \/ PollFindsNothing(t)
           \/ \E t \in Call : Complete(t)
           \/ RevokeAll /\ UNCHANGED <<registryVars, expired, hook, delivered>>
           \/ Restart
<1> USE DEF exchangeVars, brokerVars, policyVars, accessVars
<1>1. CASE UNCHANGED vars
  BY <1>1 DEF vars
<1>2. ASSUME NEW t \in Call, CallStep(t)
      PROVE  \/ UNCHANGED exchangeVars
             \/ (\E h \in Hook : PollTakes(t, h)) \/ PollFindsNothing(t)
             \/ Complete(t)
             \/ RevokeAll /\ UNCHANGED <<registryVars, expired, hook, delivered>>
  BY <1>2 DEF CallStep, StartActivate, VerifyLease, Consume, CheckExpiry, Install, StartNext, StartRevoke,
     StartComplete, StartRead, RequireNext, RequireRevoke, RevokeClearsAuthority,
     RevokeClearsBroker, RequireRead, ReadMode, AskAuthority, Pair
<1>3. ASSUME NEW l \in Lease, MintLease(l) PROVE UNCHANGED exchangeVars
  BY <1>3 DEF MintLease
<1>4. ASSUME HumanStep, ~Restart
      PROVE  \/ UNCHANGED exchangeVars
             \/ RevokeAll /\ UNCHANGED <<registryVars, expired, hook, delivered>>
  BY <1>4 DEF HumanStep, SetAccessMode, SetModeClearsBroker, SetModeWritesPolicy, IssueCode,
     CodeExpires, ReportStatus, Unpair, UnpairClearsAuthority, UnpairClearsBroker, Stop,
     StopClearsBroker
<1>5. CASE TimeStep
  BY <1>5 DEF TimeStep, Tick, LeaseExpires, RequestExpires
<1>6. QED
  BY <1>1, <1>2, <1>3, <1>4, <1>5 DEF Next

\* next() takes only what is in the queue, complete() only what was taken.
THEOREM OfferInvariant == Spec => []OfferInv
<1>1. Init => OfferInv
  BY DEF Init, BrokerInit, OfferInv
<1>2. ASSUME TypeOK, QueueInv, OfferInv, [Next]_vars PROVE OfferInv'
  <2> USE DEF OfferInv, Early
  <2>0. /\ hook \in [Hook -> {"idle", "admitted", "leased", "resolved", "waiting", "done"}]
        /\ answer \in [Hook -> Answer \cup {NoAnswer}]
        /\ assigned \subseteq Hook
    BY <1>2 DEF TypeOK, ThreadTypeOK, BrokerTypeOK
  <2>1. CASE UNCHANGED exchangeVars
    BY <1>2, <2>1 DEF exchangeVars
  <2>2. ASSUME NEW h \in Hook, HookStep(h) PROVE OfferInv'
    <3>1. UNCHANGED <<assigned, answer>>
      BY <2>2 DEF HookStep, Submit, ReadLease, ResolveScope, Enqueue, Insert, Collect, Pop,
                  brokerVars
    <3>2. \/ hook[h] \in Early
          \/ hook[h] = "waiting" /\ hook' = [hook EXCEPT ![h] = "done"]
      BY <2>2 DEF HookStep, Submit, ReadLease, ResolveScope, Enqueue, Collect, HookGoes
    <3>3. \A g \in Hook : g # h => hook'[g] = hook[g]
      BY <2>0, <2>2 DEF HookStep, Submit, ReadLease, ResolveScope, Enqueue, Collect, HookGoes
    <3>4. QED
      BY <1>2, <2>0, <3>1, <3>2, <3>3
  <2>3. ASSUME NEW t \in Call, NEW h \in Hook, PollTakes(t, h) PROVE OfferInv'
    <3>1. UNCHANGED <<hook, answer>> /\ assigned' = assigned \cup {h} /\ h \in queue
      BY <2>3 DEF PollTakes, Assign, Offered, Fresh
    <3>2. QED
      BY <1>2, <3>1 DEF QueueInv
  <2>4. ASSUME NEW t \in Call, PollFindsNothing(t) PROVE OfferInv'
    BY <1>2, <2>4 DEF PollFindsNothing, ScanInVain
  <2>5. ASSUME NEW t \in Call, Complete(t) PROVE OfferInv'
    <3>1. UNCHANGED hook
      BY <2>5 DEF Complete
    <3>2. \/ UNCHANGED brokerVars
          \/ /\ Matches(call[t].request, session, call[t].for)
             /\ Record(call[t].request, call[t].cap, call[t].for)
      BY <2>5, Zenon DEF Complete
    <3>3. CASE UNCHANGED brokerVars
      BY <1>2, <3>1, <3>3 DEF brokerVars
    <3>4. CASE /\ Matches(call[t].request, session, call[t].for)
               /\ Record(call[t].request, call[t].cap, call[t].for)
      <4>1. UNCHANGED assigned /\ call[t].request \in assigned
        BY <3>4 DEF Matches, Record
      <4>2. \A g \in Hook : g # call[t].request => answer'[g] = answer[g]
        BY <2>0, <3>4 DEF Record
      <4>3. QED
        BY <1>2, <3>1, <4>1, <4>2
    <3>5. QED
      BY <3>2, <3>3, <3>4
  <2>6. CASE RevokeAll /\ UNCHANGED <<registryVars, expired, hook, delivered>>
    BY <1>2, <2>6 DEF RevokeAll
  <2>7. CASE Restart
    BY <1>2, <2>0, <2>7 DEF Restart
  <2>8. QED
    BY <1>2, <2>1, <2>2, <2>3, <2>4, <2>5, <2>6, <2>7, ExchangeSteps
<1>3. QED
  BY <1>1, <1>2, TypeCorrect, QueueInvariant, PTL DEF Spec

\* The mapping: the exchange of each hook, the lease in force, the leases that
\* have been in force, and the lease each answer was given under.
Exchanges == [h \in Hook |-> ExchangeOf(h)]
InForce == IF Live THEN session ELSE NoLease
Spent == {granted[k] : k \in 1 .. issued}
Giver == [h \in Hook |-> IF answer[h] = NoAnswer THEN NoLease ELSE granted[answer[h].by]]

Unfinished == {"idle", "asked", "offered", "answered"}

\* What the steps of the exchange make of the mapped variables.
Closes(S) ==
    \A h \in Hook : ExchangeOf(h)' = IF h \in S /\ ExchangeOf(h) \in Unfinished
                                      THEN "closed" ELSE ExchangeOf(h)

LEMMA MappedClose ==
    ASSUME NEW S \in SUBSET Hook, Closes(S), UNCHANGED <<InForce, Spent, Giver>>
    PROVE  Exchange!Next
<1>1. Exchange!Close(S)
  BY DEF Closes, Unfinished, InForce, Spent, Giver, Exchange!Close, Exchange!Closing,
         Exchange!Unfinished
<1>2. QED
  BY <1>1 DEF Exchange!Next

LEMMA MappedWithdraw ==
    ASSUME NEW S \in SUBSET Hook, Closes(S), InForce' = NoLease, UNCHANGED <<Spent, Giver>>
    PROVE  Exchange!Next
<1>1. Exchange!Withdraw(S)
  BY DEF Closes, Unfinished, InForce, Spent, Giver, Exchange!Withdraw, Exchange!Closing,
         Exchange!Unfinished
<1>2. QED
  BY <1>1 DEF Exchange!Next

LEMMA MappedEnforce ==
    ASSUME NEW l \in Lease, l \notin Spent, InForce' = l, Spent' = Spent \cup {l},
           UNCHANGED Giver, \A h \in Hook : UNCHANGED ExchangeOf(h)
    PROVE  Exchange!Next
<1>1. Exchange!Enforce(l)
  BY DEF InForce, Spent, Giver, Exchange!Enforce
<1>2. QED
  BY <1>1 DEF Exchange!Next

LEMMA MappedWaste ==
    ASSUME NEW l \in Lease, l \notin Spent, InForce' = NoLease, Spent' = Spent \cup {l},
           UNCHANGED Giver, \A h \in Hook : UNCHANGED ExchangeOf(h)
    PROVE  Exchange!Next
<1>1. Exchange!Waste(l)
  BY DEF InForce, Spent, Giver, Exchange!Waste
<1>2. QED
  BY <1>1 DEF Exchange!Next

\* Exchange h goes from one state to another, and those of S are closed.
Moves(h, S, from, to) ==
    /\ ExchangeOf(h) = from
    /\ ExchangeOf(h)' = to
    /\ \A g \in Hook \ {h} :
         ExchangeOf(g)' = IF g \in S /\ ExchangeOf(g) \in Unfinished
                           THEN "closed" ELSE ExchangeOf(g)

LEMMA MappedMoves ==
    ASSUME NEW h \in Hook, NEW S \in SUBSET Hook, UNCHANGED <<InForce, Spent>>,
           \/ Moves(h, {}, "idle", "asked") /\ UNCHANGED Giver
           \/ Moves(h, {}, "answered", "delivered") /\ UNCHANGED Giver
           \/ Moves(h, S, "asked", "offered") /\ UNCHANGED Giver
           \/ /\ Moves(h, {}, "offered", "answered")
              /\ InForce # NoLease
              /\ InForce \in Lease
              /\ Covers(InForce, Ask[h])
              /\ Giver' = [Giver EXCEPT ![h] = InForce]
    PROVE  Exchange!Next
<1> USE DEF InForce, Spent, Giver
<1>0. ASSUME NEW from, NEW to, Moves(h, {}, from, to)
      PROVE  Exchanges' = [Exchanges EXCEPT ![h] = to] /\ Exchanges[h] = from
  <2>1. \A g \in Hook : ExchangeOf(g)' = IF g = h THEN to ELSE ExchangeOf(g)
    BY <1>0 DEF Moves
  <2>2. Exchanges' = [g \in Hook |-> IF g = h THEN to ELSE ExchangeOf(g)]
    BY <2>1 DEF Exchanges
  <2>3. QED
    BY <1>0, <2>2 DEF Moves, Exchanges
<1>1. ASSUME Moves(h, {}, "idle", "asked"), UNCHANGED Giver PROVE Exchange!Put(h)
  BY <1>0, <1>1 DEF Exchange!Put, Exchanges
<1>2. ASSUME Moves(h, {}, "answered", "delivered"), UNCHANGED Giver PROVE Exchange!Deliver(h)
  BY <1>0, <1>2 DEF Exchange!Deliver, Exchanges
<1>3. ASSUME Moves(h, S, "asked", "offered"), UNCHANGED Giver PROVE Exchange!Offer(h, S)
  <2> DEFINE Closed(g) == IF g \in S /\ ExchangeOf(g) \in Unfinished
                          THEN "closed" ELSE ExchangeOf(g)
  <2>1. \A g \in Hook : ExchangeOf(g)' = IF g = h THEN "offered" ELSE Closed(g)
    BY <1>3 DEF Moves
  <2>2. Exchanges' = [[g \in Hook |-> Closed(g)] EXCEPT ![h] = "offered"]
    BY <2>1 DEF Exchanges
  <2>3. QED
    BY <1>3, <2>2 DEF Moves, Exchanges, Exchange!Offer, Exchange!Closing, Exchange!Unfinished,
       Unfinished
<1>4. ASSUME Moves(h, {}, "offered", "answered"),
             InForce # NoLease, InForce \in Lease, Covers(InForce, Ask[h]),
             Giver' = [Giver EXCEPT ![h] = InForce]
      PROVE  Exchange!Respond(h)
  BY <1>0, <1>4 DEF Exchange!Respond, Exchanges
<1>5. QED
  BY <1>1, <1>2, <1>3, <1>4 DEF Exchange!Next

\* A lease comes into force only when activate() installs it in time; every other step
\* keeps the lease in force or withdraws it.
LEMMA InForceSteps ==
    ASSUME TypeOK, [Next]_vars
    PROVE  \/ InForce' \in {InForce, NoLease} /\ UNCHANGED <<issued, granted>>
           \/ \E t \in Call : Install(t)
<1> USE DEF InForce, Live, Connected
<1>0. issued \in Nat /\ idle \in Nat /\ DisconnectTimeout \in Nat
  BY AuthorityBounds DEF TypeOK, AuthorityTypeOK
<1>1. CASE UNCHANGED registryVars /\ expired \subseteq expired'
  BY <1>1 DEF registryVars
<1>2. CASE UNCHANGED expired /\ ClearSession
  BY <1>2 DEF ClearSession
<1>3. CASE UNCHANGED expired /\ \E k \in Nat : RequireGranted(k)
  BY <1>0, <1>3 DEF RequireGranted, Presents
<1>4. CASE UNCHANGED expired /\ \E l \in Lease : InstallSession(l)
  <2>1. issued' # issued
    BY <1>0, <1>4 DEF InstallSession
  <2>2. \E t \in Call : Install(t)
    BY <2>1, LeaseSteps DEF LeaseFrame, MintLease, VerifyLease, Consume, CheckExpiry, Restart,
       ClearSession, registryVars
  <2>3. QED
    BY <2>2
<1>5. CASE Tick
  BY <1>0, <1>5 DEF Tick
<1>6. QED
  BY <1>1, <1>2, <1>3, <1>4, <1>5, RegistrySteps DEF RegistryStep

\* Asking the registry whether a session is live does not change which one is.
LEMMA AskingChangesNothing ==
    ASSUME DropIfDead, UNCHANGED expired
    PROVE  UNCHANGED <<InForce, Spent>>
BY DEF DropIfDead, ClearSession, registryVars, InForce, Spent, Live, Connected

\* ImplementsExchange: a hook's prompt is closed, offered, answered and
\* delivered in the order of the exchange, by the lease in force alone, and a
\* lease is enforced, or wasted if it expired after the last check, when
\* activate() installs it and never after that.
THEOREM AccessImplementsExchange == Spec => ImplementsExchange
<1>1. Init => Exchange!Init
  <2> SUFFICES ASSUME Init PROVE Exchange!Init
    OBVIOUS
  <2>1. \A h \in Hook : ExchangeOf(h) = "idle"
    BY DEF Init, ExchangeOf
  <2>2. InForce = NoLease /\ Spent = {}
    BY DEF Init, AuthorityInit, InForce, Live, Connected, Spent
  <2>3. \A h \in Hook : Giver[h] = NoLease
    BY DEF Init, BrokerInit, Giver
  <2>4. QED
    BY <2>1, <2>2, <2>3 DEF Exchange!Init, InForce, Spent, Giver
<1>2. ASSUME TypeOK, QueueInv, ReplayInv, DeliveryInv, OfferInv, [Next]_vars
      PROVE  [Exchange!Next]_(Exchange!vars)
  <2>t. /\ hook \in [Hook -> {"idle", "admitted", "leased", "resolved", "waiting", "done"}]
        /\ answer \in [Hook -> Answer \cup {NoAnswer}]
        /\ delivered \in [Hook -> Answer \cup {NoAnswer}]
        /\ queue \subseteq Hook /\ stale \subseteq Hook /\ assigned \subseteq Hook
        /\ issued \in 0 .. MaxActivations /\ MaxActivations \in Nat
        /\ granted \in [1 .. MaxActivations -> Lease \cup {NoLease}]
    BY <1>2, AuthorityBounds DEF TypeOK, AuthorityTypeOK, BrokerTypeOK, ThreadTypeOK
  <2>u. ASSUME Exchanges' = Exchanges, UNCHANGED <<InForce, Spent, Giver>>
        PROVE  [Exchange!Next]_(Exchange!vars)
    BY <2>u DEF Exchange!vars, Exchanges, InForce, Spent, Giver
  \* Who gave an answer is known for good.
  <2>g. ASSUME UNCHANGED answer,
               \A k \in 1 .. issued : granted'[k] = granted[k]
        PROVE  UNCHANGED Giver
    <3>1. \A h \in Hook : answer[h] # NoAnswer => answer[h].by \in 1 .. issued
      BY <1>2 DEF DeliveryInv, Proper
    <3>2. QED
      BY <2>g, <3>1 DEF Giver
  <2>1. CASE UNCHANGED exchangeVars
    <3>1. \A h \in Hook : UNCHANGED ExchangeOf(h)
      BY <2>1 DEF exchangeVars, ExchangeOf
    <3>2. UNCHANGED answer
      BY <2>1 DEF exchangeVars
    <3>3. CASE InForce' \in {InForce, NoLease} /\ UNCHANGED <<issued, granted>>
      <4>1. UNCHANGED <<Spent, Giver>>
        BY <2>g, <3>2, <3>3 DEF Spent
      <4>2. Closes({})
        BY <3>1 DEF Closes
      <4>3. QED
        BY <3>3, <4>1, <4>2, MappedWithdraw, MappedClose
    <3>4. ASSUME NEW t \in Call, Install(t)
          PROVE  Exchange!Next
      <4> DEFINE l == call[t].lease
      <4>1. l \in Lease
        BY <1>2, <3>4, CallLocals DEF Install, TypeOK, ThreadTypeOK
      <4>2. InstallSession(l) /\ UNCHANGED expired
        BY <3>4 DEF Install
      <4>3. InForce' = IF l \in expired THEN NoLease ELSE l
        BY <4>1, <4>2, NoLeaseAssumption, AuthorityBounds
        DEF InstallSession, InForce, Live, Connected
      <4>4. \A k \in 1 .. issued : granted'[k] = granted[k] /\ granted[k] # l
        BY <1>2, <2>t, <3>4, <4>2 DEF InstallSession, Install, ReplayInv
      <4>5. l \notin Spent
        BY <4>4 DEF Spent
      <4>6. Spent' = Spent \cup {l}
        <5>1. /\ issued' = issued + 1
              /\ granted'[issued + 1] = l
              /\ 1 .. issued' = (1 .. issued) \cup {issued + 1}
          BY <2>t, <4>2 DEF InstallSession
        <5>2. QED
          BY <4>4, <5>1 DEF Spent
      <4>7. UNCHANGED Giver
        BY <2>g, <3>2, <4>4
      <4>8. QED
        BY <3>1, <4>1, <4>3, <4>5, <4>6, <4>7, MappedEnforce, MappedWaste
    <3>5. QED
      BY <1>2, <3>3, <3>4, InForceSteps
  <2>2. ASSUME NEW h \in Hook, HookStep(h) PROVE Exchange!Next
    <3>1. UNCHANGED <<InForce, Spent>>
      BY <2>2, AskingChangesNothing
      DEF HookStep, Submit, ReadLease, ResolveScope, Enqueue, Collect, InForce, Spent, Live,
          Connected, registryVars
    <3>2. UNCHANGED <<answer, assigned>>
      BY <2>2 DEF HookStep, Submit, ReadLease, ResolveScope, Enqueue, Insert, Collect, Pop,
                  brokerVars
    <3>3. UNCHANGED granted
      BY <2>2 DEF HookStep, Submit, ReadLease, ResolveScope, Enqueue, Collect, DropIfDead,
                  ClearSession, registryVars
    <3>4. UNCHANGED Giver
      BY <2>g, <3>2, <3>3
    <3>5. CASE Submit(h) \/ ReadLease(h) \/ ResolveScope(h)
      <4>1. UNCHANGED <<queue, delivered>> /\ hook[h] \in Early
        BY <3>5 DEF Submit, ReadLease, ResolveScope, brokerVars, Early
      <4>2. delivered[h] = NoAnswer
        BY <1>2, <4>1 DEF DeliveryInv, Early
      <4>3. \A g \in Hook : g # h => hook'[g] = hook[g]
        BY <2>t, <3>5 DEF Submit, ReadLease, ResolveScope, HookGoes
      <4>4. \A g \in Hook : g # h => UNCHANGED ExchangeOf(g)
        BY <3>2, <4>1, <4>3 DEF ExchangeOf
      <4>5. CASE hook'[h] = "done"
        <5>1. ExchangeOf(h)' = "closed"
          BY <4>1, <4>2, <4>5 DEF ExchangeOf
        <5>2. ExchangeOf(h) \in Unfinished
          BY <4>1 DEF ExchangeOf, Early, Unfinished
        <5>3. Closes({h})
          BY <4>4, <5>1, <5>2 DEF Closes
        <5>4. QED
          BY <3>1, <3>4, <5>3, MappedClose
      <4>6. CASE hook[h] = "idle" /\ hook'[h] = "admitted"
        <5>1. ExchangeOf(h) = "idle" /\ ExchangeOf(h)' = "asked"
          BY <4>6 DEF ExchangeOf
        <5>2. Moves(h, {}, "idle", "asked")
          BY <4>4, <5>1 DEF Moves
        <5>3. QED
          BY <3>1, <3>4, <5>2, MappedMoves
      <4>7. CASE hook[h] \in {"admitted", "leased"} /\ hook'[h] \in {"leased", "resolved"}
        <5>1. ExchangeOf(h) = "asked" /\ ExchangeOf(h)' = "asked"
          BY <4>7 DEF ExchangeOf
        <5>2. Closes({})
          BY <4>4, <5>1 DEF Closes
        <5>3. QED
          BY <3>1, <3>4, <5>2, MappedClose
      <4>8. QED
        BY <2>t, <3>5, <4>5, <4>6, <4>7 DEF Submit, ReadLease, ResolveScope, HookGoes
    <3>6. CASE Enqueue(h)
      <4>1. /\ hook[h] = "resolved"
            /\ hook' = [hook EXCEPT ![h] = "waiting"]
            /\ queue' = (queue \ stale) \cup {h}
            /\ UNCHANGED delivered
        BY <3>6 DEF Enqueue, Insert, Fresh, HookGoes
      <4>2. h \notin queue /\ h \notin assigned /\ answer[h] = NoAnswer
        BY <1>2, <4>1 DEF QueueInv, OfferInv, Early
      <4>3. ExchangeOf(h) = "asked" /\ ExchangeOf(h)' = "asked"
        BY <2>t, <3>2, <4>1, <4>2 DEF ExchangeOf
      <4>4. ASSUME NEW g \in queue \cap stale
            PROVE  ExchangeOf(g)' = "closed" /\ ExchangeOf(g) \in Unfinished
        <5>1. hook[g] = "waiting" /\ hook'[g] = "waiting" /\ g \notin queue'
          BY <1>2, <2>t, <4>1, <4>2, <4>4 DEF QueueInv
        <5>2. QED
          BY <4>4, <5>1 DEF ExchangeOf, Unfinished
      <4>5. ASSUME NEW g \in Hook, g # h, g \notin queue \cap stale
            PROVE  UNCHANGED ExchangeOf(g)
        <5>1. hook'[g] = hook[g] /\ (g \in queue' <=> g \in queue)
          BY <2>t, <4>1, <4>5
        <5>2. QED
          BY <3>2, <4>1, <5>1 DEF ExchangeOf
      <4>6. Closes(queue \cap stale)
        BY <4>2, <4>3, <4>4, <4>5 DEF Closes
      <4>7. QED
        BY <2>t, <3>1, <3>4, <4>6, MappedClose
    <3>7. CASE Collect(h)
      <4>1. /\ hook[h] = "waiting"
            /\ hook' = [hook EXCEPT ![h] = "done"]
            /\ queue' = queue \ {h}
            /\ \/ UNCHANGED delivered
               \/ /\ h \in queue
                  /\ answer[h] # NoAnswer
                  /\ delivered' = [delivered EXCEPT ![h] = answer[h]]
        BY <3>7 DEF Collect, Pop, HookGoes
      <4>2. delivered[h] = NoAnswer
        BY <1>2, <4>1 DEF DeliveryInv
      <4>3. ASSUME NEW g \in Hook, g # h PROVE UNCHANGED ExchangeOf(g)
        <5>1. hook'[g] = hook[g] /\ (g \in queue' <=> g \in queue) /\ delivered'[g] = delivered[g]
          BY <2>t, <4>1, <4>3
        <5>2. QED
          BY <3>2, <5>1 DEF ExchangeOf
      <4>4. CASE UNCHANGED delivered
        <5>1. ExchangeOf(h)' = "closed"
          BY <2>t, <4>1, <4>2, <4>4 DEF ExchangeOf
        <5>2. ExchangeOf(h) \in Unfinished \/ ExchangeOf(h) = "closed"
          BY <4>1 DEF ExchangeOf, Unfinished
        <5>3. Closes({h})
          BY <4>3, <5>1, <5>2 DEF Closes
        <5>4. QED
          BY <3>1, <3>4, <5>3, MappedClose
      <4>5. CASE /\ h \in queue
                 /\ answer[h] # NoAnswer
                 /\ delivered' = [delivered EXCEPT ![h] = answer[h]]
        <5>1. ExchangeOf(h) = "answered"
          BY <4>1, <4>5 DEF ExchangeOf
        <5>2. hook'[h] = "done" /\ delivered'[h] # NoAnswer
          BY <2>t, <4>1, <4>5
        <5>3. ExchangeOf(h)' = "delivered"
          BY <5>2 DEF ExchangeOf
        <5>4. Moves(h, {}, "answered", "delivered")
          BY <4>3, <5>1, <5>3 DEF Moves
        <5>5. QED
          BY <3>1, <3>4, <5>4, MappedMoves
      <4>6. QED
        BY <4>1, <4>4, <4>5
    <3>8. QED
      BY <2>2, <3>5, <3>6, <3>7 DEF HookStep
  \* The broker drops requests, all or those that are stale, and takes one.
  <2>d. ASSUME NEW S \in SUBSET queue, queue' = queue \ S,
               UNCHANGED <<hook, assigned, answer, delivered>>
        PROVE  Closes(S)
    <3>1. ASSUME NEW g \in S PROVE ExchangeOf(g)' = "closed" /\ ExchangeOf(g) \in Unfinished
      <4>1. hook[g] = "waiting" /\ g \in queue /\ g \notin queue'
        BY <1>2, <2>d, <3>1 DEF QueueInv
      <4>2. QED
        BY <2>d, <4>1 DEF ExchangeOf, Unfinished
    <3>2. ASSUME NEW g \in Hook, g \notin S PROVE UNCHANGED ExchangeOf(g)
      BY <2>d, <3>2 DEF ExchangeOf
    <3>3. QED
      BY <3>1, <3>2 DEF Closes
  <2>3. ASSUME NEW t \in Call, NEW h \in Hook, PollTakes(t, h) PROVE Exchange!Next
    <3>1. /\ UNCHANGED <<hook, answer, delivered, registryVars, expired>>
          /\ queue' = queue \ (queue \cap stale)
          /\ assigned' = assigned \cup {h}
          /\ h \in queue /\ h \notin stale /\ h \notin assigned
      BY <2>3 DEF PollTakes, Assign, Offered, Fresh
    <3>2. UNCHANGED <<InForce, Spent>>
      BY <3>1 DEF InForce, Spent, Live, Connected, registryVars
    <3>3. UNCHANGED Giver
      BY <2>g, <3>1 DEF registryVars
    <3>4. hook[h] = "waiting" /\ answer[h] = NoAnswer
      BY <1>2, <3>1 DEF QueueInv, OfferInv
    <3>5. ExchangeOf(h) = "asked" /\ ExchangeOf(h)' = "offered"
      BY <3>1, <3>4 DEF ExchangeOf
    <3>6. ASSUME NEW g \in queue \cap stale
          PROVE  ExchangeOf(g)' = "closed" /\ ExchangeOf(g) \in Unfinished
      <4>1. hook[g] = "waiting" /\ g \notin queue'
        BY <1>2, <3>1, <3>6 DEF QueueInv
      <4>2. QED
        BY <3>1, <3>6, <4>1 DEF ExchangeOf, Unfinished
    <3>7. ASSUME NEW g \in Hook, g # h, g \notin queue \cap stale
          PROVE  UNCHANGED ExchangeOf(g)
      BY <3>1, <3>7 DEF ExchangeOf
    <3>8. Moves(h, queue \cap stale, "asked", "offered")
      BY <3>5, <3>6, <3>7 DEF Moves
    <3>9. QED
      BY <2>t, <3>2, <3>3, <3>8, MappedMoves
  <2>4. ASSUME NEW t \in Call, PollFindsNothing(t) PROVE Exchange!Next
    <3>1. /\ UNCHANGED <<hook, assigned, answer, delivered, registryVars, expired>>
          /\ queue' = queue \ (queue \cap stale)
      BY <2>4 DEF PollFindsNothing, ScanInVain, Fresh
    <3>2. UNCHANGED <<InForce, Spent>>
      BY <3>1 DEF InForce, Spent, Live, Connected, registryVars
    <3>3. UNCHANGED Giver
      BY <2>g, <3>1 DEF registryVars
    <3>4. Closes(queue \cap stale)
      BY <2>d, <3>1
    <3>5. QED
      BY <2>t, <3>2, <3>3, <3>4, MappedClose
  <2>5. CASE RevokeAll /\ UNCHANGED <<registryVars, expired, hook, delivered>>
    <3>1. UNCHANGED <<InForce, Spent>>
      BY <2>5 DEF InForce, Spent, Live, Connected, registryVars
    <3>2. UNCHANGED Giver
      BY <2>g, <2>5 DEF RevokeAll, registryVars
    <3>3. Closes(queue)
      BY <2>d, <2>5 DEF RevokeAll
    <3>4. QED
      BY <2>t, <3>1, <3>2, <3>3, MappedClose
  <2>6. ASSUME NEW t \in Call, Complete(t) PROVE [Exchange!Next]_(Exchange!vars)
    <3>c. /\ call[t].cap \in 0 .. MaxActivations
          /\ call[t].request \in Hook
          /\ call[t].for \in Binding
          /\ UNCHANGED <<expired, hook, delivered>>
      BY <1>2, <2>6, CallLocals DEF Complete, TypeOK, ThreadTypeOK
    <3>p. PICK k \in 0 .. MaxActivations, h \in Hook, b \in Binding :
            k = call[t].cap /\ h = call[t].request /\ b = call[t].for
      BY <3>c
    <3> DEFINE asked == [Ask[h] EXCEPT !.scope = b.scope]
    <3>0. UNCHANGED <<expired, hook, delivered>>
      BY <3>c
    <3>1. CASE UNCHANGED brokerVars
      <4>1. UNCHANGED exchangeVars
        BY <3>0, <3>1 DEF exchangeVars, brokerVars
      <4>2. QED
        BY <2>1, <4>1
    <3>2. CASE /\ Open(h)
               /\ RequireCovered(k, asked)
               /\ Matches(h, session, b)
               /\ Record(h, k, b)
      <4>1. Live /\ UNCHANGED <<session, issued, granted>> /\ idle' = 0
        BY <3>2 DEF RequireCovered, RequireGranted, Presents, Live
      <4>2. InForce = session /\ InForce # NoLease /\ InForce' = InForce
        BY <3>0, <4>1, AuthorityBounds DEF InForce, Live, Connected
      <4>3. InForce \in Lease
        BY <1>2, <4>2 DEF TypeOK, AuthorityTypeOK
      <4>4. UNCHANGED Spent
        BY <4>1 DEF Spent
      <4>5. asked = Ask[h]
        BY <3>0, <3>2 DEF Matches, Binding
      <4>6. Covers(InForce, Ask[h])
        BY <3>2, <4>2, <4>5 DEF RequireCovered
      <4>7. k \in 1 .. issued /\ granted[k] = session
        BY <1>2, <3>2 DEF RequireCovered, RequireGranted, Presents, Connected, TypeOK,
           AuthorityTypeOK, OneActivation
      <4>8. /\ answer' = [answer EXCEPT ![h] = [by |-> k, for |-> b]]
            /\ [by |-> k, for |-> b] # NoAnswer
            /\ UNCHANGED <<queue, assigned>>
            /\ h \in queue /\ h \in assigned /\ answer[h] = NoAnswer
        BY <2>t, <3>0, <3>2, <4>7, NoAnswerAssumption DEF Record, Open, Matches
      <4>9. Giver' = [Giver EXCEPT ![h] = InForce]
        <5>1. ASSUME NEW g \in Hook, g # h PROVE Giver'[g] = Giver[g]
          BY <2>t, <4>1, <4>8, <5>1 DEF Giver
        <5>2. Giver'[h] = InForce
          BY <2>t, <3>0, <4>1, <4>2, <4>7, <4>8 DEF Giver
        <5>3. QED
          BY <5>1, <5>2 DEF Giver
      <4>10. hook[h] = "waiting"
        BY <1>2, <4>8 DEF QueueInv
      <4>11. ExchangeOf(h) = "offered" /\ ExchangeOf(h)' = "answered"
        BY <2>t, <3>0, <4>8, <4>10 DEF ExchangeOf
      <4>12. ASSUME NEW g \in Hook, g # h PROVE UNCHANGED ExchangeOf(g)
        BY <2>t, <3>0, <4>8, <4>12 DEF ExchangeOf
      <4>13. Moves(h, {}, "offered", "answered")
        BY <4>11, <4>12 DEF Moves
      <4>14. QED
        BY <3>0, <4>2, <4>3, <4>4, <4>6, <4>9, <4>13, MappedMoves
    <3>3. QED
      BY <2>6, <3>1, <3>2, <3>p, Zenon DEF Complete
  <2>7. CASE Restart
    <3>1. /\ session' = NoLease /\ UNCHANGED <<issued, granted, answer, delivered>>
          /\ queue' = {}
          /\ \A h \in Hook : hook'[h] = IF hook[h] = "idle" THEN "idle" ELSE "done"
      BY <2>7 DEF Restart, ClearSession
    <3>2. InForce' = NoLease
      BY <3>1 DEF InForce, Live, Connected
    <3>3. UNCHANGED <<Spent, Giver>>
      BY <2>g, <3>1 DEF Spent
    <3>4. ASSUME NEW h \in Hook, hook[h] = "idle" PROVE UNCHANGED ExchangeOf(h)
      BY <3>1, <3>4 DEF ExchangeOf
    <3>5. ASSUME NEW h \in Hook, hook[h] = "done" PROVE UNCHANGED ExchangeOf(h)
      BY <3>1, <3>5 DEF ExchangeOf
    <3>6. ASSUME NEW h \in Hook, hook[h] \notin {"idle", "done"}
          PROVE  /\ ExchangeOf(h)' = "closed"
                 /\ ExchangeOf(h) \in Unfinished \cup {"closed"}
      <4>1. delivered[h] = NoAnswer
        BY <1>2, <3>6 DEF DeliveryInv
      <4>2. ExchangeOf(h)' = "closed"
        BY <3>1, <3>6, <4>1 DEF ExchangeOf
      <4>3. hook[h] \in {"admitted", "leased", "resolved", "waiting"}
        BY <2>t, <3>6
      <4>4. QED
        BY <4>2, <4>3 DEF ExchangeOf, Unfinished
    <3>7. Closes({h \in Hook : hook[h] \notin {"idle", "done"}})
      BY <3>4, <3>5, <3>6 DEF Closes
    <3>8. QED
      BY <3>2, <3>3, <3>7, MappedWithdraw
  <2>8. QED
    BY <1>2, <2>1, <2>2, <2>3, <2>4, <2>5, <2>6, <2>7, ExchangeSteps
<1>3. QED
  BY <1>1, <1>2, TypeCorrect, QueueInvariant, ReplayInvariant, DeliveryInvariant, OfferInvariant,
     PTL DEF Spec, ImplementsExchange, Exchange!Spec

=============================================================================
