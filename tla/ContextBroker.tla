---------------------------- MODULE ContextBroker ----------------------------
(***************************************************************************)
(* The in-memory exchange of prompts and contexts between host hooks and   *)
(* the manager (managed_access/broker.py).  A hook call makes one request; *)
(* its identifier, which the code draws at random, is the hook itself.  A  *)
(* context is abstracted to where it came from: the capability it was      *)
(* completed with and the binding its sender wrote in the call.  Every     *)
(* operator is the body of one critical section of the broker condition.   *)
(***************************************************************************)
EXTENDS ManagedAuthority

CONSTANTS
    Hook,       \* the hook calls of a behaviour, one prompt each
    Ask,        \* the host session, turn and scope of each hook call
    NoManager,  \* a request without a manager session reference yet
    NoAnswer    \* a request without a result

ASSUME AskAssumption == Ask \in [Hook -> Binding]
ASSUME NoAnswerAssumption == NoAnswer \notin [by : 0 .. MaxActivations, for : Binding]

VARIABLES
    queue,      \* keys of _pending
    manager,    \* manager_session_reference of each request
    assigned,   \* requests with assigned = True
    answer,     \* result of each request, NoAnswer for None
    signalled,  \* requests whose event is set
    stale       \* requests whose expires_at has passed

brokerVars == <<queue, manager, assigned, answer, signalled, stale>>

Answer == [by : 0 .. MaxActivations, for : Binding]

BrokerTypeOK ==
    /\ queue \subseteq Hook
    /\ manager \in [Hook -> Manager \cup {NoManager}]
    /\ assigned \subseteq Hook
    /\ answer \in [Hook -> Answer \cup {NoAnswer}]
    /\ signalled \subseteq Hook
    /\ stale \subseteq Hook

BrokerInit ==
    /\ queue = {}
    /\ manager = [h \in Hook |-> NoManager]
    /\ assigned = {}
    /\ answer = [h \in Hook |-> NoAnswer]
    /\ signalled = {}
    /\ stale = {}

-----------------------------------------------------------------------------
\* _prune_locked: stale requests leave the queue and their hooks are woken.
Fresh == queue \ stale
WokenByPrune == signalled \cup (queue \cap stale)

\* The first critical section of request(), which then waits for its event.
Insert(h) ==
    /\ queue' = Fresh \cup {h}
    /\ signalled' = WokenByPrune
    /\ UNCHANGED <<manager, assigned, answer, stale>>

\* The second one: the request is popped, whoever woke the hook.
Pop(h) ==
    /\ queue' = queue \ {h}
    /\ UNCHANGED <<manager, assigned, answer, signalled, stale>>

\* Requests a poll holding session l may take: scope is not compared here,
\* only manager session, host session and host turn.
Offered(l) ==
    {h \in Fresh \ assigned :
        /\ manager[h] = Grant[l].manager
        /\ Ask[h].session = Grant[l].session
        /\ Ask[h].turn = Grant[l].turn}

\* next() finds a request.  The code takes the first one in dict order; any
\* order is allowed here.
Assign(h, l) ==
    /\ h \in Offered(l)
    /\ queue' = Fresh
    /\ signalled' = WokenByPrune
    /\ assigned' = assigned \cup {h}
    /\ UNCHANGED <<manager, answer, stale>>

\* next() finds nothing, and waits again or gives up.
ScanInVain(l) ==
    /\ Offered(l) = {}
    /\ queue' = Fresh
    /\ signalled' = WokenByPrune
    /\ UNCHANGED <<manager, assigned, answer, stale>>

\* complete(): the request is still pending and has no result ...
Open(h) == h \in queue /\ answer[h] = NoAnswer

\* Mutant: the manager session of the request is not compared.
MatchesAnyManager(h, l, b) ==
    /\ Covers(l, [Ask[h] EXCEPT !.scope = b.scope])
    /\ b = Ask[h]
    /\ h \in assigned
    /\ h \notin stale

\* ... and the caller's binding, after require() accepted its capability for
\* the host session and turn of the request and for the scope of the call,
\* matches the request.
Matches(h, l, b) ==
    /\ Covers(l, [Ask[h] EXCEPT !.scope = b.scope])
    /\ manager[h] = Grant[l].manager
    /\ b = Ask[h]
    /\ h \in assigned
    /\ h \notin stale

Record(h, k, b) ==
    /\ answer' = [answer EXCEPT ![h] = [by |-> k, for |-> b]]
    /\ signalled' = signalled \cup {h}
    /\ UNCHANGED <<queue, manager, assigned, stale>>

\* Mutant: revoke() empties the queue without waking the hooks.
RevokeInSilence ==
    /\ queue' = {}
    /\ UNCHANGED <<manager, assigned, answer, signalled, stale>>

\* revoke(): every waiting hook is woken, then the queue is emptied.
RevokeAll ==
    /\ signalled' = signalled \cup queue
    /\ queue' = {}
    /\ UNCHANGED <<manager, assigned, answer, stale>>
=============================================================================
