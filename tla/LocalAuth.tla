------------------------------ MODULE LocalAuth ------------------------------
(***************************************************************************)
(* Local authentication: the pairing of the browser extension, the window  *)
(* of request nonces, and the launch and session tokens of the Library.    *)
(*                                                                         *)
(* Every request is a thread of the runtime.  ReplayWindow.accept(),       *)
(* ExtensionPairingAuthority.pair() and the LibrarySessionAuthority read   *)
(* the clock before they take their lock, so a request is at least two     *)
(* steps: one that reads the clock, and the critical section.  Codes,      *)
(* secrets, launches and sessions are numbered in the order of their       *)
(* creation; 0 stands for none.                                            *)
(***************************************************************************)
EXTENDS Naturals, Sequences, FiniteSets

CONSTANTS
    Thread,         \* handler threads
    Nonce,          \* requests of the extension, each with its nonce
    Freshness, FutureSkew, MaxEntries,           \* ReplayWindow
    CodeTTL, MaxAttempts, AttemptWindow,         \* ExtensionPairingAuthority
    LaunchTTL, SessionTTL, MaxLaunches, MaxSessions,  \* LibrarySessionAuthority
    Delay,          \* bound: clock steps between a clock read and the lock
    MaxClock, MaxCodes, MaxTokens, MaxRestarts,  \* bounds of the model
    Uses            \* the sets of endpoints that clients use in a behaviour

ASSUME LocalAuthAssumption ==
    /\ {Freshness, MaxEntries, MaxAttempts, AttemptWindow} \subseteq Nat \ {0}
    /\ {FutureSkew, CodeTTL, LaunchTTL, SessionTTL, Delay} \subseteq Nat
    /\ {MaxLaunches, MaxSessions} \subseteq Nat \ {0}
    /\ {MaxClock, MaxCodes, MaxTokens, MaxRestarts} \subseteq Nat
    /\ Uses \subseteq SUBSET {"capture", "pairing", "library"}

VARIABLES
    uses,       \* the endpoints of this behaviour
    clock, restarts,
    thread,     \* of each handler thread: its request and local variables
    seen,       \* ReplayWindow._seen
    code, codeExpires, attempts,     \* ExtensionPairingAuthority
    secret,     \* _secret
    stored,     \* the secret in the credential store
    forward,    \* of each request: how far forward() of the extension is
    extension,  \* extensionSecret in the extension's storage
    launches, sessions,              \* LibrarySessionAuthority
    \* History, which the properties speak of:
    codes, tokens, secrets,  \* how many were issued
    accepted,   \* of each nonce: the times it was accepted
    evicted,    \* nonces that were dropped from a full window
    paired,     \* of each code: how often it paired
    failures,   \* failed attempts since attempts was cleared
    revoked,    \* secrets whose revocation has returned
    opened      \* sessions in the order they were opened

windowVars == <<seen, accepted, evicted>>
pairingVars == <<code, codeExpires, attempts, secret, stored, codes, secrets,
                 paired, failures, revoked>>
extensionVars == <<forward, extension>>
libraryVars == <<launches, sessions, tokens, opened>>
timeVars == <<uses, clock, restarts>>
vars == <<timeVars, thread, windowVars, pairingVars, extensionVars, libraryVars>>

Idle == [at |-> "idle"]
Entry == [nonce : Nonce, at : Nat]
Token == [id : Nat, expires : Nat]
Session == [id : Nat, launch : Nat, expires : Nat]

Init ==
    /\ uses \in Uses
    /\ clock = 0 /\ restarts = 0
    /\ thread = [t \in Thread |-> Idle]
    /\ seen = <<>>
    /\ code = 0 /\ codeExpires = 0 /\ attempts = <<>>
    /\ stored \in {0, 1}
    /\ secret = stored /\ extension = stored /\ secrets = stored
    /\ forward = [n \in Nonce |-> Idle]
    /\ launches = {} /\ sessions = {}
    /\ codes = 0 /\ tokens = 0
    /\ accepted = [n \in Nonce |-> <<>>] /\ evicted = {}
    /\ paired = [c \in 0 .. MaxCodes |-> 0]
    /\ failures = <<>> /\ revoked = {}
    /\ opened = <<>>

\* A window drops entries from its old end and stops at the first one that is
\* not older than age.
Recent(s, now, age) ==
    LET live == {i \in DOMAIN s : s[i].at + age >= now}
    IN  IF live = {} THEN <<>>
        ELSE SubSeq(s, CHOOSE i \in live : \A j \in live : i <= j, Len(s))

\* What is left of a window with one entry too many.
Trimmed(s, limit) == IF Len(s) > limit THEN Tail(s) ELSE s

\* The session authority drops every expired token ...
Unexpired(s, now) == {e \in s : e.expires >= now}

\* ... and from a store with one token too many the oldest, which has the
\* smallest number.
Newest(s, limit) == IF Cardinality(s) > limit THEN {e \in s : \E f \in s : f.id < e.id} ELSE s

Runs(t, endpoint) == endpoint \in uses /\ thread[t] = Idle
Return(t) == thread' = [thread EXCEPT ![t] = Idle]

---------------------------------------------------------------------------
\* The extension: forward() in the service worker.

\* The runtime proves that it holds the secret of the extension ...
Prove(n) ==
    /\ "capture" \in uses /\ forward[n] = Idle /\ extension # 0
    /\ forward' = [forward EXCEPT
           ![n] = IF secret = extension THEN [at |-> "proved", key |-> extension]
                                        ELSE [at |-> "failed"]]
    /\ UNCHANGED <<timeVars, thread, windowVars, pairingVars, extension, libraryVars>>

\* ... and the request is signed, stamped and sent.
Sign(n) ==
    /\ forward[n].at = "proved"
    /\ forward' = [forward EXCEPT
           ![n] = [at |-> "sent", key |-> forward[n].key, stamp |-> clock]]
    /\ UNCHANGED <<timeVars, thread, windowVars, pairingVars, extension, libraryVars>>

---------------------------------------------------------------------------
\* Captures.  A request may arrive late and, resent by the network, twice.

ReceiveCapture(t, n) ==
    /\ Runs(t, "capture") /\ forward[n].at = "sent" /\ secret # 0
    /\ thread' = [thread EXCEPT ![t] =
                      [at |-> "capture", nonce |-> n, key |-> secret]]
    /\ UNCHANGED <<timeVars, windowVars, pairingVars, extensionVars, libraryVars>>

\* The signature is checked, then accept() reads the clock.
Verify(t) ==
    /\ thread[t].at = "capture"
    /\ LET n == thread[t].nonce
           stamp == forward[n].stamp
       IN  IF /\ thread[t].key = forward[n].key
              /\ stamp + Freshness >= clock
              /\ stamp <= clock + FutureSkew
           THEN thread' = [thread EXCEPT ![t] =
                               [at |-> "accept", nonce |-> n, now |-> clock]]
           ELSE Return(t)
    /\ UNCHANGED <<timeVars, windowVars, pairingVars, extensionVars, libraryVars>>

\* Mutant: the window drops a nonce one step too early.
WindowEarly(now) == Recent(seen, now, Freshness - 1)

Window(now) == Recent(seen, now, Freshness)

\* A new nonce; the acceptances of nonces that a full window drops are not
\* followed any longer.
AcceptNew(n, now) ==
    LET full == Append(Window(now), [nonce |-> n, at |-> now])
        dropped == IF Len(full) > MaxEntries THEN {Head(full).nonce} ELSE {}
    IN  /\ seen' = Trimmed(full, MaxEntries)
        /\ evicted' = evicted \cup dropped
        /\ accepted' = [m \in Nonce |->
               IF m \in evicted' THEN <<>>
               ELSE IF m = n THEN Append(accepted[n], now) ELSE accepted[m]]

\* The critical section of accept().
Accept(t) ==
    LET n == thread[t].nonce
        now == thread[t].now
        known == \E i \in DOMAIN Window(now) : Window(now)[i].nonce = n
    IN  /\ thread[t].at = "accept"
        /\ \/ known /\ seen' = Window(now) /\ UNCHANGED <<accepted, evicted>>
           \/ ~known /\ AcceptNew(n, now)
        /\ Return(t)
        /\ UNCHANGED <<timeVars, pairingVars, extensionVars, libraryVars>>

---------------------------------------------------------------------------
\* Pairing.

IssueCode ==
    /\ "pairing" \in uses /\ codes < MaxCodes
    /\ codes' = codes + 1
    /\ code' = codes + 1 /\ codeExpires' = clock + CodeTTL
    /\ attempts' = <<>> /\ failures' = <<>>
    /\ UNCHANGED <<timeVars, thread, windowVars, secret, stored, secrets, paired,
                   revoked, extensionVars, libraryVars>>

\* A client supplies any code, the right one, an old one or none.
StartPair(t, c) ==
    /\ Runs(t, "pairing")
    /\ thread' = [thread EXCEPT ![t] = [at |-> "pair", code |-> c, now |-> clock]]
    /\ UNCHANGED <<timeVars, windowVars, pairingVars, extensionVars, libraryVars>>

PairLimited(t) ==
    /\ thread[t].at = "pair"
    /\ attempts' = Recent(attempts, thread[t].now, AttemptWindow)
    /\ Len(attempts') >= MaxAttempts
    /\ Return(t)
    /\ UNCHANGED <<timeVars, windowVars, code, codeExpires, secret, stored, codes,
                   secrets, paired, failures, revoked, extensionVars, libraryVars>>

\* Mutant: a rejected attempt is not recorded.
AttemptedUnrecorded(t) == Recent(attempts, thread[t].now, AttemptWindow)

\* The attempts with this one.
Attempted(t) ==
    Append(Recent(attempts, thread[t].now, AttemptWindow), [at |-> thread[t].now])

Admitted(t) ==
    /\ thread[t].at = "pair"
    /\ Len(Recent(attempts, thread[t].now, AttemptWindow)) < MaxAttempts

CodeMatches(t) ==
    /\ code # 0 /\ thread[t].code = code
    /\ thread[t].now <= codeExpires

PairRejected(t) ==
    /\ Admitted(t) /\ ~CodeMatches(t)
    /\ attempts' = Attempted(t)
    /\ failures' = Append(failures, thread[t].now)
    /\ code' = IF thread[t].now > codeExpires THEN 0 ELSE code
    /\ Return(t)
    /\ UNCHANGED <<timeVars, windowVars, codeExpires, secret, stored, codes, secrets,
                   paired, revoked, extensionVars, libraryVars>>

CodeUsed == code' = 0 /\ codeExpires' = 0 /\ attempts' = <<>> /\ failures' = <<>>

\* The secret is rotated in the store and then in memory; the answer is on its
\* way to the extension.
PairAccepted(t) ==
    /\ Admitted(t) /\ CodeMatches(t)
    /\ CodeUsed
    /\ secrets' = secrets + 1
    /\ secret' = secrets + 1 /\ stored' = secrets + 1
    /\ paired' = [paired EXCEPT ![code] = @ + 1]
    /\ thread' = [thread EXCEPT ![t] = [at |-> "answer", key |-> secrets + 1]]
    /\ UNCHANGED <<timeVars, windowVars, codes, revoked, extensionVars, libraryVars>>

\* The store refuses to rotate: the code is gone, the secret is as before.
PairFails(t) ==
    /\ Admitted(t) /\ CodeMatches(t)
    /\ CodeUsed
    /\ Return(t)
    /\ UNCHANGED <<timeVars, windowVars, secret, stored, codes, secrets, paired,
                   revoked, extensionVars, libraryVars>>

\* pair() of the service worker stores the secret, or the answer is lost.
PairAnswered(t) ==
    /\ thread[t].at = "answer"
    /\ extension' \in {extension, thread[t].key}
    /\ Return(t)
    /\ UNCHANGED <<timeVars, windowVars, pairingVars, forward, libraryVars>>

\* Mutant: the secret is forgotten and left in the store.
RevokeMemory ==
    /\ "pairing" \in uses
    /\ revoked' = revoked \cup ({secret, stored} \ {0})
    /\ secret' = 0 /\ code' = 0 /\ codeExpires' = 0
    /\ attempts' = <<>> /\ failures' = <<>>
    /\ UNCHANGED <<timeVars, thread, windowVars, stored, codes, secrets, paired,
                   extensionVars, libraryVars>>

\* revoke(); when the store cannot remove its secret, nothing changes.
Revoke ==
    /\ "pairing" \in uses
    /\ revoked' = revoked \cup ({secret, stored} \ {0})
    /\ stored' = 0 /\ secret' = 0 /\ code' = 0 /\ codeExpires' = 0
    /\ attempts' = <<>> /\ failures' = <<>>
    /\ UNCHANGED <<timeVars, thread, windowVars, codes, secrets, paired,
                   extensionVars, libraryVars>>

---------------------------------------------------------------------------
\* Launches and sessions of the Library.

\* The management client, or a browser, asks; the clock is read.
StartIssue(t) ==
    /\ Runs(t, "library") /\ tokens < MaxTokens
    /\ thread' = [thread EXCEPT ![t] = [at |-> "issue", now |-> clock]]
    /\ UNCHANGED <<timeVars, windowVars, pairingVars, extensionVars, libraryVars>>

IssueLaunch(t) ==
    /\ thread[t].at = "issue" /\ tokens < MaxTokens
    /\ tokens' = tokens + 1
    /\ launches' = Newest(Unexpired(launches, thread[t].now) \cup
           {[id |-> tokens + 1, expires |-> thread[t].now + LaunchTTL]}, MaxLaunches)
    /\ Return(t)
    /\ UNCHANGED <<timeVars, windowVars, pairingVars, extensionVars, sessions, opened>>

StartLaunch(t, l) ==
    /\ Runs(t, "library")
    /\ thread' = [thread EXCEPT ![t] = [at |-> "launch", token |-> l, now |-> clock]]
    /\ UNCHANGED <<timeVars, windowVars, pairingVars, extensionVars, libraryVars>>

Without(s, l) == {e \in s : e.id # l}

\* Mutant: a full store drops its newest session.
KeptOldest(s) == IF Cardinality(s) > MaxSessions THEN {e \in s : \E f \in s : f.id > e.id} ELSE s

KeptNewest(s) == Newest(s, MaxSessions)

ConsumeLaunch(t) ==
    LET live == Unexpired(launches, thread[t].now)
        l == thread[t].token
        new == [id |-> Len(opened) + 1, launch |-> l,
                expires |-> thread[t].now + SessionTTL]
    IN  /\ thread[t].at = "launch"
        /\ \/ /\ \E e \in live : e.id = l
              /\ launches' = Without(live, l)
              /\ sessions' = KeptNewest(sessions \cup {new})
              /\ opened' = Append(opened, new)
           \/ /\ \A e \in live : e.id # l
              /\ launches' = live
              /\ UNCHANGED <<sessions, opened>>
        /\ Return(t)
        /\ UNCHANGED <<timeVars, windowVars, pairingVars, extensionVars, tokens>>

\* Any page or form: authenticated() reads the clock, prunes and looks.
StartPage(t) ==
    /\ Runs(t, "library")
    /\ thread' = [thread EXCEPT ![t] = [at |-> "page", now |-> clock]]
    /\ UNCHANGED <<timeVars, windowVars, pairingVars, extensionVars, libraryVars>>

Authenticated(t) ==
    /\ thread[t].at = "page"
    /\ sessions' = Unexpired(sessions, thread[t].now)
    /\ Return(t)
    /\ UNCHANGED <<timeVars, windowVars, pairingVars, extensionVars, launches,
                   tokens, opened>>

---------------------------------------------------------------------------

\* A thread that read the clock gets its lock within Delay.
Tick ==
    /\ clock < MaxClock
    /\ \A t \in Thread :
           "now" \in DOMAIN thread[t] => clock < thread[t].now + Delay
    /\ clock' = clock + 1
    /\ UNCHANGED <<uses, restarts, thread, windowVars, pairingVars, extensionVars,
                   libraryVars>>

\* A new runtime process, after a stop or a crash, possibly of a pairing that
\* had rotated the stored secret already.  It has the stored secret unless
\* that cannot be read.
Restart ==
    /\ restarts < MaxRestarts
    /\ restarts' = restarts + 1
    /\ \/ UNCHANGED <<stored, secrets>>
       \/ /\ \E t \in Thread : Admitted(t) /\ CodeMatches(t)
          /\ secrets' = secrets + 1 /\ stored' = secrets + 1
    /\ secret' \in {0, stored'}
    /\ thread' = [t \in Thread |-> Idle]
    /\ seen' = <<>> /\ accepted' = [n \in Nonce |-> <<>>] /\ evicted' = {}
    /\ code' = 0 /\ codeExpires' = 0 /\ attempts' = <<>> /\ failures' = <<>>
    /\ launches' = {} /\ sessions' = {} /\ opened' = <<>>
    /\ UNCHANGED <<uses, clock, codes, tokens, paired, revoked, extensionVars>>

Next ==
    \/ \E n \in Nonce : Prove(n) \/ Sign(n)
    \/ \E t \in Thread :
          \/ \E n \in Nonce : ReceiveCapture(t, n)
          \/ Verify(t) \/ Accept(t)
          \/ \E c \in 0 .. codes : StartPair(t, c)
          \/ PairLimited(t) \/ PairRejected(t) \/ PairAccepted(t)
          \/ PairFails(t) \/ PairAnswered(t)
          \/ StartIssue(t) \/ IssueLaunch(t)
          \/ \E l \in 0 .. tokens : StartLaunch(t, l)
          \/ ConsumeLaunch(t) \/ StartPage(t) \/ Authenticated(t)
    \/ IssueCode \/ Revoke \/ Tick \/ Restart

Spec == Init /\ [][Next]_vars
=============================================================================
