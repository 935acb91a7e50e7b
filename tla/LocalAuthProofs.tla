-------------------------- MODULE LocalAuthProofs --------------------------
(***************************************************************************)
(* Proofs of the invariants of the local authentication, for any number of *)
(* threads, nonces, codes and tokens and for all limits and times.  Each   *)
(* service has an inductive invariant of its own; what they share is the   *)
(* bound on the age of a thread's clock.                                   *)
(***************************************************************************)
EXTENDS LocalAuthProperties, FiniteSetTheorems, SequenceTheorems, WellFoundedInduction, TLAPS

Timed == {"accept", "pair", "issue", "page", "launch"}

\* A thread on its way to a lock has a clock that is at most Delay behind.
ClockInv ==
    /\ clock \in Nat
    /\ thread \in [Thread -> Request]
    /\ \A t \in Thread : thread[t].at \in Timed =>
           thread[t].now <= clock /\ clock <= thread[t].now + Delay

\* A code that has paired is not in force, and codes are not issued twice.
CodeInv ==
    /\ codes \in Nat /\ code \in 0 .. codes
    /\ paired \in [0 .. MaxCodes -> Nat]
    /\ \A c \in 0 .. MaxCodes : paired[c] <= 1 /\ (c = 0 \/ c = code \/ c > codes => paired[c] = 0)

\* What is revoked was issued, and is in force neither in memory nor in the store.
SecretInv ==
    /\ secrets \in Nat /\ {secret, stored} \subseteq 0 .. secrets
    /\ revoked \subseteq 1 .. secrets
    /\ RevokedStaysRevoked

\* The attempts are the last of the failures.  What was dropped before them had
\* left the window, and so had, when a failure was recorded, all but the last
\* ones before it.
AttemptsInv ==
    /\ attempts \in Seq([at : Nat]) /\ Len(attempts) <= MaxAttempts
    /\ failures \in Seq(Nat) /\ Len(attempts) <= Len(failures)
    /\ \A k \in 1 .. Len(attempts) :
           attempts[k].at = failures[Len(failures) - Len(attempts) + k]
    /\ \A k \in 1 .. Len(failures) - Len(attempts) : failures[k] + AttemptWindow < clock
    /\ \A i, k \in 1 .. Len(failures) :
           k + MaxAttempts <= i => failures[k] + AttemptWindow < failures[i] + Delay

\* An acceptance whose nonce was not evicted is in the window, or too old.
WindowInv ==
    /\ seen \in Seq(Entry) /\ Len(seen) <= MaxEntries
    /\ evicted \subseteq Nonce /\ accepted \in [Nonce -> Seq(Nat)]
    /\ \A n \in Nonce \ evicted : \A i \in 1 .. Len(accepted[n]) :
           \/ accepted[n][i] + Freshness < clock
           \/ \E k \in 1 .. Len(seen) : seen[k] = [nonce |-> n, at |-> accepted[n][i]]
    /\ NonceOncePerWindow

\* A launch that has opened a session is in the store no more, and the sessions
\* of the store are among those that were opened.
LaunchInv ==
    /\ tokens \in Nat
    /\ launches \subseteq Token /\ IsFiniteSet(launches) /\ Cardinality(launches) <= MaxLaunches
    /\ \A e \in launches : e.id <= tokens
    /\ opened \in Seq(Session)
    /\ \A i \in 1 .. Len(opened) :
           /\ opened[i].id = i /\ opened[i].launch <= tokens
           /\ \A e \in launches : e.id # opened[i].launch
    /\ LaunchOpensOneSession

SessionInv ==
    /\ sessions \subseteq {opened[i] : i \in 1 .. Len(opened)}
    /\ IsFiniteSet(sessions) /\ Cardinality(sessions) <= MaxSessions
    /\ \A i \in 1 .. Len(opened) :
           \/ opened[i] \in sessions
           \/ opened[i].expires < clock
           \/ Len(opened) - i >= MaxSessions
\* What remains to be typed.
FieldInv == {restarts, codeExpires, extension} \subseteq Nat
-----------------------------------------------------------------------------
\* Order.

\* Of some numbers one is the least, and of those up to a bound one the greatest.
LEMMA LeastNumber ==
    ASSUME NEW S \in SUBSET Nat, S # {}
    PROVE  \E m \in S : \A k \in S : m <= k
<1> DEFINE R == OpToRel(<, Nat)
<1>1. IsWellFoundedOn(R, Nat)
  BY NatLessThanWellFounded
<1>2. \A x, y \in Nat : y < x => <<y, x>> \in R
  BY DEF OpToRel
<1> HIDE DEF R
<1>3. PICK m \in S : \A y \in S : <<y, m>> \notin R
  BY <1>1, WFMin
<1>4. ASSUME NEW k \in S PROVE m <= k
  <2>1. ~ (k < m)
    BY <1>2, <1>3
  <2>2. QED
    BY <2>1
<1>5. QED
  BY <1>4

LEMMA GreatestNumber ==
    ASSUME NEW n \in Nat, NEW S \in SUBSET (0 .. n), S # {}
    PROVE  \E m \in S : \A k \in S : k <= m
<1> DEFINE T == {n - k : k \in S}
<1>1. T \in SUBSET Nat /\ T # {}
  <2>1. \A k \in S : n - k \in Nat
    OBVIOUS
  <2>2. QED
    BY <2>1
<1>2. PICK l \in T : \A k \in T : l <= k
  <2> HIDE DEF T
  <2> QED BY <1>1, LeastNumber
<1>3. PICK m \in S : l = n - m
  BY <1>2
<1>4. \A k \in S : k <= m
  BY <1>2, <1>3
<1>5. QED
  BY <1>4

-----------------------------------------------------------------------------
\* Threads and the clock.

LEMMA ThreadLocals ==
    ASSUME NEW r \in Request
    PROVE  /\ r.at \in {"accept"} => r.nonce \in Nonce /\ r.now \in Nat
           /\ r.at = "capture" => r.nonce \in Nonce
           /\ r.at = "pair" => r.code \in Nat /\ r.now \in Nat
           /\ r.at = "answer" => r.key \in Nat
           /\ r.at \in {"issue", "page"} => r.now \in Nat
           /\ r.at = "launch" => r.token \in Nat /\ r.now \in Nat
           /\ r.at \in Timed <=> "now" \in DOMAIN r
  BY DEF Request, Idle, Timed

LocalAuthInv ==
    ClockInv /\ CodeInv /\ SecretInv /\ AttemptsInv /\ WindowInv /\ LaunchInv /\ SessionInv
    /\ FieldInv

\* What a step does to the threads and the clock.
ThreadStep ==
    \/ UNCHANGED <<clock, thread>>
    \/ /\ UNCHANGED clock
       /\ \E t \in Thread, r \in Request :
             /\ r.at \in Timed => r.now = clock
             /\ thread' = [thread EXCEPT ![t] = r]
    \/ Tick
    \/ UNCHANGED clock /\ thread' = [t \in Thread |-> Idle]

LEMMA ThreadSteps ==
    ASSUME LocalAuthInv, [Next]_vars
    PROVE  ThreadStep
<1> USE DEF LocalAuthInv, ClockInv, timeVars
<1>1. CASE UNCHANGED vars
  BY <1>1 DEF vars, ThreadStep
<1>2. ASSUME NEW n \in Nonce, Prove(n) \/ Sign(n) PROVE ThreadStep
  BY <1>2 DEF Prove, Sign, ThreadStep
<1>3. ASSUME NEW t \in Thread, NEW r, r \in Request, r.at \in Timed => r.now = clock,
             thread' = [thread EXCEPT ![t] = r], UNCHANGED clock
      PROVE  ThreadStep
  BY <1>3 DEF ThreadStep
<1>4. ASSUME NEW t \in Thread, Return(t), UNCHANGED clock PROVE ThreadStep
  <2>1. Idle \in Request /\ Idle.at \notin Timed
    BY DEF Idle, Request, Timed
  <2>2. QED
    BY <1>3, <1>4, <2>1 DEF Return
<1>5. ASSUME NEW t \in Thread, NEW n \in Nonce, ReceiveCapture(t, n) PROVE ThreadStep
  <2> DEFINE r == [at |-> "capture", nonce |-> n, key |-> secret]
  <2>1. r \in Request /\ r.at \notin Timed
    BY DEF Request, Timed, SecretInv
  <2>2. QED
    BY <1>3, <1>5, <2>1 DEF ReceiveCapture
<1>6. ASSUME NEW t \in Thread, Verify(t) PROVE ThreadStep
  <2> DEFINE r == [at |-> "accept", nonce |-> thread[t].nonce, now |-> clock]
  <2>1. r \in Request /\ r.now = clock
    BY <1>6, ThreadLocals DEF Request, Verify
  <2>2. CASE thread' = [thread EXCEPT ![t] = r]
    BY <1>3, <1>6, <2>1, <2>2 DEF Verify
  <2>3. QED
    BY <1>4, <1>6, <2>2 DEF Verify
<1>7. ASSUME NEW t \in Thread, Accept(t) \/ PairLimited(t) \/ PairRejected(t) \/ PairFails(t)
             \/ PairAnswered(t) \/ IssueLaunch(t) \/ ConsumeLaunch(t) \/ Authenticated(t)
      PROVE  ThreadStep
  <2>1. Return(t) /\ UNCHANGED clock
    BY <1>7, Zenon DEF Accept, PairLimited, PairRejected, PairFails, PairAnswered, IssueLaunch,
          ConsumeLaunch, Authenticated
  <2>2. QED
    BY <1>4, <2>1
<1>8. ASSUME NEW t \in Thread, NEW c \in 0 .. codes, StartPair(t, c) PROVE ThreadStep
  <2> DEFINE r == [at |-> "pair", code |-> c, now |-> clock]
  <2>1. r \in Request /\ r.now = clock
    BY DEF Request, CodeInv
  <2>2. QED
    BY <1>3, <1>8, <2>1 DEF StartPair
<1>9. ASSUME NEW t \in Thread, PairAccepted(t) PROVE ThreadStep
  <2> DEFINE r == [at |-> "answer", key |-> secrets + 1]
  <2>1. r \in Request /\ r.at \notin Timed
    BY DEF Request, Timed, SecretInv
  <2>2. QED
    BY <1>3, <1>9, <2>1 DEF PairAccepted
<1>10. ASSUME NEW t \in Thread, NEW l \in 0 .. tokens, StartLaunch(t, l) PROVE ThreadStep
  <2> DEFINE r == [at |-> "launch", token |-> l, now |-> clock]
  <2>1. r \in Request /\ r.now = clock
    BY DEF Request, LaunchInv
  <2>2. QED
    BY <1>3, <1>10, <2>1 DEF StartLaunch
<1>11. ASSUME NEW t \in Thread, NEW a \in {"issue", "page"}, StartIssue(t) \/ StartPage(t),
              thread' = [thread EXCEPT ![t] = [at |-> a, now |-> clock]]
       PROVE  ThreadStep
  <2>1. [at |-> a, now |-> clock] \in Request
    BY DEF Request
  <2>2. QED
    BY <1>3, <1>11, <2>1 DEF StartIssue, StartPage
<1>12. ASSUME NEW t \in Thread, StartIssue(t) \/ StartPage(t) PROVE ThreadStep
  BY <1>11, <1>12 DEF StartIssue, StartPage
<1>13. CASE IssueCode \/ Revoke
  BY <1>13 DEF IssueCode, Revoke, ThreadStep
<1>14. CASE Tick \/ Restart
  BY <1>14 DEF Restart, ThreadStep
<1>15. QED
  BY <1>1, <1>2, <1>5, <1>6, <1>7, <1>8, <1>9, <1>10, <1>12, <1>13, <1>14 DEF Next

LEMMA ClockInvariant ==
    ASSUME LocalAuthInv, [Next]_vars
    PROVE  ClockInv' /\ clock <= clock'
<1> USE LocalAuthAssumption DEF LocalAuthInv, ClockInv
<1>1. CASE UNCHANGED <<clock, thread>>
  BY <1>1
<1>2. ASSUME NEW t \in Thread, NEW r \in Request, r.at \in Timed => r.now = clock,
             thread' = [thread EXCEPT ![t] = r], UNCHANGED clock
      PROVE  ClockInv' /\ clock <= clock'
  BY <1>2
<1>3. CASE Tick
  <2>1. thread' = thread /\ clock' = clock + 1
    BY <1>3 DEF Tick
  <2>2. ASSUME NEW t \in Thread, thread[t].at \in Timed PROVE clock < thread[t].now + Delay
    BY <1>3, <2>2, ThreadLocals DEF Tick
  <2>3. ASSUME NEW t \in Thread, thread[t].at \in Timed PROVE thread[t].now \in Nat
    BY <2>3, ThreadLocals DEF Timed
  <2>4. QED
    BY <2>1, <2>2, <2>3
<1>4. CASE UNCHANGED clock /\ thread' = [t \in Thread |-> Idle]
  BY <1>4 DEF Idle, Request, Timed
<1>5. QED
  BY <1>1, <1>2, <1>3, <1>4, ThreadSteps DEF ThreadStep

\* The services do not touch each other's state.
PairingStep(t) == PairLimited(t) \/ PairRejected(t) \/ PairAccepted(t) \/ PairFails(t)

LibraryStep(t) == IssueLaunch(t) \/ ConsumeLaunch(t) \/ Authenticated(t)

LEMMA ServiceSteps ==
    ASSUME [Next]_vars
    PROVE  /\ UNCHANGED pairingVars \/ IssueCode \/ Revoke \/ Restart \/ \E t \in Thread : PairingStep(t)
           /\ UNCHANGED windowVars \/ Restart \/ \E t \in Thread : Accept(t)
           /\ UNCHANGED libraryVars \/ Restart \/ \E t \in Thread : LibraryStep(t)
<1> DEFINE Others == UNCHANGED <<windowVars, pairingVars, libraryVars>>
<1>1. CASE UNCHANGED vars
  BY <1>1 DEF vars
<1>2. ASSUME NEW n \in Nonce, Prove(n) \/ Sign(n) PROVE Others
  BY <1>2 DEF Prove, Sign
<1>3. ASSUME NEW t \in Thread, NEW n \in Nonce, ReceiveCapture(t, n) PROVE Others
  BY <1>3 DEF ReceiveCapture
<1>4. ASSUME NEW t \in Thread, Verify(t) \/ PairAnswered(t) \/ StartIssue(t) \/ StartPage(t) PROVE Others
  BY <1>4 DEF Verify, PairAnswered, StartIssue, StartPage
<1>5. ASSUME NEW t \in Thread, NEW c \in 0 .. codes, StartPair(t, c) PROVE Others
  BY <1>5 DEF StartPair
<1>6. ASSUME NEW t \in Thread, NEW l \in 0 .. tokens, StartLaunch(t, l) PROVE Others
  BY <1>6 DEF StartLaunch
<1>7. ASSUME NEW t \in Thread, Accept(t) PROVE UNCHANGED <<pairingVars, libraryVars>>
  BY <1>7 DEF Accept
<1>8. ASSUME NEW t \in Thread, PairingStep(t) PROVE UNCHANGED <<windowVars, libraryVars>>
  BY <1>8 DEF PairingStep, PairLimited, PairRejected, PairAccepted, PairFails
<1>9. ASSUME NEW t \in Thread, LibraryStep(t) PROVE UNCHANGED <<windowVars, pairingVars>>
  BY <1>9, Zenon DEF LibraryStep, IssueLaunch, ConsumeLaunch, Authenticated
<1>10. CASE IssueCode \/ Revoke
  BY <1>10 DEF IssueCode, Revoke
<1>11. CASE Tick
  BY <1>11 DEF Tick
<1>12. QED
  BY <1>1, <1>2, <1>3, <1>4, <1>5, <1>6, <1>7, <1>8, <1>9, <1>10, <1>11 DEF Next, PairingStep, LibraryStep

-----------------------------------------------------------------------------
\* Pairing.

LEMMA CodeInvariant ==
    ASSUME LocalAuthInv, [Next]_vars
    PROVE  CodeInv'
<1>1. CodeInv /\ MaxCodes \in Nat
  BY LocalAuthAssumption DEF LocalAuthInv
<1>2. CASE UNCHANGED pairingVars
  BY <1>1, <1>2 DEF pairingVars, CodeInv
<1>3. CASE UNCHANGED <<code, codes, paired>>
  BY <1>1, <1>3 DEF CodeInv
<1>4. CASE IssueCode
  <2>1. codes' = codes + 1 /\ code' = codes + 1 /\ paired' = paired
    BY <1>4 DEF IssueCode
  <2>2. QED
    BY <1>1, <2>1 DEF CodeInv
<1>5. CASE code' = 0 /\ UNCHANGED <<codes, paired>>
  BY <1>1, <1>5 DEF CodeInv
<1>6. CASE Revoke \/ Restart
  BY <1>5, <1>6 DEF Revoke, Restart
<1>7. ASSUME NEW t \in Thread, PairLimited(t) \/ PairFails(t) \/ PairRejected(t) PROVE CodeInv'
  BY <1>3, <1>5, <1>7 DEF PairLimited, PairFails, PairRejected, CodeUsed
<1>8. ASSUME NEW t \in Thread, PairAccepted(t) PROVE CodeInv'
  <2>1. /\ code # 0 /\ code' = 0 /\ codes' = codes
        /\ paired' = [paired EXCEPT ![code] = @ + 1]
    BY <1>8 DEF PairAccepted, CodeMatches, CodeUsed
  <2>2. paired \in [0 .. MaxCodes -> Nat] /\ codes \in Nat /\ code \in 0 .. codes
    BY <1>1 DEF CodeInv
  <2>3. paired' = [c \in 0 .. MaxCodes |-> IF c = code THEN paired[c] + 1 ELSE paired[c]]
    BY <2>1, <2>2
  <2>4. \A c \in 0 .. MaxCodes : paired[c] \in Nat
    BY <2>2
  <2>5. paired' \in [0 .. MaxCodes -> Nat]
    BY <2>3, <2>4
  <2>6. QED
    BY <1>1, <2>1, <2>2, <2>3, <2>5 DEF CodeInv
<1>9. QED
  BY <1>2, <1>4, <1>6, <1>7, <1>8, ServiceSteps DEF PairingStep

LEMMA SecretInvariant ==
    ASSUME LocalAuthInv, [Next]_vars
    PROVE  SecretInv'
<1> USE DEF SecretInv, RevokedStaysRevoked
<1>1. SecretInv
  BY DEF LocalAuthInv
<1>2. CASE UNCHANGED <<secret, stored, secrets, revoked>>
  BY <1>1, <1>2
<1>3. CASE UNCHANGED pairingVars
  BY <1>2, <1>3 DEF pairingVars
<1>4. CASE IssueCode
  BY <1>2, <1>4 DEF IssueCode
<1>5. CASE Revoke
  <2>1. /\ secret' = 0 /\ stored' = 0 /\ secrets' = secrets
        /\ revoked' = revoked \cup ({secret, stored} \ {0})
    BY <1>5 DEF Revoke
  <2>2. revoked' \subseteq 1 .. secrets'
    <3>1. secrets \in Nat /\ secret \in 0 .. secrets /\ stored \in 0 .. secrets
      BY <1>1
    <3>2. {secret, stored} \ {0} \subseteq 1 .. secrets
      BY <3>1
    <3>3. QED
      BY <1>1, <2>1, <3>2
  <2>3. QED
    BY <1>1, <2>1, <2>2
<1>6. CASE Restart
  <2>1. /\ UNCHANGED revoked /\ secret' \in {0, stored'}
        /\ \/ UNCHANGED <<stored, secrets>>
           \/ secrets' = secrets + 1 /\ stored' = secrets + 1
    BY <1>6 DEF Restart
  <2>2. QED
    BY <1>1, <2>1
<1>7. ASSUME NEW t \in Thread, PairLimited(t) \/ PairFails(t) \/ PairRejected(t) PROVE SecretInv'
  BY <1>2, <1>7 DEF PairLimited, PairFails, PairRejected
<1>8. ASSUME NEW t \in Thread, PairAccepted(t) PROVE SecretInv'
  <2>1. secrets' = secrets + 1 /\ secret' = secrets + 1 /\ stored' = secrets + 1 /\ UNCHANGED revoked
    BY <1>8 DEF PairAccepted
  <2>2. QED
    BY <1>1, <2>1
<1>9. QED
  BY <1>3, <1>4, <1>5, <1>6, <1>7, <1>8, ServiceSteps DEF PairingStep

-----------------------------------------------------------------------------
\* Windows.

\* A window loses entries of its old end only, and only such as are too old.
LEMMA RecentIsSuffix ==
    ASSUME NEW S, \A e \in S : e.at \in Nat,
           NEW s \in Seq(S), NEW now \in Nat, NEW age \in Nat
    PROVE  /\ Recent(s, now, age) \in Seq(S)
           /\ \E d \in 0 .. Len(s) :
                 /\ Len(Recent(s, now, age)) = Len(s) - d
                 /\ \A k \in 1 .. Len(s) - d : Recent(s, now, age)[k] = s[d + k]
                 /\ \A k \in 1 .. d : s[k].at + age < now
<1> DEFINE live == {i \in DOMAIN s : s[i].at + age >= now}
           m == CHOOSE i \in live : \A j \in live : i <= j
<1>1. Len(s) \in Nat /\ DOMAIN s = 1 .. Len(s) /\ \A i \in 1 .. Len(s) : s[i] \in S /\ s[i].at \in Nat
  OBVIOUS
<1>2. CASE live = {}
  <2>1. Recent(s, now, age) = <<>>
    BY <1>2 DEF Recent
  <2>2. \A k \in 1 .. Len(s) : s[k].at + age < now
    BY <1>1, <1>2
  <2>3. Recent(s, now, age) \in Seq(S) /\ Len(Recent(s, now, age)) = Len(s) - Len(s)
    BY <1>1, <2>1
  <2>4. \A k \in 1 .. Len(s) - Len(s) : Recent(s, now, age)[k] = s[Len(s) + k]
    BY <1>1
  <2>5. Len(s) \in 0 .. Len(s)
    BY <1>1
  <2>6. QED
    BY <2>2, <2>3, <2>4, <2>5
<1>3. CASE live # {}
  <2>1. live \in SUBSET Nat
    BY <1>1
  <2>2. m \in live /\ \A j \in live : m <= j
    <3> HIDE DEF live
    <3> QED BY <1>3, <2>1, LeastNumber
  <2>3. m \in 1 .. Len(s)
    <3> HIDE DEF m
    <3> QED BY <1>1, <2>2
  <2>4. \A k \in 1 .. m - 1 : s[k].at + age < now
    <3> HIDE DEF m
    <3>1. SUFFICES ASSUME NEW k \in 1 .. m - 1
                   PROVE  s[k].at + age < now
      OBVIOUS
    <3>2. k \in 1 .. Len(s) /\ ~ (m <= k)
      BY <1>1, <2>3, <3>1
    <3>3. k \notin live
      <4> HIDE DEF live
      <4> QED BY <2>2, <3>2, Zenon
    <3>4. ~ (s[k].at + age >= now)
      BY <1>1, <3>2, <3>3, Zenon
    <3>5. s[k].at \in Nat
      BY <1>1, <3>2
    <3> HIDE DEF live
    <3>6. QED
      BY <3>4, <3>5
  <2>5. Recent(s, now, age) = SubSeq(s, m, Len(s))
    BY <1>3 DEF Recent
  <2> HIDE DEF live, m
  <2>6. /\ SubSeq(s, m, Len(s)) \in Seq(S)
        /\ Len(SubSeq(s, m, Len(s))) = Len(s) - (m - 1)
        /\ \A k \in 1 .. Len(s) - (m - 1) : SubSeq(s, m, Len(s))[k] = s[(m - 1) + k]
    BY <1>1, <2>3
  <2>7. m - 1 \in 0 .. Len(s)
    BY <1>1, <2>3
  <2>8. QED
    BY <2>4, <2>5, <2>6, <2>7
<1>4. QED
  BY <1>2, <1>3

\* What stays of the attempts, and the failures they are the last of.
LEMMA RecentAttempts ==
    ASSUME AttemptsInv, clock \in Nat, NEW now \in Nat, now <= clock
    PROVE  LET kept == Recent(attempts, now, AttemptWindow)
               lost == Len(failures) - Len(kept)
           IN  /\ kept \in Seq([at : Nat]) /\ Len(kept) <= Len(attempts)
               /\ \A k \in 1 .. Len(kept) : kept[k].at = failures[lost + k]
               /\ \A k \in 1 .. lost : failures[k] + AttemptWindow < clock
<1> DEFINE kept == Recent(attempts, now, AttemptWindow)
<1>1. AttemptWindow \in Nat
  BY LocalAuthAssumption
<1>2. \A e \in [at : Nat] : e.at \in Nat
  OBVIOUS
<1>3. /\ attempts \in Seq([at : Nat]) /\ Len(attempts) \in Nat
      /\ failures \in Seq(Nat) /\ Len(failures) \in Nat /\ Len(attempts) <= Len(failures)
      /\ \A k \in 1 .. Len(failures) : failures[k] \in Nat
  BY DEF AttemptsInv
<1>4. PICK d \in 0 .. Len(attempts) :
          /\ Len(kept) = Len(attempts) - d
          /\ \A k \in 1 .. Len(attempts) - d : kept[k] = attempts[d + k]
          /\ \A k \in 1 .. d : attempts[k].at + AttemptWindow < now
  BY <1>1, <1>2, <1>3, RecentIsSuffix
<1>5. kept \in Seq([at : Nat])
  BY <1>1, <1>2, <1>3, RecentIsSuffix
<1> HIDE DEF kept
<1> DEFINE gone == Len(failures) - Len(attempts)
<1>6. gone \in Nat /\ Len(failures) - Len(kept) = gone + d
  BY <1>3, <1>4
<1>7. ASSUME NEW k \in 1 .. Len(kept) PROVE kept[k].at = failures[gone + d + k]
  <2>1. kept[k] = attempts[d + k] /\ d + k \in 1 .. Len(attempts)
    BY <1>3, <1>4
  <2>2. attempts[d + k].at = failures[gone + (d + k)]
    BY <2>1 DEF AttemptsInv
  <2>3. gone + (d + k) = gone + d + k
    BY <1>6
  <2>4. QED
    BY <2>1, <2>2, <2>3
<1>8. ASSUME NEW k \in 1 .. gone + d PROVE failures[k] + AttemptWindow < clock
  <2>1. CASE k <= gone
    BY <1>6, <2>1 DEF AttemptsInv
  <2>2. CASE k > gone
    <3>1. k - gone \in 1 .. d /\ k - gone \in 1 .. Len(attempts)
      BY <1>3, <1>4, <1>6, <2>2
    <3>2. attempts[k - gone].at = failures[gone + (k - gone)] /\ attempts[k - gone].at + AttemptWindow < now
      BY <1>4, <3>1 DEF AttemptsInv
    <3>3. gone + (k - gone) = k /\ failures[k] \in Nat
      BY <1>3, <1>4, <1>6
    <3>4. QED
      BY <1>1, <3>2, <3>3
  <2>3. QED
    BY <1>6, <2>1, <2>2
<1>9. kept \in Seq([at : Nat]) /\ Len(kept) <= Len(attempts)
  BY <1>3, <1>4, <1>5
<1>10. QED
  BY <1>6, <1>7, <1>8, <1>9 DEF kept

\* The clock of a thread at its lock.
LEMMA TimedThread ==
    ASSUME ClockInv, NEW t \in Thread, thread[t].at \in Timed
    PROVE  thread[t].now \in Nat /\ thread[t].now <= clock /\ clock <= thread[t].now + Delay
<1>1. thread[t] \in Request
  BY DEF ClockInv
<1>2. thread[t].now \in Nat
  BY <1>1, ThreadLocals DEF Timed
<1>3. QED
  BY <1>2 DEF ClockInv

LEMMA AttemptsInvariant ==
    ASSUME LocalAuthInv, [Next]_vars
    PROVE  AttemptsInv'
<1>1. /\ clock \in Nat /\ clock' \in Nat /\ clock <= clock'
      /\ AttemptWindow \in Nat /\ MaxAttempts \in Nat \ {0} /\ Delay \in Nat
  BY ClockInvariant, LocalAuthAssumption DEF LocalAuthInv, ClockInv
<1>2. /\ AttemptsInv
      /\ failures \in Seq(Nat) /\ Len(failures) \in Nat /\ Len(attempts) \in Nat
      /\ \A k \in 1 .. Len(failures) : failures[k] \in Nat
  BY DEF LocalAuthInv, AttemptsInv
<1>3. CASE UNCHANGED <<attempts, failures>>
  <2>1. \A k \in 1 .. Len(failures) - Len(attempts) : failures[k] + AttemptWindow < clock'
    BY <1>1, <1>2 DEF AttemptsInv
  <2>2. QED
    BY <1>2, <1>3, <2>1 DEF AttemptsInv
<1>4. CASE attempts' = <<>> /\ failures' = <<>>
  BY <1>1, <1>4 DEF AttemptsInv
<1>5. CASE UNCHANGED pairingVars
  BY <1>3, <1>5 DEF pairingVars
<1>6. CASE IssueCode \/ Revoke \/ Restart
  BY <1>4, <1>6 DEF IssueCode, Revoke, Restart
<1>7. ASSUME NEW t \in Thread, PairAccepted(t) \/ PairFails(t) PROVE AttemptsInv'
  BY <1>4, <1>7 DEF PairAccepted, PairFails, CodeUsed
<1>8. ASSUME NEW t \in Thread, PairLimited(t) \/ PairRejected(t) PROVE AttemptsInv'
  <2> DEFINE now == thread[t].now
             kept == Recent(attempts, now, AttemptWindow)
             lost == Len(failures) - Len(kept)
  <2>1. thread[t].at = "pair"
    BY <1>8 DEF PairLimited, PairRejected, Admitted
  <2>2. now \in Nat /\ now <= clock /\ clock <= now + Delay
    BY <2>1, TimedThread DEF LocalAuthInv, Timed
  <2>3. /\ kept \in Seq([at : Nat]) /\ Len(kept) <= Len(attempts)
        /\ \A k \in 1 .. Len(kept) : kept[k].at = failures[lost + k]
        /\ \A k \in 1 .. lost : failures[k] + AttemptWindow < clock
    BY <1>1, <1>2, <2>2, RecentAttempts
  <2>4. clock' = clock
    BY <1>8 DEF PairLimited, PairRejected, timeVars
  <2>5. CASE attempts' = kept /\ failures' = failures
    <3> HIDE DEF kept
    <3>1. attempts' \in Seq([at : Nat]) /\ Len(attempts') <= MaxAttempts /\ Len(attempts') <= Len(failures')
      BY <1>1, <1>2, <2>3, <2>5 DEF AttemptsInv
    <3>2. \A k \in 1 .. Len(attempts') : attempts'[k].at = failures'[Len(failures') - Len(attempts') + k]
      BY <2>3, <2>5
    <3>3. \A k \in 1 .. Len(failures') - Len(attempts') : failures'[k] + AttemptWindow < clock'
      BY <2>3, <2>4, <2>5
    <3>4. QED
      BY <1>2, <2>5, <3>1, <3>2, <3>3 DEF AttemptsInv
  <2>6. CASE PairRejected(t)
    <3> DEFINE n == Len(failures)
    <3>1. Len(kept) < MaxAttempts /\ attempts' = Append(kept, [at |-> now]) /\ failures' = Append(failures, now)
      BY <2>6 DEF PairRejected, Admitted, Attempted
    <3>2. [at |-> now] \in [at : Nat]
      BY <2>2
    <3> HIDE DEF now, kept
    <3>3. /\ Len(kept) \in Nat /\ attempts' \in Seq([at : Nat]) /\ Len(attempts') = Len(kept) + 1
          /\ \A k \in 1 .. Len(kept) : attempts'[k] = kept[k]
          /\ attempts'[Len(kept) + 1] = [at |-> now]
      BY <2>3, <3>1, <3>2, AppendProperties
    <3>4. /\ n \in Nat /\ failures' \in Seq(Nat) /\ Len(failures') = n + 1
          /\ \A k \in 1 .. n : failures'[k] = failures[k]
          /\ failures'[n + 1] = now
      BY <1>2, <2>2, <3>1, AppendProperties
    <3>5. Len(kept) <= n /\ lost \in Nat /\ Len(failures') - Len(attempts') = lost
      BY <1>2, <2>3, <3>3, <3>4 DEF AttemptsInv
    <3> HIDE DEF n
    <3>6. ASSUME NEW k \in 1 .. Len(attempts')
          PROVE  attempts'[k].at = failures'[lost + k]
      <4>1. CASE k \in 1 .. Len(kept)
        <5>1. lost + k \in 1 .. n
          BY <3>3, <3>4, <3>5, <4>1 DEF n
        <5>2. QED
          BY <2>3, <3>3, <3>4, <4>1, <5>1
      <4>2. CASE k = Len(kept) + 1
        <5>1. lost + k = n + 1
          BY <3>3, <3>4, <4>2 DEF n
        <5>2. QED
          BY <3>3, <3>4, <4>2, <5>1
      <4>3. QED
        BY <3>3, <4>1, <4>2
    <3>7. ASSUME NEW k \in 1 .. lost PROVE failures'[k] + AttemptWindow < clock
      <4>1. k \in 1 .. n
        BY <3>3, <3>4, <3>5 DEF n
      <4>2. QED
        BY <2>3, <3>4, <4>1
    <3>8. ASSUME NEW i \in 1 .. n + 1, NEW k \in 1 .. n + 1, k + MaxAttempts <= i
          PROVE  failures'[k] + AttemptWindow < failures'[i] + Delay
      <4>1. CASE i \in 1 .. n
        <5>1. k \in 1 .. n
          BY <1>1, <3>4, <3>8, <4>1
        <5>2. failures[k] + AttemptWindow < failures[i] + Delay
          BY <1>2, <3>8, <4>1, <5>1 DEF AttemptsInv, n
        <5>3. QED
          BY <3>4, <4>1, <5>1, <5>2
      <4>2. CASE i = n + 1
        <5>1. k \in 1 .. lost
          BY <1>1, <3>1, <3>3, <3>4, <3>5, <3>8, <4>2
        <5>2. failures'[k] + AttemptWindow < clock
          BY <3>7, <5>1
        <5>a. failures'[k] \in Nat
          BY <3>4, <3>8
        <5>3. QED
          BY <1>1, <2>2, <3>4, <4>2, <5>2, <5>a
      <4>3. QED
        BY <3>4, <4>1, <4>2
    <3>9. Len(attempts') <= MaxAttempts /\ Len(attempts') <= Len(failures')
      BY <1>1, <3>1, <3>3, <3>4, <3>5 DEF n
    <3> HIDE DEF lost
    <3>10. QED
      BY <2>4, <3>3, <3>4, <3>5, <3>6, <3>7, <3>8, <3>9 DEF AttemptsInv
  <2>7. QED
    BY <1>8, <2>5, <2>6 DEF PairLimited
<1>9. QED
  BY <1>5, <1>6, <1>7, <1>8, ServiceSteps DEF PairingStep

\* The failures within one window are among MaxAttempts successive ones.
LEMMA WindowOfFailures ==
    ASSUME AttemptsInv, clock \in Nat
    PROVE  FailuresBounded
<1>1. AttemptWindow \in Nat /\ MaxAttempts \in Nat \ {0} /\ Delay \in Nat
  BY LocalAuthAssumption
<1>2. Len(failures) \in Nat /\ DOMAIN failures = 1 .. Len(failures)
      /\ \A k \in 1 .. Len(failures) : failures[k] \in Nat
  BY DEF AttemptsInv
<1>3. ASSUME NEW x \in 0 .. clock
      PROVE  Cardinality({i \in DOMAIN failures :
                            /\ failures[i] <= x
                            /\ failures[i] + AttemptWindow >= x + Delay}) <= MaxAttempts
  <2> DEFINE W == {i \in DOMAIN failures :
                            /\ failures[i] <= x
                            /\ failures[i] + AttemptWindow >= x + Delay}
  <2>1. W \in SUBSET (0 .. Len(failures))
    BY <1>2
  <2>2. CASE W = {}
    BY <1>1, <2>2, FS_EmptySet
  <2>3. CASE W # {}
    <3>1. PICK m \in W : \A k \in W : k <= m
      <4> HIDE DEF W
      <4> QED BY <1>2, <2>1, <2>3, GreatestNumber
    <3>2. \A k \in W : k \in m - MaxAttempts + 1 .. m
      <4>1. ASSUME NEW k \in W PROVE ~ (k + MaxAttempts <= m)
        <5>1. k \in 1 .. Len(failures) /\ m \in 1 .. Len(failures)
          BY <1>2
        <5>2. failures[m] <= x /\ failures[k] + AttemptWindow >= x + Delay
          OBVIOUS
        <5>3. k + MaxAttempts <= m => failures[k] + AttemptWindow < failures[m] + Delay
          BY <5>1 DEF AttemptsInv
        <5>4. failures[m] \in Nat /\ failures[k] \in Nat /\ x \in Nat
          BY <1>2, <5>1
        <5>5. QED
          BY <1>1, <5>2, <5>3, <5>4
      <4>2. \A k \in W : k \in Nat
        BY <1>2
      <4> HIDE DEF W
      <4>3. QED
        BY <1>1, <3>1, <4>1, <4>2
    <3>3. m \in Nat
      BY <1>2
    <3> HIDE DEF W
    <3> DEFINE I == m - MaxAttempts + 1 .. m
    <3>4. IsFiniteSet(I) /\ Cardinality(I) = MaxAttempts
      <4>1. m - MaxAttempts + 1 \in Int /\ m \in Int
        BY <1>1, <3>3
      <4>2. ~ (m - MaxAttempts + 1 > m) /\ m - (m - MaxAttempts + 1) + 1 = MaxAttempts
        BY <1>1, <3>3
      <4>3. QED
        BY <4>1, <4>2, FS_Interval
    <3>5. W \in SUBSET I
      BY <3>2
    <3> HIDE DEF I
    <3>6. QED
      BY <3>4, <3>5, FS_Subset DEF W
  <2>4. QED
    BY <2>2, <2>3
<1>4. QED
  BY <1>3 DEF FailuresBounded

-----------------------------------------------------------------------------
\* The window of nonces.

\* After pruning, an acceptance is still in the window, or too old.
LEMMA PrunedWindow ==
    ASSUME WindowInv, clock \in Nat, NEW now \in Nat, now <= clock
    PROVE  /\ Window(now) \in Seq(Entry) /\ Len(Window(now)) <= Len(seen)
           /\ \A n \in Nonce \ evicted : \A i \in 1 .. Len(accepted[n]) :
                 \/ accepted[n][i] + Freshness < clock
                 \/ \E k \in 1 .. Len(Window(now)) :
                       Window(now)[k] = [nonce |-> n, at |-> accepted[n][i]]
<1> DEFINE kept == Window(now)
<1>1. Freshness \in Nat
  BY LocalAuthAssumption
<1>2. seen \in Seq(Entry) /\ Len(seen) \in Nat /\ \A e \in Entry : e.at \in Nat
  BY DEF WindowInv, Entry
<1>3. kept \in Seq(Entry)
  BY <1>1, <1>2, RecentIsSuffix DEF Window
<1>4. PICK d \in 0 .. Len(seen) :
          /\ Len(kept) = Len(seen) - d
          /\ \A k \in 1 .. Len(seen) - d : kept[k] = seen[d + k]
          /\ \A k \in 1 .. d : seen[k].at + Freshness < now
  BY <1>1, <1>2, RecentIsSuffix DEF Window
<1> HIDE DEF kept
<1>5. ASSUME NEW n \in Nonce \ evicted, NEW i \in 1 .. Len(accepted[n]),
             ~ (accepted[n][i] + Freshness < clock)
      PROVE  \E k \in 1 .. Len(kept) : kept[k] = [nonce |-> n, at |-> accepted[n][i]]
  <2>1. PICK k \in 1 .. Len(seen) : seen[k] = [nonce |-> n, at |-> accepted[n][i]]
    BY <1>5 DEF WindowInv
  <2>2. accepted[n][i] \in Nat
    BY DEF WindowInv
  <2>3. ~ (k <= d)
    BY <1>1, <1>4, <1>5, <2>1, <2>2
  <2>4. k - d \in 1 .. Len(kept) /\ d + (k - d) = k
    BY <1>2, <1>4, <2>3
  <2>5. kept[k - d] = seen[k]
    BY <1>4, <2>4
  <2>6. QED
    BY <2>1, <2>4, <2>5
<1>6. Len(kept) <= Len(seen)
  BY <1>2, <1>4
<1>7. QED
  BY <1>3, <1>5, <1>6 DEF kept

\* A nonce that is not in the pruned window may be accepted: the acceptances
\* before are too old.
LEMMA AcceptNewNonce ==
    ASSUME WindowInv, clock \in Nat, clock' = clock, NEW n \in Nonce, NEW now \in Nat,
           now <= clock, clock <= now + Delay,
           \A k \in DOMAIN Window(now) : Window(now)[k].nonce # n,
           AcceptNew(n, now)
    PROVE  WindowInv'
<1> DEFINE kept == Window(now)
           e == [nonce |-> n, at |-> now]
           full == Append(kept, e)
           dropped == IF Len(full) > MaxEntries THEN {Head(full).nonce} ELSE {}
           N == Len(kept) + 1
<1>1. Freshness \in Nat /\ MaxEntries \in Nat \ {0} /\ Delay \in Nat
  BY LocalAuthAssumption
<1>2. /\ seen' = Trimmed(full, MaxEntries)
      /\ evicted' = evicted \cup dropped
      /\ accepted' = [m \in Nonce |->
             IF m \in evicted' THEN <<>>
             ELSE IF m = n THEN Append(accepted[n], now) ELSE accepted[m]]
  BY DEF AcceptNew
<1>3. /\ kept \in Seq(Entry) /\ Len(kept) <= Len(seen)
      /\ \A m \in Nonce \ evicted : \A i \in 1 .. Len(accepted[m]) :
            \/ accepted[m][i] + Freshness < clock
            \/ \E k \in 1 .. Len(kept) : kept[k] = [nonce |-> m, at |-> accepted[m][i]]
  BY PrunedWindow
<1>4. Len(seen) \in Nat /\ Len(seen) <= MaxEntries
      /\ evicted \subseteq Nonce /\ accepted \in [Nonce -> Seq(Nat)]
  BY DEF WindowInv
<1>5. e \in Entry
  BY DEF Entry
<1>6. \A k \in 1 .. Len(kept) : kept[k].nonce # n
  BY <1>3
<1> HIDE DEF kept, e
<1>7. /\ full \in Seq(Entry) /\ Len(full) = N /\ N \in Nat \ {0}
      /\ \A k \in 1 .. N - 1 : full[k] = kept[k]
      /\ full[N] = e
  BY <1>3, <1>5, AppendProperties
<1>8. Head(full) = full[1] /\ full[1] \in Entry
  BY <1>7
<1>9. evicted' \subseteq Nonce
  BY <1>2, <1>4, <1>8 DEF Entry
<1>10. accepted' \in [Nonce -> Seq(Nat)]
  BY <1>2, <1>4
\* The entry of a nonce that is not evicted stays.
<1>11. ASSUME NEW k \in 1 .. N, full[k].nonce \notin evicted'
       PROVE  \E j \in 1 .. Len(seen') : seen'[j] = full[k]
  <2>1. CASE N > MaxEntries
    <3>1. k # 1
      BY <1>2, <1>7, <1>8, <1>11, <2>1
    <3>2. seen' = Tail(full)
      BY <1>2, <1>7, <2>1 DEF Trimmed
    <3>3. Len(seen') = N - 1 /\ \A j \in 1 .. N - 1 : seen'[j] = full[j + 1]
      BY <1>7, <3>2
    <3>4. k - 1 \in 1 .. N - 1 /\ (k - 1) + 1 = k
      BY <1>7, <3>1
    <3>5. seen'[k - 1] = full[k]
      BY <3>3, <3>4
    <3>6. QED
      BY <3>3, <3>4, <3>5
  <2>2. CASE ~ (N > MaxEntries)
    <3>1. seen' = full
      BY <1>2, <1>7, <2>2 DEF Trimmed
    <3>2. QED
      BY <1>7, <3>1
  <2>3. QED
    BY <2>1, <2>2
<1>12. seen' \in Seq(Entry) /\ Len(seen') <= MaxEntries
  <2>1. CASE N > MaxEntries
    <3>1. seen' = Tail(full)
      BY <1>2, <1>7, <2>1 DEF Trimmed
    <3>2. seen' \in Seq(Entry) /\ Len(seen') = N - 1
      BY <1>7, <3>1
    <3>3. QED
      BY <1>1, <1>3, <1>4, <1>7, <3>2
  <2>2. CASE ~ (N > MaxEntries)
    BY <1>1, <1>2, <1>7, <2>2 DEF Trimmed
  <2>3. QED
    BY <2>1, <2>2
<1> HIDE DEF dropped, full
<1>13. ASSUME NEW m \in Nonce \ evicted', NEW i \in 1 .. Len(accepted'[m])
       PROVE  \/ accepted'[m][i] + Freshness < clock'
              \/ \E j \in 1 .. Len(seen') : seen'[j] = [nonce |-> m, at |-> accepted'[m][i]]
  <2>1. m \notin evicted
    BY <1>2
  <2>2. CASE i \in 1 .. Len(accepted[m]) /\ accepted'[m][i] = accepted[m][i]
    <3>1. CASE accepted[m][i] + Freshness < clock
      BY <2>2, <3>1
    <3>2. CASE \E k \in 1 .. Len(kept) : kept[k] = [nonce |-> m, at |-> accepted[m][i]]
      <4>1. PICK k \in 1 .. Len(kept) : kept[k] = [nonce |-> m, at |-> accepted[m][i]]
        BY <3>2
      <4>2. k \in 1 .. N /\ full[k] = [nonce |-> m, at |-> accepted[m][i]]
        BY <1>3, <1>7, <4>1
      <4>3. QED
        BY <1>11, <2>2, <4>2
    <3>3. QED
      BY <1>3, <2>1, <2>2, <3>1, <3>2
  <2>3. CASE m # n
    <3>1. accepted'[m] = accepted[m]
      BY <1>2, <2>3
    <3>2. QED
      BY <2>2, <3>1
  <2>4. CASE m = n
    <3>1. accepted'[m] = Append(accepted[m], now)
      BY <1>2, <2>4
    <3>2. accepted[m] \in Seq(Nat) /\ Len(accepted[m]) \in Nat
      BY <1>4
    <3>3. i \in 1 .. Len(accepted[m]) + 1
      BY <3>1, <3>2
    <3>4. CASE i \in 1 .. Len(accepted[m])
      BY <2>2, <3>1, <3>2, <3>4
    <3>5. CASE i = Len(accepted[m]) + 1
      <4>1. accepted'[m][i] = now
        BY <3>1, <3>2, <3>5
      <4>2. N \in 1 .. N /\ full[N] = [nonce |-> m, at |-> now]
        BY <1>7, <2>4 DEF e
      <4>3. QED
        BY <1>11, <4>1, <4>2
    <3>6. QED
      <4>1. i \in 1 .. Len(accepted[m]) \/ i = Len(accepted[m]) + 1
        BY <3>2, <3>3
      <4>2. QED
        BY <3>4, <3>5, <4>1, Zenon
  <2>5. QED
    BY <2>3, <2>4
<1>14. NonceOncePerWindow'
  <2>1. ASSUME NEW m \in Nonce \ evicted', NEW i \in 1 .. Len(accepted'[m]),
               NEW j \in 1 .. Len(accepted'[m]), i < j
        PROVE  accepted'[m][j] + Delay > accepted'[m][i] + Freshness
    <3>1. m \notin evicted /\ accepted[m] \in Seq(Nat) /\ Len(accepted[m]) \in Nat
          /\ DOMAIN accepted[m] = 1 .. Len(accepted[m])
      BY <1>2, <1>4
    <3>2. \A k, l \in 1 .. Len(accepted[m]) :
              k < l => accepted[m][l] + Delay > accepted[m][k] + Freshness
      BY <3>1 DEF WindowInv, NonceOncePerWindow
    <3>3. CASE m # n
      <4>1. accepted'[m] = accepted[m]
        BY <1>2, <3>3
      <4>2. QED
        BY <2>1, <3>2, <4>1
    <3>4. CASE m = n
      <4>1. accepted'[m] = Append(accepted[m], now)
        BY <1>2, <3>4
      <4>2. i \in 1 .. Len(accepted[m]) /\ accepted'[m][i] = accepted[m][i]
        BY <2>1, <3>1, <4>1
      <4>3. CASE j \in 1 .. Len(accepted[m])
        <5>1. accepted'[m][j] = accepted[m][j]
          BY <3>1, <4>1, <4>3
        <5>2. QED
          BY <2>1, <3>2, <4>2, <4>3, <5>1
      <4>4. CASE j = Len(accepted[m]) + 1
        <5>1. accepted'[m][j] = now
          BY <3>1, <4>1, <4>4
        <5>2. accepted[m][i] + Freshness < clock
          <6>1. \A k \in 1 .. Len(kept) : kept[k] # [nonce |-> m, at |-> accepted[m][i]]
            BY <1>6, <3>4
          <6>2. m \in Nonce \ evicted /\ i \in 1 .. Len(accepted[m])
            BY <3>1, <4>2
          <6>3. QED
            BY <1>3, <6>1, <6>2
        <5>3. accepted[m][i] \in Nat
          BY <3>1, <4>2
        <5>4. QED
          BY <1>1, <4>2, <5>1, <5>2, <5>3
      <4>5. QED
        BY <3>1, <4>1, <4>3, <4>4
    <3>5. QED
      BY <3>3, <3>4
  <2>2. \A m \in Nonce : DOMAIN accepted'[m] = 1 .. Len(accepted'[m])
    BY <1>10
  <2>3. QED
    BY <2>1, <2>2 DEF NonceOncePerWindow
<1>15. QED
  BY <1>9, <1>10, <1>12, <1>13, <1>14 DEF WindowInv

LEMMA WindowInvariant ==
    ASSUME LocalAuthInv, [Next]_vars
    PROVE  WindowInv'
<1>1. /\ clock \in Nat /\ clock' \in Nat /\ clock <= clock'
      /\ Freshness \in Nat /\ MaxEntries \in Nat \ {0} /\ WindowInv
  BY ClockInvariant, LocalAuthAssumption DEF LocalAuthInv, ClockInv
<1>2. CASE UNCHANGED windowVars
  <2>1. \A n \in Nonce \ evicted : \A i \in 1 .. Len(accepted[n]) :
           \/ accepted[n][i] + Freshness < clock'
           \/ \E k \in 1 .. Len(seen) : seen[k] = [nonce |-> n, at |-> accepted[n][i]]
    <3>1. \A n \in Nonce : \A i \in 1 .. Len(accepted[n]) : accepted[n][i] \in Nat
      BY <1>1 DEF WindowInv
    <3>2. QED
      BY <1>1, <3>1 DEF WindowInv
  <2>2. QED
    BY <1>1, <1>2, <2>1 DEF WindowInv, windowVars, NonceOncePerWindow
<1>3. CASE Restart
  <2>1. seen' = <<>> /\ evicted' = {} /\ accepted' = [n \in Nonce |-> <<>>]
    BY <1>3 DEF Restart
  <2>2. QED
    BY <1>1, <2>1 DEF WindowInv, NonceOncePerWindow
<1>4. ASSUME NEW t \in Thread, Accept(t) PROVE WindowInv'
  <2> DEFINE n == thread[t].nonce
             now == thread[t].now
  <2>1. thread[t].at = "accept" /\ clock' = clock
    BY <1>4 DEF Accept, timeVars
  <2>2. n \in Nonce
    BY <2>1, ThreadLocals DEF LocalAuthInv, ClockInv
  <2>3. now \in Nat /\ now <= clock /\ clock <= now + Delay
    BY <2>1, TimedThread DEF LocalAuthInv, Timed
  <2>4. CASE seen' = Window(now) /\ UNCHANGED <<accepted, evicted>>
    <3> HIDE DEF now
    <3>1. /\ Window(now) \in Seq(Entry) /\ Len(Window(now)) <= Len(seen) /\ Len(seen) \in Nat
          /\ \A m \in Nonce \ evicted : \A i \in 1 .. Len(accepted[m]) :
                 \/ accepted[m][i] + Freshness < clock
                 \/ \E k \in 1 .. Len(Window(now)) :
                       Window(now)[k] = [nonce |-> m, at |-> accepted[m][i]]
      BY <1>1, <2>3, PrunedWindow DEF WindowInv
    <3>2. Len(seen') <= MaxEntries
      BY <1>1, <2>4, <3>1 DEF WindowInv
    <3>3. QED
      BY <1>1, <2>1, <2>4, <3>1, <3>2 DEF WindowInv, NonceOncePerWindow
  <2>5. CASE /\ \A k \in DOMAIN Window(now) : Window(now)[k].nonce # n
             /\ AcceptNew(n, now)
    BY <1>1, <2>1, <2>2, <2>3, <2>5, AcceptNewNonce
  <2>6. QED
    BY <1>4, <2>4, <2>5 DEF Accept
<1>5. QED
  BY <1>2, <1>3, <1>4, ServiceSteps

-----------------------------------------------------------------------------
\* The stores of the Library.

\* A store with one token too many loses at least its oldest, and only that.
LEMMA NewestOfStore ==
    ASSUME NEW s, IsFiniteSet(s), NEW limit \in Nat \ {0},
           \A e \in s : e.id \in Nat, Cardinality(s) <= limit + 1
    PROVE  /\ Newest(s, limit) \subseteq s /\ IsFiniteSet(Newest(s, limit))
           /\ Cardinality(Newest(s, limit)) <= limit
           /\ \A e \in s \ Newest(s, limit) :
                 Cardinality(s) > limit /\ \A f \in s : e.id <= f.id
<1> DEFINE kept == Newest(s, limit)
           ids == {e.id : e \in s}
<1>1. kept \subseteq s
  BY DEF Newest
<1>2. Cardinality(s) \in Nat
  BY FS_CardinalityType
<1>3. IsFiniteSet(kept) /\ Cardinality(kept) <= Cardinality(s)
  BY <1>1, FS_Subset
<1>4. Cardinality(kept) \in Nat
  BY <1>3, FS_CardinalityType
<1>5. CASE Cardinality(s) > limit
  <2>1. kept = {e \in s : \E f \in s : f.id < e.id}
    BY <1>5 DEF Newest
  <2>2. s # {}
    BY <1>2, <1>5, FS_EmptySet
  <2>3. ids \in SUBSET Nat /\ ids # {}
    BY <2>2
  <2>4. PICK m \in ids : \A k \in ids : m <= k
    <3> HIDE DEF ids
    <3> QED BY <2>3, LeastNumber
  <2>5. PICK e \in s : m = e.id
    BY <2>4
  <2>6. \A f \in s : e.id <= f.id
    BY <2>4, <2>5
  <2>7. e \notin kept
    BY <2>1, <2>6
  <2> HIDE DEF kept
  <2>8. kept # s
    BY <2>5, <2>7
  <2>9. Cardinality(kept) # Cardinality(s)
    BY <1>1, <2>8, FS_Subset
  <2>10. Cardinality(kept) <= limit
    BY <1>2, <1>3, <1>4, <2>9
  <2>11. ASSUME NEW g \in s \ kept, NEW f \in s PROVE g.id <= f.id
    <3>1. ~ (f.id < g.id)
      BY <2>1, <2>11
    <3>2. g.id \in Nat /\ f.id \in Nat
      BY <2>11
    <3>3. QED
      BY <3>1, <3>2
  <2>12. QED
    BY <1>1, <1>3, <1>5, <2>10, <2>11 DEF kept
<1>6. CASE ~ (Cardinality(s) > limit)
  <2>1. kept = s
    BY <1>6 DEF Newest
  <2> HIDE DEF kept
  <2>2. Cardinality(kept) <= limit
    BY <1>2, <1>6, <2>1
  <2>3. QED
    BY <1>1, <1>3, <2>1, <2>2 DEF kept
<1>7. QED
  BY <1>5, <1>6

LEMMA LaunchInvariant ==
    ASSUME LocalAuthInv, [Next]_vars
    PROVE  LaunchInv'
<1>1. LaunchInv /\ tokens \in Nat /\ Len(opened) \in Nat /\ opened \in Seq(Session)
      /\ MaxLaunches \in Nat \ {0} /\ {LaunchTTL, SessionTTL} \subseteq Nat
  <2>1. LaunchInv
    BY DEF LocalAuthInv
  <2>2. tokens \in Nat /\ opened \in Seq(Session)
    BY <2>1 DEF LaunchInv
  <2>3. MaxLaunches \in Nat \ {0} /\ {LaunchTTL, SessionTTL} \subseteq Nat
    BY LocalAuthAssumption
  <2>4. QED
    BY <2>1, <2>2, <2>3
<1>2. CASE UNCHANGED libraryVars
  BY <1>1, <1>2 DEF libraryVars, LaunchInv, LaunchOpensOneSession
<1>3. CASE Restart
  <2>1. launches' = {} /\ opened' = <<>> /\ tokens' = tokens
    BY <1>3 DEF Restart
  <2>2. IsFiniteSet({}) /\ Cardinality({}) = 0
    BY FS_EmptySet
  <2>3. QED
    BY <1>1, <2>1, <2>2 DEF LaunchInv, LaunchOpensOneSession
\* Fewer launches.
<1>4. ASSUME launches' \subseteq launches, UNCHANGED <<tokens, opened>> PROVE LaunchInv'
  <2>1. IsFiniteSet(launches') /\ Cardinality(launches') <= Cardinality(launches)
    BY <1>1, <1>4, FS_Subset DEF LaunchInv
  <2>2. Cardinality(launches) \in Nat /\ Cardinality(launches') \in Nat
        /\ Cardinality(launches) <= MaxLaunches
    BY <1>1, <2>1, FS_CardinalityType DEF LaunchInv
  <2>3. Cardinality(launches') <= MaxLaunches
    BY <1>1, <2>1, <2>2
  <2>4. QED
    BY <1>1, <1>4, <2>1, <2>3 DEF LaunchInv, LaunchOpensOneSession
<1>5. ASSUME NEW t \in Thread, IssueLaunch(t) PROVE LaunchInv'
  <2> DEFINE e == [id |-> tokens + 1, expires |-> thread[t].now + LaunchTTL]
             live == Unexpired(launches, thread[t].now)
             s == live \cup {e}
  <2>1. /\ tokens' = tokens + 1 /\ launches' = Newest(s, MaxLaunches)
        /\ opened' = opened /\ thread[t].at = "issue"
    BY <1>5 DEF IssueLaunch
  <2>2. thread[t].now \in Nat
    BY <2>1, TimedThread DEF LocalAuthInv, Timed
  <2>3. e \in Token /\ e.id = tokens + 1
    BY <1>1, <2>2 DEF Token
  <2>4. live \subseteq launches
    BY DEF Unexpired
  <2> HIDE DEF e, live
  <2>5. IsFiniteSet(live) /\ Cardinality(live) <= Cardinality(launches)
        /\ Cardinality(launches) <= MaxLaunches /\ IsFiniteSet(launches)
    BY <1>1, <2>4, FS_Subset DEF LaunchInv
  <2>6. Cardinality(live) \in Nat /\ Cardinality(launches) \in Nat
    BY <2>5, FS_CardinalityType
  <2>7. IsFiniteSet(s) /\ Cardinality(s) <= Cardinality(live) + 1
    <3>1. /\ IsFiniteSet(live \cup {e})
          /\ Cardinality(live \cup {e}) = IF e \in live THEN Cardinality(live) ELSE Cardinality(live) + 1
      BY <2>5, FS_AddElement
    <3>2. QED
      BY <2>6, <3>1
  <2>8. Cardinality(s) <= MaxLaunches + 1
    <3>1. Cardinality(s) \in Nat
      BY <2>7, FS_CardinalityType
    <3> HIDE DEF s
    <3>2. QED
      BY <1>1, <2>5, <2>6, <2>7, <3>1
  <2>9. \A f \in s : f \in Token /\ f.id <= tokens + 1
    BY <1>1, <2>3, <2>4 DEF LaunchInv, Token
  <2>10. ASSUME NEW f \in s, NEW i \in 1 .. Len(opened) PROVE f.id # opened[i].launch
    <3>1. opened[i].launch <= tokens /\ opened[i] \in Session
      BY <1>1 DEF LaunchInv
    <3>2. CASE f = e
      <4>1. f.id = tokens + 1 /\ tokens \in Nat /\ opened[i].launch \in Nat
        BY <1>1, <2>3, <3>1, <3>2 DEF Session
      <4>2. QED
        BY <3>1, <4>1
    <3>3. CASE f \in launches
      BY <1>1, <3>3 DEF LaunchInv
    <3>4. QED
      BY <2>4, <2>10, <3>2, <3>3
  <2>11. \A f \in s : f.id \in Nat
    BY <2>9 DEF Token
  <2> HIDE DEF s
  <2>12. launches' \subseteq s /\ IsFiniteSet(launches') /\ Cardinality(launches') <= MaxLaunches
    BY <1>1, <2>1, <2>7, <2>8, <2>11, NewestOfStore
  <2>13. \A i \in 1 .. Len(opened) : opened[i].launch <= tokens + 1
    <3>1. ASSUME NEW i \in 1 .. Len(opened)
          PROVE  opened[i].launch <= tokens /\ opened[i].launch \in Nat
      <4>1. opened[i] \in Session
        BY <1>1
      <4>2. QED
        BY <1>1, <4>1 DEF LaunchInv, Session
    <3>2. QED
      BY <1>1, <3>1
  <2>14. QED
    BY <1>1, <2>1, <2>9, <2>10, <2>12, <2>13 DEF LaunchInv, LaunchOpensOneSession
<1>6. ASSUME NEW t \in Thread, Authenticated(t) PROVE LaunchInv'
  BY <1>4, <1>6 DEF Authenticated
<1>7. ASSUME NEW t \in Thread, ConsumeLaunch(t) PROVE LaunchInv'
  <2> DEFINE live == Unexpired(launches, thread[t].now)
             l == thread[t].token
             new == [id |-> Len(opened) + 1, launch |-> l, expires |-> thread[t].now + SessionTTL]
  <2>1. thread[t].at = "launch" /\ tokens' = tokens
    BY <1>7 DEF ConsumeLaunch
  <2>2. live \subseteq launches
    BY DEF Unexpired
  <2>3. l \in Nat /\ thread[t].now \in Nat
    BY <2>1, ThreadLocals DEF LocalAuthInv, ClockInv
  <2>4. new \in Session /\ new.id = Len(opened) + 1 /\ new.launch = l
    BY <1>1, <2>3 DEF Session
  <2>5. CASE launches' = live /\ opened' = opened
    BY <1>4, <2>1, <2>2, <2>5
  <2>6. CASE \E e \in live : e.id = l /\ launches' = Without(live, l) /\ opened' = Append(opened, new)
    <3>1. PICK e \in launches : e.id = l
      BY <2>2, <2>6
    <3>2. l <= tokens /\ \A i \in 1 .. Len(opened) : opened[i].launch # l
      BY <1>1, <3>1 DEF LaunchInv
    <3>3. launches' \subseteq launches /\ \A f \in launches' : f.id # l
      BY <2>2, <2>6 DEF Without
    <3> HIDE DEF new, l, live
    <3>4. /\ opened' \in Seq(Session) /\ Len(opened') = Len(opened) + 1
          /\ \A i \in 1 .. Len(opened) : opened'[i] = opened[i]
          /\ opened'[Len(opened) + 1] = new
      BY <1>1, <2>4, <2>6, AppendProperties
    <3>5. \A i \in 1 .. Len(opened') : i \in 1 .. Len(opened) \/ i = Len(opened) + 1
      BY <1>1, <3>4
    <3>6. \A i \in 1 .. Len(opened') :
              /\ opened'[i].id = i /\ opened'[i].launch <= tokens'
              /\ \A f \in launches' : f.id # opened'[i].launch
      BY <1>1, <2>1, <2>4, <3>2, <3>3, <3>4, <3>5 DEF LaunchInv
    <3>7. LaunchOpensOneSession'
      <4>1. ASSUME NEW i \in 1 .. Len(opened'), NEW j \in 1 .. Len(opened'),
                   opened'[i].launch = opened'[j].launch
            PROVE  i = j
        <5>1. CASE i \in 1 .. Len(opened) /\ j \in 1 .. Len(opened)
          <6>1. i \in DOMAIN opened /\ j \in DOMAIN opened /\ opened[i].launch = opened[j].launch
            BY <1>1, <3>4, <4>1, <5>1
          <6>2. LaunchOpensOneSession
            BY <1>1 DEF LaunchInv
          <6>3. QED
            BY <6>1, <6>2 DEF LaunchOpensOneSession
        <5>2. CASE i \in 1 .. Len(opened) /\ j = Len(opened) + 1
          BY <2>4, <3>2, <3>4, <4>1, <5>2
        <5>3. CASE i = Len(opened) + 1 /\ j \in 1 .. Len(opened)
          BY <2>4, <3>2, <3>4, <4>1, <5>3
        <5>4. QED
          BY <3>5, <5>1, <5>2, <5>3
      <4>2. DOMAIN opened' = 1 .. Len(opened')
        BY <3>4
      <4>3. QED
        BY <4>1, <4>2 DEF LaunchOpensOneSession
    <3>8. IsFiniteSet(launches') /\ Cardinality(launches') <= MaxLaunches
      <4>1. /\ IsFiniteSet(launches') /\ Cardinality(launches') <= Cardinality(launches)
            /\ IsFiniteSet(launches) /\ Cardinality(launches) <= MaxLaunches
        BY <1>1, <3>3, FS_Subset DEF LaunchInv
      <4>2. Cardinality(launches) \in Nat /\ Cardinality(launches') \in Nat
        BY <4>1, FS_CardinalityType
      <4>3. QED
        BY <1>1, <4>1, <4>2
    <3>9. QED
      BY <1>1, <2>1, <3>3, <3>4, <3>6, <3>7, <3>8 DEF LaunchInv
  <2>7. QED
    BY <1>7, <2>5, <2>6 DEF ConsumeLaunch
<1>8. QED
  BY <1>2, <1>3, <1>5, <1>6, <1>7, ServiceSteps DEF LibraryStep

\* A set of the last sessions has at most as many members as they are.
LEMMA LastSessions ==
    ASSUME NEW q \in Seq(Session), NEW i \in 1 .. Len(q), NEW s,
           \A e \in s : \E j \in i .. Len(q) : e = q[j]
    PROVE  IsFiniteSet(s) /\ Cardinality(s) <= Len(q) - i + 1
<1> DEFINE J == {j \in i .. Len(q) : q[j] \in s}
           f == [j \in J |-> q[j]]
<1>1. Len(q) \in Nat /\ i \in Int /\ Len(q) \in Int /\ ~ (i > Len(q))
  OBVIOUS
<1>2. IsFiniteSet(i .. Len(q)) /\ Cardinality(i .. Len(q)) = Len(q) - i + 1
  BY <1>1, FS_Interval
<1>3. J \in SUBSET (i .. Len(q))
  OBVIOUS
<1>4. IsFiniteSet(J) /\ Cardinality(J) <= Cardinality(i .. Len(q))
  <2> HIDE DEF J
  <2> QED BY <1>2, <1>3, FS_Subset
<1>5. f \in Surjection(J, s)
  BY DEF Surjection
<1> HIDE DEF J, f
<1>6. IsFiniteSet(s) /\ Cardinality(s) <= Cardinality(J)
  BY <1>4, <1>5, FS_Surjection
<1>7. Cardinality(s) \in Nat /\ Cardinality(J) \in Nat
  BY <1>4, <1>6, FS_CardinalityType
<1>8. QED
  BY <1>1, <1>2, <1>4, <1>6, <1>7

LEMMA SessionInvariant ==
    ASSUME LocalAuthInv, [Next]_vars
    PROVE  SessionInv'
<1>1. /\ SessionInv /\ Len(opened) \in Nat /\ opened \in Seq(Session)
      /\ MaxSessions \in Nat \ {0} /\ SessionTTL \in Nat
      /\ clock \in Nat /\ clock' \in Nat /\ clock <= clock'
  <2>1. SessionInv /\ LaunchInv /\ clock \in Nat
    BY DEF LocalAuthInv, ClockInv
  <2>2. opened \in Seq(Session)
    BY <2>1 DEF LaunchInv
  <2>3. MaxSessions \in Nat \ {0} /\ SessionTTL \in Nat
    BY LocalAuthAssumption
  <2>4. clock' \in Nat /\ clock <= clock'
    BY ClockInvariant DEF ClockInv
  <2>5. QED
    BY <2>1, <2>2, <2>3, <2>4
<1>2. \A i \in 1 .. Len(opened) : opened[i].id = i /\ opened[i].expires \in Nat
  <2>1. \A i \in 1 .. Len(opened) : opened[i] \in Session
    BY <1>1
  <2>2. QED
    BY <2>1 DEF LocalAuthInv, LaunchInv, Session
\* Only expired sessions leave.
<1>3. ASSUME sessions' \subseteq sessions, opened' = opened,
             \A e \in sessions \ sessions' : e.expires < clock'
      PROVE  SessionInv'
  <2>1. IsFiniteSet(sessions') /\ Cardinality(sessions') <= Cardinality(sessions)
        /\ Cardinality(sessions) <= MaxSessions /\ IsFiniteSet(sessions)
    BY <1>1, <1>3, FS_Subset DEF SessionInv
  <2>2. Cardinality(sessions) \in Nat /\ Cardinality(sessions') \in Nat
    BY <2>1, FS_CardinalityType
  <2>3. Cardinality(sessions') <= MaxSessions
    BY <1>1, <2>1, <2>2
  <2>4. ASSUME NEW i \in 1 .. Len(opened)
        PROVE  opened[i] \in sessions' \/ opened[i].expires < clock' \/ Len(opened) - i >= MaxSessions
    <3>1. CASE opened[i] \in sessions
      BY <1>3, <3>1
    <3>2. CASE opened[i].expires < clock
      BY <1>1, <1>2, <3>2
    <3>3. QED
      BY <1>1, <3>1, <3>2 DEF SessionInv
  <2>5. sessions' \subseteq {opened[i] : i \in 1 .. Len(opened)}
    BY <1>1, <1>3 DEF SessionInv
  <2>6. QED
    BY <1>3, <2>1, <2>3, <2>4, <2>5 DEF SessionInv
<1>4. CASE UNCHANGED <<sessions, opened>>
  BY <1>3, <1>4
<1>5. CASE UNCHANGED libraryVars
  BY <1>4, <1>5 DEF libraryVars
<1>6. CASE Restart
  <2>1. sessions' = {} /\ opened' = <<>>
    BY <1>6 DEF Restart
  <2>2. IsFiniteSet({}) /\ Cardinality({}) = 0
    BY FS_EmptySet
  <2>3. QED
    BY <1>1, <2>1, <2>2 DEF SessionInv
<1>7. ASSUME NEW t \in Thread, IssueLaunch(t) PROVE SessionInv'
  BY <1>4, <1>7 DEF IssueLaunch
<1>8. ASSUME NEW t \in Thread, Authenticated(t) PROVE SessionInv'
  <2>1. /\ sessions' = Unexpired(sessions, thread[t].now)
        /\ thread[t].at = "page" /\ opened' = opened /\ clock' = clock
    BY <1>8 DEF Authenticated, timeVars
  <2>2. thread[t].now \in Nat /\ thread[t].now <= clock
    BY <2>1, TimedThread DEF LocalAuthInv, Timed
  <2>3. ASSUME NEW e \in sessions \ sessions' PROVE e.expires < clock'
    <3>1. PICK i \in 1 .. Len(opened) : e = opened[i]
      BY <1>1 DEF SessionInv
    <3>2. e.expires \in Nat /\ ~ (e.expires >= thread[t].now)
      BY <1>2, <2>1, <3>1 DEF Unexpired
    <3>3. QED
      BY <1>1, <2>1, <2>2, <3>2
  <2>4. QED
    BY <1>3, <2>1, <2>3 DEF Unexpired
<1>9. ASSUME NEW t \in Thread, ConsumeLaunch(t) PROVE SessionInv'
  <2> DEFINE l == thread[t].token
             new == [id |-> Len(opened) + 1, launch |-> l, expires |-> thread[t].now + SessionTTL]
             s == sessions \cup {new}
  <2>1. thread[t].at = "launch" /\ clock' = clock
    BY <1>9 DEF ConsumeLaunch, timeVars
  <2>2. CASE UNCHANGED <<sessions, opened>>
    BY <1>4, <2>2
  <2>3. CASE sessions' = KeptNewest(s) /\ opened' = Append(opened, new)
    <3> DEFINE N == Len(opened) + 1
    <3>1. thread[t].now \in Nat /\ l \in Nat
      BY <2>1, ThreadLocals DEF LocalAuthInv, ClockInv
    <3>2. new \in Session /\ new.id = N
      BY <1>1, <3>1 DEF Session
    <3> HIDE DEF new
    <3>3. /\ opened' \in Seq(Session) /\ Len(opened') = N /\ N \in Nat
          /\ \A i \in 1 .. Len(opened) : opened'[i] = opened[i]
          /\ opened'[N] = new
      BY <1>1, <2>3, <3>2, AppendProperties
    <3>4. \A i \in 1 .. N : (i \in 1 .. Len(opened) \/ i = N) /\ opened'[i].id = i
      BY <1>1, <1>2, <3>2, <3>3
    <3>5. \A e \in s : \E j \in 1 .. N : e = opened'[j]
      <4>1. \A e \in sessions : \E j \in 1 .. Len(opened) : e = opened[j]
        BY <1>1 DEF SessionInv
      <4>2. N \in 1 .. N /\ \A j \in 1 .. Len(opened) : j \in 1 .. N
        BY <1>1
      <4>3. QED
        BY <3>3, <4>1, <4>2
    <3>6. \A e \in s : e.id \in Nat
      BY <3>4, <3>5
    <3>7. IsFiniteSet(s) /\ Cardinality(s) <= MaxSessions + 1
      <4>1. IsFiniteSet(sessions) /\ Cardinality(sessions) <= MaxSessions
        BY <1>1 DEF SessionInv
      <4>2. /\ IsFiniteSet(sessions \cup {new})
            /\ Cardinality(sessions \cup {new}) =
                   IF new \in sessions THEN Cardinality(sessions) ELSE Cardinality(sessions) + 1
        BY <4>1, FS_AddElement
      <4>3. Cardinality(sessions) \in Nat
        BY <4>1, FS_CardinalityType
      <4>4. QED
        BY <1>1, <4>1, <4>2, <4>3
    <3> HIDE DEF s
    <3>8. /\ sessions' \subseteq s /\ IsFiniteSet(sessions') /\ Cardinality(sessions') <= MaxSessions
          /\ \A e \in s \ sessions' : Cardinality(s) > MaxSessions /\ \A f \in s : e.id <= f.id
      BY <1>1, <2>3, <3>6, <3>7, NewestOfStore DEF KeptNewest
    <3>9. sessions' \subseteq {opened'[i] : i \in 1 .. Len(opened')}
      BY <3>3, <3>5, <3>8
    <3> HIDE DEF N
    \* Who is dropped is followed by as many as the store has.
    <3>10. ASSUME NEW i \in 1 .. N, opened'[i] \in s, opened'[i] \notin sessions'
           PROVE  N - i >= MaxSessions
      <4>1. Cardinality(s) > MaxSessions /\ \A f \in s : i <= f.id
        BY <3>4, <3>8, <3>10
      <4>2. \A f \in s : \E j \in i .. N : f = opened'[j]
        BY <3>3, <3>4, <3>5, <4>1
      <4>3. IsFiniteSet(s) /\ Cardinality(s) <= N - i + 1
        BY <3>3, <4>2, LastSessions
      <4>4. Cardinality(s) \in Nat
        BY <4>3, FS_CardinalityType
      <4>5. QED
        BY <1>1, <3>3, <4>1, <4>3, <4>4
    <3>11. ASSUME NEW i \in 1 .. N
           PROVE  opened'[i] \in sessions' \/ opened'[i].expires < clock' \/ N - i >= MaxSessions
      <4>1. CASE i = N
        BY <3>3, <3>10, <4>1 DEF s
      <4>2. CASE i \in 1 .. Len(opened)
        <5>1. opened'[i] = opened[i]
          BY <3>3, <4>2
        <5>2. CASE opened[i] \in sessions
          BY <3>10, <5>1, <5>2 DEF s
        <5>3. CASE Len(opened) - i >= MaxSessions
          BY <1>1, <4>2, <5>3 DEF N
        <5>4. QED
          BY <1>1, <2>1, <4>2, <5>1, <5>2, <5>3 DEF SessionInv
      <4>3. QED
        BY <3>4, <4>1, <4>2
    <3>12. QED
      BY <3>3, <3>8, <3>9, <3>11 DEF SessionInv
  <2>4. QED
    BY <1>9, <2>2, <2>3 DEF ConsumeLaunch
<1>10. QED
  BY <1>5, <1>6, <1>7, <1>8, <1>9, ServiceSteps DEF LibraryStep

-----------------------------------------------------------------------------
\* Together.

LEMMA FieldInvariant ==
    ASSUME LocalAuthInv, [Next]_vars
    PROVE  FieldInv'
<1> USE DEF FieldInv
<1>1. FieldInv /\ clock \in Nat /\ CodeTTL \in Nat
  BY LocalAuthAssumption DEF LocalAuthInv, ClockInv
<1>2. CASE UNCHANGED <<restarts, codeExpires, extension>>
  BY <1>1, <1>2
<1>3. CASE UNCHANGED vars
  BY <1>2, <1>3 DEF vars, timeVars, pairingVars, extensionVars
<1>4. ASSUME NEW n \in Nonce, Prove(n) \/ Sign(n) PROVE FieldInv'
  BY <1>2, <1>4 DEF Prove, Sign, timeVars, pairingVars
<1>5. ASSUME NEW t \in Thread, NEW n \in Nonce, ReceiveCapture(t, n) PROVE FieldInv'
  BY <1>2, <1>5 DEF ReceiveCapture, timeVars, pairingVars, extensionVars
<1>6. ASSUME NEW t \in Thread, NEW c, StartPair(t, c) PROVE FieldInv'
  BY <1>2, <1>6 DEF StartPair, timeVars, pairingVars, extensionVars
<1>7. ASSUME NEW t \in Thread, NEW l, StartLaunch(t, l) PROVE FieldInv'
  BY <1>2, <1>7 DEF StartLaunch, timeVars, pairingVars, extensionVars
<1>8. ASSUME NEW t \in Thread,
             Verify(t) \/ Accept(t) \/ StartIssue(t) \/ StartPage(t) \/ LibraryStep(t)
      PROVE  FieldInv'
  <2>1. UNCHANGED <<timeVars, pairingVars, extensionVars>>
    BY <1>8, Zenon DEF Verify, Accept, StartIssue, StartPage, LibraryStep, IssueLaunch, ConsumeLaunch,
          Authenticated
  <2>2. QED
    BY <1>2, <2>1 DEF timeVars, pairingVars, extensionVars
<1>9. ASSUME NEW t \in Thread, PairLimited(t) \/ PairRejected(t) PROVE FieldInv'
  BY <1>2, <1>9 DEF PairLimited, PairRejected, timeVars, extensionVars
<1>10. ASSUME NEW t \in Thread, PairAccepted(t) \/ PairFails(t) PROVE FieldInv'
  BY <1>1, <1>10 DEF PairAccepted, PairFails, CodeUsed, timeVars, extensionVars
<1>11. ASSUME NEW t \in Thread, PairAnswered(t) PROVE FieldInv'
  <2>1. thread[t].key \in Nat
    BY <1>11, ThreadLocals DEF PairAnswered, LocalAuthInv, ClockInv
  <2>2. extension' \in {extension, thread[t].key} /\ UNCHANGED <<restarts, codeExpires>>
    BY <1>11 DEF PairAnswered, timeVars, pairingVars
  <2>3. QED
    BY <1>1, <2>1, <2>2
<1>12. CASE IssueCode
  BY <1>1, <1>12 DEF IssueCode, timeVars, extensionVars
<1>13. CASE Revoke
  BY <1>1, <1>13 DEF Revoke, timeVars, extensionVars
<1>14. CASE Tick
  BY <1>2, <1>14 DEF Tick, pairingVars, extensionVars
<1>15. CASE Restart
  BY <1>1, <1>15 DEF Restart, extensionVars
<1>16. QED
  BY <1>3, <1>4, <1>5, <1>6, <1>7, <1>8, <1>9, <1>10, <1>11, <1>12, <1>13, <1>14, <1>15
     DEF Next, LibraryStep

\* The three facts about the inductive invariant.
LEMMA LocalAuthInvInit ==
    ASSUME Init
    PROVE  LocalAuthInv
<1> USE LocalAuthAssumption DEF Init
<1>1. ClockInv
  BY DEF ClockInv, Idle, Request, Timed
<1>2. CodeInv
  BY DEF CodeInv
<1>3. SecretInv
  BY DEF SecretInv, RevokedStaysRevoked
<1>4. AttemptsInv
  <2>1. attempts = <<>> /\ failures = <<>> /\ MaxAttempts \in Nat \ {0}
    OBVIOUS
  <2>2. QED
    BY <2>1 DEF AttemptsInv
<1>5. WindowInv
  <2>1. seen = <<>> /\ evicted = {} /\ accepted = [n \in Nonce |-> <<>>] /\ MaxEntries \in Nat \ {0}
    OBVIOUS
  <2>2. QED
    BY <2>1 DEF WindowInv, NonceOncePerWindow
<1>6. LaunchInv
  <2>1. launches = {} /\ opened = <<>> /\ tokens = 0 /\ MaxLaunches \in Nat \ {0}
    OBVIOUS
  <2>2. IsFiniteSet({}) /\ Cardinality({}) = 0
    BY FS_EmptySet
  <2>3. QED
    BY <2>1, <2>2 DEF LaunchInv, LaunchOpensOneSession
<1>7. SessionInv
  <2>1. sessions = {} /\ opened = <<>> /\ MaxSessions \in Nat \ {0}
    OBVIOUS
  <2>2. IsFiniteSet({}) /\ Cardinality({}) = 0
    BY FS_EmptySet
  <2>3. QED
    BY <2>1, <2>2 DEF SessionInv
<1>8. FieldInv
  BY DEF FieldInv
<1>9. QED
  BY <1>1, <1>2, <1>3, <1>4, <1>5, <1>6, <1>7, <1>8 DEF LocalAuthInv

LEMMA LocalAuthInvNext ==
    ASSUME LocalAuthInv, [Next]_vars
    PROVE  LocalAuthInv'
  BY ClockInvariant, CodeInvariant, SecretInvariant, AttemptsInvariant, WindowInvariant, LaunchInvariant,
     SessionInvariant, FieldInvariant DEF LocalAuthInv

LEMMA LocalAuthInvImplies ==
    ASSUME LocalAuthInv
    PROVE  StoresBounded /\ NonceOncePerWindow /\ UsedUpStaysUsedUp /\ LaunchesBecomeSessions
<1> USE DEF LocalAuthInv
<1>1. LocalAuthTypeOK
  <2>1. thread \in [Thread -> Request] /\ clock \in Nat
    BY DEF ClockInv
  <2>2. {restarts, codeExpires, extension} \subseteq Nat
    BY DEF FieldInv
  <2>3. code \in Nat /\ secret \in Nat /\ stored \in Nat
    BY DEF CodeInv, SecretInv
  <2>4. /\ seen \in Seq(Entry) /\ Len(seen) <= MaxEntries
        /\ attempts \in Seq([at : Nat]) /\ Len(attempts) <= MaxAttempts
    BY DEF WindowInv, AttemptsInv
  <2>5. launches \subseteq Token /\ Cardinality(launches) <= MaxLaunches
    BY DEF LaunchInv
  <2>6. sessions \subseteq Session /\ Cardinality(sessions) <= MaxSessions
    <3>1. opened \in Seq(Session)
      BY DEF LaunchInv
    <3>2. \A i \in 1 .. Len(opened) : opened[i] \in Session
      BY <3>1
    <3>3. QED
      BY <3>2 DEF SessionInv
  <2>7. QED
    BY <2>1, <2>2, <2>3, <2>4, <2>5, <2>6 DEF LocalAuthTypeOK
<1>2. FailuresBounded
  BY WindowOfFailures DEF ClockInv
<1>3. NonceOncePerWindow
  BY DEF WindowInv
<1>4. CodePairsOnce /\ RevokedStaysRevoked
  <2>1. DOMAIN paired = 0 .. MaxCodes /\ \A c \in 0 .. MaxCodes : paired[c] <= 1
    BY DEF CodeInv
  <2>2. QED
    BY <2>1 DEF CodePairsOnce, SecretInv
<1>5. LaunchesBecomeSessions
  <2>1. LaunchOpensOneSession /\ opened \in Seq(Session)
        /\ \A i \in 1 .. Len(opened) : opened[i].id = i
    BY DEF LaunchInv
  <2>2. SessionKept
    BY <2>1 DEF SessionInv, SessionKept
  <2>3. QED
    BY <2>1, <2>2 DEF LaunchesBecomeSessions
<1>6. QED
  BY <1>1, <1>2, <1>3, <1>4, <1>5 DEF StoresBounded, UsedUpStaysUsedUp

\* The local authentication keeps its inductive invariant.
THEOREM LocalAuthInvariant == Spec => []LocalAuthInv
<1>1. Init => LocalAuthInv
  BY LocalAuthInvInit
<1>2. LocalAuthInv /\ [Next]_vars => LocalAuthInv'
  BY LocalAuthInvNext
<1>3. QED
  BY <1>1, <1>2, PTL DEF Spec

\* The windows, the attempts, the launches and the sessions stay within their
\* limits, and a guesser of codes gets at most MaxAttempts failures in any
\* window, less the time a thread may wait for the lock
\* (ExtensionPairingAuthority.pair, ReplayWindow.accept, _trim).
THEOREM StoresStayBounded == Spec => []StoresBounded
  BY LocalAuthInvariant, LocalAuthInvImplies, PTL

\* However late and however often a request is delivered, a runtime accepts its
\* nonce once in a window (ReplayWindow.accept).
THEOREM NoncesAreAcceptedOnce == Spec => []NonceOncePerWindow
  BY LocalAuthInvariant, LocalAuthInvImplies, PTL

\* A code pairs at most once, and a revoked secret is never in force again
\* (ExtensionPairingAuthority.pair and revoke, CredentialStore.rotate).
THEOREM CodesAndSecretsAreUsedUp == Spec => []UsedUpStaysUsedUp
  BY LocalAuthInvariant, LocalAuthInvImplies, PTL

\* A launch opens one session, and a session is lost only to its expiry or to
\* MaxSessions newer ones (LibrarySessionAuthority).
THEOREM LaunchesOpenLastingSessions == Spec => []LaunchesBecomeSessions
  BY LocalAuthInvariant, LocalAuthInvImplies, PTL
=============================================================================
