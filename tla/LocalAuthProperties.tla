------------------------- MODULE LocalAuthProperties -------------------------
(***************************************************************************)
(* What the local authentication promises.                                 *)
(***************************************************************************)
EXTENDS LocalAuth

Request ==
    {Idle} \cup [at : {"capture"}, nonce : Nonce, key : Nat]
    \cup [at : {"accept"}, nonce : Nonce, now : Nat]
    \cup [at : {"pair"}, code : Nat, now : Nat]
    \cup [at : {"answer"}, key : Nat]
    \cup [at : {"issue", "page"}, now : Nat]
    \cup [at : {"launch"}, token : Nat, now : Nat]

\* Types, and the limits of the four stores that must not grow.
LocalAuthTypeOK ==
    /\ thread \in [Thread -> Request]
    /\ {clock, restarts, code, codeExpires, secret, stored, extension} \subseteq Nat
    /\ seen \in Seq(Entry) /\ Len(seen) <= MaxEntries
    /\ attempts \in Seq([at : Nat]) /\ Len(attempts) <= MaxAttempts
    /\ launches \subseteq Token /\ Cardinality(launches) <= MaxLaunches
    /\ sessions \subseteq Session /\ Cardinality(sessions) <= MaxSessions

\* However often and however late a request of the extension is delivered, and
\* whatever other threads prune between its clock read and its lock, a runtime
\* accepts it once within a window, less the time a thread may wait for the
\* lock, unless a full window had to drop it.
NonceOncePerWindow ==
    \A n \in Nonce \ evicted : \A i, j \in DOMAIN accepted[n] :
        i < j => accepted[n][j] + Delay > accepted[n][i] + Freshness

\* Clients that supply one code at the same time are paired once, and not
\* again after restarts, failures of the store or new codes.
CodePairsOnce == \A c \in DOMAIN paired : paired[c] <= 1

\* The attempts that failed since the user last issued a code or revoked never
\* exceed the limit within a window, in whatever order threads that read the
\* clock at different times record them.
FailuresBounded ==
    \A x \in 0 .. clock :
        Cardinality({i \in DOMAIN failures :
                        /\ failures[i] <= x
                        /\ failures[i] + AttemptWindow >= x + Delay}) <= MaxAttempts

\* A secret that was revoked is never in force again, through pairings that
\* fail half way, restarts and unreadable stores.
RevokedStaysRevoked == {secret, stored} \cap revoked = {}

\* A launch opens one session.
LaunchOpensOneSession ==
    \A i, j \in DOMAIN opened : opened[i].launch = opened[j].launch => i = j

\* A session is only lost when its time is over or when newer ones fill the
\* store, whatever threads with older clocks prune.
SessionKept ==
    \A i \in DOMAIN opened :
        \/ \E e \in sessions : e.id = opened[i].id
        \/ opened[i].expires < clock
        \/ Len(opened) - i >= MaxSessions

\* What may not grow without limit does not: the four stores, and the failures
\* a guesser of codes is granted within a window.
StoresBounded == LocalAuthTypeOK /\ FailuresBounded

\* A code that has paired is used up and a secret that was revoked is gone,
\* whatever overlaps, fails half way or restarts.
UsedUpStaysUsedUp == CodePairsOnce /\ RevokedStaysRevoked

\* A launch token opens one session, which is kept for as long as it should be,
\* while other threads issue, consume, trim and prune.
LaunchesBecomeSessions == LaunchOpensOneSession /\ SessionKept
=============================================================================
