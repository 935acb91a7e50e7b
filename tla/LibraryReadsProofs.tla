------------------------- MODULE LibraryReadsProofs -------------------------
(***************************************************************************)
(* Proofs about reads of the Library: what is answered was allowed, and in *)
(* scope, at some moment of the read, whatever changes between statements. *)
(***************************************************************************)
EXTENDS LibraryReadsProperties, TLAPS, FiniteSetTheorems, FunctionTheorems

-----------------------------------------------------------------------------
\* Permission.  What a caller needs is noted in the history as soon as it holds,
\* so a step that has passed the gate, or the authority, finds it noted.

Reading == {"index", "lexical", "items", "evidence", "source", "statement", "format", "answered"}
Places == {"idle", "refused", "require", "itemProject", "authorize", "authority"} \cup Reading

OwnMode == request.caller = "frontier" /\ gate # Absent

AccessTypeOK ==
    /\ policy \in Mode \cup {Absent, Broken} /\ authority \in BOOLEAN
    /\ open \in [policy : BOOLEAN, authority : BOOLEAN, shut : BOOLEAN]
    /\ request.at \in Places
    /\ request.at \notin {"idle"} => request.caller \in {"frontier", "manager"}

Noted ==
    /\ Serving /\ Selected(request.caller) => open.policy
    /\ Serving /\ authority => open.authority
    /\ Serving /\ ~Selected(request.caller) => open.shut
    /\ Serving /\ request.caller = "manager" /\ ~authority => open.shut

PassedTheGate ==
    /\ request.at \in Reading \cup {"authority"} => OwnMode \/ open.policy
    /\ request.at \in Reading /\ request.caller = "manager" => open.authority
    /\ request.items # <<>> => request.at \in Reading

AccessInv == AccessTypeOK /\ Noted /\ PassedTheGate

InShape == DOMAIN request = DOMAIN NoRequest

LEMMA InitAccess == Init => InShape /\ AccessInv
  BY DEF Init, InShape, AccessInv, AccessTypeOK, Noted, PassedTheGate, NoRequest, NotAsked, Serving, Selected,
     OwnMode, Reading, Places

\* Every request is one of these.
LEMMA EveryAsk ==
    ASSUME Asks
    PROVE  \E caller \in {"frontier", "manager"}, op \in {"search", "recent", "get"}, limit \in Nat :
           \E project, id :
              /\ Ask(caller, op, project, limit, id)
              /\ op = "get" => limit = 1 /\ (caller = "frontier" => project = AnyProject)
<1>1. CASE \E caller \in {"frontier", "manager"}, op \in {"search", "recent"}, limit \in Limit : \E project :
              Ask(caller, op, project, limit, <<0, 0>>)
  BY <1>1, ReadsAssumption
<1>2. CASE \E id : Ask("frontier", "get", AnyProject, 1, id)
  BY <1>2
<1>3. CASE \E id, project : Ask("manager", "get", project, 1, id)
  BY <1>3
<1>4. QED
  BY <1>1, <1>2, <1>3 DEF Asks

LEMMA NoRequestFields ==
    /\ NoRequest.at = "idle" /\ NoRequest.items = <<>>
    /\ {"at", "caller", "op", "project", "limit", "id", "found", "lexical", "ranked", "items", "truncated"}
           \subseteq DOMAIN NoRequest
  BY DEF NoRequest

\* A step of a read that stays behind the gate, or is refused.
LEMMA StepOfRead ==
    ASSUME AccessInv, Reads, request'.caller = request.caller,
           request'.at \in Places \ {"idle"}, Serving,
           request'.at \in Reading \cup {"authority"} => OwnMode \/ open.policy,
           request'.at \in Reading /\ request.caller = "manager" => open.authority,
           request'.items # <<>> => request'.at \in Reading
    PROVE  AccessInv'
<1>1. AccessTypeOK'
  BY DEF AccessInv, AccessTypeOK, Reads, libraryVars, accessVars, historyVars, Serving, Places, Reading
<1>2. Noted'
  BY DEF AccessInv, Noted, Reads, accessVars, historyVars, Serving, Selected
<1>3. PassedTheGate'
  BY DEF AccessInv, PassedTheGate, Reads, accessVars, historyVars, OwnMode
<1>4. QED
  BY <1>1, <1>2, <1>3 DEF AccessInv

\* The gate lets a caller pass only by the human's choice.
LEMMA GateIsChoice ==
    ASSUME AccessTypeOK, Serving, ModeFor(request.caller) # "DISABLED",
           request.caller = "frontier" => ModeFor("frontier") = "DIRECT_LOCAL"
    PROVE  OwnMode \/ Selected(request.caller)
<1>1. request.caller \in {"frontier", "manager"} /\ policy \in Mode \cup {Absent, Broken}
  BY DEF AccessTypeOK, Serving
<1>2. CASE request.caller = "manager"
  <2>1. ReadMode(policy) # "DISABLED"
    BY <1>2 DEF ModeFor
  <2>2. policy \in {Absent, "DIRECT_LOCAL", "MANAGED_EXCLUSIVE"}
    BY <2>1, <1>1 DEF ReadMode, Mode
  <2>3. QED
    BY <2>2, <1>2 DEF Selected
<1>3. CASE request.caller = "frontier" /\ gate = Absent
  <2>1. ReadMode(policy) = "DIRECT_LOCAL"
    BY <1>3 DEF ModeFor
  <2>2. policy \in {Absent, "DIRECT_LOCAL"}
    BY <2>1, <1>1 DEF ReadMode, Mode, Broken
  <2>3. QED
    BY <2>2 DEF Selected
<1>4. QED
  BY <1>1, <1>2, <1>3 DEF OwnMode

LEMMA GateSteps ==
    ASSUME InShape, AccessInv, Require \/ ItemProject \/ Authorize \/ ReadAuthority
    PROVE  InShape' /\ AccessInv'
<1>0. request.at \in {"require", "itemProject", "authorize", "authority"} /\ Reads /\ Serving
  BY DEF Require, ItemProject, Authorize, ReadAuthority, Serving
<1>1. ASSUME NEW place \in {"itemProject", "authorize"}, Goes(place)
      PROVE  InShape' /\ AccessInv'
  <2>1. InShape' /\ request'.at = place /\ request'.caller = request.caller /\ request'.items = request.items
    BY <1>1, NoRequestFields DEF Goes, InShape
  <2>2. request.items = <<>>
    BY <1>0 DEF AccessInv, PassedTheGate, Reading
  <2>3. QED
    BY <2>1, <2>2, <1>0, StepOfRead DEF Places, Reading
<1>2. CASE Refused
  <2>1. InShape' /\ request'.at = "refused" /\ request'.caller = request.caller /\ request'.items = <<>>
    BY <1>2, NoRequestFields DEF Refused, InShape
  <2>2. QED
    BY <2>1, <1>0, StepOfRead DEF Places, Reading
<1>3. CASE Authorize /\ ~Refused
  <2>1. ModeFor(request.caller) # "DISABLED" /\ (request.caller = "frontier" => ModeFor("frontier") = "DIRECT_LOCAL")
    BY <1>3 DEF Authorize
  <2>2. OwnMode \/ open.policy
    BY <2>1, <1>0, GateIsChoice DEF AccessInv, Noted
  <2>3. PICK place \in {"authority", "index", "evidence", "statement"} :
          Goes(place) /\ (place # "authority" => request.caller # "manager")
    BY <1>3 DEF Authorize, FirstStep
  <2>4. InShape' /\ request'.at = place /\ request'.caller = request.caller /\ request'.items = request.items
    BY <2>3, NoRequestFields DEF Goes, InShape
  <2>5. request.items = <<>>
    BY <1>0 DEF AccessInv, PassedTheGate, Reading
  <2>6. QED
    BY <2>2, <2>3, <2>4, <2>5, <1>0, StepOfRead DEF Places, Reading
<1>4. CASE ReadAuthority /\ ~Refused
  <2>1. authority /\ open.authority
    BY <1>4, <1>0 DEF ReadAuthority, AccessInv, Noted
  <2>2. OwnMode \/ open.policy
    BY <1>4 DEF ReadAuthority, AccessInv, PassedTheGate
  <2>3. PICK place \in {"index", "evidence", "statement"} : Goes(place)
    BY <1>4 DEF ReadAuthority, FirstStep
  <2>4. InShape' /\ request'.at = place /\ request'.caller = request.caller /\ request'.items = request.items
    BY <2>3, NoRequestFields DEF Goes, InShape
  <2>5. request.items = <<>>
    BY <1>0, <1>4 DEF AccessInv, PassedTheGate, Reading, ReadAuthority
  <2>6. QED
    BY <2>1, <2>2, <2>4, <2>5, <1>0, StepOfRead DEF Places, Reading
<1>5. CASE (Require \/ ItemProject) /\ ~Refused
  BY <1>1, <1>5 DEF Require, ItemProject
<1>6. QED
  BY <1>2, <1>3, <1>4, <1>5

\* Behind the gate a read stays there, until it is refused or answered.
LEMMA ReadingSteps ==
    ASSUME InShape, AccessInv, Search \/ GetEvidence \/ GetSource \/ Recent \/ Format
    PROVE  InShape' /\ AccessInv'
<1>1. request.at \in Reading /\ Reads /\ Serving
  BY DEF Search, SearchIndex, RankLexical, Rank, ReadItem, EndSearch, GetEvidence, GetSource, Recent, Format,
     Serving, Reading
<1>2. InShape' /\ request'.caller = request.caller
  BY NoRequestFields DEF Search, SearchIndex, RankLexical, Rank, ReadItem, EndSearch, GetEvidence, GetSource,
     Recent, Format, InShape, Goes, Refused
<1>3. request'.at \in Reading \/ (request'.at = "refused" /\ request'.items = <<>>)
  <2>1. CASE Search
    BY <2>1, <1>1, NoRequestFields DEF Search, SearchIndex, RankLexical, Rank, ReadItem, EndSearch, InShape, Reading
  <2>2. CASE GetEvidence \/ GetSource \/ Recent \/ Format
    BY <2>2, NoRequestFields DEF GetEvidence, GetSource, Recent, Format, InShape, Goes, Refused, Reading
  <2>3. QED
    BY <2>1, <2>2
<1>4. (OwnMode \/ open.policy) /\ (request.caller = "manager" => open.authority)
  BY <1>1 DEF AccessInv, PassedTheGate
<1>5. request'.at \in Places \ {"idle"}
  BY <1>3 DEF Places, Reading
<1>6. QED
  BY <1>1, <1>2, <1>3, <1>4, <1>5, StepOfRead

LEMMA AskAccess ==
    ASSUME NEW caller \in {"frontier", "manager"}, NEW op, NEW project, NEW limit, NEW id,
           InShape, AccessInv, Ask(caller, op, project, limit, id)
    PROVE  InShape' /\ AccessInv'
<1>1. InShape' /\ request'.at \in {"require", "authorize"} /\ request'.caller = caller /\ request'.items = <<>>
  BY NoRequestFields DEF Ask, InShape
<1>2. open' = [policy |-> Selected(caller), authority |-> authority,
               shut |-> ~Selected(caller) \/ (caller = "manager" /\ ~authority)]
  BY DEF Ask
<1>3. AccessTypeOK'
  BY <1>1 DEF Ask, accessVars, AccessInv, AccessTypeOK, Selected, Places, Reading
<1>4. Noted'
  <2>1. /\ open'.policy = Selected(caller) /\ open'.authority = authority
        /\ open'.shut = (~Selected(caller) \/ (caller = "manager" /\ ~authority))
    BY <1>2
  <2>2. UNCHANGED <<policy, authority>>
    BY DEF Ask, accessVars
  <2>3. Selected(request.caller)' = Selected(caller)
    BY <1>1, <2>2 DEF Selected
  <2>4. QED
    BY <1>1, <2>1, <2>2, <2>3, Zenon DEF Noted
<1>5. PassedTheGate'
  BY <1>1 DEF PassedTheGate, Reading
<1>6. QED
  BY <1>1, <1>3, <1>4, <1>5 DEF AccessInv

\* What is done to the Library leaves permission alone, and what is done to
\* permission leaves the request alone.
LEMMA LibrarySteps ==
    ASSUME InShape, AccessInv, LibraryChanges
    PROVE  InShape' /\ AccessInv'
  BY DEF InShape, LibraryChanges, accessVars, AccessInv, AccessTypeOK, Noted, PassedTheGate, Serving, Selected, OwnMode

LEMMA ModeSteps ==
    ASSUME InShape, AccessInv, NEW content \in Mode \cup {Absent, Broken}, SetMode(content)
    PROVE  InShape' /\ AccessInv'
<1>1. UNCHANGED <<gate, authority, request>> /\ policy' = content
  BY DEF SetMode
<1>2. /\ open'.policy = (open.policy \/ (Serving /\ Selected(request.caller)'))
      /\ open'.shut = (open.shut \/ (Serving /\ ~Selected(request.caller)'))
      /\ open'.authority = open.authority /\ open' \in [policy : BOOLEAN, authority : BOOLEAN, shut : BOOLEAN]
  BY DEF SetMode, AccessInv, AccessTypeOK, Serving, Selected
<1>3. AccessTypeOK'
  BY <1>1, <1>2 DEF AccessInv, AccessTypeOK
<1>4. Noted'
  BY <1>1, <1>2 DEF AccessInv, Noted, Serving
<1>5. PassedTheGate'
  BY <1>1, <1>2 DEF AccessInv, PassedTheGate, OwnMode
<1>6. QED
  BY <1>1, <1>3, <1>4, <1>5 DEF AccessInv, InShape

LEMMA AccessSteps ==
    ASSUME InShape, AccessInv, [Next]_vars
    PROVE  InShape' /\ AccessInv'
<1>1. CASE \E mode \in LaunchMode : Launch(mode)
  BY <1>1 DEF Launch, historyVars, InShape, AccessInv, AccessTypeOK, Noted, PassedTheGate, Serving, Selected,
     Places, Reading
<1>2. CASE Asks
  BY <1>2, EveryAsk, AskAccess
<1>3. CASE Require \/ ItemProject \/ Authorize \/ ReadAuthority
  BY <1>3, GateSteps
<1>4. CASE Search \/ GetEvidence \/ GetSource \/ Recent \/ Format
  BY <1>4, ReadingSteps
<1>5. CASE Answer
  BY <1>5, NoRequestFields DEF Answer, NotAsked, accessVars, InShape, AccessInv, AccessTypeOK, Noted,
     PassedTheGate, Serving, Places, Reading
<1>6. CASE \/ \E s \in Source, p \in Project : Move(s, p) \/ \E text \in Text : Write(s, p, text)
           \/ \E s \in Source : Revoke(s)
           \/ Rebuild
  <2>1. LibraryChanges
    BY <1>6 DEF Move, Write, Revoke, Rebuild
  <2>2. QED
    BY <2>1, LibrarySteps
<1>7. CASE LoseAuthority
  <2>1. UNCHANGED <<policy, gate, request>> /\ authority' = FALSE
    BY <1>7 DEF LoseAuthority
  <2>2. /\ open' \in [policy : BOOLEAN, authority : BOOLEAN, shut : BOOLEAN]
        /\ open'.policy = open.policy /\ open'.authority = open.authority
        /\ open'.shut = (open.shut \/ request.caller = "manager")
    BY <1>7 DEF LoseAuthority, AccessInv, AccessTypeOK
  <2>3. AccessTypeOK'
    BY <2>1, <2>2 DEF AccessInv, AccessTypeOK
  <2>4. Noted'
    BY <2>1, <2>2 DEF AccessInv, Noted, Serving, Selected
  <2>5. QED
    BY <2>1, <2>2, <2>3, <2>4 DEF InShape, AccessInv, PassedTheGate, OwnMode
<1>8. CASE \E content \in Mode \cup {Absent, Broken} : SetMode(content)
  BY <1>8, ModeSteps
<1>9. CASE UNCHANGED vars
  BY <1>9 DEF vars, accessVars, historyVars, InShape, AccessInv, AccessTypeOK, Noted, PassedTheGate, Serving,
     Selected, OwnMode
<1>10. QED
  BY <1>1, <1>2, <1>3, <1>4, <1>5, <1>6, <1>7, <1>8, <1>9 DEF Next

\* Inductive: what is allowed now is in the history of the request, and a
\* request past the gate has found there what lets it pass.
THEOREM AccessInvariant == Spec => [](InShape /\ AccessInv)
<1>1. InShape /\ AccessInv /\ [Next]_vars => (InShape /\ AccessInv)'
  BY AccessSteps
<1>2. QED
  BY <1>1, InitAccess, PTL DEF Spec

\* AnsweredUnderMode: whenever the mode is set, the file damaged or the lease
\* lost between the statements of a read, no item is read for a caller whom the
\* human's choice, and for a manager its authority, allowed at no moment of it.
THEOREM AnswersWereAllowed == Spec => []AnsweredUnderMode
<1>1. AccessInv => AnsweredUnderMode
  BY DEF AccessInv, PassedTheGate, AnsweredUnderMode, OwnMode
<1>2. QED
  BY <1>1, AccessInvariant, PTL

-----------------------------------------------------------------------------
\* Sequences of finite sets.

StrictOrder(S, order) ==
    /\ \A s \in S : <<s, s>> \notin order
    /\ \A s, t, u \in S : <<s, t>> \in order /\ <<t, u>> \in order => <<s, u>> \in order
    /\ \A s, t \in S : s = t \/ <<s, t>> \in order \/ <<t, s>> \in order

\* A finite set in a strict total order: each of its elements stands somewhere,
\* and stands before another exactly if the order says so.
LEMMA SortedInOrder ==
    ASSUME NEW S, IsFiniteSet(S), NEW order, StrictOrder(S, order)
    PROVE  /\ Sorted(S, order) \in Seq(S) /\ Len(Sorted(S, order)) = Cardinality(S)
           /\ \A s \in S : \E i \in 1..Cardinality(S) : Sorted(S, order)[i] = s
           /\ \A i, j \in 1..Cardinality(S) : i < j <=> <<Sorted(S, order)[i], Sorted(S, order)[j]>> \in order
<1> DEFINE n == Cardinality(S)
           Below(s) == {t \in S : <<t, s>> \in order}
           before == [s \in S |-> Cardinality(Below(s))]
           sorted == [i \in 1..n |-> CHOOSE s \in S : before[s] = i - 1]
<1>0. /\ \A s \in S : <<s, s>> \notin order
      /\ \A s, t, u \in S : <<s, t>> \in order /\ <<t, u>> \in order => <<s, u>> \in order
      /\ \A s, t \in S : s = t \/ <<s, t>> \in order \/ <<t, s>> \in order
  BY DEF StrictOrder
<1>1. n \in Nat
  BY FS_CardinalityType
<1>2. before \in [S -> 0..(n - 1)]
  <2>1. ASSUME NEW s \in S  PROVE Cardinality(Below(s)) \in 0..(n - 1)
    <3>1. Below(s) \in SUBSET S /\ Below(s) # S
      BY <1>0
    <3>2. IsFiniteSet(Below(s)) /\ Cardinality(Below(s)) <= n /\ Cardinality(Below(s)) # n
      BY <3>1, FS_Subset
    <3>3. Cardinality(Below(s)) \in Nat
      BY <3>2, FS_CardinalityType
    <3>4. QED
      BY <3>2, <3>3, <1>1
  <2>2. QED
    BY <2>1
<1>3. ASSUME NEW s \in S, NEW t \in S, <<s, t>> \in order  PROVE before[s] < before[t]
  <2>1. Below(s) \in SUBSET Below(t) /\ Below(s) # Below(t)
    BY <1>0, <1>3
  <2>2. Below(t) \in SUBSET S
    OBVIOUS
  <2>3. IsFiniteSet(Below(t))
    BY <2>2, FS_Subset
  <2>4. Cardinality(Below(s)) <= Cardinality(Below(t)) /\ Cardinality(Below(s)) # Cardinality(Below(t))
    BY <2>1, <2>3, FS_Subset
  <2>5. before[s] <= before[t] /\ before[s] # before[t]
    BY <2>4
  <2>6. before[s] \in 0..(n - 1) /\ before[t] \in 0..(n - 1)
    BY <1>2
  <2>7. QED
    BY <2>5, <2>6, <1>1
<1> HIDE DEF n, before
<1>4. \A s, t \in S : before[s] = before[t] => s = t
  <2>1. ASSUME NEW s \in S, NEW t \in S, before[s] = before[t], s # t  PROVE FALSE
    <3>1. before[s] \in 0..(n - 1) /\ before[t] \in 0..(n - 1)
      BY <1>2
    <3>2. before[s] < before[t] \/ before[t] < before[s]
      BY <1>0, <2>1, <1>3
    <3>3. QED
      BY <3>1, <3>2, <2>1, <1>1
  <2>2. QED
    BY <2>1
<1>5. \A k \in 0..(n - 1) : \E s \in S : before[s] = k
  <2>1. before \in Injection(S, 0..(n - 1))
    BY <1>2, <1>4 DEF Injection, IsInjective
  <2>2. IsFiniteSet(0..(n - 1)) /\ Cardinality(0..(n - 1)) = n
    <3>1. n - 1 \in Int
      BY <1>1
    <3>2. IsFiniteSet(0..(n - 1)) /\ Cardinality(0..(n - 1)) = IF 0 > n - 1 THEN 0 ELSE n - 1 - 0 + 1
      BY <3>1, FS_Interval
    <3>3. QED
      BY <3>2, <1>1
  <2>3. Cardinality(S) = Cardinality(0..(n - 1))
    BY <2>2 DEF n
  <2>4. before \in Surjection(S, 0..(n - 1))
    BY <2>1, <2>2, <2>3, FS_Injection
  <2>5. QED
    BY <2>4 DEF Surjection
<1>6. \A i \in 1..n : sorted[i] \in S /\ before[sorted[i]] = i - 1
  <2>1. TAKE i \in 1..n
  <2>2. i - 1 \in 0..(n - 1)
    BY <1>1
  <2>3. \E s \in S : before[s] = i - 1
    BY <2>2, <1>5
  <2>4. sorted[i] = CHOOSE s \in S : before[s] = i - 1
    OBVIOUS
  <2>5. QED
    BY <2>3, <2>4
<1>7. sorted \in [1..n -> S] /\ sorted \in Seq(S) /\ Len(sorted) = n
  <2>1. sorted \in [1..n -> S]
    BY <1>6
  <2>2. QED
    BY <2>1, <1>1
<1> HIDE DEF sorted
<1>8. \A s \in S : \E i \in 1..n : sorted[i] = s
  <2>1. TAKE s \in S
  <2>2. before[s] \in 0..(n - 1)
    BY <1>2
  <2>3. PICK i \in 1..n : i - 1 = before[s]
    BY <2>2, <1>1
  <2>4. sorted[i] \in S /\ before[sorted[i]] = before[s]
    BY <2>3, <1>6
  <2>5. QED
    BY <2>3, <2>4, <1>4
<1>9. \A i, j \in 1..n : i < j <=> <<sorted[i], sorted[j]>> \in order
  <2>1. TAKE i, j \in 1..n
  <2>2. /\ sorted[i] \in S /\ before[sorted[i]] = i - 1
        /\ sorted[j] \in S /\ before[sorted[j]] = j - 1
    BY <1>6
  <2>3. <<sorted[i], sorted[j]>> \in order => i < j
    <3>1. HAVE <<sorted[i], sorted[j]>> \in order
    <3>2. before[sorted[i]] < before[sorted[j]]
      BY <3>1, <2>2, <1>3
    <3>3. QED
      BY <3>2, <2>2
  <2>4. <<sorted[j], sorted[i]>> \in order => j < i
    <3>1. HAVE <<sorted[j], sorted[i]>> \in order
    <3>2. before[sorted[j]] < before[sorted[i]]
      BY <3>1, <2>2, <1>3
    <3>3. QED
      BY <3>2, <2>2
  <2>5. sorted[i] = sorted[j] => i = j
    BY <2>2
  <2>6. sorted[i] = sorted[j] \/ <<sorted[i], sorted[j]>> \in order \/ <<sorted[j], sorted[i]>> \in order
    BY <1>0, <2>2
  <2>7. i < j => <<sorted[i], sorted[j]>> \in order
    BY <2>4, <2>5, <2>6
  <2>8. QED
    BY <2>3, <2>7
<1>10. Sorted(S, order) = sorted
  BY DEF Sorted, sorted, before, n
<1>11. QED
  BY <1>7, <1>8, <1>9, <1>10 DEF n

LEMMA SetAsSequence ==
    ASSUME NEW S, IsFiniteSet(S)
    PROVE  /\ SetToSeq(S) \in Seq(S) /\ Len(SetToSeq(S)) = Cardinality(S)
           /\ \A s \in S : \E i \in 1..Cardinality(S) : SetToSeq(S)[i] = s
<1>1. Cardinality(S) \in Nat /\ ExistsBijection(1..Cardinality(S), S)
  BY FS_CardinalityType
<1>2. PICK f \in Bijection(1..Cardinality(S), S) : TRUE
  BY <1>1 DEF ExistsBijection
<1>3. f \in [1..Cardinality(S) -> S] /\ IsInjective(f)
  BY <1>2 DEF Bijection, Injection
<1>4. SetToSeq(S) \in [1..Cardinality(S) -> S] /\ IsInjective(SetToSeq(S))
  BY <1>3 DEF SetToSeq
<1>5. SetToSeq(S) \in Injection(1..Cardinality(S), S)
  BY <1>4 DEF Injection
<1>6. IsFiniteSet(1..Cardinality(S)) /\ Cardinality(1..Cardinality(S)) = Cardinality(S)
  BY <1>1, FS_Interval
<1>7. SetToSeq(S) \in Surjection(1..Cardinality(S), S)
  BY <1>5, <1>6, FS_Injection
<1>8. QED
  BY <1>1, <1>4, <1>7, Fun_SurjectionProperties

LEMMA LengthOfBoth ==
    ASSUME NEW S, NEW T, NEW one \in Seq(S), NEW other \in Seq(T)
    PROVE  Len(one \o other) = Len(one) + Len(other)
  OBVIOUS

LEMMA Beginning ==
    ASSUME NEW T, NEW seq \in Seq(T), NEW n \in Nat
    PROVE  /\ First(n, seq) \in Seq(T) /\ Len(First(n, seq)) <= n /\ Len(First(n, seq)) <= Len(seq)
           /\ \A i \in DOMAIN First(n, seq) : i \in DOMAIN seq /\ First(n, seq)[i] = seq[i]
           /\ Len(seq) <= n => First(n, seq) = seq
  BY DEF First

-----------------------------------------------------------------------------
\* The orders of the retrievers.

Entry == [id : Source \X Text, text : Text, project : Project]

Unique(S) == \A e, f \in S : e.id = f.id => e = f

LEMMA Numbers == /\ Source \subseteq Nat /\ Text \subseteq Nat \ {0} /\ Source \subseteq Text
                 /\ MaxLexical \in Nat /\ MaxVector \in Nat /\ MaxCandidates \in Nat
                 /\ MaxResults \in Nat \ {0} /\ RankConstant \in Nat \ {0}
  BY ReadsAssumption

LEMMA EntryFields ==
    ASSUME NEW e \in Entry
    PROVE  /\ e.id[1] \in Nat /\ e.id[2] \in Nat /\ e.id = <<e.id[1], e.id[2]>> /\ e.text \in Nat
           /\ e.id \in Source \X Text /\ e.text \in Text /\ e.project \in Project
<1>1. e.id \in Source \X Text /\ e.text \in Text /\ e.project \in Project
  BY DEF Entry
<1>2. PICK s \in Source, t \in Text : e.id = <<s, t>>
  BY <1>1
<1>3. s \in Nat /\ t \in Nat /\ e.text \in Nat
  BY <1>1, Numbers
<1>4. e.id[1] = s /\ e.id[2] = t
  BY <1>2
<1>5. QED
  BY <1>1, <1>2, <1>3, <1>4

LEMMA BeforeIsOrder ==
    ASSUME NEW S \in SUBSET Entry, Unique(S), NEW T \in SUBSET S
    PROVE  StrictOrder(T, {pair \in S \X S : Before(pair[1].id, pair[2].id)})
<1> DEFINE order == {pair \in S \X S : Before(pair[1].id, pair[2].id)}
<1>1. ASSUME NEW s \in T, NEW t \in T  PROVE <<s, t>> \in order <=> Before(s.id, t.id)
  OBVIOUS
<1> HIDE DEF order
<1>2. \A s \in T : <<s, s>> \notin order
  BY <1>1, EntryFields DEF Before
<1>3. ASSUME NEW s \in T, NEW t \in T, NEW u \in T, <<s, t>> \in order, <<t, u>> \in order
      PROVE  <<s, u>> \in order
  <2>1. Before(s.id, t.id) /\ Before(t.id, u.id)
    BY <1>1, <1>3
  <2>2. Before(s.id, u.id)
    BY <2>1, EntryFields DEF Before
  <2>3. QED
    BY <2>2, <1>1
<1>4. ASSUME NEW s \in T, NEW t \in T, s # t  PROVE <<s, t>> \in order \/ <<t, s>> \in order
  <2>1. s.id # t.id
    BY <1>4 DEF Unique
  <2>2. Before(s.id, t.id) \/ Before(t.id, s.id)
    BY <2>1, EntryFields DEF Before
  <2>3. QED
    BY <2>2, <1>1
<1>5. StrictOrder(T, order)
  BY <1>2, <1>3, <1>4 DEF StrictOrder
<1>6. QED
  BY <1>5 DEF order

LEMMA NearerIsOrder ==
    ASSUME NEW S \in SUBSET Entry, Unique(S)
    PROVE  StrictOrder(S, {pair \in S \X S : Nearer(pair[1], pair[2])})
<1> DEFINE order == {pair \in S \X S : Nearer(pair[1], pair[2])}
<1>1. ASSUME NEW s \in S, NEW t \in S  PROVE <<s, t>> \in order <=> Nearer(s, t)
  OBVIOUS
<1> HIDE DEF order
<1>2. \A s \in S : <<s, s>> \notin order
  BY <1>1, EntryFields DEF Nearer, Before
<1>3. ASSUME NEW s \in S, NEW t \in S, NEW u \in S, <<s, t>> \in order, <<t, u>> \in order
      PROVE  <<s, u>> \in order
  <2>1. Nearer(s, t) /\ Nearer(t, u)
    BY <1>1, <1>3
  <2>2. Nearer(s, u)
    BY <2>1, EntryFields DEF Nearer, Before
  <2>3. QED
    BY <2>2, <1>1
<1>4. ASSUME NEW s \in S, NEW t \in S, s # t  PROVE <<s, t>> \in order \/ <<t, s>> \in order
  <2>1. s.id # t.id
    BY <1>4 DEF Unique
  <2>2. Nearer(s, t) \/ Nearer(t, s)
    BY <2>1, EntryFields DEF Nearer, Before
  <2>3. QED
    BY <2>2, <1>1
<1>5. StrictOrder(S, order)
  BY <1>2, <1>3, <1>4 DEF StrictOrder
<1>6. QED
  BY <1>5 DEF order

Positive == Nat \ {0}

LEMMA Multiples ==
    ASSUME NEW x \in Nat, NEW y \in Nat, NEW k \in Positive
    PROVE  /\ x > y <=> x * k > y * k
           /\ x = y <=> x * k = y * k
  BY DEF Positive

\* Fractions p, q and r, compared by cross multiplication.
LEMMA FractionsAreOrdered ==
    ASSUME NEW p1 \in Positive, NEW p2 \in Positive, NEW q1 \in Positive, NEW q2 \in Positive,
           NEW r1 \in Positive, NEW r2 \in Positive,
           p1 * q2 >= q1 * p2, q1 * r2 >= r1 * q2
    PROVE  /\ p1 * r2 >= r1 * p2
           /\ p1 * r2 = r1 * p2 => p1 * q2 = q1 * p2 /\ q1 * r2 = r1 * q2
           /\ p1 * q2 = q1 * p2 /\ q1 * r2 = r1 * q2 => p1 * r2 = r1 * p2
<1> DEFINE a == p1 * q2
           b == q1 * p2
           c == q1 * r2
           d == r1 * q2
           u == p1 * r2
           v == r1 * p2
<1>1. /\ a \in Nat /\ b \in Nat /\ c \in Nat /\ d \in Nat /\ u \in Nat /\ v \in Nat
      /\ p2 \in Nat /\ r2 \in Nat /\ q2 \in Nat
  BY DEF Positive
<1>2. a * r2 = u * q2 /\ b * r2 = c * p2 /\ d * p2 = v * q2
  BY DEF Positive
<1>3. (a > b <=> a * r2 > b * r2) /\ (a = b <=> a * r2 = b * r2)
  BY <1>1, Multiples
<1>4. (c > d <=> c * p2 > d * p2) /\ (c = d <=> c * p2 = d * p2)
  BY <1>1, Multiples
<1>5. (u > v <=> u * q2 > v * q2) /\ (u = v <=> u * q2 = v * q2)
  BY <1>1, Multiples
<1>6. a >= b /\ c >= d
  OBVIOUS
<1>7. a * r2 \in Nat /\ b * r2 \in Nat /\ c * p2 \in Nat /\ d * p2 \in Nat /\ u * q2 \in Nat /\ v * q2 \in Nat
  BY <1>1
<1> HIDE DEF a, b, c, d, u, v
<1>8. a * r2 >= b * r2 /\ c * p2 >= d * p2
  BY <1>3, <1>4, <1>6, <1>1, <1>7
<1>9. /\ u * q2 >= v * q2 /\ (u * q2 = v * q2 => a * r2 = b * r2 /\ c * p2 = d * p2)
      /\ a * r2 = b * r2 /\ c * p2 = d * p2 => u * q2 = v * q2
  BY <1>2, <1>8, <1>7
<1>10. u >= v /\ (u = v => a = b /\ c = d) /\ (a = b /\ c = d => u = v)
  BY <1>9, <1>3, <1>4, <1>5, <1>1, <1>7
<1>11. QED
  BY <1>10 DEF a, b, c, d, u, v

\* The rank of an identifier is one position, if it has any.
UniqueIds(seq) == \A i, j \in DOMAIN seq : seq[i].id = seq[j].id => i = j

LEMMA OneRank ==
    ASSUME NEW family \in Seq(Entry), UniqueIds(family), NEW i \in DOMAIN family
    PROVE  Ranks(family[i].id, family) = {i} /\ i \in Positive
  BY DEF Ranks, UniqueIds, Positive

LEMMA RankOf ==
    ASSUME NEW family \in Seq(Entry), UniqueIds(family), NEW id
    PROVE  \/ Ranks(id, family) = {}
           \/ \E i \in DOMAIN family : i \in Positive /\ family[i].id = id /\ Ranks(id, family) = {i}
  BY OneRank DEF Ranks

\* A candidate has a score, by its ranks in both families.
LEMMA ScoreOfRanks ==
    ASSUME NEW lexical, NEW vector, NEW id, NEW i, NEW j
    PROVE  /\ Ranks(id, lexical) = {i} /\ Ranks(id, vector) = {} =>
                 Score(id, lexical, vector) = [num |-> 1, den |-> RankConstant + i]
           /\ Ranks(id, lexical) = {} /\ Ranks(id, vector) = {j} =>
                 Score(id, lexical, vector) = [num |-> 1, den |-> RankConstant + j]
           /\ Ranks(id, lexical) = {i} /\ Ranks(id, vector) = {j} =>
                 Score(id, lexical, vector) =
                     [num |-> (RankConstant + i) + (RankConstant + j), den |-> (RankConstant + i) * (RankConstant + j)]
<1>1. (CHOOSE r \in {i} : TRUE) = i /\ (CHOOSE r \in {j} : TRUE) = j
  OBVIOUS
<1>2. {i} # {} /\ {j} # {}
  OBVIOUS
<1>3. QED
  BY <1>1, <1>2 DEF Score

Families(lexical, vector) ==
    lexical \in Seq(Entry) /\ vector \in Seq(Entry) /\ UniqueIds(lexical) /\ UniqueIds(vector)

LEMMA CandidateRanks ==
    ASSUME NEW lexical, NEW vector, Families(lexical, vector), NEW c \in Candidates(lexical, vector)
    PROVE  /\ c \in Entry
           /\ Ranks(c.id, lexical) # {} \/ Ranks(c.id, vector) # {}
  BY DEF Candidates, Families, ToSet, Ranks

LEMMA CandidatesAreUnique ==
    ASSUME NEW lexical, NEW vector, Families(lexical, vector)
    PROVE  Unique(Candidates(lexical, vector))
<1>1. ASSUME NEW c \in Candidates(lexical, vector), NEW d \in Candidates(lexical, vector), c.id = d.id
      PROVE  c = d
  <2>1. CASE c \in ToSet(lexical) /\ d \in ToSet(lexical)
    BY <1>1, <2>1 DEF ToSet, Families, UniqueIds
  <2>2. CASE c \in ToSet(vector) /\ d \in ToSet(vector)
    BY <1>1, <2>2 DEF ToSet, Families, UniqueIds
  <2>3. ASSUME NEW e \in ToSet(lexical)  PROVE Ranks(e.id, lexical) # {}
    BY DEF ToSet, Ranks
  <2>4. QED
    BY <1>1, <2>1, <2>2, <2>3 DEF Candidates
<1>2. QED
  BY <1>1 DEF Unique

LEMMA ScoreIsPositive ==
    ASSUME NEW lexical, NEW vector, Families(lexical, vector), NEW c \in Candidates(lexical, vector)
    PROVE  LET p == Score(c.id, lexical, vector) IN p.num \in Positive /\ p.den \in Positive
<1>1. RankConstant \in Positive
  BY Numbers DEF Positive
<1>2. \A i \in Positive : RankConstant + i \in Positive
  BY <1>1 DEF Positive
<1>3. \A x, y \in Positive : x + y \in Positive /\ x * y \in Positive
  BY DEF Positive
<1>4. 1 \in Positive
  BY DEF Positive
<1>5. Ranks(c.id, lexical) # {} \/ Ranks(c.id, vector) # {}
  BY CandidateRanks
<1>6. \/ Ranks(c.id, lexical) = {}
      \/ \E i \in Positive : Ranks(c.id, lexical) = {i}
  BY RankOf DEF Families
<1>7. \/ Ranks(c.id, vector) = {}
      \/ \E i \in Positive : Ranks(c.id, vector) = {i}
  BY RankOf DEF Families
<1>8. ASSUME NEW i \in Positive, Ranks(c.id, lexical) = {i}, Ranks(c.id, vector) = {}
      PROVE  LET p == Score(c.id, lexical, vector) IN p.num \in Positive /\ p.den \in Positive
  BY <1>8, <1>2, <1>4, ScoreOfRanks
<1>9. ASSUME NEW j \in Positive, Ranks(c.id, lexical) = {}, Ranks(c.id, vector) = {j}
      PROVE  LET p == Score(c.id, lexical, vector) IN p.num \in Positive /\ p.den \in Positive
  BY <1>9, <1>2, <1>4, ScoreOfRanks
<1>10. ASSUME NEW i \in Positive, NEW j \in Positive, Ranks(c.id, lexical) = {i}, Ranks(c.id, vector) = {j}
      PROVE  LET p == Score(c.id, lexical, vector) IN p.num \in Positive /\ p.den \in Positive
  <2>1. Score(c.id, lexical, vector) =
          [num |-> (RankConstant + i) + (RankConstant + j), den |-> (RankConstant + i) * (RankConstant + j)]
    BY <1>10, ScoreOfRanks
  <2>2. RankConstant + i \in Positive /\ RankConstant + j \in Positive
    BY <1>2
  <2>3. (RankConstant + i) + (RankConstant + j) \in Positive /\ (RankConstant + i) * (RankConstant + j) \in Positive
    BY <2>2, <1>3, Zenon
  <2>4. QED
    BY <2>1, <2>3
<1>11. QED
  BY <1>5, <1>6, <1>7, <1>8, <1>9, <1>10

\* The order of the fusion, written with the fractions themselves.
LEMMA PreferredByFractions ==
    ASSUME NEW lexical, NEW vector, NEW c, NEW d
    PROVE  LET p == Score(c.id, lexical, vector)
               q == Score(d.id, lexical, vector)
           IN  Preferred(c, d, lexical, vector) <=>
                 p.num * q.den > q.num * p.den \/ (p.num * q.den = q.num * p.den /\ Before(c.id, d.id))
  BY DEF Preferred

LEMMA PreferredIsOrder ==
    ASSUME NEW lexical, NEW vector, Families(lexical, vector)
    PROVE  LET S == Candidates(lexical, vector)
           IN  StrictOrder(S, {pair \in S \X S : Preferred(pair[1], pair[2], lexical, vector)})
<1> DEFINE S == Candidates(lexical, vector)
           order == {pair \in S \X S : Preferred(pair[1], pair[2], lexical, vector)}
           num(c) == Score(c.id, lexical, vector).num
           den(c) == Score(c.id, lexical, vector).den
<1>1. ASSUME NEW s \in S, NEW t \in S
      PROVE  <<s, t>> \in order <=> num(s) * den(t) > num(t) * den(s)
                                    \/ (num(s) * den(t) = num(t) * den(s) /\ Before(s.id, t.id))
  BY PreferredByFractions
<1>2. \A s \in S : num(s) \in Positive /\ den(s) \in Positive /\ s \in Entry
  BY ScoreIsPositive, CandidateRanks
<1>3. \A s \in S : s.id[1] \in Nat /\ s.id[2] \in Nat /\ s.id = <<s.id[1], s.id[2]>>
  BY <1>2, EntryFields
<1>4. \A s, t \in S : s.id = t.id => s = t
  BY CandidatesAreUnique DEF Unique
<1> HIDE DEF order, num, den, S
<1>5. ASSUME NEW s \in S, NEW t \in S  PROVE num(s) * den(t) \in Nat
  BY <1>2 DEF Positive
<1>6. \A s \in S : <<s, s>> \notin order
  <2>1. TAKE s \in S
  <2>2. ~Before(s.id, s.id)
    BY <1>3 DEF Before
  <2>3. num(s) * den(s) \in Nat
    BY <1>5
  <2>4. QED
    BY <2>2, <2>3, <1>1
<1>7. ASSUME NEW s \in S, NEW t \in S, NEW u \in S, <<s, t>> \in order, <<t, u>> \in order
      PROVE  <<s, u>> \in order
  <2>1. /\ num(s) * den(t) \in Nat /\ num(t) * den(s) \in Nat /\ num(t) * den(u) \in Nat
        /\ num(u) * den(t) \in Nat /\ num(s) * den(u) \in Nat /\ num(u) * den(s) \in Nat
    BY <1>5
  <2>2. num(s) * den(t) >= num(t) * den(s) /\ num(t) * den(u) >= num(u) * den(t)
    BY <1>1, <1>7, <2>1
  <2>3. /\ num(s) \in Positive /\ den(s) \in Positive /\ num(t) \in Positive /\ den(t) \in Positive
        /\ num(u) \in Positive /\ den(u) \in Positive
    BY <1>2
  <2>4. /\ num(s) * den(u) >= num(u) * den(s)
        /\ num(s) * den(u) = num(u) * den(s) =>
             num(s) * den(t) = num(t) * den(s) /\ num(t) * den(u) = num(u) * den(t)
    BY <2>2, <2>3, FractionsAreOrdered
  <2>5. CASE num(s) * den(u) > num(u) * den(s)
    BY <2>5, <1>1
  <2>6. CASE num(s) * den(u) = num(u) * den(s)
    <3>1. num(s) * den(t) = num(t) * den(s) /\ num(t) * den(u) = num(u) * den(t)
      BY <2>4, <2>6
    <3>2. Before(s.id, t.id) /\ Before(t.id, u.id)
      BY <3>1, <1>1, <1>7, <2>1
    <3>3. Before(s.id, u.id)
      BY <3>2, <1>3 DEF Before
    <3>4. QED
      BY <3>3, <2>6, <1>1
  <2>7. QED
    BY <2>4, <2>5, <2>6, <2>1
<1>8. ASSUME NEW s \in S, NEW t \in S, s # t  PROVE <<s, t>> \in order \/ <<t, s>> \in order
  <2>1. num(s) * den(t) \in Nat /\ num(t) * den(s) \in Nat
    BY <1>5
  <2>2. s.id # t.id
    BY <1>8, <1>4
  <2>3. Before(s.id, t.id) \/ Before(t.id, s.id)
    BY <2>2, <1>3 DEF Before
  <2>4. QED
    BY <2>1, <2>3, <1>1
<1>9. StrictOrder(S, order)
  BY <1>6, <1>7, <1>8 DEF StrictOrder
<1>10. QED
  BY <1>9 DEF S, order

LEMMA ElementsAreFinite ==
    ASSUME NEW T, NEW seq \in Seq(T)
    PROVE  ToSet(seq) \subseteq T /\ IsFiniteSet(ToSet(seq))
<1>1. Len(seq) \in Nat /\ DOMAIN seq = 1..Len(seq)
  OBVIOUS
<1>2. seq \in Surjection(1..Len(seq), ToSet(seq))
  BY <1>1 DEF Surjection, ToSet
<1>3. IsFiniteSet(1..Len(seq))
  BY <1>1, FS_Interval
<1>4. IsFiniteSet(ToSet(seq))
  BY <1>2, <1>3, FS_Surjection
<1>5. QED
  BY <1>4 DEF ToSet

LEMMA FusedInOrder ==
    ASSUME NEW lexical, NEW vector, Families(lexical, vector)
    PROVE  /\ Fused(lexical, vector) \in Seq(Candidates(lexical, vector))
           /\ Fused(lexical, vector) \in Seq(Entry)
           /\ ToSet(Fused(lexical, vector)) = Candidates(lexical, vector)
           /\ \A i, j \in DOMAIN Fused(lexical, vector) :
                i < j <=> Preferred(Fused(lexical, vector)[i], Fused(lexical, vector)[j], lexical, vector)
<1> DEFINE S == Candidates(lexical, vector)
           order == {pair \in S \X S : Preferred(pair[1], pair[2], lexical, vector)}
           fused == Sorted(S, order)
<1>1. IsFiniteSet(S)
  <2>1. IsFiniteSet(ToSet(lexical)) /\ IsFiniteSet(ToSet(vector))
    BY ElementsAreFinite DEF Families
  <2>2. IsFiniteSet(ToSet(lexical) \cup ToSet(vector))
    BY <2>1, FS_Union
  <2>3. S \in SUBSET (ToSet(lexical) \cup ToSet(vector))
    BY DEF Candidates
  <2>4. QED
    BY <2>2, <2>3, FS_Subset
<1>2. StrictOrder(S, order)
  BY PreferredIsOrder
<1>3. /\ fused \in Seq(S) /\ Len(fused) = Cardinality(S)
      /\ \A s \in S : \E i \in 1..Cardinality(S) : fused[i] = s
      /\ \A i, j \in 1..Cardinality(S) : i < j <=> <<fused[i], fused[j]>> \in order
  <2> HIDE DEF S, order
  <2>1. QED
    BY <1>1, <1>2, SortedInOrder
<1>4. S \subseteq Entry
  BY CandidateRanks
<1>5. ASSUME NEW c \in S, NEW d \in S
      PROVE  <<c, d>> \in order <=> Preferred(c, d, lexical, vector)
  OBVIOUS
<1> HIDE DEF S, order, fused
<1>6. DOMAIN fused = 1..Cardinality(S)
  BY <1>3
<1>7. ToSet(fused) = S
  BY <1>3, <1>6 DEF ToSet
<1>8. \A i, j \in DOMAIN fused : i < j <=> Preferred(fused[i], fused[j], lexical, vector)
  <2>1. TAKE i, j \in DOMAIN fused
  <2>2. fused[i] \in S /\ fused[j] \in S
    BY <1>3
  <2>3. i < j <=> <<fused[i], fused[j]>> \in order
    BY <1>3, <1>6
  <2>4. <<fused[i], fused[j]>> \in order <=> Preferred(fused[i], fused[j], lexical, vector)
    BY <2>2, <1>5
  <2>5. QED
    BY <2>3, <2>4
<1>9. fused \in Seq(Entry)
  BY <1>3, <1>4
<1>10. fused = Fused(lexical, vector)
  BY DEF fused, Fused, order, S
<1>11. QED
  BY <1>3, <1>7, <1>8, <1>9, <1>10 DEF S

LEMMA SumsOfReciprocals ==
    ASSUME NEW a \in Positive, NEW b \in Positive, NEW c \in Positive, NEW d \in Positive
    PROVE  /\ a < c => 1 * c > 1 * a
           /\ a < c /\ b < d => (a + b) * (c * d) > (c + d) * (a * b)
           /\ a < c => (a + b) * c > 1 * (a * b)
           /\ b < d => (a + b) * d > 1 * (a * b)
<1>1. a < c => 1 * c > 1 * a
  BY DEF Positive
<1>2. ASSUME a < c  PROVE c * b > a * b
  BY <1>2, Multiples DEF Positive
<1>3. ASSUME b < d  PROVE d * a > b * a
  BY <1>3, Multiples DEF Positive
<1>4. /\ a * b \in Nat /\ b * a = a * b /\ c * b \in Nat /\ d * a \in Nat /\ a * c \in Nat /\ b * d \in Nat
      /\ (a + b) * c = a * c + c * b /\ (a + b) * d = d * a + b * d /\ 1 * (a * b) = a * b
  BY DEF Positive
<1>5. a < c => (a + b) * c > 1 * (a * b)
  BY <1>2, <1>4
<1>6. b < d => (a + b) * d > 1 * (a * b)
  BY <1>3, <1>4
<1>7. a < c /\ b < d => (a + b) * (c * d) > (c + d) * (a * b)
  <2>1. HAVE a < c /\ b < d
  <2>2. (d * a) * c > (b * a) * c
    <3>1. d * a \in Nat /\ b * a \in Nat
      BY <1>4
    <3>2. QED
      BY <2>1, <1>3, <3>1, Multiples
  <2>3. (c * b) * d > (a * b) * d
    <3>1. c * b \in Nat /\ a * b \in Nat
      BY <1>4
    <3>2. QED
      BY <2>1, <1>2, <3>1, Multiples
  <2>4. (a + b) * (c * d) = (d * a) * c + (c * b) * d
    BY DEF Positive
  <2>5. (c + d) * (a * b) = (b * a) * c + (a * b) * d
    BY DEF Positive
  <2>6. (d * a) * c \in Nat /\ (b * a) * c \in Nat /\ (c * b) * d \in Nat /\ (a * b) * d \in Nat
    BY DEF Positive
  <2>7. QED
    BY <2>2, <2>3, <2>4, <2>5, <2>6
<1>8. QED
  BY <1>1, <1>5, <1>6, <1>7

\* What no retriever prefers the other to, and one does to it, comes first.
Over(c, d, family) ==
    \/ Ranks(d.id, family) = {}
    \/ \E r \in Ranks(c.id, family), q \in Ranks(d.id, family) : r < q

LEMMA PreferredByBoth ==
    ASSUME NEW lexical, NEW vector, Families(lexical, vector),
           NEW c \in Candidates(lexical, vector), NEW d \in Candidates(lexical, vector),
           Over(c, d, lexical), Over(c, d, vector)
    PROVE  Preferred(c, d, lexical, vector)
<1> DEFINE k == RankConstant
           Better(p, q) == p.num * q.den > q.num * p.den
<1>1. SUFFICES Better(Score(c.id, lexical, vector), Score(d.id, lexical, vector))
  BY PreferredByFractions
<1>2. /\ Ranks(c.id, lexical) = {} \/ \E i \in Positive : Ranks(c.id, lexical) = {i}
      /\ Ranks(c.id, vector) = {} \/ \E i \in Positive : Ranks(c.id, vector) = {i}
      /\ Ranks(d.id, lexical) = {} \/ \E i \in Positive : Ranks(d.id, lexical) = {i}
      /\ Ranks(d.id, vector) = {} \/ \E i \in Positive : Ranks(d.id, vector) = {i}
  BY RankOf DEF Families
<1>3. Ranks(d.id, lexical) # {} \/ Ranks(d.id, vector) # {}
  BY CandidateRanks
<1>4. k \in Positive /\ \A i \in Positive : k + i \in Positive
  BY Numbers DEF Positive
<1>5. CASE Ranks(d.id, lexical) # {} /\ Ranks(d.id, vector) # {}
  <2>1. PICK i \in Positive, j \in Positive, r \in Positive, q \in Positive :
          /\ Ranks(c.id, lexical) = {i} /\ Ranks(c.id, vector) = {j}
          /\ Ranks(d.id, lexical) = {r} /\ Ranks(d.id, vector) = {q}
          /\ i < r /\ j < q
    BY <1>2, <1>5 DEF Over
  <2>2. k + i < k + r /\ k + j < k + q
    BY <2>1, <1>4 DEF Positive
  <2>3. QED
    BY <2>1, <2>2, <1>4, ScoreOfRanks, SumsOfReciprocals
<1>6. CASE Ranks(d.id, vector) = {}
  <2>1. PICK i \in Positive, r \in Positive :
          Ranks(c.id, lexical) = {i} /\ Ranks(d.id, lexical) = {r} /\ i < r
    BY <1>2, <1>3, <1>6 DEF Over
  <2>2. k + i < k + r
    BY <2>1, <1>4 DEF Positive
  <2>3. Score(d.id, lexical, vector) = [num |-> 1, den |-> k + r]
    BY <2>1, <1>6, ScoreOfRanks
  <2>4. CASE Ranks(c.id, vector) = {}
    BY <2>1, <2>2, <2>3, <2>4, <1>4, ScoreOfRanks, SumsOfReciprocals
  <2>5. ASSUME NEW j \in Positive, Ranks(c.id, vector) = {j}
        PROVE  Better(Score(c.id, lexical, vector), Score(d.id, lexical, vector))
    <3>1. Score(c.id, lexical, vector) = [num |-> (k + i) + (k + j), den |-> (k + i) * (k + j)]
      BY <2>1, <2>5, ScoreOfRanks
    <3>2. k + i \in Positive /\ k + j \in Positive /\ k + r \in Positive
      BY <1>4
    <3>3. ((k + i) + (k + j)) * (k + r) > 1 * ((k + i) * (k + j))
      BY <3>2, <2>2, SumsOfReciprocals
    <3>4. QED
      BY <3>1, <3>3, <2>3
  <2>6. QED
    BY <2>4, <2>5, <1>2
<1>7. CASE Ranks(d.id, lexical) = {}
  <2>1. PICK j \in Positive, q \in Positive :
          Ranks(c.id, vector) = {j} /\ Ranks(d.id, vector) = {q} /\ j < q
    BY <1>2, <1>3, <1>7 DEF Over
  <2>2. k + j < k + q
    BY <2>1, <1>4 DEF Positive
  <2>3. Score(d.id, lexical, vector) = [num |-> 1, den |-> k + q]
    BY <2>1, <1>7, ScoreOfRanks
  <2>4. CASE Ranks(c.id, lexical) = {}
    BY <2>1, <2>2, <2>3, <2>4, <1>4, ScoreOfRanks, SumsOfReciprocals
  <2>5. ASSUME NEW i \in Positive, Ranks(c.id, lexical) = {i}
        PROVE  Better(Score(c.id, lexical, vector), Score(d.id, lexical, vector))
    <3>1. Score(c.id, lexical, vector) = [num |-> (k + i) + (k + j), den |-> (k + i) * (k + j)]
      BY <2>1, <2>5, ScoreOfRanks
    <3>2. k + i \in Positive /\ k + j \in Positive /\ k + q \in Positive
      BY <1>4
    <3>3. ((k + i) + (k + j)) * (k + q) > 1 * ((k + i) * (k + j))
      BY <3>2, <2>2, SumsOfReciprocals
    <3>4. QED
      BY <3>1, <3>3, <2>3
  <2>6. QED
    BY <2>4, <2>5, <1>2
<1>8. QED
  BY <1>5, <1>6, <1>7

-----------------------------------------------------------------------------
\* The Library: what is derived has identifiers of its own.

LibraryInv ==
    /\ home \in [Source -> Project \cup {Absent}] /\ said \in [Source -> Text]
    /\ past \subseteq Present \X Text /\ IsFiniteSet(past)
    /\ derived \subseteq Entry /\ IsFiniteSet(derived) /\ Unique(derived)

LEMMA EvidenceIsUnique ==
    ASSUME home \in [Source -> Project \cup {Absent}], said \in [Source -> Text],
           past \subseteq Present \X Text, IsFiniteSet(past)
    PROVE  Evidence \subseteq Entry /\ IsFiniteSet(Evidence) /\ Unique(Evidence)
<1> DEFINE now == {<<s, said[s]>> : s \in Present}
           ids == past \cup now
<1>1. Evidence = {Item(id, id[2], home[id[1]]) : id \in ids}
  BY DEF Evidence
<1>2. ids \subseteq Present \X Text
  BY DEF Present
<1>3. Present \subseteq Source /\ \A s \in Present : home[s] \in Project
  BY DEF Present
<1>4. IsFiniteSet(ids)
  <2>1. Present \in SUBSET Source /\ IsFiniteSet(Source)
    BY <1>3, ReadsAssumption
  <2>2. IsFiniteSet(Present)
    BY <2>1, FS_Subset
  <2>3. [s \in Present |-> <<s, said[s]>>] \in Surjection(Present, now)
    BY DEF Surjection
  <2>4. IsFiniteSet(now)
    BY <2>2, <2>3, FS_Surjection
  <2>5. QED
    BY <2>4, FS_Union
<1> HIDE DEF ids
<1>5. Evidence \subseteq Entry
  <2>1. ASSUME NEW id \in ids  PROVE Item(id, id[2], home[id[1]]) \in Entry
    BY <1>2, <1>3 DEF Item, Entry
  <2>2. QED
    BY <1>1, <2>1
<1>6. IsFiniteSet(Evidence)
  <2>1. [id \in ids |-> Item(id, id[2], home[id[1]])] \in Surjection(ids, Evidence)
    BY <1>1 DEF Surjection
  <2>2. QED
    BY <1>4, <2>1, FS_Surjection
<1>7. Unique(Evidence)
  BY <1>1 DEF Unique, Item
<1>8. QED
  BY <1>5, <1>6, <1>7

LEMMA InitLibrary == Init => LibraryInv
<1>1. SUFFICES ASSUME Init PROVE LibraryInv
  OBVIOUS
<1>2. /\ home \in [Source -> Project \cup {Absent}] /\ said = [s \in Source |-> s]
      /\ past = {} /\ derived = Evidence
  BY <1>1 DEF Init
<1>3. said \in [Source -> Text]
  BY <1>2, Numbers
<1>4. IsFiniteSet(past) /\ past \subseteq Present \X Text
  BY <1>2, FS_EmptySet
<1>5. QED
  BY <1>2, <1>3, <1>4, EvidenceIsUnique DEF LibraryInv

LEMMA WriteKeepsLibrary ==
    ASSUME LibraryInv, NEW s \in Source, NEW p \in Project, NEW text \in Text, Write(s, p, text)
    PROVE  LibraryInv'
<1>1. /\ home' = [home EXCEPT ![s] = p] /\ said' = [said EXCEPT ![s] = text] /\ derived' = derived
      /\ past' = past \cup {<<d, said[d]>> : d \in Present \cap {s}}
  BY DEF Write
<1>2. home' \in [Source -> Project \cup {Absent}] /\ said' \in [Source -> Text]
  BY <1>1 DEF LibraryInv
<1>3. Present \subseteq Present' /\ s \in Present'
  BY <1>1, ReadsAssumption DEF LibraryInv, Present
<1>4. past' \subseteq Present' \X Text
  BY <1>1, <1>3 DEF LibraryInv, Present
<1>5. IsFiniteSet(past')
  <2>1. past' = past \/ past' = past \cup {<<s, said[s]>>}
    BY <1>1
  <2>2. IsFiniteSet(past)
    BY DEF LibraryInv
  <2>3. IsFiniteSet(past \cup {<<s, said[s]>>})
    BY <2>2, FS_AddElement
  <2>4. QED
    BY <2>1, <2>2, <2>3
<1>6. QED
  BY <1>1, <1>2, <1>4, <1>5 DEF LibraryInv

LEMMA MoveKeepsLibrary ==
    ASSUME LibraryInv, NEW s \in Source, NEW p \in Project, Move(s, p)
    PROVE  LibraryInv'
<1>1. home' = [home EXCEPT ![s] = p] /\ UNCHANGED <<said, past, derived>>
  BY DEF Move
<1>2. home' \in [Source -> Project \cup {Absent}] /\ Present \subseteq Present'
  BY <1>1, ReadsAssumption DEF LibraryInv, Present
<1>3. QED
  BY <1>1, <1>2 DEF LibraryInv

LEMMA RevokeKeepsLibrary ==
    ASSUME LibraryInv, NEW s \in Source, Revoke(s)
    PROVE  LibraryInv'
<1>1. /\ home' = [home EXCEPT ![s] = Absent] /\ UNCHANGED <<said, derived>>
      /\ past' = {id \in past : id[1] # s}
  BY DEF Revoke
<1>2. home' \in [Source -> Project \cup {Absent}] /\ Present' = Present \ {s}
  BY <1>1 DEF LibraryInv, Present
<1>3. past' \subseteq Present' \X Text
  BY <1>1, <1>2 DEF LibraryInv
<1>4. past' \in SUBSET past
  BY <1>1
<1>5. IsFiniteSet(past')
  BY <1>4, FS_Subset DEF LibraryInv
<1>6. QED
  BY <1>1, <1>2, <1>3, <1>5 DEF LibraryInv

LEMMA RebuildKeepsLibrary ==
    ASSUME LibraryInv, Rebuild
    PROVE  LibraryInv'
<1>1. derived' = Evidence /\ UNCHANGED <<home, said, past>>
  BY DEF Rebuild
<1>2. Evidence \subseteq Entry /\ IsFiniteSet(Evidence) /\ Unique(Evidence)
  BY EvidenceIsUnique DEF LibraryInv
<1>3. Present' = Present
  BY <1>1 DEF Present
<1>4. QED
  BY <1>1, <1>2, <1>3 DEF LibraryInv

LEMMA LibraryStays ==
    ASSUME UNCHANGED libraryVars
    PROVE  (LibraryInv => LibraryInv') /\ Located' = Located /\ Present' = Present
  BY DEF libraryVars, LibraryInv, Located, Present

-----------------------------------------------------------------------------
\* What the statements of a search return.

LEMMA SortedOnce ==
    ASSUME NEW S, IsFiniteSet(S), NEW order, StrictOrder(S, order)
    PROVE  /\ Sorted(S, order) \in Seq(S)
           /\ \A i, j \in DOMAIN Sorted(S, order) : Sorted(S, order)[i] = Sorted(S, order)[j] => i = j
<1> DEFINE sorted == Sorted(S, order)
<1>1. /\ sorted \in Seq(S) /\ Len(sorted) = Cardinality(S)
      /\ \A i, j \in 1..Cardinality(S) : i < j <=> <<sorted[i], sorted[j]>> \in order
  BY SortedInOrder
<1> HIDE DEF sorted
<1>2. DOMAIN sorted = 1..Cardinality(S) /\ Cardinality(S) \in Nat
  BY <1>1
<1>3. ASSUME NEW i \in DOMAIN sorted, NEW j \in DOMAIN sorted, sorted[i] = sorted[j]  PROVE i = j
  <2>1. sorted[i] \in S
    BY <1>1
  <2>2. <<sorted[i], sorted[j]>> \notin order /\ <<sorted[j], sorted[i]>> \notin order
    BY <2>1, <1>3 DEF StrictOrder
  <2>3. ~(i < j) /\ ~(j < i)
    BY <2>2, <1>1, <1>2
  <2>4. QED
    BY <2>3, <1>2
<1>4. QED
  BY <1>1, <1>3 DEF sorted

LEMMA FoundOnce ==
    ASSUME LibraryInv
    PROVE  Found \in Seq(Source) /\ \A i, j \in DOMAIN Found : Found[i] = Found[j] => i = j
<1> DEFINE S == {s \in Present : said[s] \in Matching}
           order == {pair \in Source \X Source : pair[1] < pair[2]}
           sorted == Sorted(S, order)
<1>1. S \in SUBSET Source /\ IsFiniteSet(Source)
  BY ReadsAssumption DEF Present
<1>2. IsFiniteSet(S)
  BY <1>1, FS_Subset
<1>3. \A s, t \in S : <<s, t>> \in order <=> s < t
  BY <1>1
<1>4. \A s \in S : s \in Nat
  BY <1>1, Numbers
<1> HIDE DEF order, S
<1>5. StrictOrder(S, order)
  BY <1>3, <1>4 DEF StrictOrder
<1>6. sorted \in Seq(S) /\ \A i, j \in DOMAIN sorted : sorted[i] = sorted[j] => i = j
  BY <1>2, <1>5, SortedOnce
<1>7. sorted \in Seq(Source)
  BY <1>1, <1>6
<1>8. Found = First(MaxLexical, sorted)
  BY DEF Found, S, order
<1> HIDE DEF sorted
<1>9. /\ Found \in Seq(Source)
      /\ \A i \in DOMAIN Found : i \in DOMAIN sorted /\ Found[i] = sorted[i]
  BY <1>7, <1>8, Numbers, Beginning
<1>10. QED
  BY <1>6, <1>9

LEMMA MatchesOfSource ==
    ASSUME LibraryInv, NEW s
    PROVE  /\ MatchingEvidence(s) \in Seq(Entry) /\ UniqueIds(MatchingEvidence(s))
           /\ \A i \in DOMAIN MatchingEvidence(s) :
                MatchingEvidence(s)[i] \in derived /\ MatchingEvidence(s)[i].id[1] = s
<1> DEFINE S == {e \in derived : e.id[1] = s /\ e.text \in Matching}
           order == {pair \in derived \X derived : Before(pair[1].id, pair[2].id)}
           sorted == Sorted(S, order)
<1>1. S \in SUBSET derived /\ IsFiniteSet(derived) /\ derived \in SUBSET Entry /\ Unique(derived)
  BY DEF LibraryInv
<1>2. IsFiniteSet(S)
  BY <1>1, FS_Subset
<1>3. StrictOrder(S, order)
  BY <1>1, BeforeIsOrder
<1>4. \A e \in S : e \in derived /\ e.id[1] = s
  OBVIOUS
<1> HIDE DEF S, order
<1>5. sorted \in Seq(S) /\ \A i, j \in DOMAIN sorted : sorted[i] = sorted[j] => i = j
  BY <1>2, <1>3, SortedOnce
<1>6. MatchingEvidence(s) = sorted
  BY DEF MatchingEvidence, S, order
<1> HIDE DEF sorted
<1>7. \A i \in DOMAIN sorted : sorted[i] \in S
  BY <1>5
<1>8. sorted \in Seq(Entry)
  BY <1>1, <1>5
<1>9. UniqueIds(sorted)
  BY <1>1, <1>5, <1>7 DEF UniqueIds, Unique
<1>10. QED
  BY <1>4, <1>6, <1>7, <1>8, <1>9

LEMMA SimilarOnce ==
    ASSUME LibraryInv
    PROVE  /\ Similar \in Seq(Entry) /\ UniqueIds(Similar)
           /\ \A i \in DOMAIN Similar : Similar[i] \in derived
<1> DEFINE order == {pair \in derived \X derived : Nearer(pair[1], pair[2])}
           sorted == Sorted(derived, order)
<1>1. IsFiniteSet(derived) /\ derived \in SUBSET Entry /\ Unique(derived)
  BY DEF LibraryInv
<1>2. StrictOrder(derived, order)
  BY <1>1, NearerIsOrder
<1> HIDE DEF order
<1>3. sorted \in Seq(derived) /\ \A i, j \in DOMAIN sorted : sorted[i] = sorted[j] => i = j
  BY <1>1, <1>2, SortedOnce
<1>4. Similar = First(MaxVector, sorted)
  BY DEF Similar, order
<1> HIDE DEF sorted
<1>5. sorted \in Seq(Entry) /\ \A i \in DOMAIN sorted : sorted[i] \in derived
  BY <1>1, <1>3
<1>6. /\ Similar \in Seq(Entry)
      /\ \A i \in DOMAIN Similar : i \in DOMAIN sorted /\ Similar[i] = sorted[i]
  BY <1>4, <1>5, Numbers, Beginning
<1>7. UniqueIds(Similar)
  BY <1>1, <1>3, <1>5, <1>6 DEF UniqueIds, Unique
<1>8. QED
  BY <1>5, <1>6, <1>7

Shown == [id : Source \X Nat, text : Text, project : Project]

LEMMA EvidenceItems ==
    ASSUME LibraryInv, NEW id
    PROVE  /\ EvidenceItem(id) \subseteq derived /\ EvidenceItem(id) \subseteq Shown
           /\ IsFiniteSet(EvidenceItem(id)) /\ Cardinality(EvidenceItem(id)) <= 1
           /\ \A e \in EvidenceItem(id) : e.id = id
<1>1. EvidenceItem(id) \in SUBSET derived /\ derived \subseteq Entry /\ IsFiniteSet(derived) /\ Unique(derived)
  BY DEF EvidenceItem, LibraryInv
<1>2. IsFiniteSet(EvidenceItem(id))
  BY <1>1, FS_Subset
<1>3. Cardinality(EvidenceItem(id)) <= 1
  <2>1. CASE EvidenceItem(id) = {}
    BY <2>1, FS_EmptySet
  <2>2. ASSUME NEW e \in EvidenceItem(id)  PROVE Cardinality(EvidenceItem(id)) = 1
    <3>1. EvidenceItem(id) = {e}
      BY <1>1 DEF EvidenceItem, Unique
    <3>2. QED
      BY <3>1, FS_Singleton
  <2>3. QED
    BY <2>1, <2>2
<1>4. Entry \subseteq Shown
  BY Numbers DEF Entry, Shown
<1>5. QED
  BY <1>1, <1>2, <1>3, <1>4 DEF EvidenceItem

LEMMA SourceItems ==
    ASSUME LibraryInv, NEW id
    PROVE  /\ SourceItem(id) \subseteq Shown /\ IsFiniteSet(SourceItem(id)) /\ Cardinality(SourceItem(id)) <= 1
           /\ \A e \in SourceItem(id) : e.id = id /\ <<e.id, e.project>> \in Located
<1>1. \A s \in Present : s \in Source /\ said[s] \in Text /\ home[s] \in Project
  BY DEF LibraryInv, Present
<1>2. ASSUME NEW e \in SourceItem(id)
      PROVE  /\ SourceItem(id) = {e} /\ e \in Shown /\ e.id = id
             /\ <<e.id, e.project>> \in Located
  <2>1. PICK s \in Present : id = <<s, 0>> /\ e = Item(<<s, 0>>, said[s], home[s])
    BY DEF SourceItem
  <2>2. SourceItem(id) = {e}
    BY <2>1 DEF SourceItem
  <2>3. e \in Shown /\ e.id = id /\ e.project = home[s]
    BY <2>1, <1>1 DEF Item, Shown
  <2>4. <<<<s, 0>>, home[s]>> \in Located
    BY <2>1 DEF Located
  <2>5. QED
    BY <2>1, <2>2, <2>3, <2>4
<1>3. IsFiniteSet(SourceItem(id)) /\ Cardinality(SourceItem(id)) <= 1
  <2>1. CASE SourceItem(id) = {}
    BY <2>1, FS_EmptySet
  <2>2. ASSUME NEW e \in SourceItem(id)  PROVE IsFiniteSet(SourceItem(id)) /\ Cardinality(SourceItem(id)) = 1
    <3>1. SourceItem(id) = {e}
      BY <1>2
    <3>2. QED
      BY <3>1, FS_Singleton
  <2>3. QED
    BY <2>1, <2>2
<1>4. QED
  BY <1>2, <1>3

-----------------------------------------------------------------------------
\* The scope of a read.  What a read goes on with was where it says since the
\* request came, which seen remembers.

Noticed(seq) == \A i \in DOMAIN seq : <<seq[i].id, seq[i].project>> \in seen

\* A request, and the item that it names after its scope was compared.
RequestInv ==
    /\ request.caller \in {"none", "frontier", "manager"}
    /\ request.op \in {"none", "search", "recent", "get"}
    /\ request.limit \in Nat
    /\ request.at \in {"evidence", "source"} => request.op = "get"
    /\ request.op = "get" /\ request.at \notin {"idle", "refused", "require", "itemProject"} =>
           request.project = AnyProject \/ <<request.id, request.project>> \in seen

\* The rankings: sources that are still to be asked for their evidence, and the
\* candidates so far.
RankInv ==
    /\ request.found \in Seq(Source)
    /\ \A i, j \in DOMAIN request.found : request.found[i] = request.found[j] => i = j
    /\ request.lexical \in Seq(Entry) /\ UniqueIds(request.lexical) /\ Noticed(request.lexical)
    /\ \A i \in DOMAIN request.found, j \in DOMAIN request.lexical :
           request.lexical[j].id[1] # request.found[i]
    /\ request.at # "lexical" => request.lexical = <<>>
    /\ request.ranked \in Seq(Entry) /\ Noticed(request.ranked) /\ Len(request.ranked) <= MaxCandidates

\* What may be shown: it was where it says, and in the project of the request.
Fits(e) ==
    /\ e \in Shown /\ <<e.id, e.project>> \in seen
    /\ request.project # AnyProject => <<e.id, request.project>> \in seen

ItemsInv ==
    /\ request.items \in Seq(Shown) /\ Len(request.items) <= MaxResults
    /\ \A i \in DOMAIN request.items : Fits(request.items[i])

SeenInv == Serving => Located \subseteq seen

ScopeInv == LibraryInv /\ SeenInv /\ RequestInv /\ RankInv /\ ItemsInv

LEMMA EmptySequence ==
    /\ \A T : <<>> \in Seq(T)
    /\ Len(<<>>) = 0 /\ DOMAIN <<>> = {} /\ UniqueIds(<<>>) /\ Noticed(<<>>)
  BY DEF UniqueIds, Noticed

LEMMA NothingRequested ==
    ASSUME request = NoRequest
    PROVE  RequestInv /\ RankInv /\ ItemsInv /\ SeenInv
  BY EmptySequence, Numbers DEF NoRequest, RequestInv, RankInv, ItemsInv, SeenInv, Serving

LEMMA InitScope == Init => ScopeInv
  BY InitLibrary, NothingRequested DEF Init, ScopeInv

LEMMA AskScope ==
    ASSUME NEW caller \in {"frontier", "manager"}, NEW op \in {"search", "recent", "get"}, NEW project,
           NEW limit \in Nat, NEW id, op = "get" /\ caller = "frontier" => project = AnyProject,
           ScopeInv, Ask(caller, op, project, limit, id)
    PROVE  ScopeInv'
<1>1. UNCHANGED libraryVars /\ seen' = Located
  BY DEF Ask
<1>2. LibraryInv' /\ Located' = Located
  BY <1>1, LibraryStays DEF ScopeInv
<1>3. /\ request'.at = (IF caller = "manager" THEN "require" ELSE "authorize")
      /\ request'.caller = caller /\ request'.op = op /\ request'.project = project /\ request'.limit = limit
      /\ request'.found = <<>> /\ request'.lexical = <<>> /\ request'.ranked = <<>> /\ request'.items = <<>>
  BY DEF Ask, NoRequest
<1>4. RequestInv'
  BY <1>3 DEF RequestInv
<1>5. UniqueIds(<<>>) /\ Noticed(<<>>)'
  BY DEF UniqueIds, Noticed
<1>6. RankInv'
  BY <1>3, <1>5, EmptySequence, Numbers DEF RankInv, Noticed
<1>7. ItemsInv'
  BY <1>3, <1>5, EmptySequence, Numbers DEF ItemsInv
<1>8. SeenInv'
  BY <1>1, <1>2 DEF SeenInv
<1>9. QED
  BY <1>2, <1>4, <1>6, <1>7, <1>8 DEF ScopeInv

\* What a step of a read leaves alone.
LEMMA ReadKeepsLibrary ==
    ASSUME ScopeInv, Reads, Serving
    PROVE  /\ LibraryInv' /\ SeenInv' /\ seen' = seen /\ Located' = Located /\ Present' = Present
           /\ derived' = derived /\ Located \subseteq seen
<1>1. LibraryInv' /\ Located' = Located /\ Present' = Present
  BY LibraryStays DEF Reads, ScopeInv
<1>2. seen' = seen /\ derived' = derived
  BY DEF Reads, historyVars, libraryVars
<1>3. Located \subseteq seen
  BY DEF ScopeInv, SeenInv
<1>4. QED
  BY <1>1, <1>2, <1>3 DEF SeenInv

LEMMA RankingsStay ==
    ASSUME RankInv, seen \subseteq seen',
           request'.found = request.found, request'.lexical = request.lexical, request'.ranked = request.ranked,
           request'.at # "lexical" => request.at # "lexical"
    PROVE  RankInv'
  BY DEF RankInv, Noticed

LEMMA ItemsStay ==
    ASSUME ItemsInv, seen \subseteq seen',
           request'.items = request.items, request'.project = request.project
    PROVE  ItemsInv'
  BY DEF ItemsInv, Fits

LEMMA RequestStays ==
    ASSUME RequestInv, seen \subseteq seen',
           request'.caller = request.caller, request'.op = request.op, request'.limit = request.limit,
           request'.id = request.id, request'.project = request.project,
           request'.at \in {"evidence", "source"} => request.op = "get",
           request'.at \in {"idle", "refused", "require", "itemProject"}
             \/ request.at \notin {"idle", "refused", "require", "itemProject"}
    PROVE  RequestInv'
  BY DEF RequestInv

LEMMA LibraryChangesKeepScope ==
    ASSUME ScopeInv, LibraryChanges, LibraryInv'
    PROVE  ScopeInv'
<1>1. request' = request /\ seen \subseteq seen'
  BY DEF LibraryChanges
<1>2. SeenInv'
  BY <1>1 DEF LibraryChanges, SeenInv, Serving
<1>3. RequestInv'
  BY <1>1, RequestStays DEF ScopeInv, RequestInv
<1>4. RankInv'
  BY <1>1, RankingsStay DEF ScopeInv
<1>5. ItemsInv'
  BY <1>1, ItemsStay DEF ScopeInv
<1>6. QED
  BY <1>2, <1>3, <1>4, <1>5 DEF ScopeInv

LEMMA OthersKeepScope ==
    ASSUME ScopeInv, UNCHANGED <<libraryVars, request, seen>>
    PROVE  ScopeInv'
<1>1. LibraryInv' /\ Located' = Located
  BY LibraryStays DEF ScopeInv
<1>2. SeenInv'
  BY <1>1 DEF ScopeInv, SeenInv, Serving
<1>3. RequestInv' /\ RankInv' /\ ItemsInv'
  BY DEF ScopeInv, RequestInv, RankInv, ItemsInv, Fits, Noticed
<1>4. QED
  BY <1>1, <1>2, <1>3 DEF ScopeInv

\* A step that only goes on.
LEMMA GoesKeepsScope ==
    ASSUME InShape, ScopeInv, Reads, Serving, NEW place, Goes(place),
           place \in {"evidence", "source"} => request.op = "get",
           place # "lexical" /\ request.at # "lexical",
           place \in {"idle", "refused", "require", "itemProject"}
             \/ request.at \notin {"idle", "refused", "require", "itemProject"}
             \/ request.op # "get" \/ request.project = AnyProject \/ <<request.id, request.project>> \in seen
    PROVE  ScopeInv'
<1>1. /\ request'.at = place /\ request'.caller = request.caller /\ request'.op = request.op
      /\ request'.project = request.project /\ request'.limit = request.limit /\ request'.id = request.id
      /\ request'.found = request.found /\ request'.lexical = request.lexical
      /\ request'.ranked = request.ranked /\ request'.items = request.items
  BY NoRequestFields DEF Goes, InShape
<1>2. LibraryInv' /\ SeenInv' /\ seen' = seen
  BY ReadKeepsLibrary
<1>3. RequestInv'
  BY <1>1, <1>2 DEF ScopeInv, RequestInv
<1>4. RankInv' /\ ItemsInv'
  BY <1>1, <1>2, RankingsStay, ItemsStay DEF ScopeInv
<1>5. QED
  BY <1>2, <1>3, <1>4 DEF ScopeInv

LEMMA RefusedKeepsScope ==
    ASSUME InShape, ScopeInv, Reads, Serving, request.at # "lexical", Refused
    PROVE  ScopeInv'
<1>1. /\ request'.at = "refused" /\ request'.caller = request.caller /\ request'.op = request.op
      /\ request'.project = request.project /\ request'.limit = request.limit
      /\ request'.found = request.found /\ request'.lexical = request.lexical
      /\ request'.ranked = <<>> /\ request'.items = <<>>
  BY NoRequestFields DEF Refused, InShape
<1>2. LibraryInv' /\ SeenInv' /\ seen' = seen
  BY ReadKeepsLibrary
<1>3. RequestInv'
  BY <1>1 DEF ScopeInv, RequestInv
<1>4. RankInv'
  BY <1>1, <1>2, EmptySequence, Numbers DEF ScopeInv, RankInv, Noticed
<1>5. ItemsInv'
  BY <1>1, EmptySequence, Numbers DEF ItemsInv
<1>6. QED
  BY <1>2, <1>3, <1>4, <1>5 DEF ScopeInv

\* The item that a manager names was in its project when the two were compared.
LEMMA GateKeepsScope ==
    ASSUME InShape, ScopeInv, Require \/ ItemProject \/ Authorize \/ ReadAuthority
    PROVE  ScopeInv'
<1>1. request.at \in {"require", "itemProject", "authorize", "authority"} /\ Reads /\ Serving
  BY DEF Require, ItemProject, Authorize, ReadAuthority, Serving
<1>2. CASE Refused
  BY <1>1, <1>2, RefusedKeepsScope
<1>3. CASE Require /\ ~Refused
  <2>1. Goes("itemProject") \/ (Goes("authorize") /\ request.op # "get")
    BY <1>3 DEF Require
  <2>2. QED
    BY <2>1, <1>1, GoesKeepsScope
<1>4. CASE ItemProject /\ ~Refused
  <2>1. Goes("authorize")
    BY <1>4 DEF ItemProject
  <2>2. PICK item \in EvidenceItem(request.id) \cup SourceItem(request.id) : SameScope(item)
    BY <1>4 DEF ItemProject
  <2>3. item.id = request.id /\ <<item.id, item.project>> \in Located
    <3>1. CASE item \in EvidenceItem(request.id)
      BY <3>1, EvidenceItems DEF Located, ScopeInv
    <3>2. CASE item \in SourceItem(request.id)
      BY <3>2, SourceItems DEF ScopeInv
    <3>3. QED
      BY <2>2, <3>1, <3>2
  <2>4. item.project = request.project
    BY <2>2 DEF SameScope
  <2>5. <<request.id, request.project>> \in seen
    BY <2>3, <2>4, <1>1, ReadKeepsLibrary
  <2>6. QED
    BY <2>1, <2>5, <1>1, GoesKeepsScope
<1>5. CASE (Authorize \/ ReadAuthority) /\ ~Refused
  <2>1. request.at \in {"authorize", "authority"}
    BY <1>5 DEF Authorize, ReadAuthority
  <2>2. PICK place \in {"authority", FirstStep(request.op)} : Goes(place)
    BY <1>5 DEF Authorize, ReadAuthority
  <2>3. place \in {"authority", "index", "evidence", "statement"} /\ (place = "evidence" => request.op = "get")
    BY <2>2 DEF FirstStep
  <2>4. QED
    BY <2>1, <2>2, <2>3, <1>1, GoesKeepsScope
<1>6. QED
  BY <1>2, <1>3, <1>4, <1>5

LEMMA SearchIndexKeepsScope ==
    ASSUME InShape, ScopeInv, SearchIndex
    PROVE  ScopeInv'
<1>1. Reads /\ Serving /\ request.lexical = <<>>
  BY DEF SearchIndex, Serving, ScopeInv, RankInv
<1>2. /\ request'.at = "lexical" /\ request'.caller = request.caller /\ request'.op = request.op
      /\ request'.project = request.project /\ request'.limit = request.limit /\ request'.id = request.id
      /\ request'.found = Found /\ request'.lexical = request.lexical
      /\ request'.ranked = request.ranked /\ request'.items = request.items
  BY NoRequestFields DEF SearchIndex, InShape
<1>3. LibraryInv' /\ SeenInv' /\ seen' = seen
  BY <1>1, ReadKeepsLibrary
<1>4. RequestInv'
  BY <1>2, <1>3, RequestStays DEF ScopeInv, SearchIndex
<1>5. Found \in Seq(Source) /\ \A i, j \in DOMAIN Found : Found[i] = Found[j] => i = j
  BY FoundOnce DEF ScopeInv
<1>6. RankInv'
  BY <1>1, <1>2, <1>3, <1>5, EmptySequence DEF ScopeInv, RankInv, Noticed
<1>7. ItemsInv'
  BY <1>2, <1>3, ItemsStay DEF ScopeInv
<1>8. QED
  BY <1>3, <1>4, <1>6, <1>7 DEF ScopeInv

AllOf(seq, s) == \A i \in DOMAIN seq : seq[i].id[1] = s
NoneOf(seq, s) == \A i \in DOMAIN seq : seq[i].id[1] # s
From(seq, one, other) ==
    \A i \in DOMAIN seq : (\E j \in DOMAIN one : seq[i] = one[j]) \/ (\E j \in DOMAIN other : seq[i] = other[j])

\* The evidence of the next source is behind that of the sources before it.
LEMMA Appended ==
    ASSUME NEW lexical \in Seq(Entry), NEW matches \in Seq(Entry), UniqueIds(lexical), UniqueIds(matches),
           NEW s, AllOf(matches, s), NoneOf(lexical, s)
    PROVE  /\ First(MaxLexical, lexical \o matches) \in Seq(Entry)
           /\ UniqueIds(First(MaxLexical, lexical \o matches))
           /\ From(First(MaxLexical, lexical \o matches), lexical, matches)
<1> DEFINE all == lexical \o matches
           cut == First(MaxLexical, all)
<1>1. all \in Seq(Entry)
  OBVIOUS
<1>2. ASSUME NEW i \in DOMAIN all
      PROVE  \/ i \in DOMAIN lexical /\ all[i] = lexical[i]
             \/ i \notin DOMAIN lexical /\ i - Len(lexical) \in DOMAIN matches /\ all[i] = matches[i - Len(lexical)]
  OBVIOUS
<1>3. UniqueIds(all)
  <2>1. ASSUME NEW i \in DOMAIN all, NEW j \in DOMAIN all, all[i].id = all[j].id  PROVE i = j
    <3>1. CASE i \in DOMAIN lexical /\ j \in DOMAIN lexical
      BY <2>1, <3>1, <1>2 DEF UniqueIds
    <3>2. CASE i \notin DOMAIN lexical /\ j \notin DOMAIN lexical
      <4>1. i - Len(lexical) = j - Len(lexical)
        BY <2>1, <3>2, <1>2 DEF UniqueIds
      <4>2. QED
        BY <4>1
    <3>3. CASE i \in DOMAIN lexical /\ j \notin DOMAIN lexical
      BY <2>1, <3>3, <1>2 DEF AllOf, NoneOf
    <3>4. CASE i \notin DOMAIN lexical /\ j \in DOMAIN lexical
      BY <2>1, <3>4, <1>2 DEF AllOf, NoneOf
    <3>5. QED
      BY <3>1, <3>2, <3>3, <3>4
  <2>2. QED
    BY <2>1 DEF UniqueIds
<1> HIDE DEF all
<1>4. cut \in Seq(Entry) /\ \A i \in DOMAIN cut : i \in DOMAIN all /\ cut[i] = all[i]
  BY <1>1, Numbers, Beginning
<1> HIDE DEF cut
<1>5. UniqueIds(cut)
  BY <1>3, <1>4 DEF UniqueIds
<1>6. From(cut, lexical, matches)
  BY <1>2, <1>4 DEF From
<1>7. QED
  BY <1>4, <1>5, <1>6 DEF cut, all

LEMMA RankLexicalKeepsScope ==
    ASSUME InShape, ScopeInv, RankLexical
    PROVE  ScopeInv'
<1> DEFINE s == Head(request.found)
           matches == MatchingEvidence(s)
           cut == First(MaxLexical, request.lexical \o matches)
<1>1. Reads /\ Serving /\ request.at = "lexical" /\ request.found \in Seq(Source) /\ request.found # <<>>
  BY DEF RankLexical, Serving, ScopeInv, RankInv
<1>2. /\ request'.at = request.at /\ request'.caller = request.caller /\ request'.op = request.op
      /\ request'.project = request.project /\ request'.limit = request.limit /\ request'.id = request.id
      /\ request'.found = Tail(request.found) /\ request'.lexical = cut
      /\ request'.ranked = request.ranked /\ request'.items = request.items
  BY NoRequestFields DEF RankLexical, InShape
<1>3. LibraryInv' /\ SeenInv' /\ seen' = seen /\ Located \subseteq seen
  BY <1>1, ReadKeepsLibrary
<1>4. RequestInv'
  BY <1>1, <1>2, <1>3, RequestStays DEF ScopeInv
<1>5. /\ matches \in Seq(Entry) /\ UniqueIds(matches)
      /\ \A i \in DOMAIN matches : matches[i] \in derived /\ matches[i].id[1] = s
  BY MatchesOfSource DEF ScopeInv
<1>6. s = request.found[1] /\ 1 \in DOMAIN request.found
  BY <1>1
<1>7. \A i \in DOMAIN request.lexical : request.lexical[i].id[1] # s
  BY <1>6 DEF ScopeInv, RankInv
<1>8. request.lexical \in Seq(Entry) /\ UniqueIds(request.lexical) /\ Noticed(request.lexical)
  BY DEF ScopeInv, RankInv
<1>9. /\ Tail(request.found) \in Seq(Source)
      /\ \A i \in DOMAIN Tail(request.found) :
           i + 1 \in DOMAIN request.found /\ Tail(request.found)[i] = request.found[i + 1] /\ i + 1 # 1 /\ i \in Nat
  BY <1>1
<1>10. \A i, j \in DOMAIN request.found : request.found[i] = request.found[j] => i = j
  BY DEF ScopeInv, RankInv
<1>11. \A i, j \in DOMAIN Tail(request.found) : Tail(request.found)[i] = Tail(request.found)[j] => i = j
  <2>1. TAKE i, j \in DOMAIN Tail(request.found)
  <2>2. Tail(request.found)[i] = Tail(request.found)[j] => i + 1 = j + 1
    BY <1>9, <1>10
  <2>3. QED
    BY <2>2, <1>9
<1>12. \A i \in DOMAIN Tail(request.found) : Tail(request.found)[i] # s
  BY <1>6, <1>9, <1>10
<1> HIDE DEF s, matches
<1>13. cut \in Seq(Entry) /\ UniqueIds(cut) /\ From(cut, request.lexical, matches)
  <2>1. request.lexical \in Seq(Entry) /\ UniqueIds(request.lexical)
    BY <1>8
  <2>2. matches \in Seq(Entry) /\ UniqueIds(matches)
    BY <1>5
  <2>3. AllOf(matches, s) /\ NoneOf(request.lexical, s)
    BY <1>5, <1>7 DEF AllOf, NoneOf
  <2>4. QED
    BY <2>1, <2>2, <2>3, Appended
<1> HIDE DEF cut
<1>14. \A i \in DOMAIN matches : <<matches[i].id, matches[i].project>> \in seen
  BY <1>3, <1>5 DEF Located
<1>15. Noticed(cut)
  BY <1>8, <1>13, <1>14 DEF Noticed, From
<1>16. \A i \in DOMAIN Tail(request.found), j \in DOMAIN cut : cut[j].id[1] # Tail(request.found)[i]
  <2>1. TAKE i \in DOMAIN Tail(request.found), j \in DOMAIN cut
  <2>2. CASE \E k \in DOMAIN request.lexical : cut[j] = request.lexical[k]
    BY <2>2, <1>9 DEF ScopeInv, RankInv
  <2>3. CASE \E k \in DOMAIN matches : cut[j] = matches[k]
    BY <2>3, <1>5, <1>12
  <2>4. QED
    BY <2>2, <2>3, <1>13 DEF From
<1>17. request.ranked \in Seq(Entry) /\ Noticed(request.ranked) /\ Len(request.ranked) <= MaxCandidates
  BY DEF ScopeInv, RankInv
<1>18. Noticed(request.lexical)' /\ Noticed(request.ranked)'
  BY <1>2, <1>3, <1>15, <1>17 DEF Noticed
<1>19. RankInv'
  BY <1>1, <1>2, <1>9, <1>11, <1>13, <1>16, <1>17, <1>18 DEF RankInv
<1>20. ItemsInv'
  BY <1>2, <1>3, ItemsStay DEF ScopeInv
<1>21. QED
  BY <1>3, <1>4, <1>19, <1>20 DEF ScopeInv

LEMMA RankKeepsScope ==
    ASSUME InShape, ScopeInv, Rank
    PROVE  ScopeInv'
<1> DEFINE fused == Fused(request.lexical, Similar)
           cut == First(MaxCandidates, fused)
<1>1. Reads /\ Serving /\ request.at = "lexical"
  BY DEF Rank, Serving
<1>2. /\ request'.at = "items" /\ request'.caller = request.caller /\ request'.op = request.op
      /\ request'.project = request.project /\ request'.limit = request.limit /\ request'.id = request.id
      /\ request'.found = request.found /\ request'.lexical = <<>>
      /\ request'.ranked = cut /\ request'.items = request.items
  BY NoRequestFields DEF Rank, Reranked, InShape
<1>3. LibraryInv' /\ SeenInv' /\ seen' = seen /\ Located \subseteq seen
  BY <1>1, ReadKeepsLibrary
<1>4. RequestInv'
  BY <1>1, <1>2, <1>3, RequestStays DEF ScopeInv
<1>5. request.lexical \in Seq(Entry) /\ UniqueIds(request.lexical) /\ Noticed(request.lexical)
  BY DEF ScopeInv, RankInv
<1>6. Similar \in Seq(Entry) /\ UniqueIds(Similar) /\ \A i \in DOMAIN Similar : Similar[i] \in derived
  BY SimilarOnce DEF ScopeInv
<1>7. Families(request.lexical, Similar)
  BY <1>5, <1>6 DEF Families
<1>8. fused \in Seq(Candidates(request.lexical, Similar)) /\ fused \in Seq(Entry)
  BY <1>7, FusedInOrder
<1>9. ASSUME NEW c \in Candidates(request.lexical, Similar)  PROVE <<c.id, c.project>> \in seen
  <2>1. CASE c \in ToSet(request.lexical)
    BY <2>1, <1>5 DEF ToSet, Noticed
  <2>2. CASE c \in ToSet(Similar)
    BY <2>2, <1>3, <1>6 DEF ToSet, Located
  <2>3. QED
    BY <2>1, <2>2 DEF Candidates
<1>10. \A i \in DOMAIN fused : <<fused[i].id, fused[i].project>> \in seen
  BY <1>8, <1>9
<1> HIDE DEF fused
<1>11. cut \in Seq(Entry) /\ Len(cut) <= MaxCandidates /\ \A i \in DOMAIN cut : i \in DOMAIN fused /\ cut[i] = fused[i]
  BY <1>8, Numbers, Beginning
<1> HIDE DEF cut
<1>12. \A i \in DOMAIN cut : <<cut[i].id, cut[i].project>> \in seen
  BY <1>10, <1>11
<1>13. Noticed(request.ranked)' /\ Noticed(request.lexical)'
  BY <1>2, <1>3, <1>12 DEF Noticed
<1>14. RankInv'
  BY <1>2, <1>11, <1>13, EmptySequence DEF ScopeInv, RankInv
<1>15. ItemsInv'
  BY <1>2, <1>3, ItemsStay DEF ScopeInv
<1>16. QED
  BY <1>3, <1>4, <1>14, <1>15 DEF ScopeInv

LEMMA ItemsOfSet ==
    ASSUME NEW T, IsFiniteSet(T), Cardinality(T) <= MaxResults, \A e \in T : Fits(e)
    PROVE  /\ SetToSeq(T) \in Seq(Shown) /\ Len(SetToSeq(T)) = Cardinality(T) /\ Len(SetToSeq(T)) <= MaxResults
           /\ \A i \in DOMAIN SetToSeq(T) : Fits(SetToSeq(T)[i])
<1>1. SetToSeq(T) \in Seq(T) /\ Len(SetToSeq(T)) = Cardinality(T)
  BY SetAsSequence
<1>2. T \subseteq Shown
  BY DEF Fits
<1>3. QED
  BY <1>1, <1>2

\* A step after the candidates have been ranked.
LEMMA ItemsKeepScope ==
    ASSUME ScopeInv, Reads, Serving,
           request.at \notin {"idle", "refused", "require", "itemProject"} /\ request.at # "lexical",
           request'.at \in {"items", "format", "answered"},
           request'.caller = request.caller, request'.op = request.op, request'.project = request.project,
           request'.limit = request.limit, request'.id = request.id,
           request'.found = request.found, request'.lexical = request.lexical,
           request'.ranked \in {request.ranked, <<>>} \/ (request.ranked # <<>> /\ request'.ranked = Tail(request.ranked)),
           request'.items \in Seq(Shown) /\ Len(request'.items) <= MaxResults,
           \A i \in DOMAIN request'.items : Fits(request'.items[i])
    PROVE  ScopeInv'
<1>1. LibraryInv' /\ SeenInv' /\ seen' = seen
  BY ReadKeepsLibrary
<1>2. RequestInv'
  BY <1>1, RequestStays DEF ScopeInv
<1>3. /\ request.ranked \in Seq(Entry) /\ Len(request.ranked) <= MaxCandidates
      /\ \A i \in DOMAIN request.ranked : <<request.ranked[i].id, request.ranked[i].project>> \in seen
  BY DEF ScopeInv, RankInv, Noticed
<1>4. /\ request'.ranked \in Seq(Entry) /\ Len(request'.ranked) <= MaxCandidates
      /\ \A i \in DOMAIN request'.ranked : <<request'.ranked[i].id, request'.ranked[i].project>> \in seen
  <2>1. CASE request'.ranked = request.ranked
    BY <2>1, <1>3
  <2>2. CASE request'.ranked = <<>>
    BY <2>2, EmptySequence, Numbers
  <2>3. CASE request.ranked # <<>> /\ request'.ranked = Tail(request.ranked)
    <3>1. /\ Tail(request.ranked) \in Seq(Entry) /\ Len(Tail(request.ranked)) <= MaxCandidates
          /\ \A i \in DOMAIN Tail(request.ranked) :
               i + 1 \in DOMAIN request.ranked /\ Tail(request.ranked)[i] = request.ranked[i + 1]
      BY <2>3, <1>3, Numbers
    <3>2. QED
      BY <3>1, <2>3, <1>3
  <2>4. QED
    BY <2>1, <2>2, <2>3
<1>5. request.lexical = <<>> /\ Noticed(request.lexical)' /\ Noticed(request.ranked)'
  BY <1>1, <1>4 DEF ScopeInv, RankInv, Noticed
<1>6. RankInv'
  BY <1>4, <1>5 DEF ScopeInv, RankInv
<1>7. ItemsInv'
  BY <1>1 DEF ItemsInv, Fits
<1>8. QED
  BY <1>1, <1>2, <1>6, <1>7 DEF ScopeInv

LEMMA ReadItemKeepsScope ==
    ASSUME InShape, ScopeInv, ReadItem
    PROVE  ScopeInv'
<1> DEFINE head == Head(request.ranked)
           found == EvidenceItem(head.id)
           more == IF InScope(head) THEN SetToSeq(found) ELSE <<>>
<1>1. /\ Reads /\ Serving /\ request.at = "items" /\ request.ranked # <<>>
      /\ Len(request.items) < Bounded(request.limit)
  BY DEF ReadItem, Serving
<1>2. /\ request'.at = request.at /\ request'.caller = request.caller /\ request'.op = request.op
      /\ request'.project = request.project /\ request'.limit = request.limit /\ request'.id = request.id
      /\ request'.found = request.found /\ request'.lexical = request.lexical
      /\ request'.ranked = Tail(request.ranked) /\ request'.items = request.items \o more
  BY NoRequestFields DEF ReadItem, InShape
<1>3. Located \subseteq seen
  BY <1>1, ReadKeepsLibrary
<1>4. <<head.id, head.project>> \in seen
  <2>1. request.ranked \in Seq(Entry) /\ Noticed(request.ranked)
    BY DEF ScopeInv, RankInv
  <2>2. head = request.ranked[1] /\ 1 \in DOMAIN request.ranked
    BY <1>1, <2>1
  <2>3. QED
    BY <2>1, <2>2 DEF Noticed
<1>5. /\ found \subseteq derived /\ found \subseteq Shown /\ IsFiniteSet(found) /\ Cardinality(found) <= 1
      /\ \A e \in found : e.id = head.id
  BY EvidenceItems DEF ScopeInv
<1>6. InScope(head) => \A e \in found : Fits(e)
  BY <1>3, <1>4, <1>5 DEF Fits, InScope, Located
<1> HIDE DEF found
<1>7. /\ more \in Seq(Shown) /\ Len(more) <= 1 /\ \A i \in DOMAIN more : Fits(more[i])
  <2>1. CASE InScope(head)
    <3>1. Cardinality(found) <= MaxResults /\ Cardinality(found) \in Nat
      BY <1>5, Numbers, FS_CardinalityType
    <3>2. QED
      BY <3>1, <2>1, <1>5, <1>6, ItemsOfSet
  <2>2. CASE ~InScope(head)
    BY <2>2, EmptySequence
  <2>3. QED
    BY <2>1, <2>2
<1> HIDE DEF more
<1>8. request.items \in Seq(Shown) /\ \A i \in DOMAIN request.items : Fits(request.items[i])
  BY DEF ScopeInv, ItemsInv
<1>9. Len(request.items) < MaxResults
  BY <1>1, <1>8, Numbers DEF Bounded, ScopeInv, RequestInv
<1>10. /\ request.items \o more \in Seq(Shown) /\ Len(request.items \o more) <= MaxResults
       /\ \A i \in DOMAIN (request.items \o more) : Fits((request.items \o more)[i])
  BY <1>7, <1>8, <1>9, Numbers
<1>11. QED
  BY <1>1, <1>2, <1>10, ItemsKeepScope

\* get_library_item: the item that was named, as it is now.
LEMMA GetKeepsScope ==
    ASSUME InShape, ScopeInv, GetEvidence \/ GetSource
    PROVE  ScopeInv'
<1>1. Reads /\ Serving /\ request.at \in {"evidence", "source"}
  BY DEF GetEvidence, GetSource, Serving
<1>2. Located \subseteq seen
  BY <1>1, ReadKeepsLibrary
<1>3. request.project = AnyProject \/ <<request.id, request.project>> \in seen
  BY <1>1 DEF ScopeInv, RequestInv
<1>4. ASSUME NEW T \in {EvidenceItem(request.id), SourceItem(request.id)}
      PROVE  SetToSeq(T) \in Seq(Shown) /\ Len(SetToSeq(T)) <= MaxResults /\ \A i \in DOMAIN SetToSeq(T) : Fits(SetToSeq(T)[i])
  <2>1. /\ T \subseteq Shown /\ IsFiniteSet(T) /\ Cardinality(T) <= 1
        /\ \A e \in T : e.id = request.id /\ <<e.id, e.project>> \in Located
    <3>1. CASE T = EvidenceItem(request.id)
      BY <3>1, EvidenceItems DEF ScopeInv, Located
    <3>2. CASE T = SourceItem(request.id)
      BY <3>2, SourceItems DEF ScopeInv
    <3>3. QED
      BY <3>1, <3>2
  <2>2. \A e \in T : Fits(e)
    BY <2>1, <1>2, <1>3 DEF Fits
  <2>3. Cardinality(T) <= MaxResults
    BY <2>1, Numbers, FS_CardinalityType
  <2>4. QED
    BY <2>1, <2>2, <2>3, ItemsOfSet
<1>5. CASE request' = [request EXCEPT !.at = "format", !.items = SetToSeq(EvidenceItem(request.id))]
  <2>1. /\ request'.at = "format" /\ request'.caller = request.caller /\ request'.op = request.op
        /\ request'.project = request.project /\ request'.limit = request.limit /\ request'.id = request.id
        /\ request'.found = request.found /\ request'.lexical = request.lexical
        /\ request'.ranked = request.ranked /\ request'.items = SetToSeq(EvidenceItem(request.id))
    BY <1>5, NoRequestFields DEF InShape
  <2>2. QED
    BY <2>1, <1>1, <1>4, ItemsKeepScope
<1>6. CASE request' = [request EXCEPT !.at = "format", !.items = SetToSeq(SourceItem(request.id))]
  <2>1. /\ request'.at = "format" /\ request'.caller = request.caller /\ request'.op = request.op
        /\ request'.project = request.project /\ request'.limit = request.limit /\ request'.id = request.id
        /\ request'.found = request.found /\ request'.lexical = request.lexical
        /\ request'.ranked = request.ranked /\ request'.items = SetToSeq(SourceItem(request.id))
    BY <1>6, NoRequestFields DEF InShape
  <2>2. QED
    BY <2>1, <1>1, <1>4, ItemsKeepScope
<1>7. CASE Goes("source") \/ Refused
  <2>1. request.op = "get"
    BY <1>1 DEF ScopeInv, RequestInv
  <2>2. QED
    BY <2>1, <1>1, <1>7, GoesKeepsScope, RefusedKeepsScope
<1>8. QED
  BY <1>5, <1>6, <1>7 DEF GetEvidence, GetSource

\* recent_library_context: every item is read in the statement that chose it.
LEMMA RecentKeepsScope ==
    ASSUME InShape, ScopeInv, Recent
    PROVE  ScopeInv'
<1> DEFINE all == {s \in Present : request.project \in {AnyProject, home[s]}}
           size == Bounded(request.limit)
           Items(some) == UNION {SourceItem(<<s, 0>>) : s \in some}
<1>1. Reads /\ Serving /\ request.at = "statement"
  BY DEF Recent, Serving
<1>2. PICK some \in SUBSET all :
        /\ Cardinality(some) = IF size < Cardinality(all) THEN size ELSE Cardinality(all)
        /\ request' = [request EXCEPT !.at = "format", !.items = SetToSeq(Items(some))]
  BY DEF Recent
<1>3. /\ request'.at = "format" /\ request'.caller = request.caller /\ request'.op = request.op
      /\ request'.project = request.project /\ request'.limit = request.limit /\ request'.id = request.id
      /\ request'.found = request.found /\ request'.lexical = request.lexical
      /\ request'.ranked = request.ranked /\ request'.items = SetToSeq(Items(some))
  BY <1>2, NoRequestFields DEF InShape
<1>4. Located \subseteq seen
  BY <1>1, ReadKeepsLibrary
<1>5. IsFiniteSet(all) /\ IsFiniteSet(some) /\ Cardinality(all) \in Nat
  <2>1. all \in SUBSET Source /\ some \in SUBSET Source /\ IsFiniteSet(Source)
    BY ReadsAssumption DEF Present
  <2>2. QED
    BY <2>1, FS_Subset, FS_CardinalityType
<1>6. size \in Nat /\ size <= MaxResults
  BY Numbers DEF Bounded, ScopeInv, RequestInv
<1>7. Cardinality(some) <= MaxResults /\ Cardinality(some) \in Nat
  BY <1>2, <1>5, <1>6, Numbers
<1>8. Items(some) = {Item(<<s, 0>>, said[s], home[s]) : s \in some}
  <2>1. \A s \in some : SourceItem(<<s, 0>>) = {Item(<<s, 0>>, said[s], home[s])}
    BY DEF SourceItem
  <2>2. QED
    BY <2>1
<1>9. IsFiniteSet(Items(some)) /\ Cardinality(Items(some)) <= Cardinality(some)
  <2>1. [s \in some |-> Item(<<s, 0>>, said[s], home[s])] \in Surjection(some, Items(some))
    BY <1>8 DEF Surjection
  <2>2. QED
    BY <2>1, <1>5, FS_Surjection
<1>10. \A e \in Items(some) : Fits(e)
  <2>1. ASSUME NEW s \in some, NEW e \in SourceItem(<<s, 0>>)  PROVE Fits(e)
    <3>1. e \in Shown /\ e.id = <<s, 0>> /\ <<e.id, e.project>> \in Located
      BY SourceItems DEF ScopeInv
    <3>2. e.project = home[s]
      BY DEF SourceItem, Item
    <3>3. s \in all
      BY <1>2
    <3>4. request.project # AnyProject => request.project = e.project
      BY <3>2, <3>3
    <3>5. QED
      BY <3>1, <3>4, <1>4 DEF Fits
  <2>2. QED
    BY <2>1
<1> HIDE DEF Items
<1>11. Cardinality(Items(some)) <= MaxResults
  <2>1. Cardinality(Items(some)) \in Nat
    BY <1>9, FS_CardinalityType
  <2>2. QED
    BY <2>1, <1>7, <1>9, Numbers
<1>12. /\ SetToSeq(Items(some)) \in Seq(Shown) /\ Len(SetToSeq(Items(some))) <= MaxResults
       /\ \A i \in DOMAIN SetToSeq(Items(some)) : Fits(SetToSeq(Items(some))[i])
  BY <1>9, <1>10, <1>11, ItemsOfSet
<1>13. QED
  BY <1>1, <1>3, <1>12, ItemsKeepScope

LEMMA FormatKeepsScope ==
    ASSUME InShape, ScopeInv, EndSearch \/ Format
    PROVE  ScopeInv'
<1>1. Reads /\ Serving /\ request.at \in {"items", "format"}
  BY DEF EndSearch, Format, Serving
<1>2. PICK n \in Nat, place \in {"format", "answered"} :
        /\ request'.at = place /\ request'.items \in {request.items, First(n, request.items)}
        /\ request'.caller = request.caller /\ request'.op = request.op
        /\ request'.project = request.project /\ request'.limit = request.limit /\ request'.id = request.id
        /\ request'.found = request.found /\ request'.lexical = request.lexical
        /\ request'.ranked \in {request.ranked, <<>>}
  <2>1. CASE EndSearch
    BY <2>1, NoRequestFields DEF EndSearch, InShape
  <2>2. CASE Format
    <3>1. PICK fit \in 0..Len(request.items) :
            request' = [request EXCEPT !.at = "answered", !.items = First(fit, @),
                            !.truncated = fit < Len(request.items)]
      BY <2>2 DEF Format
    <3>2. fit \in Nat
      BY DEF ScopeInv, ItemsInv
    <3>3. QED
      BY <3>1, <3>2, NoRequestFields DEF InShape
  <2>3. QED
    BY <2>1, <2>2
<1>3. /\ request.items \in Seq(Shown) /\ Len(request.items) <= MaxResults
      /\ \A i \in DOMAIN request.items : Fits(request.items[i])
  BY DEF ScopeInv, ItemsInv
<1>4. /\ First(n, request.items) \in Seq(Shown) /\ Len(First(n, request.items)) <= Len(request.items)
      /\ \A i \in DOMAIN First(n, request.items) :
           i \in DOMAIN request.items /\ First(n, request.items)[i] = request.items[i]
  BY <1>3, Beginning
<1>5. /\ request'.items \in Seq(Shown) /\ Len(request'.items) <= MaxResults
      /\ \A i \in DOMAIN request'.items : Fits(request'.items[i])
  <2>1. CASE request'.items = request.items
    BY <2>1, <1>3
  <2>2. CASE request'.items = First(n, request.items)
    <3>1. Len(First(n, request.items)) <= MaxResults
      BY <1>3, <1>4, Numbers
    <3>2. QED
      BY <2>2, <3>1, <1>3, <1>4
  <2>3. QED
    BY <2>1, <2>2, <1>2
<1>6. QED
  BY <1>1, <1>2, <1>5, ItemsKeepScope

LEMMA AnswerKeepsScope ==
    ASSUME ScopeInv, Answer
    PROVE  ScopeInv'
<1>1. LibraryInv'
  BY LibraryStays DEF Answer, ScopeInv
<1>2. RequestInv' /\ RankInv' /\ ItemsInv' /\ SeenInv'
  BY EmptySequence, Numbers DEF Answer, NoRequest, RequestInv, RankInv, ItemsInv, SeenInv, Serving, UniqueIds, Noticed
<1>3. QED
  BY <1>1, <1>2 DEF ScopeInv

LEMMA ScopeSteps ==
    ASSUME InShape, ScopeInv, [Next]_vars
    PROVE  ScopeInv'
<1>1. CASE \E mode \in LaunchMode : Launch(mode)
  BY <1>1, OthersKeepScope DEF Launch, historyVars
<1>2. CASE Asks
  BY <1>2, EveryAsk, AskScope
<1>5. CASE Require \/ ItemProject \/ Authorize \/ ReadAuthority
  BY <1>5, GateKeepsScope
<1>6. CASE Search \/ GetEvidence \/ GetSource \/ Recent \/ Format \/ Answer
  BY <1>6, SearchIndexKeepsScope, RankLexicalKeepsScope, RankKeepsScope, ReadItemKeepsScope, FormatKeepsScope,
     GetKeepsScope, RecentKeepsScope, AnswerKeepsScope DEF Search
<1>7. CASE \E s \in Source, p \in Project : Move(s, p) \/ \E text \in Text : Write(s, p, text)
  <2>1. LibraryInv' /\ LibraryChanges
    BY <1>7, MoveKeepsLibrary, WriteKeepsLibrary DEF ScopeInv, Move, Write
  <2>2. QED
    BY <2>1, LibraryChangesKeepScope
<1>8. CASE (\E s \in Source : Revoke(s)) \/ Rebuild
  <2>1. LibraryInv' /\ LibraryChanges
    BY <1>8, RevokeKeepsLibrary, RebuildKeepsLibrary DEF ScopeInv, Revoke, Rebuild
  <2>2. QED
    BY <2>1, LibraryChangesKeepScope
<1>9. CASE LoseAuthority \/ \E content \in Mode \cup {Absent, Broken} : SetMode(content)
  BY <1>9, OthersKeepScope DEF LoseAuthority, SetMode, historyVars
<1>10. CASE UNCHANGED vars
  BY <1>10, OthersKeepScope DEF vars, historyVars
<1>11. QED
  BY <1>1, <1>2, <1>5, <1>6, <1>7, <1>8, <1>9, <1>10 DEF Next

\* Inductive: whatever a request goes on with, its index rows, rankings and items,
\* is of an identifier that the request has seen with that text and project, and
\* within the limits of the statement that made it.
THEOREM ScopeInvariant == Spec => [](InShape /\ AccessInv /\ ScopeInv)
<1>1. InShape /\ ScopeInv /\ [Next]_vars => ScopeInv'
  BY ScopeSteps
<1>2. QED
  BY <1>1, InitScope, AccessInvariant, PTL DEF Spec

\* The gate of a server is only what it was launched with.
LEMMA GateKeepsType == Spec => [](gate \in LaunchMode \cup {Absent})
<1>1. Init => gate \in LaunchMode \cup {Absent}
  BY DEF Init
<1>2. gate \in LaunchMode \cup {Absent} /\ [Next]_vars => (gate \in LaunchMode \cup {Absent})'
  <2>1. SUFFICES ASSUME gate \in LaunchMode \cup {Absent}, [Next]_vars
                 PROVE  gate' \in LaunchMode \cup {Absent}
    OBVIOUS
  <2>2. CASE \E mode \in LaunchMode : Launch(mode)
    BY <2>2 DEF Launch
  <2>3. CASE ~\E mode \in LaunchMode : Launch(mode)
    <3>1. UNCHANGED gate
      BY <2>1, <2>3 DEF Next, Asks, Ask, Require, ItemProject, Authorize, ReadAuthority, Search, SearchIndex, RankLexical,
         Rank, ReadItem, EndSearch, GetEvidence, GetSource, Recent, Format, Answer, Reads, LibraryChanges, Move,
         Write, Revoke, Rebuild, LoseAuthority, SetMode, vars, accessVars
    <3>2. QED
      BY <3>1, <2>1
  <2>4. QED
    BY <2>2, <2>3
<1>3. QED
  BY <1>1, <1>2, PTL DEF Spec

\* AnswersKeepScope: although a candidate is ranked in one statement, its scope
\* compared in a second and its text read in a third, between which chats move
\* and documents are revised or revoked, what is returned was in the project of
\* the request, and where the answer says, since the request came.
THEOREM AnswersStayInScope == Spec => []AnswersKeepScope
<1>1. ASSUME AccessInv, ScopeInv, gate \in LaunchMode \cup {Absent}  PROVE AnswersKeepScope
  <2>1. ReadsTypeOK
    <3>1. home \in [Source -> Project \cup {Absent}] /\ said \in [Source -> Text]
      BY <1>1 DEF ScopeInv, LibraryInv
    <3>2. past \subseteq Id
      BY <1>1, Numbers DEF ScopeInv, LibraryInv, Id, Present
    <3>3. \A e \in derived : e.id \in Id /\ e.text \in Text /\ e.project \in Project
      BY <1>1, Numbers, EntryFields DEF ScopeInv, LibraryInv, Id
    <3>4. policy \in Mode \cup {Absent, Broken}
      BY <1>1 DEF AccessInv, AccessTypeOK
    <3>5. /\ request.caller \in {"none", "frontier", "manager"}
          /\ request.op \in {"none", "search", "recent", "get"}
          /\ Len(request.items) <= MaxResults /\ Len(request.ranked) <= MaxCandidates
      BY <1>1 DEF ScopeInv, RequestInv, RankInv, ItemsInv
    <3>6. QED
      BY <1>1, <3>1, <3>2, <3>3, <3>4, <3>5 DEF ReadsTypeOK
  <2>2. WasInScope
    BY <1>1 DEF ScopeInv, ItemsInv, Fits, WasInScope
  <2>3. QED
    BY <2>1, <2>2 DEF AnswersKeepScope
<1>2. QED
  BY <1>1, ScopeInvariant, GateKeepsType, PTL

\* RankedByBoth: for any rankings of the two retrievers, of whatever moments,
\* the fusion has each candidate once, and before those over which both prefer
\* it.
THEOREM FusionFollowsBoth == Spec => []RankedByBoth
<1>1. ASSUME ScopeInv  PROVE RankedByBoth
  <2> DEFINE lexical == request.lexical
             fused == Fused(lexical, Similar)
             all == Candidates(lexical, Similar)
  <2>1. Families(lexical, Similar)
    BY <1>1, SimilarOnce DEF ScopeInv, RankInv, Families
  <2>2. /\ fused \in Seq(all) /\ ToSet(fused) = all
        /\ \A i, j \in DOMAIN fused : i < j <=> Preferred(fused[i], fused[j], lexical, Similar)
    BY <2>1, FusedInOrder
  <2>3. {c.id : c \in all} = {c.id : c \in ToSet(lexical) \cup ToSet(Similar)}
    <3>1. ASSUME NEW c \in ToSet(Similar)  PROVE \E d \in all : d.id = c.id
      <4>1. CASE Ranks(c.id, lexical) = {}
        BY <4>1 DEF Candidates
      <4>2. CASE Ranks(c.id, lexical) # {}
        BY <4>2 DEF Candidates, Ranks, ToSet
      <4>3. QED
        BY <4>1, <4>2
    <3>2. ToSet(lexical) \subseteq all /\ all \subseteq ToSet(lexical) \cup ToSet(Similar)
      BY DEF Candidates
    <3>3. QED
      BY <3>1, <3>2
  <2>4. \A c, d \in all : c.id = d.id => c = d
    BY <2>1, CandidatesAreUnique DEF Unique
  <2>5. \A c, d \in all : Over(c, d, lexical) /\ Over(c, d, Similar) => Preferred(c, d, lexical, Similar)
    BY <2>1, PreferredByBoth
  <2>6. ASSUME NEW i \in DOMAIN fused, NEW j \in DOMAIN fused, i # j, fused[i].id = fused[j].id  PROVE FALSE
    <3>1. fused[i] = fused[j]
      BY <2>2, <2>4, <2>6
    <3>2. \A k \in DOMAIN fused : k \in Nat
      BY <2>2
    <3>3. i < j \/ j < i
      BY <2>6, <3>2
    <3>4. Preferred(fused[i], fused[i], lexical, Similar)
      BY <2>2, <3>1, <3>3
    <3>5. i < i
      BY <2>2, <3>4
    <3>6. QED
      BY <3>2, <3>5
  <2> HIDE DEF fused, all
  <2>7. ASSUME NEW i \in DOMAIN fused, NEW j \in DOMAIN fused,
               Over(fused[i], fused[j], lexical), Over(fused[i], fused[j], Similar)
        PROVE  i < j
    BY <2>2, <2>5, <2>7
  <2>8. QED
    BY <2>2, <2>3, <2>6, <2>7 DEF RankedByBoth, Over, fused
<1>2. QED
  BY <1>1, ScopeInvariant, PTL

-----------------------------------------------------------------------------
\* Completeness.  While the Library stays as it was, what a read has gathered and
\* what it has still to look at are together all that it must find.

PlaceInv ==
    /\ Serving => request.op \in {"search", "recent", "get"}
    /\ request.at \in {"index", "lexical", "items"} => request.op = "search"
    /\ request.at \in {"evidence", "source"} => request.op = "get"
    /\ request.at = "statement" => request.op = "recent"
    /\ request.at = "itemProject" => request.op = "get"
    /\ request.at \notin {"items", "format", "answered"} => request.items = <<>>

Once(seq) == \A i, j \in DOMAIN seq : seq[i] = seq[j] => i = j
Wanted(S) == Cardinality({e \in S : InScope(e)})
Chosen == {s \in Present : request.project \in {AnyProject, home[s]}}

\* So many are all that are wanted, or all that the others leave room for.
Enough(n) == n = Wanted(derived) \/ n + Cardinality(derived \ {e \in derived : InScope(e)}) >= MaxCandidates

Complete ==
    /\ request.op = "get" => Len(request.items) = 1
    /\ request.op = "recent" =>
           Len(request.items) >= Bounded(request.limit) \/ Len(request.items) = Cardinality(Chosen)
    /\ request.op = "search" =>
           Len(request.items) >= Bounded(request.limit) \/ Enough(Len(request.items))

ToLookAt ==
    /\ Once(request.ranked) /\ ToSet(request.ranked) \subseteq derived
    /\ Enough(Len(request.items) + Wanted(ToSet(request.ranked)))

QuietInv ==
    quiet =>
        /\ request.at = "lexical" => ToSet(request.lexical) \subseteq derived
        /\ request.at = "items" => ToLookAt
        /\ request.at = "format" => Complete
        /\ request.at = "answered" /\ ~request.truncated => Complete

CompleteInv == PlaceInv /\ QuietInv

LEMMA InitComplete == Init => CompleteInv
  BY DEF Init, NoRequest, CompleteInv, PlaceInv, QuietInv, Serving

LEMMA FirstOfMany ==
    ASSUME NEW T, NEW seq \in Seq(T), NEW n \in Nat
    PROVE  Len(First(n, seq)) = IF n < Len(seq) THEN n ELSE Len(seq)
  BY DEF First

LEMMA OnceCounts ==
    ASSUME NEW T, NEW seq \in Seq(T), Once(seq)
    PROVE  IsFiniteSet(ToSet(seq)) /\ Cardinality(ToSet(seq)) = Len(seq)
<1>1. Len(seq) \in Nat /\ DOMAIN seq = 1..Len(seq)
  OBVIOUS
<1>2. seq \in Bijection(1..Len(seq), ToSet(seq))
  BY <1>1 DEF Bijection, Injection, Surjection, IsInjective, Once, ToSet
<1>3. ExistsBijection(1..Len(seq), ToSet(seq))
  BY <1>2 DEF ExistsBijection
<1>4. QED
  BY <1>1, <1>3, FS_CountingElements, FS_NatBijection

\* What the vectors find is as many as there are, up to their limit.
LEMMA SimilarCounts ==
    ASSUME LibraryInv
    PROVE  /\ Once(Similar) /\ ToSet(Similar) \subseteq derived
           /\ Cardinality(ToSet(Similar)) = IF MaxVector < Cardinality(derived) THEN MaxVector ELSE Cardinality(derived)
<1> DEFINE order == {pair \in derived \X derived : Nearer(pair[1], pair[2])}
           sorted == Sorted(derived, order)
<1>1. IsFiniteSet(derived) /\ derived \in SUBSET Entry /\ Unique(derived)
  BY DEF LibraryInv
<1>2. StrictOrder(derived, order)
  BY <1>1, NearerIsOrder
<1> HIDE DEF order
<1>3. sorted \in Seq(derived) /\ Len(sorted) = Cardinality(derived)
  BY <1>1, <1>2, SortedInOrder
<1>4. Similar = First(MaxVector, sorted)
  BY DEF Similar, order
<1> HIDE DEF sorted
<1>5. Len(Similar) = IF MaxVector < Cardinality(derived) THEN MaxVector ELSE Cardinality(derived)
  BY <1>3, <1>4, Numbers, FirstOfMany
<1>6. Similar \in Seq(Entry) /\ UniqueIds(Similar) /\ \A i \in DOMAIN Similar : Similar[i] \in derived
  BY SimilarOnce
<1>7. Once(Similar)
  BY <1>6 DEF UniqueIds, Once
<1>8. QED
  BY <1>5, <1>6, <1>7, OnceCounts DEF ToSet

LEMMA SimilarIsAll ==
    ASSUME LibraryInv, Cardinality(derived) <= MaxCandidates
    PROVE  ToSet(Similar) = derived
<1> DEFINE order == {pair \in derived \X derived : Nearer(pair[1], pair[2])}
           sorted == Sorted(derived, order)
<1>1. IsFiniteSet(derived) /\ derived \in SUBSET Entry /\ Unique(derived)
  BY DEF LibraryInv
<1>2. StrictOrder(derived, order)
  BY <1>1, NearerIsOrder
<1> HIDE DEF order
<1>3. /\ sorted \in Seq(derived) /\ Len(sorted) = Cardinality(derived)
      /\ \A e \in derived : \E i \in 1..Cardinality(derived) : sorted[i] = e
  BY <1>1, <1>2, SortedInOrder
<1>4. Similar = First(MaxVector, sorted)
  BY DEF Similar, order
<1> HIDE DEF sorted
<1>5. Cardinality(derived) <= MaxVector
  BY <1>1, FS_CardinalityType, Numbers, ReadsAssumption
<1>6. Similar = sorted
  BY <1>3, <1>4, <1>5, Numbers, Beginning
<1>7. DOMAIN sorted = 1..Cardinality(derived)
  BY <1>3
<1>8. QED
  BY <1>3, <1>6, <1>7 DEF ToSet

LEMMA FusedOnce ==
    ASSUME NEW lexical, NEW vector, Families(lexical, vector)
    PROVE  Once(Fused(lexical, vector)) /\ Len(Fused(lexical, vector)) = Cardinality(Candidates(lexical, vector))
<1> DEFINE S == Candidates(lexical, vector)
           fused == Fused(lexical, vector)
<1>1. /\ fused \in Seq(S) /\ ToSet(fused) = S
      /\ \A i, j \in DOMAIN fused : i < j <=> Preferred(fused[i], fused[j], lexical, vector)
  BY FusedInOrder
<1> HIDE DEF S, fused
<1>2. Len(fused) \in Nat /\ DOMAIN fused = 1..Len(fused)
  BY <1>1
<1>3. Once(fused)
  <2>1. ASSUME NEW i \in DOMAIN fused, NEW j \in DOMAIN fused, fused[i] = fused[j], i < j \/ j < i  PROVE FALSE
    <3>1. Preferred(fused[i], fused[i], lexical, vector)
      BY <1>1, <2>1
    <3>2. i < i
      BY <1>1, <3>1
    <3>3. QED
      BY <1>2, <3>2
  <2>2. QED
    BY <1>2, <2>1 DEF Once
<1>4. Len(fused) = Cardinality(S)
  <2>1. fused \in Bijection(1..Len(fused), S)
    BY <1>1, <1>2, <1>3 DEF Bijection, Injection, Surjection, IsInjective, Once, ToSet
  <2>2. ExistsBijection(1..Len(fused), S)
    BY <2>1 DEF ExistsBijection
  <2>3. QED
    BY <2>2, <1>2, FS_CountingElements
<1>5. QED
  BY <1>3, <1>4 DEF S, fused

LEMMA RankIsComplete ==
    ASSUME InShape, ScopeInv, CompleteInv, Rank
    PROVE  CompleteInv'
<1> DEFINE fused == Fused(request.lexical, Similar)
<1>1. Reads /\ Serving /\ request.at = "lexical" /\ request.op = "search" /\ request.items = <<>>
  BY DEF Rank, Serving, CompleteInv, PlaceInv
<1>2. /\ request'.at = "items" /\ request'.op = request.op /\ request'.project = request.project
      /\ request'.ranked = First(MaxCandidates, fused) /\ request'.items = request.items
  BY NoRequestFields DEF Rank, Reranked, InShape
<1>3. PlaceInv'
  BY <1>1, <1>2 DEF PlaceInv
<1>4. quiet' = quiet /\ derived' = derived
  BY <1>1 DEF Reads, historyVars, libraryVars
<1>r. Families(request.lexical, Similar)
  BY SimilarOnce DEF ScopeInv, RankInv, Families
<1>d. IsFiniteSet(derived) /\ Cardinality(derived) \in Nat
  BY FS_CardinalityType DEF ScopeInv, LibraryInv
<1>5. ASSUME quiet, Cardinality(derived) <= MaxCandidates
      PROVE  First(MaxCandidates, fused) = fused /\ Once(fused) /\ ToSet(fused) = derived
  <2>1. Families(request.lexical, Similar)
    BY <1>r
  <2>2. ToSet(Similar) = derived /\ ToSet(request.lexical) \subseteq derived
    BY <1>1, <1>5, SimilarIsAll DEF ScopeInv, CompleteInv, QuietInv
  <2>3. Candidates(request.lexical, Similar) = derived
    <3>1. Candidates(request.lexical, Similar) \subseteq derived
      BY <2>2 DEF Candidates
    <3>2. ASSUME NEW e \in derived  PROVE e \in Candidates(request.lexical, Similar)
      <4>1. CASE Ranks(e.id, request.lexical) = {}
        BY <4>1, <2>2 DEF Candidates
      <4>2. CASE Ranks(e.id, request.lexical) # {}
        <5>1. PICK c \in ToSet(request.lexical) : c.id = e.id
          BY <4>2 DEF Ranks, ToSet
        <5>2. c = e
          BY <5>1, <2>2 DEF ScopeInv, LibraryInv, Unique
        <5>3. QED
          BY <5>1, <5>2 DEF Candidates
      <4>3. QED
        BY <4>1, <4>2
    <3>3. QED
      BY <3>1, <3>2
  <2>4. fused \in Seq(Entry) /\ Once(fused) /\ ToSet(fused) = derived /\ Len(fused) = Cardinality(derived)
    BY <2>1, <2>3, FusedInOrder, FusedOnce
  <2> HIDE DEF fused
  <2>5. First(MaxCandidates, fused) = fused
    BY <2>4, <1>5, Numbers, Beginning
  <2>6. QED
    BY <2>4, <2>5
<1> HIDE DEF fused
<1>6. \A e : InScope(e)' <=> InScope(e)
  BY <1>2 DEF InScope
<1>c. ASSUME quiet, Cardinality(derived) > MaxCandidates  PROVE ToLookAt'
  <2> DEFINE ranked == First(MaxCandidates, fused)
             R == ToSet(ranked)
             wanted == {e \in R : InScope(e)}
             all == {e \in derived : InScope(e)}
  <2>1. /\ fused \in Seq(Entry) /\ Once(fused) /\ ToSet(fused) = Candidates(request.lexical, Similar)
        /\ Len(fused) = Cardinality(Candidates(request.lexical, Similar))
    BY <1>r, FusedInOrder, FusedOnce DEF fused
  <2>2. ToSet(Similar) \subseteq derived /\ ToSet(request.lexical) \subseteq derived
    BY <1>1, <1>c, SimilarCounts DEF ScopeInv, CompleteInv, QuietInv
  <2>3. Candidates(request.lexical, Similar) \subseteq derived
    BY <2>2 DEF Candidates
  <2>4. ASSUME NEW e \in ToSet(Similar)  PROVE e \in Candidates(request.lexical, Similar)
    <3>1. CASE Ranks(e.id, request.lexical) = {}
      BY <3>1 DEF Candidates
    <3>2. CASE Ranks(e.id, request.lexical) # {}
      <4>1. PICK c \in ToSet(request.lexical) : c.id = e.id
        BY <3>2 DEF Ranks, ToSet
      <4>2. c = e
        BY <4>1, <2>2, <2>4 DEF ScopeInv, LibraryInv, Unique
      <4>3. QED
        BY <4>1, <4>2 DEF Candidates
    <3>3. QED
      BY <3>1, <3>2
  <2>5. MaxCandidates <= Len(fused) /\ Len(fused) \in Nat
    <3>1. IsFiniteSet(Candidates(request.lexical, Similar))
      BY <2>3, <1>d, FS_Subset
    <3>2. Cardinality(ToSet(Similar)) <= Cardinality(Candidates(request.lexical, Similar))
      BY <2>4, <3>1, FS_Subset
    <3>3. MaxCandidates <= Cardinality(ToSet(Similar))
      BY <1>c, <1>d, SimilarCounts, Numbers, ReadsAssumption DEF ScopeInv
    <3>4. Cardinality(ToSet(Similar)) \in Nat /\ Cardinality(Candidates(request.lexical, Similar)) \in Nat
      BY <3>1, <2>2, <1>d, FS_Subset, FS_CardinalityType
    <3>5. QED
      BY <2>1, <3>2, <3>3, <3>4, Numbers
  <2> HIDE DEF fused
  <2>6. ranked \in Seq(Entry) /\ \A i \in DOMAIN ranked : i \in DOMAIN fused /\ ranked[i] = fused[i]
    BY <2>1, Numbers, Beginning
  <2>7. Len(ranked) = MaxCandidates
    BY <2>1, <2>5, Numbers, FirstOfMany
  <2>8. Once(ranked)
    BY <2>1, <2>6 DEF Once
  <2>9. R \subseteq derived
    BY <2>1, <2>3, <2>6 DEF ToSet
  <2>10. IsFiniteSet(R) /\ Cardinality(R) = MaxCandidates
    BY <2>6, <2>7, <2>8, OnceCounts
  <2> HIDE DEF ranked, R
  <2>11. /\ Cardinality(wanted) \in Nat /\ Cardinality(derived \ all) \in Nat
         /\ Cardinality(wanted) + Cardinality(derived \ all) >= MaxCandidates
    <3>1. R \subseteq wanted \cup (derived \ all)
      BY <2>9
    <3>2. IsFiniteSet(wanted) /\ IsFiniteSet(derived \ all)
      BY <2>10, <1>d, FS_Subset
    <3> HIDE DEF wanted, all
    <3>3. /\ IsFiniteSet(wanted \cup (derived \ all)) /\ Cardinality(wanted \cap (derived \ all)) \in Nat
          /\ Cardinality(wanted \cup (derived \ all)) =
                Cardinality(wanted) + Cardinality(derived \ all) - Cardinality(wanted \cap (derived \ all))
      BY <3>2, FS_Union, FS_Intersection, FS_CardinalityType
    <3>4. Cardinality(R) <= Cardinality(wanted \cup (derived \ all))
      BY <3>1, <3>3, FS_Subset
    <3>5. Cardinality(wanted) \in Nat /\ Cardinality(derived \ all) \in Nat
      BY <3>2, FS_CardinalityType
    <3>6. QED
      BY <2>10, <3>3, <3>4, <3>5, Numbers
  <2>12. Wanted(ToSet(request.ranked))' = Cardinality(wanted) /\ derived' = derived
    BY <1>2, <1>4, <1>6 DEF Wanted, ToSet, R, ranked
  <2>13. (derived \ {e \in derived : InScope(e)})' = derived \ all
    BY <1>4, <1>6
  <2>14. Len(request.items)' = 0
    BY <1>1, <1>2
  <2>15. Once(request.ranked)' /\ ToSet(request.ranked)' \subseteq derived'
    BY <1>2, <1>4, <2>8, <2>9 DEF Once, ToSet, R, ranked
  <2> HIDE DEF wanted, all
  <2>16. Enough(Len(request.items) + Wanted(ToSet(request.ranked)))'
    <3>1. (Len(request.items) + Wanted(ToSet(request.ranked)))' = Cardinality(wanted)
      BY <2>11, <2>12, <2>14
    <3>2. Cardinality(derived \ {e \in derived : InScope(e)})' = Cardinality(derived \ all)
      BY <2>13
    <3>3. Cardinality(wanted) + Cardinality(derived \ {e \in derived : InScope(e)})' >= MaxCandidates
      BY <3>2, <2>11
    <3>4. QED
      BY <3>1, <3>3 DEF Enough
  <2>17. QED
    BY <2>15, <2>16 DEF ToLookAt
<1>7. ASSUME quiet, Cardinality(derived) <= MaxCandidates  PROVE ToLookAt'
  <2>1. request'.ranked = fused /\ Once(fused) /\ ToSet(fused) = derived
    BY <1>2, <1>5, <1>7
  <2>2. Wanted(derived)' = Wanted(derived) /\ Wanted(ToSet(request.ranked))' = Wanted(derived)
    BY <1>4, <1>6, <2>1 DEF Wanted, ToSet
  <2>3. Len(request'.items) = 0
    BY <1>1, <1>2
  <2>4. Wanted(derived) \in Nat
    <3>1. {e \in derived : InScope(e)} \in SUBSET derived /\ IsFiniteSet(derived)
      BY DEF ScopeInv, LibraryInv
    <3>2. QED
      BY <3>1, FS_Subset, FS_CardinalityType DEF Wanted
  <2>5. Once(request.ranked)' /\ ToSet(request.ranked)' = derived'
    BY <2>1, <1>4 DEF Once, ToSet
  <2>6. QED
    BY <2>2, <2>3, <2>4, <2>5 DEF ToLookAt, Enough
<1>8. quiet => ToLookAt'
  BY <1>c, <1>d, <1>7, Numbers
<1>9. QuietInv'
  BY <1>2, <1>4, <1>8 DEF QuietInv
<1>10. QED
  BY <1>3, <1>9 DEF CompleteInv

LEMMA EndSearchIsComplete ==
    ASSUME InShape, ScopeInv, CompleteInv, EndSearch
    PROVE  CompleteInv'
<1>1. /\ Reads /\ request.at = "items" /\ request.op = "search" /\ Serving
      /\ request.ranked = <<>> \/ Len(request.items) = Bounded(request.limit)
  BY DEF EndSearch, CompleteInv, PlaceInv, Serving
<1>2. /\ request'.at = "format" /\ request'.op = request.op /\ request'.project = request.project
      /\ request'.limit = request.limit /\ request'.items = request.items
  BY NoRequestFields DEF EndSearch, InShape
<1>3. quiet' = quiet /\ derived' = derived
  BY <1>1 DEF Reads, historyVars, libraryVars
<1>4. PlaceInv'
  BY <1>1, <1>2 DEF PlaceInv
<1>5. Wanted({}) = 0
  <2>1. {e \in {} : InScope(e)} = {}
    OBVIOUS
  <2>2. QED
    BY <2>1, FS_EmptySet DEF Wanted
<1>6. Len(request.items) \in Nat /\ Bounded(request.limit) \in Nat
  BY Numbers DEF ScopeInv, ItemsInv, RequestInv, Bounded
<1>7. quiet => Len(request.items) >= Bounded(request.limit) \/ Enough(Len(request.items))
  <2>1. CASE Len(request.items) = Bounded(request.limit)
    BY <2>1, <1>6
  <2>2. CASE request.ranked = <<>>
    <3>1. ToSet(request.ranked) = {}
      BY <2>2 DEF ToSet
    <3>2. QED
      BY <3>1, <1>1, <1>5, <1>6 DEF CompleteInv, QuietInv, ToLookAt
  <2>3. QED
    BY <2>1, <2>2, <1>1
<1>8. \A e : InScope(e)' <=> InScope(e)
  BY <1>2 DEF InScope
<1>9. \A n : Enough(n)' <=> Enough(n)
  BY <1>3, <1>8 DEF Wanted, Enough
<1>e. Enough(Len(request.items))' <=> Enough(Len(request.items))
  BY <1>2, <1>3, <1>8 DEF Wanted, Enough
<1>10. QuietInv'
  BY <1>1, <1>2, <1>3, <1>7, <1>e DEF QuietInv, Complete, Bounded
<1>11. QED
  BY <1>4, <1>10 DEF CompleteInv

\* The next candidate is shown, or is in another project; either way there is one
\* less to look at.
LEMMA ReadItemIsComplete ==
    ASSUME InShape, ScopeInv, CompleteInv, ReadItem
    PROVE  CompleteInv'
<1> DEFINE head == Head(request.ranked)
           rest == Tail(request.ranked)
           more == IF InScope(head) THEN SetToSeq(EvidenceItem(head.id)) ELSE <<>>
<1>1. Reads /\ Serving /\ request.at = "items" /\ request.op = "search" /\ request.ranked # <<>>
  BY DEF ReadItem, Serving, CompleteInv, PlaceInv
<1>2. /\ request'.at = "items" /\ request'.op = request.op /\ request'.project = request.project
      /\ request'.ranked = rest /\ request'.items = request.items \o more
  BY <1>1, NoRequestFields DEF ReadItem, InShape
<1>3. quiet' = quiet /\ derived' = derived
  BY <1>1 DEF Reads, historyVars, libraryVars
<1>4. PlaceInv'
  BY <1>1, <1>2 DEF PlaceInv
<1>5. request.ranked \in Seq(Entry) /\ request.items \in Seq(Shown)
  BY DEF ScopeInv, RankInv, ItemsInv
<1>6. /\ head = request.ranked[1] /\ 1 \in DOMAIN request.ranked /\ rest \in Seq(Entry)
      /\ \A i \in DOMAIN rest : i + 1 \in DOMAIN request.ranked /\ rest[i] = request.ranked[i + 1] /\ i \in Nat /\ i + 1 # 1
      /\ \A i \in DOMAIN request.ranked : i # 1 => i - 1 \in DOMAIN rest /\ rest[i - 1] = request.ranked[i]
  BY <1>1, <1>5
<1>7. \A e : InScope(e)' <=> InScope(e)
  BY <1>2 DEF InScope
<1>8. ASSUME ToLookAt  PROVE ToLookAt'
  <2>1. Once(rest)
    <3>1. ASSUME NEW i \in DOMAIN rest, NEW j \in DOMAIN rest, rest[i] = rest[j]  PROVE i = j
      <4>1. i + 1 = j + 1
        BY <3>1, <1>6, <1>8 DEF ToLookAt, Once
      <4>2. QED
        BY <4>1, <1>6
    <3>2. QED
      BY <3>1 DEF Once
  <2>2. head \notin ToSet(rest)
    BY <1>6, <1>8 DEF ToSet, ToLookAt, Once
  <2>3. ToSet(request.ranked) = ToSet(rest) \cup {head}
    <3>1. ASSUME NEW i \in DOMAIN request.ranked  PROVE request.ranked[i] \in ToSet(rest) \cup {head}
      <4>1. CASE i = 1
        BY <4>1, <1>6
      <4>2. CASE i # 1
        BY <4>2, <1>6 DEF ToSet
      <4>3. QED
        BY <4>1, <4>2
    <3>2. head \in ToSet(request.ranked)
      BY <1>6 DEF ToSet
    <3>3. ASSUME NEW i \in DOMAIN rest  PROVE rest[i] \in ToSet(request.ranked)
      BY <1>6 DEF ToSet
    <3>4. QED
      BY <3>1, <3>2, <3>3 DEF ToSet
  <2>4. head \in derived /\ ToSet(rest) \subseteq derived
    BY <2>3, <1>8 DEF ToLookAt
  <2>5. EvidenceItem(head.id) = {head}
    BY <2>4 DEF EvidenceItem, ScopeInv, LibraryInv, Unique
  <2> DEFINE R == {e \in ToSet(rest) : InScope(e)}
             F == {e \in ToSet(request.ranked) : InScope(e)}
  <2>6. IsFiniteSet(R) /\ Cardinality(R) \in Nat
    <3>1. R \in SUBSET derived /\ IsFiniteSet(derived)
      BY <2>4 DEF ScopeInv, LibraryInv
    <3>2. QED
      BY <3>1, FS_Subset, FS_CardinalityType
  <2>7. Len(request.items \o more) + Cardinality(R) = Len(request.items) + Cardinality(F)
    <3>1. CASE InScope(head)
      <4>1. F = R \cup {head} /\ head \notin R
        BY <3>1, <2>2, <2>3
      <4> HIDE DEF R, F
      <4>2. Cardinality(F) = Cardinality(R) + 1
        BY <4>1, <2>6, FS_AddElement
      <4>3. IsFiniteSet({head}) /\ Cardinality({head}) = 1
        BY FS_Singleton
      <4>4. SetToSeq({head}) \in Seq({head}) /\ Len(SetToSeq({head})) = 1
        BY <4>3, SetAsSequence
      <4>5. more = SetToSeq({head})
        BY <3>1, <2>5
      <4> HIDE DEF more, head
      <4>6. Len(request.items \o more) = Len(request.items) + 1
        <5>1. more \in Seq({head}) /\ Len(more) = 1
          BY <4>4, <4>5
        <5>2. PICK items, shown : items = request.items /\ shown = more
          OBVIOUS
        <5>3. Len(items \o shown) = Len(items) + Len(shown)
          BY <5>1, <5>2, <1>5, LengthOfBoth
        <5>4. QED
          BY <5>1, <5>2, <5>3
      <4>7. Len(request.items) \in Nat
        BY <1>5
      <4>8. QED
        BY <4>2, <4>6, <4>7, <2>6
    <3>2. CASE ~InScope(head)
      <4>1. F = R
        BY <3>2, <2>3
      <4>2. request.items \o more = request.items
        BY <3>2, <1>5
      <4>3. QED
        BY <4>1, <4>2
    <3>3. QED
      BY <3>1, <3>2
  <2>8. Enough(Len(request.items) + Cardinality(F))
    BY <1>8 DEF ToLookAt, Wanted
  <2>9. Wanted(derived)' = Wanted(derived) /\ (derived \ {e \in derived : InScope(e)})' = derived \ {e \in derived : InScope(e)}
    BY <1>3, <1>7 DEF Wanted
  <2>10. Wanted(ToSet(request.ranked))' = Cardinality(R)
    BY <1>2, <1>7 DEF Wanted, ToSet
  <2>11. Once(request.ranked)' /\ ToSet(request.ranked)' \subseteq derived'
    BY <1>2, <1>3, <2>1, <2>4 DEF Once, ToSet
  <2> HIDE DEF R, F, more, rest, head
  <2>12. Len(request.items)' = Len(request.items \o more)
    BY <1>2
  <2>13. QED
    BY <2>7, <2>8, <2>9, <2>10, <2>11, <2>12 DEF ToLookAt, Enough
<1>9. QuietInv'
  BY <1>1, <1>2, <1>3, <1>8 DEF QuietInv, CompleteInv
<1>10. QED
  BY <1>4, <1>9 DEF CompleteInv

LEMMA IndexIsComplete ==
    ASSUME InShape, ScopeInv, CompleteInv, SearchIndex \/ RankLexical
    PROVE  CompleteInv'
<1>1. Reads /\ Serving /\ request.at \in {"index", "lexical"} /\ request.op = "search" /\ request.items = <<>>
  BY DEF SearchIndex, RankLexical, Serving, CompleteInv, PlaceInv
<1>2. request'.at = "lexical" /\ request'.op = request.op /\ request'.items = request.items
  BY NoRequestFields DEF SearchIndex, RankLexical, InShape
<1>3. quiet' = quiet /\ derived' = derived
  BY <1>1 DEF Reads, historyVars, libraryVars
<1>4. PlaceInv'
  BY <1>1, <1>2 DEF PlaceInv
<1>5. ASSUME quiet  PROVE ToSet(request'.lexical) \subseteq derived
  <2>1. CASE SearchIndex
    <3>1. request'.lexical = <<>>
      BY <2>1, NoRequestFields DEF SearchIndex, InShape, ScopeInv, RankInv
    <3>2. QED
      BY <3>1 DEF ToSet
  <2>2. CASE RankLexical
    <3> DEFINE s == Head(request.found)
               cut == First(MaxLexical, request.lexical \o MatchingEvidence(s))
    <3>1. request'.lexical = cut
      BY <2>2, NoRequestFields DEF RankLexical, InShape
    <3>2. ToSet(request.lexical) \subseteq derived
      BY <2>2, <1>5 DEF RankLexical, CompleteInv, QuietInv
    <3>3. MatchingEvidence(s) \in Seq(Entry) /\ \A i \in DOMAIN MatchingEvidence(s) : MatchingEvidence(s)[i] \in derived
      BY MatchesOfSource DEF ScopeInv
    <3>4. request.lexical \in Seq(Entry) /\ \A i \in DOMAIN request.lexical : request.lexical[i] \in derived
      BY <3>2 DEF ToSet, ScopeInv, RankInv
    <3>5. PICK lexical, matches : lexical = request.lexical /\ matches = MatchingEvidence(s)
      OBVIOUS
    <3>6. /\ lexical \in Seq(Entry) /\ \A i \in DOMAIN lexical : lexical[i] \in derived
          /\ matches \in Seq(Entry) /\ \A i \in DOMAIN matches : matches[i] \in derived
      BY <3>3, <3>4, <3>5
    <3>7. lexical \o matches \in Seq(Entry) /\ \A i \in DOMAIN (lexical \o matches) : (lexical \o matches)[i] \in derived
      BY <3>6
    <3>8. \A i \in DOMAIN First(MaxLexical, lexical \o matches) : First(MaxLexical, lexical \o matches)[i] \in derived
      BY <3>7, Numbers, Beginning
    <3>9. QED
      BY <3>1, <3>5, <3>8 DEF ToSet
  <2>3. QED
    BY <2>1, <2>2
<1>6. ToSet(request.lexical)' = ToSet(request'.lexical)
  BY DEF ToSet
<1>7. QuietInv'
  BY <1>2, <1>3, <1>5, <1>6 DEF QuietInv
<1>8. QED
  BY <1>4, <1>7 DEF CompleteInv

LEMMA GetIsComplete ==
    ASSUME InShape, ScopeInv, CompleteInv, GetEvidence \/ GetSource
    PROVE  CompleteInv'
<1>1. Reads /\ Serving /\ request.at \in {"evidence", "source"} /\ request.op = "get" /\ request.items = <<>>
  BY DEF GetEvidence, GetSource, Serving, CompleteInv, PlaceInv
<1>2. request'.op = request.op /\ request'.at \in {"source", "refused", "format"}
  BY NoRequestFields DEF GetEvidence, GetSource, Goes, Refused, InShape
<1>3. request'.at # "format" => request'.items = <<>>
  BY <1>1, NoRequestFields DEF GetEvidence, GetSource, Goes, Refused, InShape
<1>4. ASSUME NEW T, IsFiniteSet(T), Cardinality(T) <= 1, T # {}  PROVE Len(SetToSeq(T)) = 1
  <2>1. Len(SetToSeq(T)) = Cardinality(T)
    BY <1>4, SetAsSequence
  <2>2. Cardinality(T) \in Nat /\ Cardinality(T) # 0
    BY <1>4, FS_CardinalityType, FS_EmptySet
  <2>3. QED
    BY <2>1, <2>2, <1>4
<1>5. request'.at = "format" => Len(request'.items) = 1
  <2>1. CASE GetEvidence /\ EvidenceItem(request.id) # {}
    <3>1. request'.items = SetToSeq(EvidenceItem(request.id))
      BY <2>1, NoRequestFields DEF GetEvidence, InShape
    <3>2. IsFiniteSet(EvidenceItem(request.id)) /\ Cardinality(EvidenceItem(request.id)) <= 1
      BY EvidenceItems DEF ScopeInv
    <3>3. QED
      BY <3>1, <3>2, <2>1, <1>4
  <2>2. CASE GetSource /\ SourceItem(request.id) # {}
    <3>1. request'.items = SetToSeq(SourceItem(request.id))
      BY <2>2, NoRequestFields DEF GetSource, InShape
    <3>2. IsFiniteSet(SourceItem(request.id)) /\ Cardinality(SourceItem(request.id)) <= 1
      BY SourceItems DEF ScopeInv
    <3>3. QED
      BY <3>1, <3>2, <2>2, <1>4
  <2>3. CASE Goes("source") \/ Refused
    BY <2>3, NoRequestFields DEF Goes, Refused, InShape
  <2>4. QED
    BY <2>1, <2>2, <2>3 DEF GetEvidence, GetSource
<1>6. PlaceInv'
  BY <1>1, <1>2, <1>3 DEF PlaceInv
<1>7. QuietInv'
  BY <1>1, <1>2, <1>5 DEF QuietInv, Complete
<1>8. QED
  BY <1>6, <1>7 DEF CompleteInv

LEMMA RecentIsComplete ==
    ASSUME InShape, ScopeInv, CompleteInv, Recent
    PROVE  CompleteInv'
<1> DEFINE size == Bounded(request.limit)
           Items(some) == UNION {SourceItem(<<s, 0>>) : s \in some}
<1>1. Reads /\ Serving /\ request.at = "statement" /\ request.op = "recent"
  BY DEF Recent, Serving, CompleteInv, PlaceInv
<1>2. PICK some \in SUBSET Chosen :
        /\ Cardinality(some) = IF size < Cardinality(Chosen) THEN size ELSE Cardinality(Chosen)
        /\ request' = [request EXCEPT !.at = "format", !.items = SetToSeq(Items(some))]
  BY DEF Recent, Chosen
<1>3. /\ request'.at = "format" /\ request'.op = request.op /\ request'.project = request.project
      /\ request'.limit = request.limit /\ request'.items = SetToSeq(Items(some))
  BY <1>2, NoRequestFields DEF InShape
<1>4. IsFiniteSet(some) /\ IsFiniteSet(Chosen) /\ Cardinality(Chosen) \in Nat /\ some \subseteq Present
  <2>1. Chosen \in SUBSET Source /\ some \in SUBSET Source /\ IsFiniteSet(Source) /\ some \subseteq Present
    BY ReadsAssumption DEF Chosen, Present
  <2>2. QED
    BY <2>1, FS_Subset, FS_CardinalityType
<1>5. IsFiniteSet(Items(some)) /\ Cardinality(Items(some)) = Cardinality(some)
  <2>1. Items(some) = {Item(<<s, 0>>, said[s], home[s]) : s \in some}
    <3>1. \A s \in some : SourceItem(<<s, 0>>) = {Item(<<s, 0>>, said[s], home[s])}
      BY <1>4 DEF SourceItem
    <3>2. QED
      BY <3>1
  <2>2. [s \in some |-> Item(<<s, 0>>, said[s], home[s])] \in Bijection(some, Items(some))
    BY <2>1 DEF Bijection, Injection, Surjection, IsInjective, Item
  <2>3. ExistsBijection(some, Items(some))
    BY <2>2 DEF ExistsBijection
  <2>4. QED
    BY <2>3, <1>4, FS_Bijection
<1> HIDE DEF Items
<1>6. Len(SetToSeq(Items(some))) = Cardinality(some)
  BY <1>5, SetAsSequence
<1>7. Chosen' = Chosen
  BY <1>1, <1>3 DEF Chosen, Present, Reads, libraryVars
<1>8. size \in Nat
  BY Numbers DEF ScopeInv, RequestInv, Bounded
<1>9. Complete'
  BY <1>1, <1>2, <1>3, <1>4, <1>6, <1>7, <1>8 DEF Complete, Bounded
<1>10. PlaceInv'
  BY <1>1, <1>3 DEF PlaceInv
<1>11. QuietInv'
  BY <1>3, <1>9 DEF QuietInv
<1>12. QED
  BY <1>10, <1>11 DEF CompleteInv

\* What is not reported as truncated is all of it.
LEMMA FormatIsComplete ==
    ASSUME InShape, ScopeInv, CompleteInv, Format
    PROVE  CompleteInv'
<1>1. Reads /\ Serving /\ request.at = "format"
  BY DEF Format, Serving
<1>2. PICK fit \in 0..Len(request.items) :
        request' = [request EXCEPT !.at = "answered", !.items = First(fit, @), !.truncated = fit < Len(request.items)]
  BY DEF Format
<1>3. /\ request'.at = "answered" /\ request'.op = request.op /\ request'.project = request.project
      /\ request'.limit = request.limit /\ request'.items = First(fit, request.items)
      /\ request'.truncated = (fit < Len(request.items))
  BY <1>2, NoRequestFields DEF InShape
<1>4. request.items \in Seq(Shown) /\ Len(request.items) \in Nat /\ fit \in Nat
  BY DEF ScopeInv, ItemsInv
<1>5. ~request'.truncated => request'.items = request.items
  <2>1. SUFFICES ASSUME ~request'.truncated
                 PROVE  request'.items = request.items
    OBVIOUS
  <2>2. ~(fit < Len(request.items))
    BY <1>3, <2>1, Zenon
  <2>3. Len(request.items) <= fit
    BY <1>4, <2>2
  <2>4. First(fit, request.items) = request.items
    BY <1>4, <2>3, Beginning
  <2>5. QED
    BY <1>3, <2>4, Zenon
<1>6. /\ quiet' = quiet /\ derived' = derived /\ home' = home
  BY <1>1 DEF Reads, historyVars, libraryVars
<1>7. /\ Chosen' = Chosen /\ Wanted(derived)' = Wanted(derived)
      /\ (derived \ {e \in derived : InScope(e)})' = derived \ {e \in derived : InScope(e)}
  BY <1>3, <1>6 DEF Chosen, Present, Wanted, InScope
<1>8. Complete /\ request'.items = request.items => Complete'
  BY <1>3, <1>6, <1>7 DEF Complete, Bounded, Enough
<1>9. PlaceInv'
  BY <1>1, <1>3 DEF CompleteInv, PlaceInv, Serving
<1>10. QuietInv'
  BY <1>1, <1>3, <1>5, <1>6, <1>8 DEF CompleteInv, QuietInv
<1>11. QED
  BY <1>9, <1>10 DEF CompleteInv

LEMMA GateIsComplete ==
    ASSUME InShape, CompleteInv, ScopeInv, Require \/ ItemProject \/ Authorize \/ ReadAuthority
    PROVE  CompleteInv'
<1>1. request.at \in {"require", "itemProject", "authorize", "authority"} /\ Serving /\ request.items = <<>>
  BY DEF Require, ItemProject, Authorize, ReadAuthority, Serving, CompleteInv, PlaceInv
<1>2. Refused \/ \E place \in {"itemProject", "authorize", "authority", FirstStep(request.op)} :
                    Goes(place) /\ (place = "itemProject" => request.op = "get")
  <2>1. FirstStep(request.op) # "itemProject"
    BY DEF FirstStep
  <2>2. QED
    BY <2>1 DEF Require, ItemProject, Authorize, ReadAuthority
<1>3. PICK place \in {"refused", "itemProject", "authorize", "authority", FirstStep(request.op)} :
        (place = "itemProject" => request.op = "get") /\ request'.at = place /\ request'.op = request.op /\ request'.items = <<>>
  BY <1>1, <1>2, NoRequestFields DEF Refused, Goes, InShape
<1>4. request.op \in {"search", "recent", "get"}
  BY <1>1 DEF CompleteInv, PlaceInv
<1>5. FirstStep(request.op) =
        IF request.op = "search" THEN "index" ELSE IF request.op = "get" THEN "evidence" ELSE "statement"
  BY <1>4 DEF FirstStep
<1>6. PlaceInv'
  BY <1>3, <1>4, <1>5 DEF PlaceInv
<1>7. QuietInv'
  BY <1>3, <1>4, <1>5 DEF QuietInv
<1>8. QED
  BY <1>6, <1>7 DEF CompleteInv

LEMMA CompleteSteps ==
    ASSUME InShape, ScopeInv, CompleteInv, [Next]_vars
    PROVE  CompleteInv'
<1>1. ASSUME NEW caller \in {"frontier", "manager"}, NEW op \in {"search", "recent", "get"}, NEW project, NEW limit, NEW id,
             Ask(caller, op, project, limit, id)
      PROVE  CompleteInv'
  <2>1. request'.at \in {"require", "authorize"} /\ request'.op = op /\ request'.items = <<>>
    BY <1>1 DEF Ask, NoRequest
  <2>2. QED
    BY <2>1 DEF CompleteInv, PlaceInv, QuietInv
<1>2. CASE Asks
  BY <1>1, <1>2, EveryAsk
<1>5. CASE Require \/ ItemProject \/ Authorize \/ ReadAuthority
  BY <1>5, GateIsComplete
<1>6. CASE Search \/ GetEvidence \/ GetSource \/ Recent \/ Format
  BY <1>6, IndexIsComplete, RankIsComplete, ReadItemIsComplete, EndSearchIsComplete, GetIsComplete,
     RecentIsComplete, FormatIsComplete DEF Search
<1>7. CASE Answer
  BY <1>7 DEF Answer, NoRequest, CompleteInv, PlaceInv, QuietInv, Serving
<1>8. CASE LibraryChanges
  <2>1. request' = request /\ quiet' = ~Serving
    BY <1>8 DEF LibraryChanges
  <2>2. PlaceInv'
    BY <2>1 DEF CompleteInv, PlaceInv, Serving
  <2>3. QuietInv'
    BY <2>1 DEF QuietInv, Serving
  <2>4. QED
    BY <2>2, <2>3 DEF CompleteInv
<1>9. CASE UNCHANGED <<libraryVars, request, quiet>>
  <2>1. UNCHANGED <<home, derived, request, quiet>>
    BY <1>9 DEF libraryVars
  <2>2. QED
    BY <2>1 DEF CompleteInv, PlaceInv, QuietInv, Complete, ToLookAt, Enough, Wanted, InScope, Chosen, Present, Bounded, Once,
       ToSet, Serving
<1>10. CASE (\E mode \in LaunchMode : Launch(mode)) \/ LoseAuthority
            \/ (\E content \in Mode \cup {Absent, Broken} : SetMode(content)) \/ UNCHANGED vars
  BY <1>9, <1>10 DEF Launch, LoseAuthority, SetMode, historyVars, vars
<1>11. CASE \/ \E s \in Source, p \in Project : Move(s, p) \/ \E text \in Text : Write(s, p, text)
            \/ \E s \in Source : Revoke(s)
            \/ Rebuild
  BY <1>8, <1>11 DEF Move, Write, Revoke, Rebuild
<1>12. QED
  BY <1>2, <1>5, <1>6, <1>7, <1>10, <1>11 DEF Next

-----------------------------------------------------------------------------
\* Refusals.  A request that the choice and the authority let pass all the time
\* is refused only where it was looked for in vain.

\* A manager's request is at the authority; a get has the one item for its limit
\* and, behind Require, a project that may exist.
AskedInv ==
    /\ request.at \in {"require", "itemProject", "authority"} => request.caller = "manager"
    /\ Serving /\ request.op = "get" => request.limit = 1
    /\ request.op = "get" /\ request.project = Unknown => request.at \in {"require", "refused"}

RefusalInv ==
    /\ AskedInv
    /\ quiet /\ request.at = "source" => EvidenceItem(request.id) = {}
    /\ quiet /\ request.at = "refused" /\ AlwaysAllowed => NothingToFind

LEMMA InitRefusal == Init => RefusalInv
  BY DEF Init, NoRequest, RefusalInv, AskedInv, Serving

\* Nobody is denied by a gate that stood open.
LEMMA OpenGateLetsPass ==
    ASSUME AccessInv, Serving, AlwaysAllowed
    PROVE  /\ ModeFor(request.caller) # "DISABLED"
           /\ request.caller = "frontier" => ModeFor("frontier") = "DIRECT_LOCAL"
           /\ request.caller = "manager" => authority
<1>1. Selected(request.caller) /\ (request.caller = "manager" => authority)
  BY DEF AccessInv, Noted, AlwaysAllowed
<1>2. request.caller \in {"frontier", "manager"}
  BY DEF AccessInv, AccessTypeOK, Serving
<1>3. Absent # Broken /\ Absent \notin Mode
  BY ReadsAssumption
<1>4. CASE request.caller = "manager"
  <2>1. policy \in {Absent, "DIRECT_LOCAL", "MANAGED_EXCLUSIVE"}
    BY <1>1, <1>4 DEF Selected
  <2>2. ReadMode(policy) # "DISABLED"
    BY <2>1, <1>3 DEF ReadMode, Broken, Mode
  <2>3. QED
    BY <1>1, <1>4, <2>2 DEF ModeFor
<1>5. CASE request.caller = "frontier"
  <2>1. policy \in {Absent, "DIRECT_LOCAL"} /\ gate \in {Absent, "DIRECT_LOCAL"}
    BY <1>1, <1>5 DEF Selected, AlwaysAllowed
  <2>2. ReadMode(policy) = "DIRECT_LOCAL"
    BY <2>1, <1>3 DEF ReadMode, Broken, Mode
  <2>3. QED
    BY <1>5, <2>1, <2>2 DEF ModeFor
<1>6. QED
  BY <1>2, <1>4, <1>5

LEMMA RefusedFields ==
    ASSUME InShape, Refused
    PROVE  /\ request'.at = "refused" /\ request'.caller = request.caller /\ request'.op = request.op
           /\ request'.project = request.project /\ request'.limit = request.limit /\ request'.id = request.id
  BY NoRequestFields DEF Refused, InShape

LEMMA GoesFields ==
    ASSUME InShape, NEW place, Goes(place)
    PROVE  /\ request'.at = place /\ request'.caller = request.caller /\ request'.op = request.op
           /\ request'.project = request.project /\ request'.limit = request.limit /\ request'.id = request.id
  BY NoRequestFields DEF Goes, InShape

\* What was looked for in vain is still not there after the refusal.
LEMMA RefusedRightly ==
    ASSUME InShape, RefusalInv, Reads, Refused, Serving,
           quiet /\ AlwaysAllowed => NothingToFind
    PROVE  RefusalInv'
<1>1. /\ request'.at = "refused" /\ request'.caller = request.caller /\ request'.op = request.op
      /\ request'.project = request.project /\ request'.limit = request.limit /\ request'.id = request.id
  BY RefusedFields
<1>2. UNCHANGED <<home, said, derived, gate, quiet, open>>
  BY DEF Reads, libraryVars, accessVars, historyVars
<1>3. AlwaysAllowed' => AlwaysAllowed
  BY <1>1, <1>2 DEF AlwaysAllowed
<1>4. NothingToFind => NothingToFind'
  BY <1>1, <1>2 DEF NothingToFind, EvidenceItem, SourceItem, Present
<1>5. AskedInv'
  BY <1>1 DEF RefusalInv, AskedInv, Serving
<1>6. QED
  BY <1>1, <1>2, <1>3, <1>4, <1>5 DEF RefusalInv

LEMMA GateRefusesRightly ==
    ASSUME InShape, AccessInv, ScopeInv, CompleteInv, RefusalInv, Require \/ ItemProject \/ Authorize \/ ReadAuthority
    PROVE  RefusalInv'
<1>1. Reads /\ Serving /\ request.at \in {"require", "itemProject", "authorize", "authority"}
  BY DEF Require, ItemProject, Authorize, ReadAuthority, Serving
<1>2. AlwaysAllowed => /\ ModeFor(request.caller) # "DISABLED"
                       /\ request.caller = "frontier" => ModeFor("frontier") = "DIRECT_LOCAL"
                       /\ request.caller = "manager" => authority
  BY <1>1, OpenGateLetsPass
<1>3. CASE Refused
  <2>1. CASE Require
    <3>1. request.caller = "manager" /\ (~authority \/ request.project = Unknown)
      BY <1>3, <2>1, RefusedFields, GoesFields DEF Require, RefusalInv, AskedInv
    <3>2. \A item \in EvidenceItem(request.id) \cup SourceItem(request.id) : item.project \in Project
      BY EvidenceItems, SourceItems DEF ScopeInv, Shown
    <3>3. AlwaysAllowed => NothingToFind
      BY <1>2, <3>1, <3>2, ReadsAssumption DEF NothingToFind
    <3>4. QED
      BY <1>1, <1>3, <3>3, RefusedRightly
  <2>2. CASE ItemProject
    <3>1. /\ ~\E item \in EvidenceItem(request.id) \cup SourceItem(request.id) : SameScope(item)
          /\ request.caller = "manager"
      BY <1>3, <2>2, RefusedFields, GoesFields DEF ItemProject, RefusalInv, AskedInv
    <3>2. request.op = "get"
      BY <2>2 DEF ItemProject, CompleteInv, PlaceInv
    <3>3. NothingToFind
      BY <3>1, <3>2 DEF NothingToFind, SameScope
    <3>4. QED
      BY <1>1, <1>3, <3>3, RefusedRightly
  <2>3. CASE Authorize
    <3>1. AlwaysAllowed => request.limit = 0 \/ request.project = Unknown
      <4>1. FirstStep(request.op) # "refused"
        BY DEF FirstStep
      <4>2. \/ ModeFor(request.caller) = "DISABLED"
            \/ request.caller = "frontier" /\ ModeFor("frontier") # "DIRECT_LOCAL"
            \/ request.limit = 0 \/ request.project = Unknown
        BY <1>3, <2>3, <4>1, RefusedFields, GoesFields DEF Authorize
      <4>3. QED
        BY <1>2, <4>2
    <3>2. request.op # "get" \/ ~AlwaysAllowed
      BY <1>1, <2>3, <3>1 DEF Authorize, RefusalInv, AskedInv
    <3>3. AlwaysAllowed => NothingToFind
      BY <3>1, <3>2 DEF NothingToFind
    <3>4. QED
      BY <1>1, <1>3, <3>3, RefusedRightly
  <2>4. CASE ReadAuthority
    <3>1. ~authority /\ request.caller = "manager"
      <4>1. FirstStep(request.op) # "refused"
        BY DEF FirstStep
      <4>2. QED
        BY <1>3, <2>4, <4>1, RefusedFields, GoesFields DEF ReadAuthority, RefusalInv, AskedInv
    <3>2. QED
      BY <1>1, <1>2, <1>3, <3>1, RefusedRightly
  <2>5. QED
    BY <2>1, <2>2, <2>3, <2>4
<1>4. CASE ~Refused
  <2>1. PICK place \in {"itemProject", "authorize", "authority", "index", "evidence", "statement"} :
          /\ Goes(place)
          /\ place \in {"itemProject", "authority"} => request.caller = "manager"
          /\ request.op = "get" => request.project # Unknown
    <3>1. FirstStep(request.op) \in {"index", "evidence", "statement"}
      BY DEF FirstStep
    <3>2. CASE Require
      BY <1>4, <3>2 DEF Require, RefusalInv, AskedInv
    <3>3. CASE ItemProject
      BY <1>4, <3>3 DEF ItemProject, RefusalInv, AskedInv
    <3>4. CASE Authorize
      BY <1>4, <3>1, <3>4 DEF Authorize, RefusalInv, AskedInv
    <3>5. CASE ReadAuthority
      BY <1>4, <3>1, <3>5 DEF ReadAuthority, RefusalInv, AskedInv
    <3>6. QED
      BY <3>2, <3>3, <3>4, <3>5
  <2>2. /\ request'.at = place /\ request'.caller = request.caller /\ request'.op = request.op
        /\ request'.project = request.project /\ request'.limit = request.limit
    BY <2>1, GoesFields
  <2>3. QED
    BY <1>1, <2>1, <2>2 DEF RefusalInv, AskedInv, Serving
<1>5. QED
  BY <1>3, <1>4

LEMMA GetRefusesRightly ==
    ASSUME InShape, CompleteInv, RefusalInv, GetEvidence \/ GetSource
    PROVE  RefusalInv'
<1>1. Reads /\ Serving /\ request.at \in {"evidence", "source"} /\ request.op = "get"
  BY DEF GetEvidence, GetSource, Serving, CompleteInv, PlaceInv
<1>2. UNCHANGED <<derived, quiet>>
  BY <1>1 DEF Reads, libraryVars, historyVars
<1>3. CASE GetEvidence /\ Goes("source") /\ EvidenceItem(request.id) = {}
  <2>1. /\ request'.at = "source" /\ request'.op = request.op /\ request'.id = request.id
        /\ request'.project = request.project /\ request'.limit = request.limit
    BY <1>3, GoesFields
  <2>2. EvidenceItem(request.id)' = {}
    BY <1>2, <1>3, <2>1 DEF EvidenceItem
  <2>3. QED
    BY <1>1, <2>1, <2>2 DEF RefusalInv, AskedInv, Serving
<1>4. CASE GetSource /\ Refused /\ SourceItem(request.id) = {}
  <2>1. quiet => NothingToFind
    BY <1>1, <1>4 DEF RefusalInv, NothingToFind, GetSource
  <2>2. QED
    BY <1>1, <1>4, <2>1, RefusedRightly
<1>5. CASE \E items : request' = [request EXCEPT !.at = "format", !.items = items]
  <2>1. /\ request'.at = "format" /\ request'.op = request.op
        /\ request'.project = request.project /\ request'.limit = request.limit
    BY <1>5, NoRequestFields DEF InShape
  <2>2. QED
    BY <1>1, <2>1 DEF RefusalInv, AskedInv, Serving
<1>6. QED
  BY <1>3, <1>4, <1>5 DEF GetEvidence, GetSource

LEMMA OthersRefuseNothing ==
    ASSUME InShape, CompleteInv, RefusalInv, Search \/ Recent \/ Format
    PROVE  RefusalInv'
<1>1. Serving /\ request.at \in {"index", "lexical", "items", "statement", "format"}
  BY DEF Search, SearchIndex, RankLexical, Rank, ReadItem, EndSearch, Recent, Format, Serving
<1>2. /\ request'.at \in {"lexical", "items", "format", "answered"} /\ request'.op = request.op
      /\ request'.project = request.project /\ request'.limit = request.limit
  <2>1. CASE Search
    BY <2>1, NoRequestFields DEF Search, SearchIndex, RankLexical, Rank, ReadItem, EndSearch, InShape
  <2>2. CASE Recent \/ Format
    BY <2>2, NoRequestFields DEF Recent, Format, InShape
  <2>3. QED
    BY <2>1, <2>2
<1>3. QED
  BY <1>1, <1>2 DEF RefusalInv, AskedInv, Serving

LEMMA AskRefusesNothing ==
    ASSUME NEW caller \in {"frontier", "manager"}, NEW op \in {"search", "recent", "get"}, NEW limit \in Nat,
           NEW project, NEW id, Ask(caller, op, project, limit, id),
           op = "get" => limit = 1 /\ (caller = "frontier" => project = AnyProject)
    PROVE  RefusalInv'
<1>1. /\ request'.at = (IF caller = "manager" THEN "require" ELSE "authorize")
      /\ request'.caller = caller /\ request'.op = op /\ request'.project = project /\ request'.limit = limit
  BY DEF Ask, NoRequest
<1>2. QED
  BY <1>1 DEF RefusalInv, AskedInv, AnyProject, Unknown

LEMMA RefusalSteps ==
    ASSUME InShape, AccessInv, ScopeInv, CompleteInv, RefusalInv, [Next]_vars
    PROVE  RefusalInv'
<1>1. CASE Asks
  BY <1>1, EveryAsk, AskRefusesNothing
<1>2. CASE Require \/ ItemProject \/ Authorize \/ ReadAuthority
  BY <1>2, GateRefusesRightly
<1>3. CASE GetEvidence \/ GetSource
  BY <1>3, GetRefusesRightly
<1>4. CASE Search \/ Recent \/ Format
  BY <1>4, OthersRefuseNothing
<1>5. CASE Answer
  BY <1>5 DEF Answer, NoRequest, RefusalInv, AskedInv, Serving
<1>6. CASE \/ \E s \in Source, p \in Project : Move(s, p) \/ \E text \in Text : Write(s, p, text)
           \/ \E s \in Source : Revoke(s)
           \/ Rebuild
  <2>1. request' = request /\ quiet' = ~Serving
    BY <1>6 DEF Move, Write, Revoke, Rebuild, LibraryChanges
  <2>2. QED
    BY <2>1 DEF RefusalInv, AskedInv, Serving
<1>7. ASSUME UNCHANGED <<home, said, derived, request, quiet>>,
             request.at # "idle" => gate' = gate /\ (~open'.shut => ~open.shut)
      PROVE  RefusalInv'
  <2>1. AskedInv'
    BY <1>7 DEF RefusalInv, AskedInv, Serving
  <2>2. EvidenceItem(request.id)' = EvidenceItem(request.id) /\ (NothingToFind => NothingToFind')
    BY <1>7 DEF EvidenceItem, SourceItem, Present, NothingToFind
  <2>3. request.at = "refused" /\ AlwaysAllowed' => AlwaysAllowed
    BY <1>7 DEF AlwaysAllowed
  <2>4. QED
    BY <1>7, <2>1, <2>2, <2>3 DEF RefusalInv
<1>8. CASE \E mode \in LaunchMode : Launch(mode)
  BY <1>7, <1>8 DEF Launch, libraryVars, historyVars
<1>9. CASE LoseAuthority
  <2>1. open'.shut = (open.shut \/ request.caller = "manager")
    BY <1>9 DEF LoseAuthority, AccessInv, AccessTypeOK
  <2>2. QED
    BY <1>7, <1>9, <2>1 DEF LoseAuthority, libraryVars
<1>10. CASE \E content \in Mode \cup {Absent, Broken} : SetMode(content)
  <2>1. open'.shut = (open.shut \/ (Serving /\ ~Selected(request.caller)'))
    BY <1>10 DEF SetMode, AccessInv, AccessTypeOK
  <2>2. QED
    BY <1>7, <1>10, <2>1 DEF SetMode, libraryVars
<1>11. CASE UNCHANGED vars
  BY <1>7, <1>11 DEF vars, libraryVars, accessVars, historyVars
<1>12. QED
  BY <1>1, <1>2, <1>3, <1>4, <1>5, <1>6, <1>8, <1>9, <1>10, <1>11 DEF Next

\* QuietReadsAreComplete: when nothing changes during a read, an answer that is
\* not reported as truncated has all there is up to its limit, a search but for
\* what evidence of other projects pushed out of its candidates; and a read that
\* was allowed all the time is refused only for what is not there.
THEOREM QuietReadsFindAll == Spec => []QuietReadsAreComplete
<1>1. ASSUME CompleteInv, RefusalInv  PROVE QuietReadsAreComplete
  <2>1. ASSUME quiet, request.at = "answered", ~request.truncated
        PROVE  FoundAll
    <3>1. Complete /\ request.op \in {"search", "recent", "get"}
      BY <1>1, <2>1 DEF CompleteInv, QuietInv, PlaceInv, Serving
    <3>2. QED
      BY <3>1 DEF FoundAll, Complete, Enough, Wanted, Chosen
  <2>2. QED
    BY <1>1, <2>1 DEF QuietReadsAreComplete, RefusalInv
<1>2. InShape /\ ScopeInv /\ CompleteInv /\ [Next]_vars => CompleteInv'
  BY CompleteSteps
<1>3. Spec => []CompleteInv
  BY <1>2, InitComplete, ScopeInvariant, PTL DEF Spec
<1>4. InShape /\ AccessInv /\ ScopeInv /\ CompleteInv /\ RefusalInv /\ [Next]_vars => RefusalInv'
  BY RefusalSteps
<1>5. QED
  BY <1>1, <1>3, <1>4, InitRefusal, ScopeInvariant, PTL DEF Spec

=============================================================================
