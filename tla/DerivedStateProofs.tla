------------------------- MODULE DerivedStateProofs -------------------------
(***************************************************************************)
(* Proofs about DerivedState for any messages, documents, texts and bounds.*)
(***************************************************************************)
EXTENDS DerivedStateProperties, FiniteSetTheorems, TLAPS

\* Messages are numbered without gaps and none is ever replaced.
MessageInv ==
    /\ \E k \in Nat : DOMAIN messages = 1 .. k
    /\ DOMAIN messages \subseteq Message
    /\ messages \in [DOMAIN messages -> [chat : Chat, text : Text]]
    /\ project \in [Chat -> Project]

\* Former revisions belong to a document that is still there, and have other
\* numbers than its present one and than each other.
DocumentInv ==
    /\ DOMAIN documents \subseteq Document /\ IsFiniteSet(DOMAIN documents)
    /\ documents \in [DOMAIN documents -> [rev : Nat, text : Text, stamp : Nat]]
    /\ past \subseteq [doc : DOMAIN documents, rev : Nat, text : Text, stamp : Nat]
    /\ \A h \in past : h.rev < documents[h.doc].rev
    /\ \A g, h \in past : g.doc = h.doc /\ g.rev = h.rev => g = h
    /\ changes \in Nat

SourceInv == MessageInv /\ DocumentInv

LEMMA CaptureSteps ==
    ASSUME SourceInv, NEW m \in Message, NEW c \in Chat, NEW t \in Text, Capture(m, c, t)
    PROVE  /\ SourceInv' /\ m \notin DOMAIN messages
           /\ DOMAIN messages' = DOMAIN messages \cup {m}
           /\ \A n \in DOMAIN messages : messages'[n] = messages[n]
           /\ UNCHANGED <<project, documents, past>>
<1>1. PICK k \in Nat : DOMAIN messages = 1 .. k
  BY DEF SourceInv, MessageInv
<1>2. Cardinality(1 .. k) = k
  BY <1>1, FS_Interval
<1>3. m = k + 1
  BY <1>1, <1>2 DEF Capture
<1>4. m \notin DOMAIN messages /\ DOMAIN messages \cup {m} = 1 .. k + 1
  BY <1>1, <1>3
<1>5. /\ DOMAIN messages' = DOMAIN messages \cup {m}
      /\ \A n \in DOMAIN messages : messages'[n] = messages[n]
      /\ messages'[m] = [chat |-> c, text |-> t]
  BY <1>4 DEF Capture
<1>6. messages' \in [DOMAIN messages' -> [chat : Chat, text : Text]]
  BY <1>5 DEF Capture, SourceInv, MessageInv
<1>7. UNCHANGED <<project, documents, past>> /\ changes' = changes + 1
  BY DEF Capture, Change
<1>8. MessageInv'
  BY <1>4, <1>5, <1>6, <1>7 DEF SourceInv, MessageInv
<1>9. DocumentInv'
  BY <1>7 DEF SourceInv, DocumentInv
<1>10. QED
  BY <1>4, <1>5, <1>7, <1>8, <1>9 DEF SourceInv

LEMMA StoreSteps ==
    ASSUME SourceInv, NEW d \in Document, NEW t \in Text, StoreDocument(d, t)
    PROVE  SourceInv'
<1>1. UNCHANGED <<messages, project>> /\ changes' = changes + 1
  BY DEF StoreDocument, Change
<1>2. MessageInv'
  BY <1>1 DEF SourceInv, MessageInv
<1> DEFINE rev == IF d \in DOMAIN documents THEN documents[d].rev + 1 ELSE 1
<1>3. /\ DOMAIN documents' = DOMAIN documents \cup {d}
      /\ \A e \in DOMAIN documents : e # d => documents'[e] = documents[e]
      /\ documents'[d] = [rev |-> rev, text |-> t, stamp |-> changes + 1]
  BY DEF StoreDocument
<1>4. rev \in Nat /\ changes + 1 \in Nat
  BY DEF SourceInv, DocumentInv
<1>5. documents' \in [DOMAIN documents' -> [rev : Nat, text : Text, stamp : Nat]]
  BY <1>3, <1>4 DEF StoreDocument, SourceInv, DocumentInv
<1>6. IsFiniteSet(DOMAIN documents') /\ DOMAIN documents' \subseteq Document
  BY <1>3, FS_AddElement DEF SourceInv, DocumentInv
<1>7. CASE d \notin DOMAIN documents
  <2>1. past' = past
    BY <1>7 DEF StoreDocument
  <2>2. QED
    BY <1>1, <1>2, <1>3, <1>4, <1>5, <1>6, <1>7, <2>1 DEF SourceInv, DocumentInv
<1>8. CASE d \in DOMAIN documents
  <2> DEFINE former == [doc |-> d, rev |-> documents[d].rev, text |-> documents[d].text,
                        stamp |-> documents[d].stamp]
  <2>1. past' = past \cup {former}
    BY <1>8 DEF StoreDocument
  <2>2. former \in [doc : DOMAIN documents, rev : Nat, text : Text, stamp : Nat]
    BY <1>8 DEF SourceInv, DocumentInv
  <2>3. documents'[d].rev = documents[d].rev + 1 /\ documents[d].rev \in Nat
    BY <1>3, <1>8 DEF SourceInv, DocumentInv
  <2>4. \A h \in past' : h.rev < documents'[h.doc].rev
    BY <1>3, <2>1, <2>2, <2>3 DEF SourceInv, DocumentInv
  <2>5. \A g, h \in past' : g.doc = h.doc /\ g.rev = h.rev => g = h
    BY <2>1, <2>2, <2>3 DEF SourceInv, DocumentInv
  <2>6. past' \subseteq [doc : DOMAIN documents', rev : Nat, text : Text, stamp : Nat]
    BY <1>3, <2>1, <2>2 DEF SourceInv, DocumentInv
  <2>7. QED
    BY <1>1, <1>2, <1>4, <1>5, <1>6, <2>4, <2>5, <2>6 DEF SourceInv, DocumentInv
<1>9. QED
  BY <1>7, <1>8

LEMMA RemoveSteps ==
    ASSUME SourceInv, NEW d \in Document, RemoveDocument(d)
    PROVE  SourceInv'
<1>1. UNCHANGED <<messages, project>> /\ changes' = changes + 1
  BY DEF RemoveDocument, Change
<1>2. MessageInv'
  BY <1>1 DEF SourceInv, MessageInv
<1>3. /\ DOMAIN documents' = DOMAIN documents \ {d}
      /\ \A e \in DOMAIN documents \ {d} : documents'[e] = documents[e]
      /\ past' = {h \in past : h.doc # d}
  BY DEF RemoveDocument
<1>4. IsFiniteSet(DOMAIN documents')
  BY <1>3, FS_RemoveElement DEF SourceInv, DocumentInv
<1>5. documents' \in [DOMAIN documents' -> [rev : Nat, text : Text, stamp : Nat]]
  BY <1>3 DEF RemoveDocument, SourceInv, DocumentInv
<1>6. past' \subseteq [doc : DOMAIN documents', rev : Nat, text : Text, stamp : Nat]
  BY <1>3 DEF SourceInv, DocumentInv
<1>7. QED
  BY <1>1, <1>2, <1>3, <1>4, <1>5, <1>6 DEF SourceInv, DocumentInv

LEMMA InitSources == Init => SourceInv
<1> SUFFICES ASSUME Init PROVE SourceInv
  OBVIOUS
<1>1. DOMAIN messages = {} /\ DOMAIN documents = {} /\ DOMAIN messages = 1 .. 0
  BY DEF Init
<1>2. Library \in Project
  BY DerivedStateAssumption DEF Library
<1>3. MessageInv
  BY <1>1, <1>2 DEF Init, MessageInv
<1>4. DocumentInv
  BY <1>1, FS_EmptySet DEF Init, DocumentInv
<1>5. QED
  BY <1>3, <1>4 DEF SourceInv

LEMMA MaintainerSteps ==
    ASSUME SourceInv, Maintain \/ Restart \/ UNCHANGED vars
    PROVE  SourceInv' /\ UNCHANGED <<sourceVars, changes>>
<1>1. UNCHANGED <<sourceVars, changes>>
  BY DEF Maintain, Inspect, InspectAfter, Fails, RunCycle, Restart, vars
<1>2. QED
  BY <1>1 DEF sourceVars, SourceInv, MessageInv, DocumentInv

LEMMA SourceSteps == ASSUME SourceInv, [Next]_vars PROVE SourceInv'
<1>1. ASSUME NEW c \in Chat, NEW p \in Project, MoveChat(c, p) PROVE SourceInv'
  <2>1. MessageInv'
    BY <1>1 DEF MoveChat, SourceInv, MessageInv
  <2>2. DocumentInv'
    BY <1>1 DEF MoveChat, Change, SourceInv, DocumentInv
  <2>3. QED
    BY <2>1, <2>2 DEF SourceInv
<1>2. QED
  BY <1>1, CaptureSteps, StoreSteps, RemoveSteps, MaintainerSteps DEF Next, SourceChange

-----------------------------------------------------------------------------
\* The sources and their units.

SourceSet ==
    [id : Message \cup Document, rev : Nat, text : Text, chat : Chat \cup {"none"},
     project : Project, stamp : Nat, current : BOOLEAN]

\* A unit belongs to one source.
Distinct(sources) == \A s, t \in sources : UnitId(s) = UnitId(t) => s = t

LEMMA SourceKinds ==
    ASSUME SourceInv, NEW s \in Sources
    PROVE  \/ \E m \in DOMAIN messages : s = Said(m) /\ s.id = m /\ s.rev = 1 /\ s.current
                /\ s.id \in Message
           \/ \E d \in DOMAIN documents : s = Written(d, documents[d], TRUE) /\ s.id = d
                /\ s.rev = documents[d].rev /\ s.current /\ s.id \notin Message
           \/ \E h \in past : s = Written(h.doc, h, FALSE) /\ s.id = h.doc /\ s.rev = h.rev
                /\ h.doc \in DOMAIN documents
                /\ s.rev < documents[h.doc].rev /\ ~s.current /\ s.id \notin Message
<1>1. CASE \E m \in DOMAIN messages : s = Said(m)
  <2>1. PICK m \in DOMAIN messages : s = Said(m)
    BY <1>1
  <2>2. m \in Message
    BY DEF SourceInv, MessageInv
  <2>3. QED
    BY <2>1, <2>2 DEF Said
<1>2. CASE \E d \in DOMAIN documents : s = Written(d, documents[d], TRUE)
  <2>1. PICK d \in DOMAIN documents : s = Written(d, documents[d], TRUE)
    BY <1>2
  <2>2. d \notin Message
    BY DerivedStateAssumption DEF SourceInv, DocumentInv
  <2>3. QED
    BY <2>1, <2>2 DEF Written
<1>3. CASE \E h \in past : s = Written(h.doc, h, FALSE)
  <2>1. PICK h \in past : s = Written(h.doc, h, FALSE)
    BY <1>3
  <2>2. h.doc \in DOMAIN documents /\ h.rev < documents[h.doc].rev
    BY DEF SourceInv, DocumentInv
  <2>3. h.doc \notin Message
    BY <2>2, DerivedStateAssumption DEF SourceInv, DocumentInv
  <2>4. QED
    BY <2>1, <2>2, <2>3 DEF Written
<1>4. QED
  BY <1>1, <1>2, <1>3 DEF Sources

\* Messages and present revisions are current; a former revision has a smaller
\* number than the present one of its document.
LEMMA SourceStates ==
    ASSUME SourceInv, NEW s \in Sources
    PROVE  \/ s.id \in Message /\ s.current
           \/ s.id \notin Message /\ s.id \in DOMAIN documents /\ s.current /\ s.rev = documents[s.id].rev
           \/ s.id \notin Message /\ s.id \in DOMAIN documents /\ ~s.current /\ s.rev < documents[s.id].rev
<1>1. CASE \E m \in DOMAIN messages : s.id \in Message /\ s.current
  BY <1>1
<1>2. CASE \E d \in DOMAIN documents :
             s.id = d /\ s.rev = documents[d].rev /\ s.current /\ s.id \notin Message
  BY <1>2
<1>3. CASE \E h \in past :
             s.id = h.doc /\ s.rev = h.rev /\ h.doc \in DOMAIN documents
             /\ s.rev < documents[h.doc].rev /\ ~s.current /\ s.id \notin Message
  BY <1>3
<1>4. QED
  BY <1>1, <1>2, <1>3, SourceKinds, Zenon

LEMMA SourcesDistinct ==
    ASSUME SourceInv
    PROVE  Distinct(Sources)
<1> SUFFICES ASSUME NEW s \in Sources, NEW t \in Sources, s.id = t.id, s.rev = t.rev PROVE s = t
  BY DEF Distinct, UnitId
<1>1. documents \in [DOMAIN documents -> [rev : Nat, text : Text, stamp : Nat]]
      /\ past \subseteq [doc : DOMAIN documents, rev : Nat, text : Text, stamp : Nat]
      /\ \A g, h \in past : g.doc = h.doc /\ g.rev = h.rev => g = h
  BY DEF SourceInv, DocumentInv
<1>2. CASE s.id \in Message
  BY <1>2, SourceKinds
<1>3. CASE s.id \notin Message
  <2> DEFINE present(u) == \E d \in DOMAIN documents :
                             u = Written(d, documents[d], TRUE) /\ u.id = d /\ u.rev = documents[d].rev
             former(u) == \E h \in past : u = Written(h.doc, h, FALSE) /\ u.id = h.doc /\ u.rev = h.rev
                             /\ h.doc \in DOMAIN documents /\ h.rev < documents[h.doc].rev
  <2>1. \A u \in {s, t} : present(u) \/ former(u)
    BY <1>3, SourceKinds, Zenon
  <2>2. CASE present(s) /\ present(t)
    BY <2>2, Zenon
  <2>3. CASE former(s) /\ former(t)
    BY <1>1, <2>3, Zenon
  <2>4. ASSUME NEW u, NEW v, present(u), former(v), u.id = v.id, u.rev = v.rev PROVE FALSE
    <3>1. PICK h \in past : v.id = h.doc /\ v.rev = h.rev /\ h.doc \in DOMAIN documents
                           /\ h.rev < documents[h.doc].rev
      BY <2>4
    <3>2. u.rev = documents[u.id].rev
      BY <2>4
    <3>3. documents[h.doc].rev \in Nat
      BY <1>1, <3>1
    <3>4. documents[h.doc].rev < documents[h.doc].rev
      BY <2>4, <3>1, <3>2, Zenon
    <3>5. QED
      BY <3>3, <3>4
  <2>5. QED
    BY <2>1, <2>2, <2>3, <2>4
<1>4. QED
  BY <1>2, <1>3

LEMMA SourcesTyped == ASSUME SourceInv PROVE Sources \subseteq SourceSet
<1>0. Library \in Project
  BY DerivedStateAssumption DEF Library
<1>1. ASSUME NEW m \in DOMAIN messages PROVE Said(m) \in SourceSet
  BY DEF Said, SourceSet, SourceInv, MessageInv
<1>2. ASSUME NEW d \in DOMAIN documents PROVE Written(d, documents[d], TRUE) \in SourceSet
  BY <1>0 DEF Written, SourceSet, SourceInv, DocumentInv
<1>3. ASSUME NEW h \in past PROVE Written(h.doc, h, FALSE) \in SourceSet
  BY <1>0 DEF Written, SourceSet, SourceInv, DocumentInv
<1>4. ASSUME NEW s \in Sources PROVE s \in SourceSet
  <2>1. \/ \E m \in DOMAIN messages : s = Said(m)
        \/ \E d \in DOMAIN documents : s = Written(d, documents[d], TRUE)
        \/ \E h \in past : s = Written(h.doc, h, FALSE)
    BY <1>4, Zenon DEF Sources
  <2>2. QED
    BY <1>1, <1>2, <1>3, <2>1, Zenon
<1>5. QED
  BY <1>4

WithUnit(sources) == {t \in sources : HasUnit(t)}
Ids(sources) == {UnitId(s) : s \in WithUnit(sources)}

LEMMA UnitsOf ==
    ASSUME NEW S, Distinct(S)
    PROVE  /\ DOMAIN Units(S) = Ids(S)
           /\ \A s \in WithUnit(S) : Units(S)[UnitId(s)] = Home(s)
<1>1. DOMAIN Units(S) = Ids(S)
  BY DEF Units, Ids, WithUnit
<1>2. ASSUME NEW s \in WithUnit(S) PROVE Units(S)[UnitId(s)] = Home(s)
  <2>1. (CHOOSE t \in S : UnitId(t) = UnitId(s)) = s
    BY DEF WithUnit, Distinct
  <2>2. UnitId(s) \in {UnitId(t) : t \in {r \in S : HasUnit(r)}}
    BY DEF WithUnit
  <2>3. QED
    BY <2>1, <2>2 DEF Units
<1>3. QED
  BY <1>1, <1>2

-----------------------------------------------------------------------------
\* A cycle, from sources to verification.

\* The claim that the text of a unit states.
Meant(u) == [form |-> FormOf[u.text], about |-> EntitiesOf[u.text]]

\* Evidence is filed under what it states or something like it, and every claim
\* is stated by some evidence of its own.
Filed(stated) ==
    /\ \A u \in DOMAIN stated : stated[u] = Meant(u) \/ Alike(Meant(u), stated[u])
    /\ \A c \in Claims(stated) : \E u \in DOMAIN stated : stated[u] = c /\ Meant(u) = c
    /\ \A c, d \in Claims(stated) : ~Alike(c, d)

\* What a cycle reads and writes.
Rebuilt(S) ==
    /\ S \subseteq SourceSet /\ Distinct(S)
    /\ DOMAIN units' = Ids(S)
    /\ \A s \in WithUnit(S) : units'[UnitId(s)] = Home(s)
    /\ DOMAIN evidence' = {u \in Ids(S) : FormOf[u.text] # NoForm}
    /\ Filed(evidence')
    /\ DOMAIN temporal' = DOMAIN evidence'
    /\ \A s \in WithUnit(S) : UnitId(s) \in DOMAIN evidence' =>
         temporal'[UnitId(s)] \in IF s.current THEN {"current", "disputed"} ELSE {"superseded"}
    /\ UNION contradictions' \subseteq Claims(evidence')
    /\ \A c \in UNION contradictions' : \E s \in WithUnit(S) :
         s.current /\ UnitId(s) \in DOMAIN evidence' /\ evidence'[UnitId(s)] = c

LEMMA EvidenceOf ==
    ASSUME NEW all, NEW stated \in Filings(all, Mentions(all))
    PROVE  /\ DOMAIN stated = {u \in DOMAIN all : FormOf[u.text] # NoForm}
           /\ Filed(stated)
<1> DEFINE claiming == {u \in DOMAIN all : FormOf[u.text] # NoForm}
           meant(u) == Candidate(u, Mentions(all))
<1>1. ASSUME NEW u \in DOMAIN all PROVE EntitySignature(u, Mentions(all)) = EntitiesOf[u.text]
  BY DEF EntitySignature, Mentions
<1>2. \A u \in claiming : meant(u) = Meant(u)
  BY <1>1 DEF Candidate, Meant
<1>3. /\ stated \in [claiming -> {meant(u) : u \in claiming}]
      /\ \A u \in claiming : IF meant(u) \in Claims(stated) THEN stated[u] = meant(u)
                             ELSE Alike(meant(u), stated[u])
      /\ \A c, d \in Claims(stated) : ~Alike(c, d)
  BY DEF Filings
<1> HIDE DEF meant
<1>4. ASSUME NEW c \in Claims(stated)
      PROVE  \E u \in DOMAIN stated : stated[u] = c /\ Meant(u) = c
  <2>1. PICK u \in claiming : c = meant(u)
    BY <1>3 DEF Claims
  <2>2. stated[u] = c
    BY <1>3, <2>1
  <2>3. QED
    BY <1>2, <1>3, <2>1, <2>2
<1>5. QED
  BY <1>2, <1>3, <1>4 DEF Filed

\* Evidence is superseded exactly when its source is a former revision.
LEMMA TemporalOf ==
    ASSUME SourceInv, NEW stated, NEW s \in Sources, UnitId(s) \in DOMAIN stated
    PROVE  Temporal(stated)[UnitId(s)] = IF s.current THEN "current" ELSE "superseded"
<1> DEFINE u == UnitId(s)
<1>1. u.source = s.id /\ u.rev = s.rev
  BY DEF UnitId
<1>2. Temporal(stated)[u] =
        CASE s.id \in Message -> "current"
          [] s.id \notin Message \cup DOMAIN documents -> "unknown"
          [] OTHER -> IF s.rev < documents[s.id].rev THEN "superseded" ELSE "current"
  BY <1>1 DEF Temporal
<1>3. CASE s.id \in Message
  BY <1>2, <1>3, SourceStates
<1>4. CASE s.id \notin Message
  <2>1. s.id \in DOMAIN documents
    BY <1>4, SourceStates
  <2>2. Temporal(stated)[u] = IF s.rev < documents[s.id].rev THEN "superseded" ELSE "current"
    BY <1>2, <1>4, <2>1
  <2>3. CASE s.current
    <3>1. s.rev = documents[s.id].rev
      BY <1>4, <2>3, SourceStates
    <3>2. documents[s.id].rev \in Nat
      BY <2>1 DEF SourceInv, DocumentInv
    <3>3. ~(s.rev < documents[s.id].rev)
      BY <3>1, <3>2
    <3>4. QED
      BY <2>2, <2>3, <3>3
  <2>4. CASE ~s.current
    <3>1. s.rev < documents[s.id].rev
      BY <1>4, <2>4, SourceStates
    <3>2. QED
      BY <2>2, <2>4, <3>1
  <2>5. QED
    BY <2>3, <2>4
<1>5. QED
  BY <1>3, <1>4

LEMMA CycleRebuilds ==
    ASSUME SourceInv, NEW failing, RunCycle(failing)
    PROVE  Rebuilt(Sources)
<1> DEFINE all == Units(Sources)
           found == Mentions(all)
           stated == evidence'
           states == Temporal(stated)
           pairs == Contradictions(stated, states, texts')
<1>1. /\ units' = all /\ evidence' = stated /\ stated \in Filings(all, found)
      /\ contradictions' = pairs
      /\ temporal' = Disputing(stated, states, pairs)
  BY DEF RunCycle
<1>2. Sources \subseteq SourceSet /\ Distinct(Sources)
  BY SourcesDistinct, SourcesTyped
<1>3. DOMAIN all = Ids(Sources) /\ \A s \in WithUnit(Sources) : all[UnitId(s)] = Home(s)
  BY <1>2, UnitsOf
<1>4. /\ DOMAIN stated = {u \in Ids(Sources) : FormOf[u.text] # NoForm}
      /\ Filed(stated)
  <2>1. DOMAIN stated = {u \in DOMAIN all : FormOf[u.text] # NoForm} /\ Filed(stated)
    BY <1>1, EvidenceOf
  <2> HIDE DEF all, stated
  <2>2. QED
    BY <1>3, <2>1
<1>5. DOMAIN temporal' = DOMAIN stated
      /\ \A u \in DOMAIN stated : temporal'[u] = IF states[u] = "current" /\ stated[u] \in UNION pairs
                                                 THEN "disputed" ELSE states[u]
  BY <1>1 DEF Disputing
<1>6. \A s \in Sources : UnitId(s) \in DOMAIN stated =>
        states[UnitId(s)] = IF s.current THEN "current" ELSE "superseded"
  BY TemporalOf
<1>7. ASSUME NEW s \in Sources, UnitId(s) \in DOMAIN stated
      PROVE  temporal'[UnitId(s)] \in IF s.current THEN {"current", "disputed"} ELSE {"superseded"}
  BY <1>5, <1>6, <1>7
<1>8. UNION pairs \subseteq {stated[u] : u \in {v \in DOMAIN stated : states[v] = "current"}}
  BY DEF Contradictions, CurrentClaims
<1>9. ASSUME NEW c \in UNION pairs
      PROVE  \E s \in WithUnit(Sources) : s.current /\ UnitId(s) \in DOMAIN stated /\ stated[UnitId(s)] = c
  <2>1. PICK u \in DOMAIN stated : states[u] = "current" /\ stated[u] = c
    BY <1>8, <1>9
  <2>2. PICK s \in WithUnit(Sources) : UnitId(s) = u
    BY <1>4, <2>1 DEF Ids
  <2>3. s.current
    BY <1>6, <2>1, <2>2 DEF WithUnit
  <2>4. QED
    BY <2>1, <2>2, <2>3
<1>10. UNION pairs \subseteq Claims(stated)
  BY <1>8 DEF Claims
<1>11. WithUnit(Sources) \subseteq Sources
  BY DEF WithUnit
<1> HIDE DEF all, found, stated, states, pairs
<1>12. QED
  BY <1>1, <1>2, <1>3, <1>4, <1>5, <1>7, <1>9, <1>10, <1>11 DEF Rebuilt

LEMMA CycleTypes ==
    ASSUME SourceInv, DerivedTypeOK, NEW failing, RunCycle(failing)
    PROVE  ProjectionsAgree'
<1>1. Rebuilt(Sources) /\ built' = Sources /\ UNCHANGED convergence /\ at' = "inspect"
  BY CycleRebuilds DEF RunCycle
<1>2. \A s \in WithUnit(Sources) : s \in SourceSet /\ HasUnit(s) /\ s \in Sources
  BY <1>1 DEF Rebuilt, WithUnit
<1>3. DOMAIN units' \subseteq UnitIds
  BY <1>1, <1>2 DEF Rebuilt, Ids, UnitIds, UnitId, SourceSet
<1>4. units' \in [DOMAIN units' -> [chat : Chat \cup {"none"}, project : Project, stamp : Nat]]
  <2>1. ASSUME NEW u \in DOMAIN units'
        PROVE  units'[u] \in [chat : Chat \cup {"none"}, project : Project, stamp : Nat]
    <3>1. PICK s \in WithUnit(Sources) : u = UnitId(s)
      BY <1>1, <2>1 DEF Rebuilt, Ids
    <3>2. units'[u] = Home(s)
      BY <1>1, <3>1 DEF Rebuilt
    <3>3. Home(s) \in [chat : Chat \cup {"none"}, project : Project, stamp : Nat]
      BY <1>2 DEF Home, SourceSet
    <3>4. QED
      BY <3>2, <3>3
  <2>2. units' = [u \in DOMAIN units' |-> units'[u]]
    BY DEF RunCycle, Units
  <2>3. QED
    BY <2>1, <2>2
<1>5. vectors' \in [DOMAIN units' -> {"indexed", "failed"}]
  BY DEF RunCycle, Vectors
<1>6. mentions' \subseteq (DOMAIN units') \X UNION {EntitiesOf[t] : t \in Text}
  <2>1. mentions' = UNION {{u} \X EntitiesOf[u.text] : u \in DOMAIN units'}
    BY DEF RunCycle, Mentions
  <2>2. \A u \in DOMAIN units' : u.text \in Text
    BY <1>3 DEF UnitIds
  <2>3. QED
    BY <2>1, <2>2
<1>7. DOMAIN evidence' \subseteq DOMAIN units' /\ DOMAIN temporal' = DOMAIN evidence'
      /\ UNION contradictions' \subseteq Claims(evidence')
  BY <1>1 DEF Rebuilt
<1>8. DOMAIN texts' = Claims(evidence') /\ DOMAIN verification' = Claims(evidence')
  BY DEF RunCycle, Wordings, Verification
<1>9. DerivedTypeOK'
  BY <1>1, <1>3, <1>4, <1>5, <1>6, <1>7, <1>8 DEF DerivedTypeOK
<1>10. EvidenceIsOfOneMoment'
  <2>1. DOMAIN units' = {UnitId(s) : s \in {t \in built' : HasUnit(t)}}
    BY <1>1 DEF Rebuilt, Ids, WithUnit
  <2>2. \A s \in built' : HasUnit(s) => units'[UnitId(s)] = Home(s)
    BY <1>1 DEF Rebuilt, WithUnit
  <2>3. ASSUME NEW s \in built', HasUnit(s), FormOf[s.text] # NoForm
        PROVE  /\ UnitId(s) \in DOMAIN evidence'
               /\ \/ evidence'[UnitId(s)] = ClaimOf(s)
                  \/ Alike(ClaimOf(s), evidence'[UnitId(s)])
    <3>1. UnitId(s) \in Ids(Sources) /\ UnitId(s).text = s.text
      BY <1>1, <2>3 DEF Ids, WithUnit, UnitId
    <3>2. UnitId(s) \in DOMAIN evidence' /\ Meant(UnitId(s)) = ClaimOf(s)
      BY <1>1, <2>3, <3>1 DEF Rebuilt, ClaimOf, Meant
    <3>3. QED
      BY <1>1, <3>2 DEF Rebuilt, Filed
  <2>4. ASSUME NEW c \in Claims(evidence')
        PROVE  \E s \in Stating(c)' : ClaimOf(s) = c
    <3>1. PICK u \in DOMAIN evidence' : evidence'[u] = c /\ Meant(u) = c
      BY <1>1, <2>4 DEF Rebuilt, Filed
    <3>2. PICK s \in WithUnit(Sources) : u = UnitId(s)
      BY <1>1, <3>1 DEF Rebuilt, Ids
    <3>3. s \in Stating(c)'
      BY <1>1, <3>1, <3>2 DEF Stating, WithUnit
    <3>4. ClaimOf(s) = c
      BY <3>1, <3>2 DEF Meant, ClaimOf, UnitId
    <3>5. QED
      BY <3>3, <3>4
  <2>5. \A c, d \in Claims(evidence') : ~Alike(c, d)
    BY <1>1 DEF Rebuilt, Filed
  <2>6. QED
    BY <2>1, <2>2, <2>3, <2>4, <2>5 DEF EvidenceIsOfOneMoment, Claims
<1>11. QED
  BY <1>9, <1>10 DEF ProjectionsAgree

\* The documents and chats that say a claim now: as the cycle counts them, and
\* as the sources have them.
LEMMA OriginsAgree ==
    ASSUME SourceInv, NEW failing, RunCycle(failing), NEW c
    PROVE  {Origin(units', u) : u \in {v \in DOMAIN evidence' :
                evidence'[v] = c /\ temporal'[v] \in {"current", "disputed"}}}
           = {IF s.id \in Message THEN s.chat ELSE s.id : s \in {t \in Stating(c)' : t.current}}
<1> DEFINE ids == {v \in DOMAIN evidence' : evidence'[v] = c /\ temporal'[v] \in {"current", "disputed"}}
           origin(s) == IF s.id \in Message THEN s.chat ELSE s.id
           present == {t \in Stating(c)' : t.current}
<1>1. Rebuilt(Sources) /\ built' = Sources
  BY CycleRebuilds DEF RunCycle
<1>2. ASSUME NEW s \in WithUnit(Sources) PROVE Origin(units', UnitId(s)) = origin(s)
  <2>1. units'[UnitId(s)] = Home(s) /\ UnitId(s).source = s.id
    BY <1>1 DEF Rebuilt, UnitId
  <2>2. QED
    BY <2>1 DEF Origin, Home
<1>3. ASSUME NEW s \in WithUnit(Sources)
      PROVE  UnitId(s) \in ids <=> s \in present
  <2>1. UnitId(s) \in DOMAIN evidence' =>
          (temporal'[UnitId(s)] \in {"current", "disputed"} <=> s.current)
    BY <1>1 DEF Rebuilt
  <2>2. s \in Stating(c)' <=> UnitId(s) \in DOMAIN evidence' /\ evidence'[UnitId(s)] = c
    BY <1>1 DEF Stating, WithUnit
  <2>3. QED
    BY <2>1, <2>2
<1>4. \A u \in ids : \E s \in WithUnit(Sources) : u = UnitId(s)
  BY <1>1 DEF Rebuilt, Ids
<1>5. present \subseteq WithUnit(Sources)
  BY <1>1 DEF Stating, WithUnit
<1> HIDE DEF ids, present, origin
<1>6. {Origin(units', u) : u \in ids} = {origin(s) : s \in present}
  <2>1. ASSUME NEW u \in ids PROVE \E s \in present : Origin(units', u) = origin(s)
    BY <1>2, <1>3, <1>4, <2>1
  <2>2. ASSUME NEW s \in present PROVE \E u \in ids : Origin(units', u) = origin(s)
    BY <1>2, <1>3, <1>5, <2>2
  <2>3. QED
    BY <2>1, <2>2
<1>7. QED
  BY <1>6 DEF ids, present, origin

LEMMA FiniteOrigins ==
    ASSUME SourceInv, NEW S \in SUBSET {s \in Sources : s.current}
    PROVE  IsFiniteSet({IF s.id \in Message THEN s.chat ELSE s.id : s \in S})
<1> DEFINE chatOf == [m \in DOMAIN messages |-> messages[m].chat]
           chats == {messages[m].chat : m \in DOMAIN messages}
           origins == {IF s.id \in Message THEN s.chat ELSE s.id : s \in S}
<1>1. IsFiniteSet(DOMAIN messages)
  BY FS_Interval DEF SourceInv, MessageInv
<1>2. chatOf \in Surjection(DOMAIN messages, chats)
  BY DEF Surjection
<1>3. IsFiniteSet(chats)
  BY <1>1, <1>2, FS_Surjection
<1>4. IsFiniteSet(chats \cup DOMAIN documents)
  BY <1>3, FS_Union DEF SourceInv, DocumentInv
<1>5. ASSUME NEW s \in S PROVE (IF s.id \in Message THEN s.chat ELSE s.id) \in chats \cup DOMAIN documents
  <2>1. CASE s.id \in Message
    <3>1. PICK m \in DOMAIN messages : s = Said(m)
      BY <2>1, SourceKinds, Zenon
    <3>2. s.chat = messages[m].chat
      BY <3>1 DEF Said
    <3>3. QED
      BY <2>1, <3>2
  <2>2. CASE s.id \notin Message
    BY <2>2, SourceStates
  <2>3. QED
    BY <2>1, <2>2
<1>6. origins \subseteq chats \cup DOMAIN documents
  BY <1>5
<1>7. QED
  BY <1>4, <1>6, FS_Subset

LEMMA CycleVerdicts ==
    ASSUME SourceInv, NEW failing, RunCycle(failing)
    PROVE  VerdictsFollowThePresent'
<1>1. Rebuilt(Sources) /\ built' = Sources
      /\ verification' = Verification(units', evidence', temporal', contradictions')
  BY CycleRebuilds DEF RunCycle
<1>2. ASSUME NEW c \in DOMAIN verification'
      PROVE  LET origins == {IF s.id \in Message THEN s.chat ELSE s.id :
                               s \in {t \in Stating(c)' : t.current}}
             IN  /\ verification'[c] = "corroborated" => Cardinality(origins) >= 2
                 /\ verification'[c] = "single_source" => Cardinality(origins) = 1
                 /\ verification'[c] = "unverified" => origins = {}
                 /\ verification'[c] = "disputed" <=> c \in UNION contradictions'
  <2> DEFINE present == {t \in Stating(c)' : t.current}
             origins == {IF s.id \in Message THEN s.chat ELSE s.id : s \in present}
  <2>1. verification'[c] =
          CASE c \in UNION contradictions' -> "disputed"
            [] c \notin UNION contradictions' /\ Cardinality(origins) >= 2 -> "corroborated"
            [] c \notin UNION contradictions' /\ Cardinality(origins) = 1 -> "single_source"
            [] OTHER -> "unverified"
    BY <1>1, OriginsAgree DEF Verification
  <2>2. present \in SUBSET {s \in Sources : s.current}
    BY <1>1 DEF Stating
  <2>3. IsFiniteSet(origins)
    BY <2>2, FiniteOrigins
  <2>4. Cardinality(origins) \in Nat /\ (Cardinality(origins) = 0 <=> origins = {})
    BY <2>3, FS_CardinalityType, FS_EmptySet
  <2> HIDE DEF origins
  <2>5. /\ verification'[c] = "corroborated" => Cardinality(origins) >= 2
        /\ verification'[c] = "single_source" => Cardinality(origins) = 1
        /\ verification'[c] = "unverified" => origins = {}
        /\ verification'[c] = "disputed" <=> c \in UNION contradictions'
    BY <2>1, <2>4
  <2>6. QED
    BY <2>5 DEF origins
<1>3. CorroboratedIndependently'
  BY <1>2 DEF CorroboratedIndependently
<1>4. \A c \in UNION contradictions' : \E s \in Stating(c)' : s.current
  <2>1. ASSUME NEW c \in UNION contradictions' PROVE \E s \in Stating(c)' : s.current
    <3>1. PICK s \in WithUnit(Sources) : s.current /\ UnitId(s) \in DOMAIN evidence' /\ evidence'[UnitId(s)] = c
      BY <1>1, <2>1 DEF Rebuilt
    <3>2. s \in Stating(c)'
      BY <1>1, <3>1 DEF Stating, WithUnit
    <3>3. QED
      BY <3>1, <3>2
  <2>2. QED
    BY <2>1
<1>5. \A s \in built' : UnitId(s) \in DOMAIN temporal' /\ ~s.current => temporal'[UnitId(s)] = "superseded"
  <2>1. ASSUME NEW s \in Sources, UnitId(s) \in DOMAIN temporal' PROVE s \in WithUnit(Sources)
    BY <1>1, <2>1 DEF Rebuilt, Ids, WithUnit, Distinct
  <2>2. QED
    BY <1>1, <2>1 DEF Rebuilt
<1>6. DisputedByPresent'
  BY <1>2, <1>4, <1>5 DEF DisputedByPresent
<1>7. QED
  BY <1>3, <1>6 DEF VerdictsFollowThePresent

-----------------------------------------------------------------------------
\* Everything but a cycle leaves the projections as they are.

ProjectionInv == ProjectionsAgree /\ VerdictsFollowThePresent

LEMMA InitProjections == Init => ProjectionInv
<1> SUFFICES ASSUME Init PROVE ProjectionInv
  OBVIOUS
<1>1. /\ DOMAIN units = {} /\ DOMAIN vectors = {} /\ DOMAIN evidence = {} /\ DOMAIN texts = {}
      /\ DOMAIN temporal = {} /\ DOMAIN verification = {}
      /\ mentions = {} /\ contradictions = {} /\ built = {}
  BY DEF Init
<1>2. units = [u \in {} |-> u] /\ vectors = [u \in {} |-> u]
  BY DEF Init
<1>3. Claims(evidence) = {} /\ UNION contradictions = {}
  BY <1>1 DEF Claims
<1>4. DerivedTypeOK
  BY <1>1, <1>2, <1>3 DEF Init, DerivedTypeOK
<1>5. EvidenceIsOfOneMoment /\ CorroboratedIndependently /\ DisputedByPresent
  BY <1>1, <1>3 DEF EvidenceIsOfOneMoment, CorroboratedIndependently, DisputedByPresent
<1>6. QED
  BY <1>4, <1>5 DEF ProjectionInv, ProjectionsAgree, VerdictsFollowThePresent

LEMMA ProjectionSteps ==
    ASSUME SourceInv, ProjectionInv, [Next]_vars
    PROVE  ProjectionInv'
<1>1. CASE \E failing : RunCycle(failing)
  BY <1>1, CycleTypes, CycleVerdicts DEF ProjectionInv, ProjectionsAgree
<1>2. ASSUME UNCHANGED <<projectionVars, built>>, at' \in {"rest", "cycle", "inspect"},
             convergence' \in {"pending", "backfilling", "behind", "converged"}
      PROVE  ProjectionInv'
  <2>1. DerivedTypeOK'
    BY <1>2 DEF projectionVars, ProjectionInv, ProjectionsAgree, DerivedTypeOK, Claims
  <2>2. EvidenceIsOfOneMoment'
    BY <1>2 DEF projectionVars, ProjectionInv, ProjectionsAgree, EvidenceIsOfOneMoment, Stating, Claims
  <2>3. CorroboratedIndependently'
    BY <1>2 DEF projectionVars, ProjectionInv, VerdictsFollowThePresent, CorroboratedIndependently, Stating
  <2>4. DisputedByPresent'
    BY <1>2 DEF projectionVars, ProjectionInv, VerdictsFollowThePresent, DisputedByPresent, Stating
  <2>5. QED
    BY <2>1, <2>2, <2>3, <2>4 DEF ProjectionInv, ProjectionsAgree, VerdictsFollowThePresent
<1>3. at \in {"rest", "cycle", "inspect"} /\ convergence \in {"pending", "backfilling", "behind", "converged"}
  BY DEF ProjectionInv, ProjectionsAgree, DerivedTypeOK
<1>4. CASE SourceChange
  BY <1>2, <1>3, <1>4 DEF SourceChange, Capture, MoveChat, StoreDocument, RemoveDocument, Change,
     maintainerVars
<1>5. CASE Inspect \/ InspectAfter \/ Fails \/ Restart
  BY <1>2, <1>3, <1>5 DEF Inspect, InspectAfter, Fails, Restart
<1>6. CASE UNCHANGED vars
  BY <1>2, <1>3, <1>6 DEF vars, maintainerVars
<1>7. QED
  BY <1>1, <1>4, <1>5, <1>6 DEF Next, Maintain

\* Inductive: the sources have their types, and the projections agree with the
\* moment they were built of.
THEOREM DerivedInvariant == Spec => [](SourceInv /\ ProjectionInv)
<1>1. Init => SourceInv /\ ProjectionInv
  BY InitSources, InitProjections
<1>2. SourceInv /\ ProjectionInv /\ [Next]_vars => (SourceInv /\ ProjectionInv)'
  BY SourceSteps, ProjectionSteps
<1>3. QED
  BY <1>1, <1>2, PTL DEF Spec

\* ProjectionsAgree: whatever is captured, moved, revised or removed beside it,
\* and wherever the maintainer fails or is interrupted, its projections fit each
\* other and the sources of one moment.
THEOREM ProjectionsAlwaysAgree == Spec => []ProjectionsAgree
<1>1. ProjectionInv => ProjectionsAgree
  BY DEF ProjectionInv
<1>2. QED
  BY <1>1, DerivedInvariant, PTL

\* VerdictsFollowThePresent: what is called corroborated, disputed or superseded
\* is so by the sources themselves.
THEOREM VerdictsAreOfThePresent == Spec => []VerdictsFollowThePresent
<1>1. ProjectionInv => VerdictsFollowThePresent
  BY DEF ProjectionInv
<1>2. QED
  BY <1>1, DerivedInvariant, PTL

-----------------------------------------------------------------------------
\* Convergence.

\* What was there when the round began keeps its unit until the cycle, has it
\* after the cycle, and a vector if the cycle did not fail.
RoundInv ==
    /\ convergence = "converged" => at = "rest"
    /\ at = "cycle" => \A s \in WithUnit(since) : UnitId(s) \in Ids(Sources)
    /\ at = "inspect" \/ convergence = "converged" =>
         \A s \in WithUnit(since) : UnitId(s) \in DOMAIN units
    /\ (at = "inspect" /\ ~cycleFailed) \/ convergence = "converged" =>
         \A s \in WithUnit(since) : vectors[UnitId(s)] = "indexed"

LEMMA UnitsRemain ==
    ASSUME SourceInv, [Next]_vars, at # "rest"
    PROVE  Ids(Sources) \subseteq Ids(Sources')
<1>1. ASSUME NEW m \in DOMAIN messages', m \in DOMAIN messages, messages'[m] = messages[m]
      PROVE  UnitId(Said(m)') = UnitId(Said(m)) /\ HasUnit(Said(m)') = HasUnit(Said(m))
  BY <1>1 DEF Said, UnitId, HasUnit
<1>2. ASSUME UNCHANGED <<documents, past>>, DOMAIN messages \subseteq DOMAIN messages',
             \A m \in DOMAIN messages : messages'[m] = messages[m],
             NEW s \in WithUnit(Sources)
      PROVE  UnitId(s) \in Ids(Sources')
  <2>1. CASE \E m \in DOMAIN messages : s = Said(m)
    <3>1. PICK m \in DOMAIN messages : s = Said(m)
      BY <2>1
    <3>2. Said(m)' \in Sources'
      BY <1>2 DEF Sources
    <3>3. UnitId(Said(m)') = UnitId(s) /\ HasUnit(Said(m)')
      BY <1>1, <1>2, <3>1 DEF WithUnit
    <3>4. QED
      BY <3>2, <3>3 DEF Ids, WithUnit
  <2>2. CASE ~\E m \in DOMAIN messages : s = Said(m)
    <3>1. s \in Sources'
      BY <1>2, <2>2 DEF WithUnit, Sources
    <3>2. QED
      BY <1>2, <3>1 DEF Ids, WithUnit
  <2>3. QED
    BY <2>1, <2>2
<1>3. CASE \E m \in Message, c \in Chat, t \in Text : Capture(m, c, t)
  BY <1>2, <1>3, CaptureSteps DEF Ids
<1>4. ASSUME NEW c \in Chat, NEW p \in Project, MoveChat(c, p)
      PROVE  Ids(Sources) \subseteq Ids(Sources')
  BY <1>2, <1>4 DEF MoveChat, Ids
<1>5. CASE Maintain \/ Restart \/ UNCHANGED vars
  BY <1>2, <1>5, MaintainerSteps DEF sourceVars, Ids
<1>6. QED
  BY <1>3, <1>4, <1>5 DEF Next, SourceChange, StoreDocument, RemoveDocument, LockIsFree

LEMMA RoundSteps ==
    ASSUME SourceInv, RoundInv, [Next]_vars
    PROVE  RoundInv'
<1>1. ASSUME NEW failing, RunCycle(failing) PROVE RoundInv'
  <2>1. /\ at = "cycle" /\ at' = "inspect" /\ UNCHANGED <<since, convergence>>
        /\ cycleFailed' = (failing # {})
        /\ vectors' = Vectors(Units(Sources), failing)
        /\ DOMAIN units' = Ids(Sources) /\ DOMAIN Units(Sources) = Ids(Sources)
    BY <1>1, SourcesDistinct, UnitsOf DEF RunCycle
  <2>2. \A s \in WithUnit(since) : UnitId(s) \in Ids(Sources)
    BY <2>1 DEF RoundInv
  <2>3. failing = {} => \A u \in Ids(Sources) : vectors'[u] = "indexed"
    BY <2>1 DEF Vectors
  <2>4. convergence # "converged"
    BY <2>1 DEF RoundInv
  <2>5. QED
    BY <2>1, <2>2, <2>3, <2>4 DEF RoundInv, WithUnit
<1>2. CASE Inspect
  <2>1. since' = Sources /\ UNCHANGED <<sourceVars, units, vectors>> /\ at' \in {"rest", "cycle"}
        /\ (at' = "cycle" => convergence' # "converged")
    BY <1>2 DEF Inspect, projectionVars
  <2>2. Sources' = Sources
    BY <2>1 DEF sourceVars, Sources, Said
  <2>3. \A s \in WithUnit(Sources) : UnitId(s) \in Ids(Sources)
    BY DEF Ids
  <2>4. CASE RequiresCycle
    <3>1. at' = "cycle" /\ convergence' = "backfilling"
      BY <1>2, <2>4 DEF Inspect
    <3>2. QED
      BY <2>1, <2>2, <2>3, <3>1 DEF RoundInv, WithUnit
  <2>5. CASE ~RequiresCycle
    <3>1. at' = "rest"
      BY <1>2, <2>5 DEF Inspect
    <3>2. /\ DOMAIN units = Ids(Sources) /\ DOMAIN vectors = Ids(Sources)
          /\ \A u \in DOMAIN vectors : vectors[u] = "indexed"
      BY <2>5, SourcesDistinct, UnitsOf DEF RequiresCycle, Pending
    <3>3. QED
      BY <2>1, <2>2, <2>3, <3>1, <3>2 DEF RoundInv, WithUnit
  <2>6. QED
    BY <2>4, <2>5
<1>3. CASE InspectAfter
  BY <1>3 DEF InspectAfter, CycleConverged, projectionVars, RoundInv, WithUnit
<1>4. CASE Fails \/ Restart
  BY <1>4 DEF Fails, Restart, RoundInv
<1>5. CASE SourceChange \/ UNCHANGED vars
  <2>1. UNCHANGED <<at, convergence, cycleFailed, since, units, vectors>>
    BY <1>5 DEF SourceChange, Capture, MoveChat, StoreDocument, RemoveDocument, Change,
       maintainerVars, projectionVars, vars
  <2>2. at = "cycle" => Ids(Sources) \subseteq Ids(Sources')
    BY UnitsRemain
  <2>3. QED
    BY <2>1, <2>2 DEF RoundInv, WithUnit
<1>6. QED
  BY <1>1, <1>2, <1>3, <1>4, <1>5 DEF Next, Maintain

\* ConvergedIsTrue: although messages are captured during a round, the database
\* is inspected once more after the commit, and vectors fail, what was there
\* when a converged round began has its unit and its vector.
THEOREM ConvergedRoundsAreComplete == Spec => []ConvergedIsTrue
<1>1. Init => RoundInv
  BY DEF Init, RoundInv
<1>2. SourceInv /\ RoundInv /\ [Next]_vars => RoundInv'
  BY RoundSteps
<1>3. RoundInv => ConvergedIsTrue
  BY DEF RoundInv, ConvergedIsTrue, WithUnit
<1>4. QED
  BY <1>1, <1>2, <1>3, DerivedInvariant, PTL DEF Spec

=============================================================================
