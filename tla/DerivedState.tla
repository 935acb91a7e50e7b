---------------------------- MODULE DerivedState ----------------------------
(***************************************************************************)
(* What the Library derives from messages and elected documents: semantic  *)
(* units and their vectors, entities, claims with their evidence, the      *)
(* temporal state of the evidence, contradictions and verification.  A     *)
(* maintainer inspects the database and rebuilds all of it in one          *)
(* transaction.  Documents change only under the lock that it holds;       *)
(* messages are captured and chats moved between any two of its steps.     *)
(*                                                                         *)
(* A text stands for one semantic unit, and says at most one thing.  A     *)
(* form stands for the normalized form and the polarity of what it says:   *)
(* several wordings may have one form, and forms may be similar.           *)
(***************************************************************************)
EXTENDS Naturals, FiniteSets

CONSTANTS
    Message, Chat, Project, Document,   \* messages by their order
    Text, Empty,           \* what is written; Empty has no unit
    FormOf, EntitiesOf,    \* normalized form of a text, NoForm if it is not declarative
    NoForm,
    Similar,               \* pairs of forms of one polarity and a cosine of 0.94 or more
    Opposed,               \* pairs of texts with opposed values or polarity
    MaxVariables,          \* SQLITE_MAX_VARIABLE_NUMBER
    MaxChanges, MaxFailures   \* bounds of the model

ASSUME DerivedStateAssumption ==
    /\ Message \subseteq Nat /\ Message \cap Document = {} /\ Project # {}
    /\ Empty \in Text /\ FormOf[Empty] = NoForm
    /\ \A pair \in Similar : <<pair[2], pair[1]>> \in Similar
    /\ \A pair \in Opposed : <<pair[2], pair[1]>> \in Opposed
    /\ {MaxVariables, MaxChanges, MaxFailures} \subseteq Nat

VARIABLES
    messages, project, documents, past,    \* what is captured: the sources
    units, vectors, mentions, evidence, texts, temporal, contradictions,
    verification,                          \* the projections
    at, signature, convergence, cycleFailed,   \* the maintainer
    built, since,    \* history: sources of the last cycle, and of the last round's start
    changes, failures

sourceVars == <<messages, project, documents, past>>
projectionVars == <<units, vectors, mentions, evidence, texts, temporal, contradictions, verification>>
maintainerVars == <<at, signature, convergence, cycleFailed>>
vars == <<sourceVars, projectionVars, maintainerVars, built, since, changes, failures>>

NoSignature == {[id |-> "none"]}

---------------------------------------------------------------------------
\* authoritative_sources and what is derived from them.

\* Documents stay in one project here.
Library == CHOOSE p \in Project : TRUE

Said(m) ==
    [id |-> m, rev |-> 1, text |-> messages[m].text, chat |-> messages[m].chat,
     project |-> project[messages[m].chat], stamp |-> 0, current |-> TRUE]

\* A revision of a document.
Written(d, doc, current) ==
    [id |-> d, rev |-> doc.rev, text |-> doc.text, chat |-> "none",
     project |-> Library, stamp |-> doc.stamp, current |-> current]

Sources ==
    {Said(m) : m \in DOMAIN messages}
    \cup {Written(d, documents[d], TRUE) : d \in DOMAIN documents}
    \cup {Written(h.doc, h, FALSE) : h \in past}

\* A document can be empty; a message never is.
HasUnit(s) == s.text # Empty

UnitId(s) == [source |-> s.id, rev |-> s.rev, text |-> s.text]
Home(s) == [chat |-> s.chat, project |-> s.project, stamp |-> s.stamp]

\* reconcile_semantic_units
Units(sources) ==
    [u \in {UnitId(s) : s \in {t \in sources : HasUnit(t)}} |->
        Home(CHOOSE s \in sources : UnitId(s) = u)]

\* Units that have their vector already keep it.
Embedded == {u \in DOMAIN vectors : vectors[u] = "indexed"}

Vectors(all, failing) ==
    [u \in DOMAIN all |-> IF u \in failing \ Embedded THEN "failed" ELSE "indexed"]

Mentions(all) == UNION {{u} \X EntitiesOf[u.text] : u \in DOMAIN all}

\* Mutant: claims are extracted before the entities of their units.
SignatureBefore(u, found) == {e \in EntitiesOf[u.text] : <<u, e>> \in mentions}

EntitySignature(u, found) == {e \in EntitiesOf[u.text] : <<u, e>> \in found}

\* A claim is its form and the entities mentioned in it.
Candidate(u, found) == [form |-> FormOf[u.text], about |-> EntitySignature(u, found)]

\* Claims that mention no entity are never taken for each other.
Alike(c, d) ==
    c # d /\ c.about # {} /\ c.about = d.about /\ <<c.form, d.form>> \in Similar

Claims(stated) == {stated[u] : u \in DOMAIN stated}

\* The claims that evidence is filed under, one unit after the other in the
\* order of their hashes: a candidate that is known already is filed as such,
\* one like a known claim under the best of these, and any other becomes known.
\* So no two known claims are alike, and every other candidate is like one.
\* Here the order, and which of several claims scores best, may be any.
Filings(all, found) ==
    LET claiming == {u \in DOMAIN all : FormOf[u.text] # NoForm}
    IN  {stated \in [claiming -> {Candidate(u, found) : u \in claiming}] :
            /\ \A u \in claiming :
                   IF Candidate(u, found) \in Claims(stated)
                   THEN stated[u] = Candidate(u, found)
                   ELSE Alike(Candidate(u, found), stated[u])
            /\ \A c, d \in Claims(stated) : ~Alike(c, d)}

\* The wording of a claim is that of the unit that first stated it, for as long
\* as any evidence is filed under it.
Wordings(stated) ==
    {w \in [Claims(stated) -> Text] :
        \A c \in Claims(stated) :
            IF c \in DOMAIN texts THEN w[c] = texts[c]
            ELSE \E u \in DOMAIN stated :
                     stated[u] = c /\ FormOf[u.text] = c.form /\ w[c] = u.text}

\* TemporalEvaluator.evaluate
Temporal(stated) ==
    [u \in DOMAIN stated |->
        CASE u.source \in Message -> "current"
          [] u.source \notin Message \cup DOMAIN documents -> "unknown"
          [] OTHER -> IF u.rev < documents[u.source].rev THEN "superseded" ELSE "current"]

\* Mutant: superseded evidence contradicts too.
CurrentClaimsAll(stated, states) == Claims(stated)

CurrentClaims(stated, states) == {stated[u] : u \in {v \in DOMAIN stated : states[v] = "current"}}

Contradictions(stated, states, wording) ==
    {pair \in SUBSET CurrentClaims(stated, states) :
        \E c, d \in pair : pair = {c, d} /\ c # d /\ <<wording[c], wording[d]>> \in Opposed}

\* mark_disputed
Disputing(stated, states, pairs) ==
    [u \in DOMAIN stated |->
        IF states[u] = "current" /\ stated[u] \in UNION pairs THEN "disputed" ELSE states[u]]

\* A document, or a chat whatever number of its messages say it.
Origin(all, u) == IF u.source \in Message THEN all[u].chat ELSE u.source

Verification(all, stated, states, pairs) ==
    [c \in Claims(stated) |->
        LET origins == {Origin(all, u) : u \in {v \in DOMAIN stated :
                            stated[v] = c /\ states[v] \in {"current", "disputed"}}}
        IN  CASE c \in UNION pairs -> "disputed"
              [] c \notin UNION pairs /\ Cardinality(origins) >= 2 -> "corroborated"
              [] c \notin UNION pairs /\ Cardinality(origins) = 1 -> "single_source"
              [] OTHER -> "unverified"]

---------------------------------------------------------------------------
\* What users and hosts do.

Init ==
    /\ messages = <<>> /\ project = [c \in Chat |-> Library]
    /\ documents = <<>> /\ past = {}
    /\ units = <<>> /\ vectors = <<>> /\ mentions = {} /\ evidence = <<>> /\ texts = <<>>
    /\ temporal = <<>> /\ contradictions = {} /\ verification = <<>>
    /\ at = "rest" /\ signature = NoSignature
    /\ convergence = "pending" /\ cycleFailed = FALSE
    /\ built = {} /\ since = {} /\ changes = 0 /\ failures = 0

Change ==
    /\ changes < MaxChanges
    /\ changes' = changes + 1
    /\ UNCHANGED <<projectionVars, maintainerVars, built, since, failures>>

Capture(m, chat, text) ==
    /\ m = Cardinality(DOMAIN messages) + 1 /\ text # Empty
    /\ messages' = [n \in DOMAIN messages \cup {m} |->
                       IF n = m THEN [chat |-> chat, text |-> text] ELSE messages[n]]
    /\ Change
    /\ UNCHANGED <<project, documents, past>>

MoveChat(chat, p) ==
    /\ project[chat] # p
    /\ project' = [project EXCEPT ![chat] = p]
    /\ Change
    /\ UNCHANGED <<messages, documents, past>>

\* Mutant: documents change beside the maintainer.
LockIsFreeAlways == TRUE

\* The maintainer holds source_operation_lock from its inspection to its end.
LockIsFree == at = "rest"

\* A new document, or a new text of one: a trigger keeps the former.
StoreDocument(d, text) ==
    /\ LockIsFree
    /\ d \in DOMAIN documents => documents[d].text # text
    /\ LET known == d \in DOMAIN documents
       IN  /\ documents' = [e \in DOMAIN documents \cup {d} |->
                  IF e # d THEN documents[e]
                  ELSE [rev |-> IF known THEN documents[d].rev + 1 ELSE 1,
                        text |-> text, stamp |-> changes + 1]]
           /\ past' = IF known
                      THEN past \cup {[doc |-> d, rev |-> documents[d].rev,
                                       text |-> documents[d].text, stamp |-> documents[d].stamp]}
                      ELSE past
    /\ Change
    /\ UNCHANGED <<messages, project>>

RemoveDocument(d) ==
    /\ LockIsFree
    /\ d \in DOMAIN documents
    /\ documents' = [e \in DOMAIN documents \ {d} |-> documents[e]]
    /\ past' = {h \in past : h.doc # d}
    /\ Change
    /\ UNCHANGED <<messages, project>>

SourceChange ==
    \/ \E m \in Message, c \in Chat, t \in Text : Capture(m, c, t)
    \/ \E c \in Chat, p \in Project : MoveChat(c, p)
    \/ \E d \in Document, t \in Text : StoreDocument(d, t)
    \/ \E d \in Document : RemoveDocument(d)

---------------------------------------------------------------------------
\* The maintainer.

\* Units that are missing, left over or elsewhere, and vectors that failed.
Pending ==
    \/ units # Units(Sources)
    \/ DOMAIN vectors # DOMAIN Units(Sources)
    \/ \E u \in DOMAIN vectors : vectors[u] # "indexed"

\* inspect_derived_state.  The projections are the maintainer's own, so their
\* signature never differs from the one it recorded.
RequiresCycle == signature # Sources \/ Pending

Inspect ==
    /\ at = "rest"
    /\ since' = Sources
    /\ IF RequiresCycle
       THEN at' = "cycle" /\ convergence' = "backfilling"
       ELSE at' = "rest" /\ convergence' = "converged"
    /\ UNCHANGED <<sourceVars, projectionVars, signature, cycleFailed, built, changes, failures>>

\* A DELETE names every piece of evidence in one statement, which SQLite
\* refuses beyond its limit of variables.
TooManyVariables == Cardinality({s \in Sources : FormOf[s.text] # NoForm}) > MaxVariables

\* All projections in one transaction.
RunCycle(failing) ==
    LET all == Units(Sources)
        found == Mentions(all)
    IN  /\ at = "cycle"
        /\ failing \subseteq DOMAIN all \ Embedded
        /\ ~TooManyVariables
        /\ failing # {} => failures < MaxFailures
        /\ failures' = IF failing = {} THEN failures ELSE failures + 1
        /\ units' = all /\ vectors' = Vectors(all, failing)
        /\ mentions' = found /\ evidence' \in Filings(all, found)
        /\ texts' \in Wordings(evidence')
        /\ contradictions' = Contradictions(evidence', Temporal(evidence'), texts')
        /\ temporal' = Disputing(evidence', Temporal(evidence'), contradictions')
        /\ verification' = Verification(all, evidence', temporal', contradictions')
        /\ at' = "inspect" /\ cycleFailed' = (failing # {})
        /\ built' = Sources
        /\ UNCHANGED <<sourceVars, signature, convergence, since, changes>>

\* Mutant: a cycle with failed vectors counts as converged.
CycleConvergedAlways == TRUE

CycleConverged == ~cycleFailed

\* The database is inspected once more after the commit, when more may have
\* been captured; that signature is the one to compare with.
InspectAfter ==
    /\ at = "inspect"
    /\ at' = "rest"
    /\ IF CycleConverged
       THEN signature' = Sources /\ convergence' = "converged"
       ELSE signature' = signature /\ convergence' = "behind"
    /\ UNCHANGED <<sourceVars, projectionVars, cycleFailed, built, since, changes, failures>>

\* Any exception: the transaction is rolled back.
Fails ==
    /\ at # "rest"
    /\ IF at = "cycle" /\ TooManyVariables THEN failures' = failures
       ELSE failures < MaxFailures /\ failures' = failures + 1
    /\ at' = "rest" /\ convergence' = "behind"
    /\ UNCHANGED <<sourceVars, projectionVars, signature, cycleFailed, built, since, changes>>

\* The runtime stops or crashes and starts again.
Restart ==
    /\ failures < MaxFailures
    /\ failures' = failures + 1
    /\ at' = "rest" /\ signature' = NoSignature
    /\ convergence' = "pending" /\ cycleFailed' = FALSE
    /\ UNCHANGED <<sourceVars, projectionVars, built, since, changes>>

Maintain ==
    \/ Inspect \/ InspectAfter \/ Fails
    \/ at = "cycle" /\ \E failing \in SUBSET DOMAIN Units(Sources) : RunCycle(failing)

Next == SourceChange \/ Maintain \/ Restart

\* The loop of the maintainer goes on for as long as the runtime does.
Spec == Init /\ [][Next]_vars /\ WF_vars(Maintain)
=============================================================================
