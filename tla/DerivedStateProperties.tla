----------------------- MODULE DerivedStateProperties -----------------------
(***************************************************************************)
(* What the derived state promises, said of the sources themselves.        *)
(***************************************************************************)
EXTENDS DerivedState

UnitIds == [source : Message \cup Document, rev : Nat, text : Text]

\* Types, and the references that the schema demands between projections.
DerivedTypeOK ==
    /\ DOMAIN units \subseteq UnitIds
    /\ units \in [DOMAIN units -> [chat : Chat \cup {"none"}, project : Project, stamp : Nat]]
    /\ vectors \in [DOMAIN units -> {"indexed", "failed"}]
    /\ mentions \subseteq (DOMAIN units) \X UNION {EntitiesOf[t] : t \in Text}
    /\ DOMAIN evidence \subseteq DOMAIN units
    /\ DOMAIN temporal = DOMAIN evidence
    /\ DOMAIN texts = Claims(evidence) /\ DOMAIN verification = Claims(evidence)
    /\ UNION contradictions \subseteq Claims(evidence)
    /\ at \in {"rest", "cycle", "inspect"}
    /\ convergence \in {"pending", "backfilling", "behind", "converged"}

ClaimOf(s) == [form |-> FormOf[s.text], about |-> EntitiesOf[s.text]]

\* The sources whose evidence is filed under a claim.
Stating(c) ==
    {s \in built : HasUnit(s) /\ UnitId(s) \in DOMAIN evidence /\ evidence[UnitId(s)] = c}

\* The evidence is what the sources of the last whole cycle say, each filed
\* under the claim that it states or under one like it; every claim is stated
\* by one of its own sources, and no two claims are alike.  No cycle, however it
\* was interrupted, leaves parts of two.
EvidenceIsOfOneMoment ==
    /\ DOMAIN units = {UnitId(s) : s \in {t \in built : HasUnit(t)}}
    /\ \A s \in built : HasUnit(s) => units[UnitId(s)] = Home(s)
    /\ \A s \in built : HasUnit(s) /\ FormOf[s.text] # NoForm =>
           /\ UnitId(s) \in DOMAIN evidence
           /\ \/ evidence[UnitId(s)] = ClaimOf(s)
              \/ Alike(ClaimOf(s), evidence[UnitId(s)])
    /\ \A c \in Claims(evidence) : \E s \in Stating(c) : ClaimOf(s) = c
    /\ \A c, d \in Claims(evidence) : ~Alike(c, d)

\* A claim is corroborated when two documents or chats say it, or something like
\* it, now, whatever else said it before: neither old revisions nor repetitions
\* in a chat count.
CorroboratedIndependently ==
    \A c \in DOMAIN verification :
        LET origins == {IF s.id \in Message THEN s.chat ELSE s.id :
                           s \in {t \in Stating(c) : t.current}}
        IN  /\ verification[c] = "corroborated" => Cardinality(origins) >= 2
            /\ verification[c] = "single_source" => Cardinality(origins) = 1
            /\ verification[c] = "unverified" => origins = {}

\* Only a claim that is said now, or something like it, is in dispute: a new
\* revision settles what the former one said.
DisputedByPresent ==
    /\ \A c \in DOMAIN verification :
           verification[c] = "disputed" <=> c \in UNION contradictions
    /\ \A c \in UNION contradictions : \E s \in Stating(c) : s.current
    /\ \A s \in built : UnitId(s) \in DOMAIN temporal /\ ~s.current =>
           temporal[UnitId(s)] = "superseded"

\* When the maintainer reports convergence, all that was there when its round
\* began, and still is, can be found and has its vector.
ConvergedIsTrue ==
    convergence = "converged" =>
        \A s \in since \cap Sources : HasUnit(s) =>
            UnitId(s) \in DOMAIN units /\ vectors[UnitId(s)] = "indexed"

Current ==
    /\ {s \in built : HasUnit(s)} = {s \in Sources : HasUnit(s)}
    /\ convergence = "converged"
    /\ \A u \in DOMAIN vectors : vectors[u] = "indexed"

\* Once the captures pause, whatever failed and wherever the maintainer was,
\* all projections come to follow the sources: if these say no more than one
\* statement of SQL can name.
Converges == <>[](~TooManyVariables) => <>[]Current

\* All projections have the types and references of the schema and belong to one
\* moment of the sources.
ProjectionsAgree == DerivedTypeOK /\ EvidenceIsOfOneMoment

\* What is said of a claim, corroborated or disputed, follows from what is said
\* now by independent sources.
VerdictsFollowThePresent == CorroboratedIndependently /\ DisputedByPresent
=============================================================================
