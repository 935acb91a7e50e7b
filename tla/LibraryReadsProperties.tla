----------------------- MODULE LibraryReadsProperties -----------------------
(***************************************************************************)
(* What a read of the Library promises although it is many statements.     *)
(* seen has the projects in which each item was since the request, open    *)
(* whether the mode and the manager's authority ever allowed it since, or  *)
(* ever did not (shut), and quiet whether the Library stayed as it was.    *)
(***************************************************************************)
EXTENDS LibraryReads

Id == Source \X Nat

ReadsTypeOK ==
    /\ home \in [Source -> Project \cup {Absent}]
    /\ said \in [Source -> Text] /\ past \subseteq Id
    /\ \A e \in derived : e.id \in Id /\ e.text \in Text /\ e.project \in Project
    /\ policy \in Mode \cup {Absent, Broken} /\ gate \in LaunchMode \cup {Absent}
    /\ request.caller \in {"none", "frontier", "manager"}
    /\ request.op \in {"none", "search", "recent", "get"}
    /\ Len(request.items) <= MaxResults /\ Len(request.ranked) <= MaxCandidates

\* Nothing is read for a caller unless the human's choice, and for a manager its
\* authority, allowed it at some moment since the request.  A server that was
\* launched with a mode of its own, and without a mode file, is left out.
AnsweredUnderMode ==
    request.items # <<>> =>
        \/ request.caller = "frontier" /\ gate # Absent
        \/ open.policy /\ (request.caller = "manager" => open.authority)

\* A read for one project only returns what was in that project at some moment
\* since the request, and in no other way than it was there.
WasInScope ==
    \A i \in DOMAIN request.items :
        /\ <<request.items[i].id, request.items[i].project>> \in seen
        /\ request.project # AnyProject => <<request.items[i].id, request.project>> \in seen

\* Candidates stand in the order of their evidence: each once, and one that both
\* retrievers prefer to another before it.
RankedByBoth ==
    request.at = "lexical" /\ request.found = <<>> =>
        LET fused == Fused(request.lexical, Similar)
            over(i, j, family) ==
                \/ Ranks(fused[j].id, family) = {}
                \/ \E r \in Ranks(fused[i].id, family), q \in Ranks(fused[j].id, family) : r < q
        IN  /\ {c.id : c \in ToSet(fused)} = {c.id : c \in ToSet(request.lexical) \cup ToSet(Similar)}
            /\ \A i, j \in DOMAIN fused : i # j =>
                 /\ fused[i].id # fused[j].id
                 /\ over(i, j, request.lexical) /\ over(i, j, Similar)
                    /\ ~(over(j, i, request.lexical) /\ over(j, i, Similar)) => i < j

\* Whether the human's choice and the authority of a manager let the request
\* pass all the time.
AlwaysAllowed ==
    /\ ~open.shut
    /\ request.caller = "frontier" => gate \in {Absent, "DIRECT_LOCAL"}

\* An answer to a request has what there is, up to its limit and to what is
\* reported as truncated.  A search looks at MaxCandidates pieces of evidence
\* before it compares their projects, so that those of others may push out as
\* many of the project as they are themselves, but not more.
FoundAll ==
    CASE request.op = "get" -> Len(request.items) = 1
      [] request.op = "recent" ->
            LET all == {s \in Present : request.project \in {AnyProject, home[s]}}
            IN  Len(request.items) >= Bounded(request.limit) \/ Len(request.items) = Cardinality(all)
      [] OTHER ->
            LET all == {e \in derived : InScope(e)}
            IN  \/ Len(request.items) >= Bounded(request.limit)
                \/ Len(request.items) = Cardinality(all)
                \/ Len(request.items) + Cardinality(derived \ all) >= MaxCandidates

\* There is nothing that the request could have been answered with.
NothingToFind ==
    IF request.op = "get"
    THEN \A item \in EvidenceItem(request.id) \cup SourceItem(request.id) :
            request.caller = "manager" /\ item.project # request.project
    ELSE request.limit = 0 \/ request.project = Unknown

\* When nothing changes during a read, it finds all there is: what it answers is
\* complete, and it refuses, although it was allowed all the time, only what is
\* not there, or for a manager in another project.
QuietReadsAreComplete ==
    /\ quiet /\ request.at = "answered" /\ ~request.truncated => FoundAll
    /\ quiet /\ request.at = "refused" /\ AlwaysAllowed => NothingToFind

\* Answers keep their limits and the scope they were asked for.
AnswersKeepScope == ReadsTypeOK /\ WasInScope
=============================================================================
