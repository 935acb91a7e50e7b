---------------------------- MODULE LibraryReads ----------------------------
(***************************************************************************)
(* Reads of the Library: the query service behind the MCP server of a      *)
(* frontier client, and behind the managed reader of a trusted manager.    *)
(* The access mode is a file; a read has no transaction, every statement   *)
(* sees the database of its own moment, and the search in the index uses a *)
(* connection of its own.  Meanwhile chats are captured and moved,         *)
(* documents revised and revoked, and the derived state rebuilt.           *)
(*                                                                         *)
(* A message stands for a chat with that message.  A text has one piece of *)
(* evidence; sources and texts are numbers, by whose order identifiers and *)
(* similarities to the query are compared.                                 *)
(***************************************************************************)
EXTENDS Naturals, Sequences, FiniteSets, SequencesExt

CONSTANTS
    Message, Document, Project,
    Text, Matching,        \* those that contain every token of the query
    Absent,                \* no file, no project
    LaunchMode,            \* what an MCP server may be launched with
    Limit,                 \* what a request may be limited to
    MaxLexical, MaxVector, MaxCandidates, MaxResults, RankConstant,
    MaxChanges             \* bound of the model

Source == Message \cup Document
Broken == "broken"    \* a file that cannot be read or parsed
AnyProject == "any"    \* a request without a project
Unknown == "unknown"    \* one for a project that the Library does not have
Mode == {"DIRECT_LOCAL", "MANAGED_EXCLUSIVE", "DISABLED"}

ASSUME ReadsAssumption ==
    /\ IsFiniteSet(Source) /\ {Absent, Unknown} \cap Project = {} /\ Absent \notin Mode \cup {Broken}
    /\ Text \subseteq Nat \ {0} /\ Source \subseteq Text /\ Matching \subseteq Text
    /\ LaunchMode \subseteq Mode \cup {Absent}
    /\ Limit \subseteq Nat /\ {MaxLexical, MaxVector, MaxCandidates, MaxResults, RankConstant} \subseteq Nat \ {0}
    /\ MaxCandidates <= MaxVector

VARIABLES
    home, said, past, derived,    \* projects and texts of sources, former texts; evidence
    policy, gate, authority,   \* the mode file; what the server resolves; the manager's lease
    request,                   \* the request that is served
    changes, seen, open, quiet    \* bound; history: see LibraryReadsProperties

libraryVars == <<home, said, past, derived>>
accessVars == <<policy, gate, authority>>
historyVars == <<seen, open, quiet>>
vars == <<libraryVars, accessVars, request, changes, historyVars>>

NoRequest ==
    [at |-> "idle", caller |-> "none", op |-> "none", project |-> AnyProject, limit |-> 0, id |-> <<0, 0>>,
     found |-> <<>>, lexical |-> <<>>, ranked |-> <<>>, items |-> <<>>, truncated |-> FALSE]

NotAsked == [policy |-> FALSE, authority |-> FALSE, shut |-> FALSE]

---------------------------------------------------------------------------
\* The database.  An identifier is a source with a text that it has or had, or
\* with 0 for the source itself.

Present == {s \in Source : home[s] # Absent}

Item(id, text, project) == [id |-> id, text |-> text, project |-> project]

EvidenceItem(id) == {e \in derived : e.id = id}

\* The evidence of all texts, former ones included.
Evidence == {Item(id, id[2], home[id[1]]) : id \in past \cup {<<s, said[s]>> : s \in Present}}

SourceItem(id) ==
    {Item(<<s, 0>>, said[s], home[s]) : s \in {t \in Present : id = <<t, 0>>}}

Before(i, j) == i[1] < j[1] \/ (i[1] = j[1] /\ i[2] < j[2])

First(n, seq) == SubSeq(seq, 1, IF n < Len(seq) THEN n ELSE Len(seq))

\* The elements of a set in an order, given as a set of pairs: each stands behind
\* as many as come before it.
Sorted(S, order) ==
    LET before == [s \in S |-> Cardinality({t \in S : <<t, s>> \in order})]
    IN  [i \in 1..Cardinality(S) |-> CHOOSE s \in S : before[s] = i - 1]

\* search_all_local_history: the index has the current text of each source.
Found == First(MaxLexical,
    Sorted({s \in Present : said[s] \in Matching}, {pair \in Source \X Source : pair[1] < pair[2]}))

\* What a source in the index says that has the tokens of the query.
MatchingEvidence(s) ==
    Sorted({e \in derived : e.id[1] = s /\ e.text \in Matching},
           {pair \in derived \X derived : Before(pair[1].id, pair[2].id)})

Nearer(e, f) == e.text > f.text \/ (e.text = f.text /\ Before(e.id, f.id))

\* VectorRetriever.retrieve
Similar == First(MaxVector, Sorted(derived, {pair \in derived \X derived : Nearer(pair[1], pair[2])}))

---------------------------------------------------------------------------
\* RRFFuser.fuse and IdentityReranker.rerank.

Ranks(id, family) == {i \in DOMAIN family : family[i].id = id}

\* Mutant: a rank in the second family replaces that in the first.
ScoreLast(id, lexical, vector) ==
    LET ranks == IF Ranks(id, vector) # {} THEN Ranks(id, vector) ELSE Ranks(id, lexical)
    IN  [num |-> 1, den |-> RankConstant + CHOOSE r \in ranks : TRUE]

\* The sum of 1 / (k + rank) over the families, as a fraction.
Score(id, lexical, vector) ==
    LET den(family) == RankConstant + CHOOSE r \in Ranks(id, family) : TRUE
    IN  CASE Ranks(id, vector) = {} -> [num |-> 1, den |-> den(lexical)]
          [] Ranks(id, lexical) = {} -> [num |-> 1, den |-> den(vector)]
          [] OTHER -> [num |-> den(lexical) + den(vector), den |-> den(lexical) * den(vector)]

\* A piece of evidence in both families is the candidate of the first.
Candidates(lexical, vector) ==
    ToSet(lexical) \cup {c \in ToSet(vector) : Ranks(c.id, lexical) = {}}

\* By their scores, and then by identifier.
Preferred(c, d, lexical, vector) ==
    LET p == Score(c.id, lexical, vector)
        q == Score(d.id, lexical, vector)
    IN  p.num * q.den > q.num * p.den \/ (p.num * q.den = q.num * p.den /\ Before(c.id, d.id))

Fused(lexical, vector) ==
    LET all == Candidates(lexical, vector)
    IN  Sorted(all, {pair \in all \X all : Preferred(pair[1], pair[2], lexical, vector)})

\* Mutant: only as many candidates as are asked for.
RerankedEarly(fused, limit) == First(limit, fused)

Reranked(fused, limit) == First(MaxCandidates, fused)

---------------------------------------------------------------------------

\* Sources begin with different texts.
Init ==
    /\ home \in [Source -> Project \cup {Absent}]
    /\ said = [s \in Source |-> s] /\ past = {}
    /\ derived = Evidence
    /\ policy = Absent /\ gate = Absent /\ authority = TRUE
    /\ request = NoRequest
    /\ changes = 0 /\ seen = {} /\ open = NotAsked /\ quiet = TRUE

Located ==
    {<<e.id, e.project>> : e \in derived} \cup {<<<<s, 0>>, home[s]>> : s \in Present}

\* Whether the human's choice lets a caller read.
Selected(caller) ==
    policy \in {Absent, "DIRECT_LOCAL"} \cup (IF caller = "manager" THEN {"MANAGED_EXCLUSIVE"} ELSE {})

---------------------------------------------------------------------------
\* StdioMcpServer: a process of the frontier client, one request at a time.  It
\* resolves the mode file in each decision, unless it was launched with a mode
\* and without that file.

Launch(mode) ==
    /\ request.at = "idle"
    /\ gate' = IF policy # Absent \/ mode = Absent THEN Absent ELSE mode
    /\ UNCHANGED <<libraryVars, policy, authority, request, changes, historyVars>>

Bounded(limit) == IF limit < MaxResults THEN limit ELSE MaxResults

Ask(caller, op, project, limit, id) ==
    /\ request.at = "idle"
    /\ request' = [NoRequest EXCEPT !.at = IF caller = "manager" THEN "require" ELSE "authorize",
                       !.caller = caller, !.op = op, !.project = project, !.limit = limit, !.id = id]
    /\ seen' = Located /\ quiet' = TRUE
    /\ open' = [policy |-> Selected(caller), authority |-> authority,
                 shut |-> ~Selected(caller) \/ (caller = "manager" /\ ~authority)]
    /\ UNCHANGED <<libraryVars, accessVars, changes>>

Reads == UNCHANGED <<libraryVars, accessVars, changes, historyVars>>
Goes(place) == request' = [request EXCEPT !.at = place]

\* An error or a denial: the answer has no items.
Refused == request' = [request EXCEPT !.at = "refused", !.items = <<>>, !.ranked = <<>>]

\* ManagedLibraryReader.call
Require ==
    /\ request.at = "require"
    /\ CASE ~authority \/ request.project = Unknown -> Refused
         [] authority /\ request.project # Unknown /\ request.op = "get" -> Goes("itemProject")
         [] OTHER -> Goes("authorize")
    /\ Reads

\* Mutant: the scope of an item is not compared.
SameScopeAny(item) == TRUE

SameScope(item) == item.project = request.project

ItemProject ==
    /\ request.at = "itemProject"
    /\ IF \E item \in EvidenceItem(request.id) \cup SourceItem(request.id) : SameScope(item)
       THEN Goes("authorize") ELSE Refused
    /\ Reads

\* Mutant: a file that cannot be read is as one that is not there.
ReadModeOpen(content) == IF content \in {Absent, Broken} THEN "DIRECT_LOCAL" ELSE content

ReadMode(content) ==
    CASE content = Absent -> "DIRECT_LOCAL" [] content = Broken -> "DISABLED" [] OTHER -> content

ModeFor(caller) == IF caller = "manager" \/ gate = Absent THEN ReadMode(policy) ELSE gate

FirstStep(op) == CASE op = "search" -> "index" [] op = "get" -> "evidence" [] OTHER -> "statement"

\* LibraryAccessGate.authorize; a manager's authority is read after the mode.
\* Then the request itself is looked at.
Authorize ==
    /\ request.at = "authorize"
    /\ IF \/ ModeFor(request.caller) = "DISABLED"
          \/ request.caller = "frontier" /\ ModeFor("frontier") # "DIRECT_LOCAL"
          \/ request.limit = 0 \/ request.project = Unknown
       THEN Refused
       ELSE Goes(IF request.caller = "manager" THEN "authority" ELSE FirstStep(request.op))
    /\ Reads

ReadAuthority ==
    /\ request.at = "authority"
    /\ IF authority THEN Goes(FirstStep(request.op)) ELSE Refused
    /\ Reads

SearchIndex ==
    /\ request.at = "index"
    /\ request' = [request EXCEPT !.at = "lexical", !.found = Found]
    /\ Reads

\* The evidence of one source after the other, and then all vectors.
RankLexical ==
    /\ request.at = "lexical" /\ request.found # <<>>
    /\ request' = [request EXCEPT !.found = Tail(@),
                       !.lexical = First(MaxLexical, @ \o MatchingEvidence(Head(request.found)))]
    /\ Reads

Rank ==
    /\ request.at = "lexical" /\ request.found = <<>>
    /\ request' = [request EXCEPT !.at = "items", !.lexical = <<>>,
                       !.ranked = Reranked(Fused(request.lexical, Similar), Bounded(request.limit))]
    /\ Reads

InScope(candidate) == request.project \in {AnyProject, candidate.project}

\* The next candidate is read again: it may be gone, or elsewhere.
ReadItem ==
    /\ request.at = "items"
    /\ request.ranked # <<>> /\ Len(request.items) < Bounded(request.limit)
    /\ request' = [request EXCEPT !.ranked = Tail(@),
           !.items = @ \o IF InScope(Head(request.ranked))
                          THEN SetToSeq(EvidenceItem(Head(request.ranked).id)) ELSE <<>>]
    /\ Reads

EndSearch ==
    /\ request.at = "items"
    /\ request.ranked = <<>> \/ Len(request.items) = Bounded(request.limit)
    /\ request' = [request EXCEPT !.at = "format", !.ranked = <<>>]
    /\ Reads

\* get_library_item: evidence, or else a source.
GetEvidence ==
    /\ request.at = "evidence"
    /\ IF EvidenceItem(request.id) = {} THEN Goes("source")
       ELSE request' = [request EXCEPT !.at = "format", !.items = SetToSeq(EvidenceItem(request.id))]
    /\ Reads

GetSource ==
    /\ request.at = "source"
    /\ IF SourceItem(request.id) = {} THEN Refused
       ELSE request' = [request EXCEPT !.at = "format", !.items = SetToSeq(SourceItem(request.id))]
    /\ Reads

\* recent_library_context in one statement.  Which sources are the latest is
\* left open.
Recent ==
    /\ request.at = "statement"
    /\ LET all == {s \in Present : request.project \in {AnyProject, home[s]}}
           size == Bounded(request.limit)
       IN  \E some \in SUBSET all :
             /\ Cardinality(some) = IF size < Cardinality(all) THEN size ELSE Cardinality(all)
             /\ request' = [request EXCEPT !.at = "format",
                    !.items = SetToSeq(UNION {SourceItem(<<s, 0>>) : s \in some})]
    /\ Reads

\* bounded_payload: the items that fit, in order.
Format ==
    /\ request.at = "format"
    /\ \E fit \in 0..Len(request.items) :
         request' = [request EXCEPT !.at = "answered", !.items = First(fit, @),
                         !.truncated = fit < Len(request.items)]
    /\ Reads

Answer ==
    /\ request.at \in {"answered", "refused"}
    /\ request' = NoRequest
    /\ seen' = {} /\ open' = NotAsked /\ quiet' = TRUE
    /\ UNCHANGED <<libraryVars, accessVars, changes>>

---------------------------------------------------------------------------
\* What others do to the Library and to the mode.

Serving == request.at # "idle"

Change == changes < MaxChanges /\ changes' = changes + 1

LibraryChanges ==
    /\ seen' = IF Serving THEN seen \cup Located' ELSE seen
    /\ quiet' = ~Serving
    /\ UNCHANGED <<accessVars, request, open>>

\* A new source, or a new text of a document.
Write(s, p, text) ==
    /\ Change
    /\ s \in Present => s \in Document /\ p = home[s] /\ text # said[s]
    /\ home' = [home EXCEPT ![s] = p]
    /\ said' = [said EXCEPT ![s] = text]
    /\ past' = past \cup {<<d, said[d]>> : d \in Present \cap {s}}
    /\ derived' = derived
    /\ LibraryChanges

Move(s, p) ==
    /\ Change
    /\ s \in Message \cap Present /\ p # home[s]
    /\ home' = [home EXCEPT ![s] = p]
    /\ UNCHANGED <<said, past, derived>>
    /\ LibraryChanges

Revoke(s) ==
    /\ Change
    /\ s \in Document \cap Present
    /\ home' = [home EXCEPT ![s] = Absent]
    /\ past' = {id \in past : id[1] # s}
    /\ UNCHANGED <<said, derived>>
    /\ LibraryChanges

\* A cycle of the maintainer.
Rebuild ==
    /\ derived' = Evidence /\ derived # Evidence
    /\ UNCHANGED <<home, said, past, changes>>
    /\ LibraryChanges

\* LibraryAccessPolicyStore.set_mode, a damaged file, and its removal.
SetMode(content) ==
    /\ Change
    /\ policy' = content /\ policy # content
    /\ UNCHANGED <<libraryVars, gate, authority, request, seen, quiet>>
    /\ open' = [open EXCEPT !.policy = @ \/ (Serving /\ Selected(request.caller)'),
                            !.shut = @ \/ (Serving /\ ~Selected(request.caller)')]

LoseAuthority ==
    /\ Change
    /\ authority /\ authority' = FALSE
    /\ open' = [open EXCEPT !.shut = @ \/ request.caller = "manager"]
    /\ UNCHANGED <<libraryVars, policy, gate, request, seen, quiet>>

---------------------------------------------------------------------------
Search == SearchIndex \/ RankLexical \/ Rank \/ ReadItem \/ EndSearch

\* A manager asks for its project, a frontier client for any, for all of them,
\* or for one item; either may name what is not there.
Asks ==
    \/ \E caller \in {"frontier", "manager"}, op \in {"search", "recent"}, limit \in Limit :
          \E p \in Project \cup {Unknown} \cup (IF caller = "frontier" THEN {AnyProject} ELSE {}) :
             Ask(caller, op, p, limit, <<0, 0>>)
    \/ \E id \in {<<s, 0>> : s \in Source} \cup {e.id : e \in derived} :
          \/ Ask("frontier", "get", AnyProject, 1, id)
          \/ \E p \in Project \cup {Unknown} : Ask("manager", "get", p, 1, id)

Next ==
    \/ \E mode \in LaunchMode : Launch(mode)
    \/ Asks
    \/ Require \/ ItemProject \/ Authorize \/ ReadAuthority
    \/ Search \/ GetEvidence \/ GetSource \/ Recent \/ Format \/ Answer
    \/ \E s \in Source, p \in Project : Move(s, p) \/ \E text \in Text : Write(s, p, text)
    \/ \E s \in Source : Revoke(s)
    \/ Rebuild \/ LoseAuthority
    \/ \E content \in Mode \cup {Absent, Broken} : SetMode(content)

Spec == Init /\ [][Next]_vars
=============================================================================
