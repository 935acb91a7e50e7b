------------------------- MODULE DocumentsProperties -------------------------
(***************************************************************************)
(* What the elected documents promise.                                     *)
(***************************************************************************)
EXTENDS Documents

Document == [key : Path, file : File, rev : Nat, history : SUBSET [rev : Nat, text : Text]]

\* Types, and the unique keys of the schema.
DocumentsTypeOK ==
    /\ disk \in [Path -> File \cup {NoFile}]
    /\ elected \subseteq Source /\ errors \subseteq Source
    /\ Documents \subseteq Path /\ docs \in [Documents -> Document]
    /\ \A d, e \in Documents : docs[d].key = docs[e].key => d = e
    /\ members \subseteq elected \X Documents
    /\ lock \in Thread \cup {"free"}

\* A document is in the Library because of a source that is authorized now:
\* revocations, overlapping sources, failed scans and restarts in any order
\* leave none behind.
NoOrphans ==
    \A d \in Documents : \E s \in elected : <<s, d>> \in members

\* A source loses a document only to a scan of its own files: neither the
\* revocation nor a scan of an overlapping source takes it.
SharedSurvives ==
    [][\A s \in elected \cap elected', d \in Documents :
          <<s, d>> \in members \ members' =>
              \E t \in Thread : /\ job[t].at = "read" /\ Current(t) = s
                                /\ job'[t] # job[t]]_vars

\* What a search finds in documents is their present text.
IndexFollowsDocuments ==
    /\ DOMAIN index = Documents
    /\ \A d \in Documents : index[d] = docs[d].file.text

\* The newest revisions, at most MaxHistorical, are kept, and none between
\* them is missing.
NewestRevisionsKept ==
    \A d \in Documents :
        {h.rev : h \in docs[d].history} =
            {r \in 1 .. docs[d].rev - 1 : r + MaxHistorical >= docs[d].rev}

\* What is stored of a path is never replaced by something read before it.
NeverGoesBack ==
    [][\A d \in Documents, e \in DOMAIN docs' :
          docs'[e].key = docs[d].key => docs'[e].file.since >= docs[d].file.since]_vars

---------------------------------------------------------------------------

\* The Library has the files of the source as they are, and no others.
Follows(s) ==
    /\ \A p \in Covers[s] : Present(p) =>
          \E d \in Documents : /\ <<s, d>> \in members
                               /\ docs[d].key = p /\ docs[d].file = disk[p]
    /\ \A d \in Documents : <<s, d>> \in members =>
          docs[d].key \in Covers[s] /\ Present(docs[d].key)

\* Whatever happened to the disk, a source that stays authorized is followed,
\* or the maintainer reports an error of it again and again.
FollowedOrReported ==
    \A s \in Source :
        <>[](s \in elected) => []<>(Follows(s) \/ s \in errors)

---------------------------------------------------------------------------

\* The tables agree with each other after any transaction of a scan, election
\* or revocation: typed, owned by a source that is authorized, indexed by the
\* present text, and with the newest revisions.
TablesAgree ==
    DocumentsTypeOK /\ NoOrphans /\ IndexFollowsDocuments /\ NewestRevisionsKept
=============================================================================
