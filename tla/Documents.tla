----------------------------- MODULE Documents -----------------------------
(***************************************************************************)
(* The elected documents of a project: sources that the user authorizes,   *)
(* rescans and revokes, and the maintainer that reconciles them with the   *)
(* files on disk.                                                          *)
(*                                                                         *)
(* The user interface and the maintainer work under source_operation_lock. *)
(* Files are listed and read one at a time and stored in one transaction,  *)
(* and other programs change the disk between any two of these steps.      *)
(* Paths are numbers, in the order in which a scan visits them.  A         *)
(* document is named after the path it was first seen at: that is what     *)
(* _document_id() hashes.                                                  *)
(***************************************************************************)
EXTENDS Naturals, FiniteSets, FiniteSetsExt

CONSTANTS
    Path,           \* files that a source may contain
    Source,
    Covers,         \* of each source: the paths it stands for
    FileId,         \* identities of files, used again after a file is gone
    Text, Bad,      \* what can be read, and what is not UTF-8
    MaxHistorical,  \* _MAX_HISTORICAL_REVISIONS
    MaxChanges, MaxRestarts   \* bounds of the model

ASSUME DocumentsAssumption ==
    /\ Path \subseteq Nat /\ IsFiniteSet(Path)
    /\ Source \subseteq Nat /\ Covers \in [Source -> SUBSET Path]
    /\ Bad \notin Text
    /\ {MaxHistorical, MaxChanges, MaxRestarts} \subseteq Nat

VARIABLES
    disk,      \* of each path: its file or NoFile
    elected,   \* elected_sources
    docs,      \* documents with their revision history
    index,     \* lexical_entries of documents
    members,   \* document_source_memberships
    job,       \* of the maintainer and the user interface: what they are doing
    lock,      \* holder of source_operation_lock
    errors,    \* sources with an error in the maintainer's last cycle
    changes, restarts

libraryVars == <<elected, docs, index, members>>
vars == <<disk, libraryVars, job, lock, errors, changes, restarts>>

Thread == {"scan", "ui"}
NoFile == [text |-> "none"]
File == [id : FileId, text : Text \cup {Bad}, since : 0 .. MaxChanges]
Resting == [at |-> "rest"]
Documents == DOMAIN docs

Init ==
    /\ disk = [p \in Path |-> NoFile]
    /\ elected = {} /\ docs = <<>> /\ index = <<>> /\ members = {}
    /\ job = [t \in Thread |-> Resting]
    /\ lock = "free" /\ errors = {}
    /\ changes = 0 /\ restarts = 0

---------------------------------------------------------------------------
\* The disk: any program may write, remove and rename.

Present(p) == disk[p] # NoFile

Changed(d) ==
    /\ changes < MaxChanges
    /\ changes' = changes + 1
    /\ disk' = d
    /\ UNCHANGED <<libraryVars, job, lock, errors, restarts>>

\* An edit in place, a replacement or a new file.
Write(p, i, text) ==
    /\ \A q \in Path \ {p} : Present(q) => disk[q].id # i
    /\ Changed([disk EXCEPT ![p] = [id |-> i, text |-> text, since |-> changes + 1]])

RemoveFile(p) ==
    /\ Present(p)
    /\ Changed([disk EXCEPT ![p] = NoFile])

Rename(p, q) ==
    /\ Present(p) /\ p # q
    /\ Changed([disk EXCEPT ![p] = NoFile,
                            ![q] = [disk[p] EXCEPT !.since = changes + 1]])

DiskStep ==
    \E p \in Path :
        \/ \E i \in FileId, text \in Text \cup {Bad} : Write(p, i, text)
        \/ RemoveFile(p)
        \/ \E q \in Path : Rename(p, q)

---------------------------------------------------------------------------
\* sync_elected_source: list, read, store.

\* What a thread does with sources s, in their order: the first of them now.
Syncing(s) == [at |-> "list", todo |-> s]
Current(t) == Min(job[t].todo)

\* Mutant: threads do not wait for each other.
LockIsFreeAlways == TRUE

LockIsFree == lock = "free"

Listed(s) == {p \in Covers[s] : Present(p)}

Continue(t, step) == job' = [job EXCEPT ![t] = step]

\* The thread turns to its next source.  The maintainer notes an error and
\* goes on; an error of the user interface ends its request.
NextSource(t, failed) ==
    /\ Continue(t, Syncing(job[t].todo \ {Current(t)}))
    /\ errors' = IF t = "scan" /\ failed THEN errors \cup {Current(t)} ELSE errors

List(t) ==
    /\ job[t].at = "list" /\ job[t].todo # {}
    /\ Current(t) \in elected
    /\ Continue(t, [at |-> "read", todo |-> job[t].todo, mark |-> changes,
                    left |-> Listed(Current(t)), found |-> {}])
    /\ UNCHANGED <<disk, libraryVars, lock, errors, changes, restarts>>

\* KeyError: the source is gone, which the maintainer takes for no error.
Gone(t) ==
    /\ \/ job[t].at = "list" /\ job[t].todo # {}
       \/ job[t].at = "read" /\ job[t].left = {}
    /\ Current(t) \notin elected
    /\ NextSource(t, FALSE)
    /\ UNCHANGED <<disk, libraryVars, lock, changes, restarts>>

Reads(t, p) ==
    /\ job[t].at = "read" /\ p \in job[t].left
    /\ \A q \in job[t].left : p <= q

\* A file that is still there and can be decoded.
Read(t) ==
    /\ \E p \in Path :
        /\ Reads(t, p) /\ Present(p) /\ disk[p].text # Bad
        /\ Continue(t, [job[t] EXCEPT
               !.left = @ \ {p}, !.mark = changes,
               !.found = @ \cup {[path |-> p, file |-> disk[p]]}])
    /\ UNCHANGED <<disk, libraryVars, lock, errors, changes, restarts>>

\* A file that is gone, cannot be decoded or changed since the last step, when
\* it may have been open: nothing of the source is stored.
ReadFails(t) ==
    /\ \E p \in Path :
        /\ Reads(t, p)
        /\ Present(p) => disk[p].text = Bad \/ disk[p].since > job[t].mark
    /\ NextSource(t, TRUE)
    /\ UNCHANGED <<disk, libraryVars, lock, changes, restarts>>

---------------------------------------------------------------------------
\* The transaction that stores what was found.

Pruned(history) ==
    {h \in history : Cardinality({g \in history : g.rev > h.rev}) < MaxHistorical}

New(snapshot) ==
    [key |-> snapshot.path, file |-> snapshot.file, rev |-> 1, history |-> {}]

\* The document with what was found.  When the text changed, a trigger keeps
\* the revision it replaces.
Updated(doc, snapshot) ==
    LET textChanged == doc.file.text # snapshot.file.text
    IN  [key |-> snapshot.path, file |-> snapshot.file,
         rev |-> IF textChanged THEN doc.rev + 1 ELSE doc.rev,
         history |-> Pruned(IF textChanged
                            THEN doc.history \cup {[rev |-> doc.rev, text |-> doc.file.text]}
                            ELSE doc.history)]

\* The documents that have a file: the one at its path, or else the only one
\* of the source that had this identity at a path that is gone, which the
\* first of the new files takes.
Holder(s, found, f) ==
    LET at(p) == {d \in Documents : docs[d].key = p}
        moved == {d \in Documents : /\ <<s, d>> \in members
                                    /\ docs[d].file.id = f.file.id
                                    /\ \A g \in found : g.path # docs[d].key}
        taken == \E g \in found : /\ g.path < f.path /\ g.file.id = f.file.id
                                  /\ at(g.path) = {}
    IN  IF at(f.path) # {} THEN at(f.path)
        ELSE IF Cardinality(moved) = 1 /\ ~taken THEN moved ELSE {}

\* What is found, by the document that it is stored in: one with its file's
\* path for a name if none has it yet.
Placed(s, found) ==
    LET name(f) == LET h == Holder(s, found, f)
                   IN  IF h = {} THEN f.path ELSE CHOOSE d \in h : TRUE
    IN  [d \in {name(f) : f \in found} |-> CHOOSE f \in found : name(f) = d]

\* An insertion meets the identifier of a document that has moved away.
Conflict(s, found) ==
    \E f \in found : Holder(s, found, f) = {} /\ f.path \in Documents

StoredDocs(placed) ==
    [d \in Documents \cup DOMAIN placed |->
        IF d \notin DOMAIN placed THEN docs[d]
        ELSE IF d \in Documents THEN Updated(docs[d], placed[d]) ELSE New(placed[d])]

\* Indexed when it is new or has a new revision, or was not indexed.
StoredIndex(placed) ==
    [d \in DOMAIN index \cup DOMAIN placed |->
        IF /\ d \in DOMAIN placed
           /\ d \in Documents \cap DOMAIN index =>
                  docs[d].file.text # placed[d].file.text
        THEN placed[d].file.text ELSE index[d]]

\* Mutant: the documents of a source go with it, whoever else has them.
OrphansOfSource(m, candidates) == candidates

\* Mutant: documents are not looked at when they leave a source.
OrphansNever(m, candidates) == {}

Orphans(m, candidates) == {d \in candidates : \A s \in Source : <<s, d>> \notin m}

\* _cleanup_orphan_documents: a candidate that is in no source leaves the
\* index and the documents, with its revisions and memberships.
Kept(all, m, candidates) == [d \in DOMAIN all \ Orphans(m, candidates) |-> all[d]]

CleanIndex(all, m, candidates) == index' = Kept(all, m, candidates)

Cleanup(m, candidates) ==
    members' = {e \in m : e[2] \notin Orphans(m, candidates)}

\* Mutant: documents that were not seen stay in the source.
StaleKept(s, seen) == {}

Stale(s, seen) == {d \in Documents : <<s, d>> \in members} \ seen

Store(t) ==
    LET s == Current(t)
        placed == Placed(s, job[t].found)
        stale == Stale(s, DOMAIN placed)
        m == (members \ ({s} \X stale)) \cup ({s} \X DOMAIN placed)
    IN  /\ job[t].at = "read" /\ job[t].left = {} /\ s \in elected
        /\ ~Conflict(s, job[t].found)
        /\ docs' = Kept(StoredDocs(placed), m, stale)
        /\ CleanIndex(StoredIndex(placed), m, stale)
        /\ Cleanup(m, stale)
        /\ NextSource(t, FALSE)
        /\ UNCHANGED <<disk, elected, lock, changes, restarts>>

\* IntegrityError: rolled back.
StoreFails(t) ==
    /\ job[t].at = "read" /\ job[t].left = {} /\ Current(t) \in elected
    /\ Conflict(Current(t), job[t].found)
    /\ NextSource(t, TRUE)
    /\ UNCHANGED <<disk, libraryVars, lock, changes, restarts>>

---------------------------------------------------------------------------
\* The maintainer and the user interface.

\* The maintainer takes the lock and the list of sources.
StartCycle ==
    /\ job["scan"] = Resting /\ LockIsFree
    /\ lock' = "scan" /\ errors' = {}
    /\ Continue("scan", Syncing(elected))
    /\ UNCHANGED <<disk, libraryVars, changes, restarts>>

Release(t) ==
    /\ job[t] = Syncing({})
    /\ Continue(t, Resting)
    /\ lock' = "free"
    /\ UNCHANGED <<disk, libraryVars, errors, changes, restarts>>

\* Elected in a transaction of its own, then synchronized.
Authorize(s) ==
    /\ job["ui"] = Resting /\ LockIsFree
    /\ Cardinality(Covers[s]) = 1 => \A p \in Covers[s] : Present(p)
    /\ elected' = elected \cup {s}
    /\ lock' = "ui"
    /\ Continue("ui", Syncing({s}))
    /\ UNCHANGED <<disk, docs, index, members, errors, changes, restarts>>

Rescan(s) ==
    /\ job["ui"] = Resting /\ LockIsFree
    /\ lock' = "ui"
    /\ Continue("ui", Syncing({s}))
    /\ UNCHANGED <<disk, libraryVars, errors, changes, restarts>>

\* One transaction, whose deletion of the source cascades to its memberships.
Revoke(s) ==
    /\ job["ui"] = Resting /\ LockIsFree
    /\ s \in elected
    /\ elected' = elected \ {s}
    /\ LET mine == {d \in Documents : <<s, d>> \in members}
           m == members \ ({s} \X mine)
       IN  docs' = Kept(docs, m, mine) /\ CleanIndex(index, m, mine) /\ Cleanup(m, mine)
    /\ UNCHANGED <<disk, job, lock, errors, changes, restarts>>

\* The runtime stops or crashes: transactions are whole or undone.
Restart ==
    /\ restarts < MaxRestarts
    /\ restarts' = restarts + 1
    /\ job' = [t \in Thread |-> Resting]
    /\ lock' = "free" /\ errors' = {}
    /\ UNCHANGED <<disk, libraryVars, changes>>

Sync(t) ==
    List(t) \/ Gone(t) \/ Read(t) \/ ReadFails(t) \/ Store(t) \/ StoreFails(t)

Request ==
    \E s \in Source : Authorize(s) \/ Rescan(s) \/ Revoke(s)

Next ==
    \/ DiskStep
    \/ \E t \in Thread : Sync(t) \/ Release(t)
    \/ StartCycle
    \/ Request
    \/ Restart

\* Both threads finish what they began; the maintainer starts again and again.
Spec ==
    /\ Init /\ [][Next]_vars
    /\ \A t \in Thread : WF_vars(Sync(t) \/ Release(t))
    /\ SF_vars(StartCycle)
=============================================================================
