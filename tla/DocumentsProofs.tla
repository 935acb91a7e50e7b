-------------------------- MODULE DocumentsProofs --------------------------
(***************************************************************************)
(* Proofs of the safety properties of the elected documents, for any files,*)
(* sources that overlap in any way, and any number of changes of the disk. *)
(* The lock makes what one thread has read the newest that anyone stores;  *)
(* the tables agree because each transaction leaves what it must.          *)
(***************************************************************************)
EXTENDS DocumentsProperties, FiniteSetTheorems, WellFoundedInduction, TLAPS

Snapshot == [path : Path, file : File]

Job ==
    {Resting} \cup [at : {"list"}, todo : SUBSET Source]
    \cup [at : {"read"}, todo : (SUBSET Source) \ {{}}, mark : Nat,
          left : SUBSET Path, found : SUBSET Snapshot]

\* A document as a transaction leaves it: its text was read, and its history
\* has the newest revisions, each once.
IsStored(doc) ==
    /\ doc \in Document /\ doc.rev # 0 /\ doc.file.text \in Text
    /\ {h.rev : h \in doc.history} =
           {r \in 1 .. doc.rev - 1 : r + MaxHistorical >= doc.rev}
    /\ \A g, h \in doc.history : g.rev = h.rev => g = h

\* Documents all and their index ix.
AreTables(all, ix) ==
    /\ DOMAIN all \subseteq Path /\ all \in [DOMAIN all -> Document]
    /\ \A d \in DOMAIN all : IsStored(all[d])
    /\ \A d, e \in DOMAIN all : all[d].key = all[e].key => d = e
    /\ DOMAIN ix = DOMAIN all
    /\ \A d \in DOMAIN all : ix[d] = all[d].file.text

TablesInv ==
    /\ AreTables(docs, index)
    /\ elected \subseteq Source /\ members \subseteq elected \X Documents
    /\ NoOrphans

\* A file that was at p, and that none there now is older than.
WasAt(p, file) ==
    file.since <= changes /\ (Present(p) => file.since <= disk[p].since)

DiskInv ==
    /\ changes \in 0 .. MaxChanges
    /\ disk \in [Path -> File \cup {NoFile}]
    /\ \A p \in Path : Present(p) => disk[p].since <= changes
    /\ \A d \in Documents : WasAt(docs[d].key, docs[d].file)

\* Who works holds the lock.
JobInv ==
    /\ job \in [Thread -> Job] /\ errors \subseteq Source
    /\ lock \in Thread \cup {"free"}
    /\ \A t \in Thread : job[t] # Resting => lock = t

\* What a thread has found is one file for a path, not older than what is
\* stored of it.
FoundInv(t) ==
    \A f \in job[t].found :
        /\ f.file.text \in Text /\ f.path \notin job[t].left
        /\ WasAt(f.path, f.file)
        /\ \A g \in job[t].found : f.path = g.path => f = g
        /\ \A d \in Documents : docs[d].key = f.path => docs[d].file.since <= f.file.since

ReadInv == \A t \in Thread : job[t].at = "read" => FoundInv(t)

DocumentsInv == TablesInv /\ DiskInv /\ JobInv /\ ReadInv

-----------------------------------------------------------------------------
\* The history of a document.

LEMMA PrunedHistory ==
    ASSUME NEW H \in SUBSET [rev : Nat, text : Text], NEW n \in Nat, NEW k \in Nat,
           {h.rev : h \in H} = {r \in 1 .. n : r + MaxHistorical >= k},
           \A g, h \in H : g.rev = h.rev => g = h
    PROVE  /\ Pruned(H) \subseteq H
           /\ {h.rev : h \in Pruned(H)} =
                  {r \in 1 .. n : r + MaxHistorical >= k /\ r + MaxHistorical > n}
<1>1. MaxHistorical \in Nat
  BY DocumentsAssumption
<1>2. \A h \in H : h.rev \in 1 .. n /\ h.rev + MaxHistorical >= k
  OBVIOUS
<1>3. \A r \in 1 .. n : r + MaxHistorical >= k => \E h \in H : h.rev = r
  <2>1. ASSUME NEW r \in 1 .. n, r + MaxHistorical >= k PROVE \E h \in H : h.rev = r
    <3>1. r \in {h.rev : h \in H}
      BY <2>1
    <3>2. QED
      BY <3>1
  <2>2. QED
    BY <2>1
<1>4. ASSUME NEW h \in H PROVE Cardinality({g \in H : g.rev > h.rev}) = n - h.rev
  <2> DEFINE U == {g \in H : g.rev > h.rev}
             J == (h.rev + 1) .. n
             f == [r \in J |-> CHOOSE g \in H : g.rev = r]
  <2>1. h.rev \in 1 .. n /\ h.rev + MaxHistorical >= k
    BY <1>2
  <2>2. \A r \in J : r \in 1 .. n /\ r > h.rev /\ r + MaxHistorical >= k
    BY <1>1, <2>1
  <2>3. \A r \in J : \E g \in H : g.rev = r
    BY <1>3, <2>2
  <2>4. \A r \in J : f[r] \in H /\ f[r].rev = r
    BY <2>3
  <2>5. \A r \in J : f[r] \in U
    BY <2>2, <2>4
  <2>6. \A g \in U : g.rev \in J /\ g \in H
    BY <1>2, <2>1
  <2>7. DOMAIN f = J /\ f = [r \in J |-> f[r]]
    OBVIOUS
  <2> HIDE DEF U, J, f
  <2>8. \A g \in U : f[g.rev] = g
    BY <2>4, <2>6
  <2>9. f \in Bijection(J, U)
    BY <2>4, <2>5, <2>6, <2>7, <2>8 DEF Bijection, Injection, Surjection, IsInjective
  <2>10. h.rev + 1 \in Int /\ n \in Int
    BY <2>1
  <2>11. IsFiniteSet(J) /\ Cardinality(J) = IF h.rev + 1 > n THEN 0 ELSE n - (h.rev + 1) + 1
    BY <2>10, FS_Interval DEF J
  <2>12. Cardinality(U) = Cardinality(J)
    BY <2>9, <2>11, FS_Bijection DEF ExistsBijection
  <2>13. Cardinality(J) = n - h.rev
    BY <2>1, <2>11
  <2>14. QED
    BY <2>12, <2>13 DEF U
<1>5. \A h \in H : h \in Pruned(H) <=> h.rev + MaxHistorical > n
  <2>1. \A h \in H : h \in Pruned(H) <=> n - h.rev < MaxHistorical
    BY <1>4 DEF Pruned
  <2>2. QED
    BY <1>1, <1>2, <2>1
<1>6. Pruned(H) \subseteq H
  BY DEF Pruned
<1>7. ASSUME NEW r \in {h.rev : h \in Pruned(H)}
      PROVE  r \in 1 .. n /\ r + MaxHistorical >= k /\ r + MaxHistorical > n
  BY <1>2, <1>5, <1>6
<1>8. ASSUME NEW r \in 1 .. n, r + MaxHistorical >= k, r + MaxHistorical > n
      PROVE  r \in {h.rev : h \in Pruned(H)}
  BY <1>3, <1>5, <1>8
<1>9. QED
  BY <1>6, <1>7, <1>8

LEMMA UpdatedIsStored ==
    ASSUME NEW doc, IsStored(doc), NEW snapshot \in Snapshot, snapshot.file.text \in Text
    PROVE  /\ IsStored(Updated(doc, snapshot))
           /\ Updated(doc, snapshot).key = snapshot.path
           /\ Updated(doc, snapshot).file = snapshot.file
<1> DEFINE n == doc.rev
           new == Updated(doc, snapshot)
           old == [rev |-> n, text |-> doc.file.text]
           H == doc.history
<1>1. /\ n \in Nat \ {0} /\ H \in SUBSET [rev : Nat, text : Text] /\ doc.file.text \in Text
      /\ {h.rev : h \in H} = {r \in 1 .. n - 1 : r + MaxHistorical >= n}
      /\ \A g, h \in H : g.rev = h.rev => g = h
  BY DEF IsStored, Document
<1>2. MaxHistorical \in Nat /\ snapshot.path \in Path /\ snapshot.file \in File
  BY DocumentsAssumption DEF Snapshot
<1>3. new.key = snapshot.path /\ new.file = snapshot.file
  BY DEF Updated
<1>4. CASE doc.file.text = snapshot.file.text
  <2>1. new = [key |-> snapshot.path, file |-> snapshot.file, rev |-> n, history |-> Pruned(H)]
    BY <1>4 DEF Updated
  <2> HIDE DEF H, n
  <2>2. n - 1 \in Nat
    BY <1>1
  <2>3. /\ Pruned(H) \subseteq H
        /\ {h.rev : h \in Pruned(H)} =
               {r \in 1 .. n - 1 : r + MaxHistorical >= n /\ r + MaxHistorical > n - 1}
    BY <1>1, <2>2, PrunedHistory
  <2>4. {h.rev : h \in Pruned(H)} = {r \in 1 .. n - 1 : r + MaxHistorical >= n}
    BY <1>1, <1>2, <2>3
  <2>5. new \in Document
    BY <1>1, <1>2, <2>1, <2>3 DEF Document
  <2>6. QED
    BY <1>1, <1>3, <2>1, <2>3, <2>4, <2>5 DEF IsStored
<1>5. CASE doc.file.text # snapshot.file.text
  <2> DEFINE G == H \cup {old}
  <2>1. new = [key |-> snapshot.path, file |-> snapshot.file, rev |-> n + 1, history |-> Pruned(G)]
    BY <1>5 DEF Updated
  <2>2. old \in [rev : Nat, text : Text] /\ old.rev = n
    BY <1>1
  <2> HIDE DEF H, n, old
  <2>3. \A h \in H : h.rev \in 1 .. n - 1 /\ h.rev + MaxHistorical >= n
    BY <1>1
  <2>4. G \in SUBSET [rev : Nat, text : Text]
    BY <1>1, <2>2
  <2>5. \A g, h \in G : g.rev = h.rev => g = h
    <3>1. \A h \in H : h.rev # old.rev
      BY <1>1, <2>2, <2>3
    <3>2. QED
      BY <1>1, <3>1
  <2>6. {h.rev : h \in G} = {r \in 1 .. n : r + MaxHistorical >= n}
    <3>1. {h.rev : h \in G} = {h.rev : h \in H} \cup {n}
      BY <2>2
    <3>2. \A r : r \in 1 .. n <=> r \in 1 .. n - 1 \/ r = n
      BY <1>1
    <3>3. n + MaxHistorical >= n
      BY <1>1, <1>2
    <3>4. QED
      BY <1>1, <3>1, <3>2, <3>3
  <2> HIDE DEF G
  <2>7. /\ Pruned(G) \subseteq G
        /\ {h.rev : h \in Pruned(G)} =
               {r \in 1 .. n : r + MaxHistorical >= n /\ r + MaxHistorical > n}
    BY <1>1, <2>4, <2>5, <2>6, PrunedHistory
  <2>8. n + 1 \in Nat /\ (n + 1) - 1 = n
    BY <1>1
  <2>9. {h.rev : h \in Pruned(G)} = {r \in 1 .. n : r + MaxHistorical >= n + 1}
    BY <1>1, <1>2, <2>7
  <2>10. new \in Document
    BY <1>2, <2>1, <2>4, <2>7, <2>8 DEF Document
  <2>11. new.rev = n + 1 /\ new.rev # 0 /\ new.history = Pruned(G)
    BY <1>1, <2>1
  <2>12. QED
    BY <1>3, <2>5, <2>7, <2>8, <2>9, <2>10, <2>11 DEF IsStored
<1>6. QED
  BY <1>3, <1>4, <1>5

LEMMA NewIsStored ==
    ASSUME NEW snapshot \in Snapshot, snapshot.file.text \in Text
    PROVE  /\ IsStored(New(snapshot))
           /\ New(snapshot).key = snapshot.path /\ New(snapshot).file = snapshot.file
  BY DEF New, IsStored, Document, Snapshot

-----------------------------------------------------------------------------
\* The transactions.

\* Whatever leaves with its last membership, the tables agree afterwards.
LEMMA CleanedUp ==
    ASSUME NEW all, NEW ix, NEW m, NEW candidates,
           AreTables(all, ix), elected' \subseteq Source, m \subseteq elected' \X DOMAIN all,
           \A d \in DOMAIN all \ candidates : \E s \in elected' : <<s, d>> \in m,
           docs' = Kept(all, m, candidates), CleanIndex(ix, m, candidates),
           Cleanup(m, candidates)
    PROVE  /\ TablesInv'
           /\ DOMAIN docs' \subseteq DOMAIN all
           /\ \A d \in DOMAIN docs' : docs'[d] = all[d]
           /\ \A s \in Source : \A d : <<s, d>> \in m => <<s, d>> \in members'
<1> DEFINE gone == Orphans(m, candidates)
           D == DOMAIN all \ gone
<1>1. docs' = [d \in D |-> all[d]]
  BY DEF Kept
<1>2. index' = [d \in D |-> ix[d]]
  BY DEF CleanIndex, Kept, AreTables
<1>3. members' = {e \in m : e[2] \notin gone}
  BY DEF Cleanup
<1>4. \A d \in gone : \A s \in Source : <<s, d>> \notin m
  BY DEF Orphans
<1>5. \A d \in candidates \ gone : \E s \in Source : <<s, d>> \in m
  BY DEF Orphans
<1> HIDE DEF gone
<1>6. DOMAIN docs' = D /\ \A d \in D : docs'[d] = all[d]
  BY <1>1
<1>7. DOMAIN index' = D /\ \A d \in D : index'[d] = ix[d]
  BY <1>2
<1>8. \A s \in Source : \A d : <<s, d>> \in m => <<s, d>> \in members'
  BY <1>3, <1>4
<1>9. AreTables(docs, index)'
  <2>1. DOMAIN docs' \subseteq Path /\ docs' \in [DOMAIN docs' -> Document]
    BY <1>1, <1>6 DEF AreTables
  <2>2. \A d \in DOMAIN docs' : IsStored(docs'[d])
    BY <1>6 DEF AreTables
  <2>3. \A d, e \in DOMAIN docs' : docs'[d].key = docs'[e].key => d = e
    BY <1>6 DEF AreTables
  <2>4. DOMAIN index' = DOMAIN docs' /\ \A d \in DOMAIN docs' : index'[d] = docs'[d].file.text
    BY <1>6, <1>7 DEF AreTables
  <2>5. QED
    BY <2>1, <2>2, <2>3, <2>4 DEF AreTables
<1>10. members' \subseteq elected' \X DOMAIN docs'
  <2>1. ASSUME NEW e \in members' PROVE e \in elected' \X DOMAIN docs'
    <3>1. e \in m /\ e[2] \notin gone
      BY <1>3
    <3>2. e \in elected' \X DOMAIN all
      BY <3>1
    <3>3. e[2] \in DOMAIN docs'
      BY <1>6, <3>1, <3>2
    <3>4. QED
      BY <3>2, <3>3
  <2>2. QED
    BY <2>1
<1>11. NoOrphans'
  <2>1. ASSUME NEW d \in D PROVE \E s \in elected' : <<s, d>> \in members'
    <3>1. PICK s : s \in elected' /\ <<s, d>> \in m
      <4>1. CASE d \in candidates
        BY <1>5, <4>1
      <4>2. CASE d \notin candidates
        BY <4>2
      <4>3. QED
        BY <4>1, <4>2
    <3>2. QED
      BY <1>8, <3>1
  <2>2. QED
    BY <1>6, <2>1 DEF NoOrphans, Documents
<1>12. TablesInv'
  BY <1>9, <1>10, <1>11 DEF TablesInv, Documents
<1>13. QED
  BY <1>6, <1>8, <1>12

\* Every document that is stored gets a file that was found, and the file of
\* its path if that was found.
LEMMA PlacedFiles ==
    ASSUME TablesInv, NEW s, NEW found \in SUBSET Snapshot
    PROVE  LET placed == Placed(s, found)
           IN  /\ DOMAIN placed \subseteq Path
               /\ \A d \in DOMAIN placed :
                     /\ placed[d] \in found
                     /\ \A e \in Documents : docs[e].key = placed[d].path => e = d
<1> DEFINE placed == Placed(s, found)
           name(f) == LET h == Holder(s, found, f)
                      IN  IF h = {} THEN f.path ELSE CHOOSE d \in h : TRUE
<1>1. placed = [d \in {name(f) : f \in found} |-> CHOOSE f \in found : name(f) = d]
  BY DEF Placed
<1>2. Documents \subseteq Path /\ \A d, e \in Documents : docs[d].key = docs[e].key => d = e
  BY DEF TablesInv, AreTables, Documents
<1>3. \A f \in found : name(f) \in Path
  <2>1. \A f \in found : Holder(s, found, f) \subseteq Documents /\ f.path \in Path
    BY DEF Holder, Snapshot
  <2>2. QED
    BY <1>2, <2>1
<1>4. ASSUME NEW f \in found, NEW e \in Documents, docs[e].key = f.path
      PROVE  name(f) = e
  <2>1. {d \in Documents : docs[d].key = f.path} = {e}
    BY <1>2, <1>4
  <2>2. Holder(s, found, f) = {e}
    BY <2>1 DEF Holder
  <2>3. QED
    BY <2>2
<1> HIDE DEF name
<1>5. DOMAIN placed = {name(f) : f \in found}
  BY <1>1
<1>6. ASSUME NEW d \in DOMAIN placed PROVE placed[d] \in found /\ name(placed[d]) = d
  <2>1. PICK f \in found : name(f) = d
    BY <1>5
  <2>2. placed[d] = CHOOSE g \in found : name(g) = d
    BY <1>1, <1>5
  <2>3. QED
    BY <2>1, <2>2
<1> HIDE DEF placed
<1>7. DOMAIN placed \subseteq Path
  BY <1>3, <1>5
<1>8. \A d \in DOMAIN placed : \A e \in Documents : docs[e].key = placed[d].path => e = d
  BY <1>4, <1>6
<1>9. QED
  BY <1>6, <1>7, <1>8 DEF placed

LEMMA StoredTables ==
    ASSUME TablesInv, NEW placed,
           DOMAIN placed \subseteq Path,
           \A d \in DOMAIN placed :
               /\ placed[d] \in Snapshot /\ placed[d].file.text \in Text
               /\ \A e \in Documents : docs[e].key = placed[d].path => e = d
               /\ \A e \in DOMAIN placed : placed[e].path = placed[d].path => e = d
    PROVE  /\ AreTables(StoredDocs(placed), StoredIndex(placed))
           /\ DOMAIN StoredDocs(placed) = Documents \cup DOMAIN placed
           /\ \A d \in Documents \ DOMAIN placed : StoredDocs(placed)[d] = docs[d]
           /\ \A d \in DOMAIN placed : /\ StoredDocs(placed)[d].key = placed[d].path
                                       /\ StoredDocs(placed)[d].file = placed[d].file
<1> DEFINE all == StoredDocs(placed)
           ix == StoredIndex(placed)
           D == Documents \cup DOMAIN placed
<1>1. all = [d \in D |->
          IF d \notin DOMAIN placed THEN docs[d]
          ELSE IF d \in Documents THEN Updated(docs[d], placed[d]) ELSE New(placed[d])]
  BY DEF StoredDocs
<1>2. AreTables(docs, index) /\ DOMAIN docs = Documents /\ DOMAIN index = Documents
  BY DEF TablesInv, AreTables, Documents
<1>3. ix = [d \in D |->
          IF /\ d \in DOMAIN placed
             /\ d \in Documents => docs[d].file.text # placed[d].file.text
          THEN placed[d].file.text ELSE index[d]]
  BY <1>2 DEF StoredIndex
<1>4. DOMAIN all = D /\ DOMAIN ix = D
  BY <1>1, <1>3
<1>5. \A d \in Documents \ DOMAIN placed : all[d] = docs[d] /\ IsStored(all[d])
  BY <1>1, <1>2 DEF AreTables
<1>6. ASSUME NEW d \in DOMAIN placed
      PROVE  IsStored(all[d]) /\ all[d].key = placed[d].path /\ all[d].file = placed[d].file
  <2>1. CASE d \in Documents
    <3>1. all[d] = Updated(docs[d], placed[d]) /\ IsStored(docs[d])
      BY <1>1, <1>2, <2>1 DEF AreTables
    <3>2. QED
      BY <3>1, UpdatedIsStored
  <2>2. CASE d \notin Documents
    <3>1. all[d] = New(placed[d])
      BY <1>1, <2>2
    <3>2. QED
      BY <3>1, NewIsStored
  <2>3. QED
    BY <2>1, <2>2
<1>7. ASSUME NEW d \in D PROVE ix[d] = all[d].file.text
  <2>1. CASE d \notin DOMAIN placed
    BY <1>2, <1>3, <1>5, <2>1 DEF AreTables
  <2>2. CASE d \in DOMAIN placed /\ (d \in Documents => docs[d].file.text # placed[d].file.text)
    BY <1>3, <1>6, <2>2
  <2>3. CASE d \in DOMAIN placed /\ d \in Documents /\ docs[d].file.text = placed[d].file.text
    BY <1>2, <1>3, <1>6, <2>3 DEF AreTables
  <2>4. QED
    BY <2>1, <2>2, <2>3
<1> HIDE DEF all, ix
<1>8. \A d \in D : IsStored(all[d])
  BY <1>5, <1>6
<1>9. all \in [DOMAIN all -> Document]
  <2>1. \A d \in D : all[d] \in Document
    BY <1>8 DEF IsStored
  <2>2. all = [d \in D |-> all[d]]
    BY <1>1
  <2>3. QED
    BY <1>4, <2>1, <2>2
<1>10. ASSUME NEW d \in D, NEW e \in D, all[d].key = all[e].key PROVE d = e
  <2>1. CASE d \notin DOMAIN placed /\ e \notin DOMAIN placed
    BY <1>2, <1>5, <1>10, <2>1 DEF AreTables
  <2>2. CASE d \in DOMAIN placed /\ e \notin DOMAIN placed
    <3>1. e \in Documents /\ docs[e].key = placed[d].path
      BY <1>5, <1>6, <1>10, <2>2
    <3>2. QED
      BY <2>2, <3>1
  <2>3. CASE d \notin DOMAIN placed /\ e \in DOMAIN placed
    <3>1. d \in Documents /\ docs[d].key = placed[e].path
      BY <1>5, <1>6, <1>10, <2>3
    <3>2. QED
      BY <2>3, <3>1
  <2>4. CASE d \in DOMAIN placed /\ e \in DOMAIN placed
    BY <1>6, <1>10, <2>4
  <2>5. QED
    BY <2>1, <2>2, <2>3, <2>4
<1>11. DOMAIN all \subseteq Path
  BY <1>2, <1>4 DEF AreTables
<1>12. AreTables(all, ix)
  BY <1>4, <1>7, <1>8, <1>9, <1>10, <1>11 DEF AreTables
<1>13. QED
  BY <1>4, <1>5, <1>6, <1>12 DEF all, ix

-----------------------------------------------------------------------------
\* The threads.

LEMMA LeastNumber ==
    ASSUME NEW S \in SUBSET Nat, S # {}
    PROVE  \E m \in S : \A k \in S : m <= k
<1> DEFINE R == OpToRel(<, Nat)
<1>1. IsWellFoundedOn(R, Nat)
  BY NatLessThanWellFounded
<1>2. \A x, y \in Nat : y < x => <<y, x>> \in R
  BY DEF OpToRel
<1> HIDE DEF R
<1>3. PICK m \in S : \A y \in S : <<y, m>> \notin R
  BY <1>1, WFMin
<1>4. ASSUME NEW k \in S PROVE m <= k
  <2>1. ~ (k < m)
    BY <1>2, <1>3
  <2>2. QED
    BY <2>1
<1>5. QED
  BY <1>4

\* A thread that has sources left is at one of them.
LEMMA CurrentSource ==
    ASSUME JobInv, NEW t \in Thread, job[t].at \in {"list", "read"}
    PROVE  /\ job[t].todo \subseteq Source
           /\ job[t].todo # {} => Current(t) \in job[t].todo /\ Current(t) \in Source
           /\ job[t].at = "read" => /\ job[t].todo # {} /\ job[t].mark \in Nat
                                    /\ job[t].left \subseteq Path
                                    /\ job[t].found \subseteq Snapshot
           /\ job[t] # Resting /\ lock = t
<1>1. job[t] \in Job
  BY DEF JobInv
<1>2. /\ job[t].todo \subseteq Source
      /\ job[t].at = "read" => /\ job[t].todo # {} /\ job[t].mark \in Nat
                               /\ job[t].left \subseteq Path /\ job[t].found \subseteq Snapshot
  BY <1>1 DEF Job, Resting
<1>3. job[t] # Resting
  BY DEF Resting
<1>4. lock = t
  BY <1>3 DEF JobInv
<1>5. ASSUME job[t].todo # {} PROVE Current(t) \in job[t].todo
  <2>1. job[t].todo \in SUBSET Nat
    BY <1>2, DocumentsAssumption
  <2>2. \E m \in job[t].todo : \A k \in job[t].todo : m <= k
    BY <1>5, <2>1, LeastNumber
  <2>3. QED
    BY <2>2 DEF Current, Min
<1>6. QED
  BY <1>2, <1>3, <1>4, <1>5

\* A step of a thread that goes on, and leaves the library and the disk alone
\* or not.
LEMMA ContinuedJob ==
    ASSUME JobInv, NEW t \in Thread, lock = t, NEW step \in Job, Continue(t, step),
           lock' = lock, errors' \subseteq Source
    PROVE  JobInv'
  BY DEF JobInv, Continue, Thread

LEMMA NextSourceJob ==
    ASSUME JobInv, NEW t \in Thread, job[t].at \in {"list", "read"}, job[t].todo # {},
           NEW failed \in BOOLEAN, NextSource(t, failed), lock' = lock
    PROVE  JobInv' /\ job' = [job EXCEPT ![t] = Syncing(job[t].todo \ {Current(t)})]
<1>1. job[t].todo \subseteq Source /\ Current(t) \in Source /\ lock = t
  BY CurrentSource
<1>2. Syncing(job[t].todo \ {Current(t)}) \in Job
  BY <1>1 DEF Syncing, Job
<1>3. errors' \subseteq Source
  BY <1>1 DEF NextSource, JobInv
<1>4. Continue(t, Syncing(job[t].todo \ {Current(t)}))
  BY DEF NextSource
<1>5. QED
  BY <1>1, <1>2, <1>3, <1>4, ContinuedJob DEF Continue

LEMMA JobInvariant ==
    ASSUME DocumentsInv, [Next]_vars
    PROVE  JobInv'
<1>1. JobInv /\ elected \subseteq Source
  BY DEF DocumentsInv, TablesInv
<1>2. CASE UNCHANGED <<job, lock, errors>>
  BY <1>1, <1>2 DEF JobInv
<1>3. CASE UNCHANGED vars
  BY <1>2, <1>3 DEF vars
<1>4. CASE DiskStep
  BY <1>2, <1>4 DEF DiskStep, Write, RemoveFile, Rename, Changed
<1>5. ASSUME NEW t \in Thread, List(t) PROVE JobInv'
  <2> DEFINE step == [at |-> "read", todo |-> job[t].todo, mark |-> changes,
                      left |-> Listed(Current(t)), found |-> {}]
  <2>1. /\ job[t].at = "list" /\ job[t].todo # {} /\ Continue(t, step)
        /\ lock' = lock /\ errors' = errors
    BY <1>5 DEF List
  <2>2. job[t].todo \subseteq Source /\ Current(t) \in Source /\ lock = t
    BY <1>1, <2>1, CurrentSource
  <2>3. Listed(Current(t)) \subseteq Path /\ changes \in Nat
    <3>1. Covers[Current(t)] \subseteq Path
      BY <2>2, DocumentsAssumption
    <3>2. changes \in Nat
      BY DocumentsAssumption DEF DocumentsInv, DiskInv
    <3>3. QED
      BY <3>1, <3>2 DEF Listed
  <2>4. step \in Job
    BY <2>1, <2>2, <2>3 DEF Job
  <2> HIDE DEF step
  <2>5. QED
    BY <1>1, <2>1, <2>2, <2>4, ContinuedJob DEF JobInv
<1>6. ASSUME NEW t \in Thread, Read(t) PROVE JobInv'
  <2>1. PICK p \in Path :
            /\ Reads(t, p) /\ Present(p) /\ disk[p].text # Bad
            /\ Continue(t, [job[t] EXCEPT
                   !.left = @ \ {p}, !.mark = changes,
                   !.found = @ \cup {[path |-> p, file |-> disk[p]]}])
    BY <1>6 DEF Read
  <2>2. job[t].at = "read" /\ lock' = lock /\ errors' = errors
    BY <1>6, <2>1 DEF Read, Reads
  <2>3. lock = t
    BY <1>1, <2>2, CurrentSource
  <2>4. [path |-> p, file |-> disk[p]] \in Snapshot /\ changes \in Nat
    BY <2>1 DEF DocumentsInv, DiskInv, Snapshot, Present
  <2>5. job[t] \in [at : {"read"}, todo : (SUBSET Source) \ {{}}, mark : Nat,
                    left : SUBSET Path, found : SUBSET Snapshot]
    BY <1>1, <2>2 DEF JobInv, Job, Resting
  <2>6. [job[t] EXCEPT !.left = @ \ {p}, !.mark = changes,
                       !.found = @ \cup {[path |-> p, file |-> disk[p]]}] \in Job
    BY <2>4, <2>5 DEF Job
  <2>7. QED
    BY <1>1, <2>1, <2>2, <2>3, <2>6, ContinuedJob DEF JobInv
<1>7. ASSUME NEW t \in Thread, Gone(t) \/ ReadFails(t) \/ Store(t) \/ StoreFails(t) PROVE JobInv'
  <2>1. job[t].at \in {"list", "read"} /\ lock' = lock
    BY <1>7 DEF Gone, ReadFails, Reads, Store, StoreFails
  <2>2. job[t].todo # {}
    BY <1>1, <1>7, CurrentSource DEF Gone, ReadFails, Reads, Store, StoreFails
  <2>3. \E failed \in BOOLEAN : NextSource(t, failed)
    BY <1>7 DEF Gone, ReadFails, Store, StoreFails
  <2>4. QED
    BY <1>1, <2>1, <2>2, <2>3, NextSourceJob
<1>8. ASSUME NEW t \in Thread, Release(t) PROVE JobInv'
  <2>1. job[t] = Syncing({}) /\ Continue(t, Resting) /\ lock' = "free" /\ errors' = errors
    BY <1>8 DEF Release
  <2>2. job[t] # Resting /\ lock = t
    BY <1>1, <2>1, CurrentSource DEF Syncing
  <2>3. Resting \in Job
    BY DEF Job
  <2>4. QED
    BY <1>1, <2>1, <2>2, <2>3 DEF JobInv, Continue
\* The lock is free: nobody works.
<1>9. ASSUME NEW t \in Thread, NEW S \in SUBSET Source, LockIsFree, lock' = t,
             Continue(t, Syncing(S)), errors' \subseteq Source
      PROVE  JobInv'
  <2>1. Syncing(S) \in Job
    BY DEF Syncing, Job
  <2>2. \A u \in Thread : job[u] = Resting
    BY <1>1, <1>9 DEF LockIsFree, JobInv, Thread
  <2>3. QED
    BY <1>1, <1>9, <2>1, <2>2 DEF JobInv, Continue
<1>10. CASE StartCycle
  <2>1. "scan" \in Thread /\ LockIsFree /\ lock' = "scan" /\ errors' = {}
        /\ Continue("scan", Syncing(elected))
    BY <1>10 DEF StartCycle, Thread
  <2>2. QED
    BY <1>1, <1>9, <2>1
<1>11. ASSUME NEW s \in Source, Authorize(s) \/ Rescan(s) PROVE JobInv'
  <2>1. "ui" \in Thread /\ LockIsFree /\ lock' = "ui" /\ errors' = errors
        /\ Continue("ui", Syncing({s}))
    BY <1>11 DEF Authorize, Rescan, Thread
  <2>2. errors' \subseteq Source
    BY <1>1, <2>1 DEF JobInv
  <2>3. QED
    BY <1>9, <2>1, <2>2
<1>12. ASSUME NEW s \in Source, Revoke(s) PROVE JobInv'
  BY <1>2, <1>12 DEF Revoke
<1>13. CASE Restart
  BY <1>13 DEF Restart, JobInv, Job, Resting
<1>14. QED
  BY <1>3, <1>4, <1>5, <1>6, <1>7, <1>8, <1>10, <1>11, <1>12, <1>13 DEF Next, Sync, Request

-----------------------------------------------------------------------------
\* What a step does to the library.

LEMMA LibrarySteps ==
    ASSUME [Next]_vars
    PROVE  \/ UNCHANGED libraryVars
           \/ \E s \in Source : Authorize(s) \/ Revoke(s)
           \/ \E t \in Thread : Store(t)
<1>1. CASE UNCHANGED vars
  BY <1>1 DEF vars
<1>2. CASE DiskStep
  BY <1>2 DEF DiskStep, Write, RemoveFile, Rename, Changed
<1>3. ASSUME NEW t \in Thread,
             List(t) \/ Gone(t) \/ Read(t) \/ ReadFails(t) \/ StoreFails(t) \/ Release(t)
      PROVE  UNCHANGED libraryVars
  BY <1>3 DEF List, Gone, Read, ReadFails, StoreFails, Release
<1>4. CASE StartCycle \/ Restart
  BY <1>4 DEF StartCycle, Restart
<1>5. ASSUME NEW s \in Source, Rescan(s) PROVE UNCHANGED libraryVars
  BY <1>5 DEF Rescan
<1>6. QED
  BY <1>1, <1>2, <1>3, <1>4, <1>5 DEF Next, Sync, Request

\* A scan that stores what it found: what is found replaces, the rest stays,
\* and other sources keep what they have.
LEMMA StoreStep ==
    ASSUME DocumentsInv, NEW t \in Thread, Store(t)
    PROVE  /\ TablesInv'
           /\ \A d \in Documents' :
                 \/ \E f \in job[t].found : docs'[d].key = f.path /\ docs'[d].file = f.file
                 \/ d \in Documents /\ docs'[d] = docs[d]
           /\ \A r \in Source \ {Current(t)} : \A d : <<r, d>> \in members => <<r, d>> \in members'
<1> DEFINE s == Current(t)
           found == job[t].found
           placed == Placed(s, found)
           stale == Stale(s, DOMAIN placed)
           m == (members \ ({s} \X stale)) \cup ({s} \X DOMAIN placed)
           all == StoredDocs(placed)
<1>1. /\ job[t].at = "read" /\ s \in elected /\ elected' = elected
      /\ docs' = Kept(all, m, stale)
      /\ CleanIndex(StoredIndex(placed), m, stale)
      /\ Cleanup(m, stale)
  BY DEF Store
<1>2. TablesInv /\ JobInv /\ FoundInv(t)
  BY <1>1 DEF DocumentsInv, ReadInv
<1>3. found \in SUBSET Snapshot
  BY <1>1, <1>2, CurrentSource
<1>4. /\ DOMAIN placed \subseteq Path
      /\ \A d \in DOMAIN placed :
            /\ placed[d] \in found
            /\ \A e \in Documents : docs[e].key = placed[d].path => e = d
            /\ \E f \in found : f = placed[d]
  BY <1>2, <1>3, PlacedFiles
<1>5. \A d, e \in DOMAIN placed : placed[e].path = placed[d].path => e = d
  <2>1. ASSUME NEW d \in DOMAIN placed, NEW e \in DOMAIN placed, placed[e].path = placed[d].path
        PROVE  e = d
    <3> DEFINE name(f) == LET h == Holder(s, found, f)
                          IN  IF h = {} THEN f.path ELSE CHOOSE c \in h : TRUE
    <3>1. placed = [c \in {name(f) : f \in found} |-> CHOOSE f \in found : name(f) = c]
      BY DEF Placed
    <3>2. placed[d] = placed[e]
      BY <1>2, <1>4, <2>1 DEF FoundInv
    <3> HIDE DEF placed, name
    <3>3. \A c \in DOMAIN placed : name(placed[c]) = c
      <4>1. ASSUME NEW c \in DOMAIN placed PROVE name(placed[c]) = c
        <5>1. c \in {name(f) : f \in found} /\ placed[c] = CHOOSE f \in found : name(f) = c
          BY <3>1
        <5>2. QED
          BY <5>1
      <4>2. QED
        BY <4>1
    <3>4. QED
      BY <3>2, <3>3
  <2>2. QED
    BY <2>1
<1>6. \A d \in DOMAIN placed : placed[d] \in Snapshot /\ placed[d].file.text \in Text
  BY <1>2, <1>3, <1>4 DEF FoundInv
<1> HIDE DEF placed
<1>7. /\ AreTables(all, StoredIndex(placed))
      /\ DOMAIN all = Documents \cup DOMAIN placed
      /\ \A d \in Documents \ DOMAIN placed : all[d] = docs[d]
      /\ \A d \in DOMAIN placed : all[d].key = placed[d].path /\ all[d].file = placed[d].file
  BY <1>2, <1>4, <1>5, <1>6, StoredTables
<1>8. elected \subseteq Source /\ members \subseteq elected \X Documents /\ NoOrphans
  BY <1>2 DEF TablesInv
<1>9. stale \subseteq Documents \ DOMAIN placed
  BY DEF Stale
<1> HIDE DEF stale, all, s
<1>10. m \subseteq elected' \X DOMAIN all
  BY <1>1, <1>7, <1>8
<1>11. \A d \in DOMAIN all \ stale : \E r \in elected' : <<r, d>> \in m
  <2>1. ASSUME NEW d \in DOMAIN placed PROVE <<s, d>> \in m /\ s \in elected'
    BY <1>1, <2>1
  <2>2. ASSUME NEW d \in Documents \ stale PROVE \E r \in elected' : <<r, d>> \in m
    <3>1. PICK r \in elected : <<r, d>> \in members
      BY <1>8 DEF NoOrphans
    <3>2. <<r, d>> \in m
      BY <2>2, <3>1
    <3>3. QED
      BY <1>1, <3>1, <3>2
  <2>3. QED
    BY <1>7, <2>1, <2>2
<1>12. \A r \in Source \ {s} : \A d : <<r, d>> \in members => <<r, d>> \in m
  OBVIOUS
<1> HIDE DEF m
<1>13. /\ TablesInv' /\ DOMAIN docs' \subseteq DOMAIN all
       /\ \A d \in DOMAIN docs' : docs'[d] = all[d]
       /\ \A r \in Source : \A d : <<r, d>> \in m => <<r, d>> \in members'
  BY <1>1, <1>7, <1>8, <1>10, <1>11, CleanedUp
<1>14. ASSUME NEW d \in Documents'
       PROVE  \/ \E f \in found : docs'[d].key = f.path /\ docs'[d].file = f.file
              \/ d \in Documents /\ docs'[d] = docs[d]
  <2>1. d \in DOMAIN all /\ docs'[d] = all[d]
    BY <1>13 DEF Documents
  <2>2. CASE d \in DOMAIN placed
    BY <1>4, <1>7, <2>1, <2>2
  <2>3. CASE d \in Documents \ DOMAIN placed
    BY <1>7, <2>1, <2>3
  <2>4. QED
    BY <1>7, <2>1, <2>2, <2>3
<1>15. \A r \in Source \ {s} : \A d : <<r, d>> \in members => <<r, d>> \in members'
  BY <1>12, <1>13
<1>16. QED
  BY <1>13, <1>14, <1>15 DEF s

\* A revocation takes its own source's documents, and those only that no other
\* source has.
LEMMA RevokeStep ==
    ASSUME DocumentsInv, NEW s \in Source, Revoke(s)
    PROVE  /\ TablesInv'
           /\ \A d \in Documents' : d \in Documents /\ docs'[d] = docs[d]
           /\ \A r \in Source \ {s} : \A d : <<r, d>> \in members => <<r, d>> \in members'
<1> DEFINE mine == {d \in Documents : <<s, d>> \in members}
           m == members \ ({s} \X mine)
<1>1. /\ elected' = elected \ {s} /\ docs' = Kept(docs, m, mine)
      /\ CleanIndex(index, m, mine) /\ Cleanup(m, mine)
  BY DEF Revoke
<1>2. /\ AreTables(docs, index) /\ elected \subseteq Source
      /\ members \subseteq elected \X Documents /\ NoOrphans
  BY DEF DocumentsInv, TablesInv
<1>3. m \subseteq elected' \X DOMAIN docs
  <2>1. ASSUME NEW e \in m PROVE e \in elected' \X DOMAIN docs
    <3>1. e \in elected \X Documents /\ e = <<e[1], e[2]>>
      BY <1>2
    <3>2. e[1] # s
      BY <3>1
    <3>3. QED
      BY <1>1, <3>1, <3>2 DEF Documents
  <2>2. QED
    BY <2>1
<1>4. \A d \in DOMAIN docs \ mine : \E r \in elected' : <<r, d>> \in m
  <2>1. ASSUME NEW d \in Documents \ mine PROVE \E r \in elected' : <<r, d>> \in m
    <3>1. PICK r \in elected : <<r, d>> \in members
      BY <1>2 DEF NoOrphans
    <3>2. r # s
      BY <2>1, <3>1
    <3>3. QED
      BY <1>1, <3>1, <3>2
  <2>2. QED
    BY <2>1 DEF Documents
<1>5. \A r \in Source \ {s} : \A d : <<r, d>> \in members => <<r, d>> \in m
  OBVIOUS
<1> HIDE DEF m, mine
<1>6. elected' \subseteq Source
  BY <1>1, <1>2
<1>7. /\ TablesInv' /\ DOMAIN docs' \subseteq DOMAIN docs
      /\ \A d \in DOMAIN docs' : docs'[d] = docs[d]
      /\ \A r \in Source : \A d : <<r, d>> \in m => <<r, d>> \in members'
  BY <1>1, <1>2, <1>3, <1>4, <1>6, CleanedUp
<1>8. QED
  BY <1>5, <1>7 DEF Documents

LEMMA TablesInvariant ==
    ASSUME DocumentsInv, [Next]_vars
    PROVE  TablesInv'
<1>1. TablesInv
  BY DEF DocumentsInv
<1>2. CASE UNCHANGED libraryVars
  BY <1>1, <1>2 DEF libraryVars, TablesInv, NoOrphans, Documents
<1>3. ASSUME NEW s \in Source, Authorize(s) PROVE TablesInv'
  <2>1. elected' = elected \cup {s} /\ UNCHANGED <<docs, index, members>>
    BY <1>3 DEF Authorize
  <2>2. QED
    BY <1>1, <2>1 DEF TablesInv, NoOrphans, Documents
<1>4. QED
  BY <1>2, <1>3, LibrarySteps, StoreStep, RevokeStep

-----------------------------------------------------------------------------
\* What a step does to the disk.

LEMMA DiskSteps ==
    ASSUME [Next]_vars
    PROVE  DiskStep \/ UNCHANGED <<disk, changes>>
<1>1. CASE UNCHANGED vars
  BY <1>1 DEF vars
<1>2. ASSUME NEW t \in Thread,
             List(t) \/ Gone(t) \/ Read(t) \/ ReadFails(t) \/ Store(t) \/ StoreFails(t) \/ Release(t)
      PROVE  UNCHANGED <<disk, changes>>
  BY <1>2, Zenon DEF List, Gone, Read, ReadFails, Store, StoreFails, Release
<1>3. CASE StartCycle \/ Restart
  BY <1>3 DEF StartCycle, Restart
<1>4. ASSUME NEW s \in Source, Authorize(s) \/ Rescan(s) \/ Revoke(s) PROVE UNCHANGED <<disk, changes>>
  BY <1>4 DEF Authorize, Rescan, Revoke
<1>5. QED
  BY <1>1, <1>2, <1>3, <1>4 DEF Next, Sync, Request

\* Whatever another program does to a file, it is newer than all that was read.
LEMMA ChangedFiles ==
    ASSUME DiskInv, DiskStep
    PROVE  /\ changes' = changes + 1 /\ changes' \in 0 .. MaxChanges
           /\ UNCHANGED <<libraryVars, job>>
           /\ disk' \in [Path -> File \cup {NoFile}]
           /\ \A p \in Path : \/ disk'[p] \in {disk[p], NoFile}
                              \/ disk'[p].since = changes + 1
<1>1. changes \in 0 .. MaxChanges /\ MaxChanges \in Nat /\ disk \in [Path -> File \cup {NoFile}]
  BY DocumentsAssumption DEF DiskInv
<1>2. ASSUME NEW d \in [Path -> File \cup {NoFile}], Changed(d),
             \A p \in Path : d[p] \in {disk[p], NoFile} \/ d[p].since = changes + 1
      PROVE  /\ changes' = changes + 1 /\ changes' \in 0 .. MaxChanges
             /\ UNCHANGED <<libraryVars, job>> /\ disk' = d
  BY <1>1, <1>2 DEF Changed
<1>3. ASSUME changes < MaxChanges PROVE changes + 1 \in 0 .. MaxChanges
  BY <1>1, <1>3
<1>4. ASSUME NEW p \in Path, NEW i \in FileId, NEW text \in Text \cup {Bad}, Write(p, i, text)
      PROVE  \E d \in [Path -> File \cup {NoFile}] :
                 /\ Changed(d)
                 /\ \A q \in Path : d[q] \in {disk[q], NoFile} \/ d[q].since = changes + 1
  <2> DEFINE f == [id |-> i, text |-> text, since |-> changes + 1]
             d == [disk EXCEPT ![p] = f]
  <2>1. Changed(d) /\ changes < MaxChanges
    BY <1>4 DEF Write, Changed
  <2>2. f \in File /\ f.since = changes + 1
    BY <1>3, <2>1 DEF File
  <2>3. QED
    BY <1>1, <2>1, <2>2
<1>5. ASSUME NEW p \in Path, RemoveFile(p)
      PROVE  \E d \in [Path -> File \cup {NoFile}] :
                 /\ Changed(d)
                 /\ \A q \in Path : d[q] \in {disk[q], NoFile} \/ d[q].since = changes + 1
  <2> DEFINE d == [disk EXCEPT ![p] = NoFile]
  <2>1. Changed(d)
    BY <1>5 DEF RemoveFile
  <2>2. d \in [Path -> File \cup {NoFile}] /\ \A q \in Path : d[q] \in {disk[q], NoFile}
    BY <1>1
  <2>3. QED
    BY <2>1, <2>2
<1>6. ASSUME NEW p \in Path, NEW q \in Path, Rename(p, q)
      PROVE  \E d \in [Path -> File \cup {NoFile}] :
                 /\ Changed(d)
                 /\ \A r \in Path : d[r] \in {disk[r], NoFile} \/ d[r].since = changes + 1
  <2> DEFINE f == [disk[p] EXCEPT !.since = changes + 1]
             d == [disk EXCEPT ![p] = NoFile, ![q] = f]
  <2>1. Changed(d) /\ Present(p) /\ changes < MaxChanges
    BY <1>6 DEF Rename, Changed
  <2>2. disk[p] \in File
    BY <1>1, <2>1 DEF Present
  <2>3. f \in File /\ f.since = changes + 1
    BY <1>3, <2>1, <2>2 DEF File
  <2> HIDE DEF f
  <2>4. d \in [Path -> File \cup {NoFile}]
        /\ \A r \in Path : d[r] \in {disk[r], NoFile} \/ d[r].since = changes + 1
    BY <1>1, <2>3
  <2>5. QED
    BY <2>1, <2>4 DEF f
<1>7. QED
  BY <1>2, <1>4, <1>5, <1>6 DEF DiskStep

LEMMA WasAtStays ==
    ASSUME DiskInv, DiskStep \/ UNCHANGED <<disk, changes>>,
           NEW p \in Path, NEW file \in File, WasAt(p, file)
    PROVE  WasAt(p, file)'
<1>1. changes \in Nat /\ file.since \in Nat /\ file.since <= changes
  BY DocumentsAssumption DEF DiskInv, File, WasAt
<1>2. CASE UNCHANGED <<disk, changes>>
  BY <1>2 DEF WasAt, Present
<1>3. CASE DiskStep
  <2>1. /\ changes' = changes + 1
        /\ disk'[p] \in {disk[p], NoFile} \/ disk'[p].since = changes + 1
    BY <1>3, ChangedFiles
  <2>2. QED
    BY <1>1, <2>1 DEF WasAt, Present
<1>4. QED
  BY <1>2, <1>3

LEMMA DiskInvariant ==
    ASSUME DocumentsInv, [Next]_vars
    PROVE  DiskInv'
<1>1. DiskInv /\ TablesInv /\ TablesInv' /\ changes \in Nat /\ MaxChanges \in Nat
  BY TablesInvariant, DocumentsAssumption DEF DocumentsInv, DiskInv
<1>2. /\ changes' \in 0 .. MaxChanges
      /\ disk' \in [Path -> File \cup {NoFile}]
      /\ \A p \in Path : Present(p)' => disk'[p].since <= changes'
  <2>1. CASE UNCHANGED <<disk, changes>>
    BY <1>1, <2>1 DEF DiskInv, Present
  <2>2. CASE DiskStep
    <3>1. /\ changes' = changes + 1 /\ changes' \in 0 .. MaxChanges
          /\ disk' \in [Path -> File \cup {NoFile}]
          /\ \A p \in Path : disk'[p] \in {disk[p], NoFile} \/ disk'[p].since = changes + 1
      BY <1>1, <2>2, ChangedFiles
    <3>2. \A p \in Path : Present(p) => disk[p].since <= changes /\ disk[p].since \in Nat
      BY <1>1 DEF DiskInv, Present, File
    <3>3. QED
      BY <1>1, <3>1, <3>2 DEF Present
  <2>3. QED
    BY <2>1, <2>2, DiskSteps
<1>3. \A d \in Documents : docs[d].key \in Path /\ docs[d].file \in File
  BY <1>1 DEF TablesInv, AreTables, Document, Documents
\* What is stored afterwards was there before, or was found.
<1>4. ASSUME NEW d \in Documents',
             \E p \in Path, file \in File :
                 WasAt(p, file) /\ docs'[d].key = p /\ docs'[d].file = file
      PROVE  WasAt(docs[d].key, docs[d].file)'
  BY <1>1, <1>4, WasAtStays, DiskSteps
<1>5. ASSUME NEW d \in Documents', d \in Documents, docs'[d] = docs[d]
      PROVE  WasAt(docs[d].key, docs[d].file)'
  BY <1>1, <1>3, <1>4, <1>5 DEF DiskInv
<1>6. \A d \in Documents' : WasAt(docs[d].key, docs[d].file)'
  <2>1. CASE UNCHANGED libraryVars
    BY <1>5, <2>1 DEF libraryVars, Documents
  <2>2. ASSUME NEW s \in Source, Authorize(s) PROVE docs' = docs
    BY <2>2 DEF Authorize
  <2>3. ASSUME NEW s \in Source, Revoke(s) PROVE \A d \in Documents' : d \in Documents /\ docs'[d] = docs[d]
    BY <2>3, RevokeStep
  <2>4. ASSUME NEW t \in Thread, Store(t), NEW d \in Documents'
        PROVE  WasAt(docs[d].key, docs[d].file)'
    <3>1. job[t].at = "read"
      BY <2>4 DEF Store
    <3>2. job[t].found \subseteq Snapshot /\ FoundInv(t)
      BY <3>1, CurrentSource DEF DocumentsInv, ReadInv
    <3>3. CASE \E f \in job[t].found : docs'[d].key = f.path /\ docs'[d].file = f.file
      <4>1. PICK f \in job[t].found : docs'[d].key = f.path /\ docs'[d].file = f.file
        BY <3>3
      <4>2. f.path \in Path /\ f.file \in File /\ WasAt(f.path, f.file)
        BY <3>2 DEF Snapshot, FoundInv
      <4>3. QED
        BY <1>4, <4>1, <4>2
    <3>4. CASE d \in Documents /\ docs'[d] = docs[d]
      BY <1>5, <3>4
    <3>5. QED
      BY <2>4, <3>3, <3>4, StoreStep
  <2>5. QED
    BY <1>5, <2>1, <2>2, <2>3, <2>4, LibrarySteps DEF Documents
<1>7. QED
  BY <1>2, <1>6 DEF DiskInv

-----------------------------------------------------------------------------
\* What was found.

LEMMA ReadInvariant ==
    ASSUME DocumentsInv, [Next]_vars
    PROVE  ReadInv'
<1>1. TablesInv /\ DiskInv /\ JobInv /\ ReadInv
  BY DEF DocumentsInv
<1>2. SUFFICES ASSUME NEW u \in Thread, job'[u].at = "read" PROVE FoundInv(u)'
  BY DEF ReadInv
\* The thread stays where it is, and so does the library.
<1>3. ASSUME job' = job, docs' = docs PROVE FoundInv(u)'
  <2>1. job[u].found \subseteq Snapshot /\ FoundInv(u)
    BY <1>1, <1>2, <1>3, CurrentSource DEF ReadInv
  <2>2. ASSUME NEW f \in job[u].found PROVE WasAt(f.path, f.file)'
    <3>1. PICK p \in Path, file \in File : p = f.path /\ file = f.file
      BY <2>1 DEF Snapshot
    <3>2. WasAt(p, file)
      BY <2>1, <3>1 DEF FoundInv
    <3>3. WasAt(p, file)'
      BY <1>1, <3>2, WasAtStays, DiskSteps
    <3>4. QED
      BY <3>1, <3>3
  <2>3. QED
    BY <1>3, <2>1, <2>2 DEF FoundInv, Documents
<1>4. CASE UNCHANGED vars
  BY <1>3, <1>4 DEF vars, libraryVars
<1>5. CASE DiskStep
  BY <1>1, <1>3, <1>5, ChangedFiles DEF libraryVars
\* Somebody else would hold the lock.
<1>6. ASSUME NEW t \in Thread, NEW step \in Job, job[t] # Resting, Continue(t, step) PROVE u = t
  <2>1. lock = t
    BY <1>1, <1>6 DEF JobInv
  <2>2. ASSUME u # t PROVE FALSE
    <3>1. job'[u] = job[u]
      BY <1>1, <1>6, <2>2 DEF Continue, JobInv
    <3>2. job[u] # Resting
      BY <1>2, <3>1 DEF Resting
    <3>3. QED
      BY <1>1, <2>1, <2>2, <3>2 DEF JobInv
  <2>3. QED
    BY <2>2
<1>7. ASSUME NEW t \in Thread, NEW step \in Job, job[t] # Resting, Continue(t, step) PROVE job'[u] = step
  BY <1>1, <1>6, <1>7 DEF Continue, JobInv
<1>8. ASSUME NEW t \in Thread, job[t].at \in {"list", "read"}, job[t].todo # {},
             NEW failed \in BOOLEAN, NextSource(t, failed)
      PROVE  FALSE
  <2>1. job[t] # Resting /\ job[t].todo \subseteq Source
    BY <1>1, <1>8, CurrentSource
  <2>2. Syncing(job[t].todo \ {Current(t)}) \in Job
    BY <2>1 DEF Syncing, Job
  <2>3. job'[u] = Syncing(job[t].todo \ {Current(t)})
    BY <1>7, <1>8, <2>1, <2>2 DEF NextSource
  <2>4. QED
    BY <1>2, <2>3 DEF Syncing
<1>9. ASSUME NEW t \in Thread, Gone(t) \/ ReadFails(t) \/ Store(t) \/ StoreFails(t) PROVE FALSE
  <2>1. job[t].at \in {"list", "read"}
    BY <1>9 DEF Gone, ReadFails, Reads, Store, StoreFails
  <2>2. job[t].todo # {}
    BY <1>1, <1>9, CurrentSource DEF Gone, ReadFails, Reads, Store, StoreFails
  <2>3. \E failed \in BOOLEAN : NextSource(t, failed)
    BY <1>9 DEF Gone, ReadFails, Store, StoreFails
  <2>4. QED
    BY <1>8, <2>1, <2>2, <2>3
<1>10. ASSUME NEW t \in Thread, List(t) PROVE FoundInv(u)'
  <2> DEFINE step == [at |-> "read", todo |-> job[t].todo, mark |-> changes,
                      left |-> Listed(Current(t)), found |-> {}]
  <2>1. job[t].at = "list" /\ job' = [job EXCEPT ![t] = step]
    BY <1>10 DEF List, Continue
  <2>2. job'[u] = step \/ u # t
    BY <1>1, <2>1 DEF JobInv
  <2>3. job[t] # Resting
    BY <2>1 DEF Resting
  <2>4. u = t
    <3>1. ASSUME u # t PROVE FALSE
      <4>1. job[u] # Resting
        BY <1>1, <1>2, <2>1, <3>1 DEF JobInv, Resting
      <4>2. QED
        BY <1>1, <2>3, <3>1, <4>1 DEF JobInv
    <3>2. QED
      BY <3>1
  <2>5. job'[u].found = {}
    BY <2>2, <2>4
  <2>6. QED
    BY <2>5 DEF FoundInv
<1>11. ASSUME NEW t \in Thread, Read(t) PROVE FoundInv(u)'
  <2>1. PICK p \in Path :
            /\ Reads(t, p) /\ Present(p) /\ disk[p].text # Bad
            /\ Continue(t, [job[t] EXCEPT
                   !.left = @ \ {p}, !.mark = changes,
                   !.found = @ \cup {[path |-> p, file |-> disk[p]]}])
    BY <1>11 DEF Read
  <2> DEFINE new == [path |-> p, file |-> disk[p]]
  <2>2. job[t].at = "read" /\ p \in job[t].left /\ UNCHANGED <<disk, docs, changes>>
    BY <1>11, <2>1 DEF Read, Reads, libraryVars
  <2>3. u = t
    <3>1. job[t] # Resting
      BY <2>2 DEF Resting
    <3>2. ASSUME u # t PROVE FALSE
      <4>1. job[u] # Resting
        BY <1>1, <1>2, <2>1, <3>2 DEF JobInv, Resting, Continue
      <4>2. QED
        BY <1>1, <3>1, <3>2, <4>1 DEF JobInv
    <3>3. QED
      BY <3>2
  <2>4. job[t] \in [at : {"read"}, todo : (SUBSET Source) \ {{}}, mark : Nat,
                    left : SUBSET Path, found : SUBSET Snapshot]
    BY <1>1, <2>2 DEF JobInv, Job, Resting
  <2>5. job'[u].left = job[t].left \ {p} /\ job'[u].found = job[t].found \cup {new}
    BY <1>1, <2>1, <2>3, <2>4 DEF Continue, JobInv
  <2>6. disk[p] \in File
    BY <1>1, <2>1 DEF DiskInv, Present
  <2>7. disk[p].text \in Text /\ disk[p].since \in Nat
    BY <2>1, <2>6 DEF File
  <2>8. FoundInv(t)
    BY <1>1, <2>2 DEF ReadInv
  <2>9. WasAt(p, disk[p])
    BY <1>1, <2>1, <2>7 DEF WasAt, DiskInv
  <2>10. \A d \in Documents : docs[d].key = p => docs[d].file.since <= disk[p].since
    BY <1>1, <2>1 DEF DiskInv, WasAt
  <2>11. \A f \in job[t].found : f.path # p
    BY <2>2, <2>8 DEF FoundInv
  <2>12. new.path = p /\ new.file = disk[p]
    OBVIOUS
  <2> HIDE DEF new
  <2>13. ASSUME NEW f \in job[t].found \cup {new}
         PROVE  /\ f.file.text \in Text /\ f.path \notin job[t].left \ {p}
                /\ WasAt(f.path, f.file)
                /\ \A g \in job[t].found \cup {new} : f.path = g.path => f = g
                /\ \A d \in Documents : docs[d].key = f.path => docs[d].file.since <= f.file.since
    <3>1. CASE f = new
      BY <2>7, <2>9, <2>10, <2>11, <2>12, <3>1
    <3>2. CASE f \in job[t].found
      BY <2>8, <2>11, <2>12, <3>2 DEF FoundInv
    <3>3. QED
      BY <3>1, <3>2
  <2>14. QED
    BY <2>2, <2>5, <2>13 DEF FoundInv, WasAt, Present, Documents
<1>12. ASSUME NEW t \in Thread, Release(t) PROVE FALSE
  <2>1. job[t] # Resting /\ Continue(t, Resting) /\ Resting \in Job
    BY <1>12 DEF Release, Syncing, Resting, Job
  <2>2. QED
    BY <1>2, <1>7, <2>1 DEF Resting
<1>13. ASSUME NEW t \in Thread, NEW S, LockIsFree, Continue(t, Syncing(S)) PROVE FALSE
  <2>1. \A v \in Thread : job[v] = Resting
    BY <1>1, <1>13 DEF LockIsFree, JobInv, Thread
  <2>2. job'[u] = Resting \/ job'[u] = Syncing(S)
    BY <1>1, <1>13, <2>1 DEF Continue, JobInv
  <2>3. QED
    BY <1>2, <2>2 DEF Resting, Syncing
<1>14. CASE StartCycle
  BY <1>13, <1>14 DEF StartCycle, Thread
<1>15. ASSUME NEW s \in Source, Authorize(s) \/ Rescan(s) PROVE FALSE
  BY <1>13, <1>15 DEF Authorize, Rescan, Thread
<1>16. ASSUME NEW s \in Source, Revoke(s) PROVE FALSE
  <2>1. LockIsFree /\ job' = job
    BY <1>16 DEF Revoke
  <2>2. job[u] = Resting
    BY <1>1, <2>1 DEF LockIsFree, JobInv, Thread
  <2>3. QED
    BY <1>2, <2>1, <2>2 DEF Resting
<1>17. CASE Restart
  BY <1>2, <1>17 DEF Restart, Resting
<1>18. QED
  BY <1>4, <1>5, <1>9, <1>10, <1>11, <1>12, <1>14, <1>15, <1>16, <1>17 DEF Next, Sync, Request

-----------------------------------------------------------------------------
\* The invariant.

LEMMA DocumentsInvInit ==
    ASSUME Init
    PROVE  DocumentsInv
<1> USE DocumentsAssumption DEF Init
<1>1. TablesInv
  <2>1. DOMAIN docs = {} /\ DOMAIN index = {} /\ docs \in [{} -> Document]
    OBVIOUS
  <2>2. QED
    BY <2>1 DEF TablesInv, AreTables, NoOrphans, Documents
<1>2. DiskInv
  <2>1. Documents = {} /\ disk = [p \in Path |-> NoFile] /\ changes = 0 /\ MaxChanges \in Nat
    BY DEF Documents
  <2>2. \A p \in Path : ~ Present(p)
    BY <2>1 DEF Present
  <2>3. QED
    BY <2>1, <2>2 DEF DiskInv
<1>3. JobInv /\ ReadInv
  BY DEF JobInv, ReadInv, Job, Resting
<1>4. QED
  BY <1>1, <1>2, <1>3 DEF DocumentsInv

LEMMA DocumentsInvNext ==
    ASSUME DocumentsInv, [Next]_vars
    PROVE  DocumentsInv'
  BY TablesInvariant, DiskInvariant, JobInvariant, ReadInvariant DEF DocumentsInv

LEMMA DocumentsInvImplies ==
    ASSUME DocumentsInv
    PROVE  TablesAgree
<1>1. TablesInv /\ AreTables(docs, index) /\ DiskInv /\ JobInv
  BY DEF DocumentsInv, TablesInv
<1>2. DocumentsTypeOK
  BY <1>1 DEF DocumentsTypeOK, TablesInv, AreTables, DiskInv, JobInv, Documents
<1>3. NoOrphans
  BY <1>1 DEF TablesInv
<1>4. IndexFollowsDocuments
  BY <1>1 DEF AreTables, IndexFollowsDocuments, Documents
<1>5. NewestRevisionsKept
  BY <1>1 DEF AreTables, IsStored, NewestRevisionsKept, Documents
<1>6. QED
  BY <1>2, <1>3, <1>4, <1>5 DEF TablesAgree

\* A step takes a document from a source that stays only by a scan of it.
LEMMA SharedSurvivesStep ==
    ASSUME DocumentsInv, [Next]_vars,
           NEW s \in elected \cap elected', NEW d \in Documents, <<s, d>> \in members \ members'
    PROVE  \E t \in Thread : job[t].at = "read" /\ Current(t) = s /\ job'[t] # job[t]
<1>1. s \in Source
  BY DEF DocumentsInv, TablesInv
<1>2. CASE UNCHANGED libraryVars
  BY <1>2 DEF libraryVars
<1>3. ASSUME NEW r \in Source, Authorize(r) PROVE FALSE
  BY <1>3 DEF Authorize
<1>4. ASSUME NEW r \in Source, Revoke(r) PROVE FALSE
  <2>1. r # s
    BY <1>4 DEF Revoke
  <2>2. QED
    BY <1>1, <1>4, <2>1, RevokeStep
<1>5. ASSUME NEW t \in Thread, Store(t)
      PROVE  job[t].at = "read" /\ Current(t) = s /\ job'[t] # job[t]
  <2>1. job[t].at = "read" /\ NextSource(t, FALSE)
    BY <1>5 DEF Store
  <2>2. Current(t) = s
    BY <1>1, <1>5, StoreStep
  <2>3. job'[t] = Syncing(job[t].todo \ {Current(t)})
    BY <2>1 DEF NextSource, Continue, DocumentsInv, JobInv
  <2>4. QED
    BY <2>1, <2>2, <2>3 DEF Syncing
<1>6. QED
  BY <1>2, <1>3, <1>4, <1>5, LibrarySteps

\* What a step stores of a path is not older than what was stored of it.
LEMMA NeverGoesBackStep ==
    ASSUME DocumentsInv, [Next]_vars,
           NEW d \in Documents, NEW e \in DOMAIN docs', docs'[e].key = docs[d].key
    PROVE  docs'[e].file.since >= docs[d].file.since
<1>1. /\ \A a, b \in Documents : docs[a].key = docs[b].key => a = b
      /\ docs[d].file.since \in Nat
  BY DocumentsAssumption DEF DocumentsInv, TablesInv, AreTables, Documents, Document, File
<1>2. ASSUME e \in Documents, docs'[e] = docs[e] PROVE docs'[e].file.since >= docs[d].file.since
  <2>1. e = d
    BY <1>1, <1>2
  <2>2. QED
    BY <1>1, <1>2, <2>1
<1>3. CASE UNCHANGED libraryVars
  BY <1>2, <1>3 DEF libraryVars, Documents
<1>4. ASSUME NEW s \in Source, Authorize(s) PROVE docs' = docs
  BY <1>4 DEF Authorize
<1>5. ASSUME NEW s \in Source, Revoke(s) PROVE docs'[e].file.since >= docs[d].file.since
  BY <1>2, <1>5, RevokeStep DEF Documents
<1>6. ASSUME NEW t \in Thread, Store(t) PROVE docs'[e].file.since >= docs[d].file.since
  <2>1. job[t].at = "read"
    BY <1>6 DEF Store
  <2>2. FoundInv(t) /\ job[t].found \subseteq Snapshot
    BY <2>1, CurrentSource DEF DocumentsInv, ReadInv
  <2>3. ASSUME NEW f \in job[t].found, docs'[e].key = f.path, docs'[e].file = f.file
        PROVE  docs'[e].file.since >= docs[d].file.since
    <3>1. docs[d].file.since <= f.file.since
      BY <2>2, <2>3 DEF FoundInv
    <3>2. f.file.since \in Nat
      BY <2>2, DocumentsAssumption DEF Snapshot, File
    <3>3. QED
      BY <1>1, <2>3, <3>1, <3>2
  <2>4. QED
    BY <1>2, <1>6, <2>3, StoreStep DEF Documents
<1>7. QED
  BY <1>2, <1>3, <1>4, <1>5, <1>6, LibrarySteps DEF Documents

\* The maintainer and the user interface keep the inductive invariant.
THEOREM DocumentsInvariant == Spec => []DocumentsInv
<1>1. Init => DocumentsInv
  BY DocumentsInvInit
<1>2. DocumentsInv /\ [Next]_vars => DocumentsInv'
  BY DocumentsInvNext
<1>3. QED
  BY <1>1, <1>2, PTL DEF Spec

\* After any transaction of a scan, an election or a revocation the documents,
\* their index, their memberships and their histories agree
\* (sync_elected_source, _cleanup_orphan_documents, the revision triggers).
THEOREM TablesAlwaysAgree == Spec => []TablesAgree
  BY DocumentsInvariant, DocumentsInvImplies, PTL

\* Neither a revocation nor a scan of an overlapping source takes a document
\* from a source that stays (_cleanup_orphan_documents).
THEOREM SharedDocumentsSurvive == Spec => SharedSurvives
<1> DEFINE Kind == \A s \in elected \cap elected', d \in Documents :
                       <<s, d>> \in members \ members' =>
                           \E t \in Thread : /\ job[t].at = "read" /\ Current(t) = s
                                             /\ job'[t] # job[t]
<1>1. DocumentsInv /\ [Next]_vars => [Kind]_vars
  BY SharedSurvivesStep
<1>2. QED
  BY <1>1, DocumentsInvariant, PTL DEF Spec, SharedSurvives

\* What is stored of a path is never replaced by something that was read
\* before it, because reading and storing are one critical section
\* (source_operation_lock).
THEOREM StoredFilesNeverGoBack == Spec => NeverGoesBack
<1> DEFINE Kind == \A d \in Documents, e \in DOMAIN docs' :
                       docs'[e].key = docs[d].key => docs'[e].file.since >= docs[d].file.since
<1>1. DocumentsInv /\ [Next]_vars => [Kind]_vars
  BY NeverGoesBackStep
<1>2. QED
  BY <1>1, DocumentsInvariant, PTL DEF Spec, NeverGoesBack
=============================================================================
