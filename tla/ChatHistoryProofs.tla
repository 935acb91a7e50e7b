-------------------------- MODULE ChatHistoryProofs --------------------------
(***************************************************************************)
(* Proofs about the stored history, for every set of references, projects  *)
(* and observations and every sequence of events.                          *)
(***************************************************************************)
EXTENDS ChatHistory, TLAPS

Owners == Projects \cup {Unassigned}

LEMMA EventFields ==
    ASSUME NEW e \in Event
    PROVE  /\ e.chat \in References
           /\ e.observation \in Observations
           /\ KeyOf(e) \in Key
BY DEF Event, Key, KeyOf

\* A new project leaves key and chat of every entry as they are.
LEMMA ReindexedEntries ==
    ASSUME HistoryTypeOK, NEW c \in References, NEW p \in Owners
    PROVE  /\ Reindexed(c, p) \subseteq Entry
           /\ \A n \in Reindexed(c, p) :
                  \E m \in index : m.key = n.key /\ m.chat = n.chat
           /\ \A m \in index :
                  \E n \in Reindexed(c, p) : n.key = m.key /\ n.chat = m.chat
<1> DEFINE Moved(n) == IF n.chat = c THEN [n EXCEPT !.project = p] ELSE n
<1>1. ASSUME NEW n \in index
      PROVE  /\ Moved(n) \in Entry
             /\ Moved(n).key = n.key /\ Moved(n).chat = n.chat
  <2>1. n \in Entry
    BY <1>1 DEF HistoryTypeOK
  <2>2. QED
    BY <2>1 DEF Entry, Owners
<1>2. Reindexed(c, p) = {Moved(n) : n \in index}
  BY DEF Reindexed
<1> HIDE DEF Moved
<1>3. QED
  BY <1>1, <1>2

\* Two entries of the same key stay one entry.
LEMMA ReindexedIsUnique ==
    ASSUME HistoryTypeOK, NEW c \in References, NEW p \in Owners,
           \A m, n \in index : m.key = n.key => m = n
    PROVE  \A m, n \in Reindexed(c, p) : m.key = n.key => m = n
<1> DEFINE Moved(n) == IF n.chat = c THEN [n EXCEPT !.project = p] ELSE n
<1>1. ASSUME NEW n \in index PROVE Moved(n).key = n.key
  <2>1. n \in Entry
    BY <1>1 DEF HistoryTypeOK
  <2>2. QED
    BY <2>1 DEF Entry
<1>2. Reindexed(c, p) = {Moved(n) : n \in index}
  BY DEF Reindexed
<1> HIDE DEF Moved
<1>3. QED
  BY <1>1, <1>2

-----------------------------------------------------------------------------

LEMMA TypesOfIngestion ==
    ASSUME HistoryTypeOK, NEW e \in Event, Ingest(e)
    PROVE  HistoryTypeOK'
<1>1. PICK c \in References, p \in Owners :
          /\ reference' = [reference EXCEPT ![c] = e.chat]
          /\ owner' = [owner EXCEPT ![c] = OwnerAfter(e, c, p)]
          /\ WriteMessage(e, c, p)
  BY DEF Ingest, Owners
<1>2. reference' \in [References -> References \cup {None}]
  BY <1>1, EventFields DEF HistoryTypeOK
<1>3. owner' \in [References -> Owners]
  <2>1. OwnerAfter(e, c, p) \in Owners
    BY <1>1 DEF OwnerAfter, HistoryTypeOK, Owners
  <2>2. QED
    BY <1>1, <2>1 DEF HistoryTypeOK, Owners
<1>4. messages' \in [References -> Seq(Key)]
  <2>1. Append(messages[c], KeyOf(e)) \in Seq(Key)
    BY EventFields DEF HistoryTypeOK
  <2>2. QED
    BY <1>1, <2>1 DEF WriteMessage, HistoryTypeOK
<1>5. index' \subseteq Entry
  <2>1. [key |-> KeyOf(e), chat |-> c, project |-> p] \in Entry
    BY EventFields DEF Entry, Owners
  <2>2. QED
    BY <1>1, <2>1, ReindexedEntries DEF WriteMessage, IndexWith
<1>6. QED
  BY <1>2, <1>3, <1>4, <1>5 DEF HistoryTypeOK, Owners

\* The tables keep their types: what an ingestion writes to chats, messages
\* and lexical_entries are references, projects and keys that exist.
THEOREM HistoryTypes == HistorySpec => []HistoryTypeOK
<1>1. HistoryInit => HistoryTypeOK
  BY DEF HistoryInit, HistoryTypeOK
<1>2. HistoryTypeOK /\ [HistoryNext]_historyVars => HistoryTypeOK'
  <2> SUFFICES ASSUME HistoryTypeOK, [HistoryNext]_historyVars
               PROVE  HistoryTypeOK'
    OBVIOUS
  <2>1. ASSUME NEW e \in Event, Ingest(e) PROVE HistoryTypeOK'
    BY <2>1, TypesOfIngestion
  <2>2. ASSUME NEW e \in Event, Refuse(e) PROVE HistoryTypeOK'
    BY <2>2 DEF Refuse, HistoryTypeOK
  <2>3. CASE UNCHANGED historyVars
    BY <2>3 DEF historyVars, HistoryTypeOK
  <2>4. QED
    BY <2>1, <2>2, <2>3 DEF HistoryNext
<1>3. QED
  BY <1>1, <1>2, PTL DEF HistorySpec

-----------------------------------------------------------------------------

\* An event only binds its reference to a chat that has it, or to one when
\* no chat has it.
LEMMA BindingIsFree ==
    ASSUME OneChatPerReference, NEW e \in Event,
           NEW c \in References, BindsTo(e, c)
    PROVE  ReferredTo(e.chat) \subseteq {c}
<1>1. CASE c \in ReferredTo(e.chat)
  <2>1. e.chat # None
    BY EventFields, HistoryAssumption
  <2>2. QED
    BY <1>1, <2>1 DEF ReferredTo, OneChatPerReference
<1>2. CASE ReferredTo(e.chat) = {}
  BY <1>2
<1>3. QED
  BY <1>1, <1>2 DEF BindsTo, KnownChat, NewChat, ProvisionalChat, ReboundChat

\* However chats are created and rebound, a reference of the host never
\* stands for two local chats.
THEOREM ReferencesAreUnique == HistorySpec => []OneChatPerReference
<1>1. HistoryInit => OneChatPerReference
  BY DEF HistoryInit, OneChatPerReference
<1>2. HistoryTypeOK /\ OneChatPerReference /\ [HistoryNext]_historyVars
          => OneChatPerReference'
  <2> SUFFICES ASSUME HistoryTypeOK, OneChatPerReference,
                      [HistoryNext]_historyVars
               PROVE  OneChatPerReference'
    OBVIOUS
  <2>1. ASSUME NEW e \in Event, Ingest(e) PROVE OneChatPerReference'
    <3>1. PICK c \in References :
              BindsTo(e, c) /\ reference' = [reference EXCEPT ![c] = e.chat]
      BY <2>1 DEF Ingest
    <3>2. ReferredTo(e.chat) \subseteq {c}
      BY <3>1, BindingIsFree
    <3>3. QED
      BY <3>1, <3>2 DEF OneChatPerReference, ReferredTo, HistoryTypeOK
  <2>2. ASSUME NEW e \in Event, Refuse(e) PROVE OneChatPerReference'
    BY <2>2 DEF Refuse, OneChatPerReference
  <2>3. CASE UNCHANGED historyVars
    BY <2>3 DEF historyVars, OneChatPerReference
  <2>4. QED
    BY <2>1, <2>2, <2>3 DEF HistoryNext
<1>3. QED
  BY <1>1, <1>2, HistoryTypes, PTL DEF HistorySpec

-----------------------------------------------------------------------------

Holds(c, k) == \E i \in DOMAIN messages[c] : messages[c][i] = k

\* IndexMatchesHistory, said of keys.
LEMMA MatchingIndex ==
    IndexMatchesHistory <=>
        /\ \A c \in References : \A k : Holds(c, k) =>
               \E n \in index : n.key = k /\ n.chat = c
        /\ \A n \in index : Holds(n.chat, n.key)
        /\ \A m, n \in index : m.key = n.key => m = n
BY DEF IndexMatchesHistory, Holds

LEMMA InsertedMessage ==
    ASSUME HistoryTypeOK, IndexMatchesHistory, NEW e \in Event,
           NEW c \in References, NEW p \in Owners, Holders(e) = {},
           messages' = [messages EXCEPT ![c] = Append(@, KeyOf(e))],
           index' = IndexWith(e, c, p)
    PROVE  IndexMatchesHistory'
<1> DEFINE new == [key |-> KeyOf(e), chat |-> c, project |-> p]
           kept == {n \in Reindexed(c, p) : n.key # KeyOf(e)}
<1>1. \A d \in References : ~Holds(d, KeyOf(e))
  BY DEF Holders, Holds
<1>2. \A d \in References : \A k :
          Holds(d, k)' <=> (Holds(d, k) \/ (d = c /\ k = KeyOf(e)))
  <2>1. TAKE d \in References
  <2>a. TAKE k
  <2>2. messages[d] \in Seq(Key)
    BY DEF HistoryTypeOK
  <2>3. CASE d # c
    BY <2>2, <2>3 DEF Holds, HistoryTypeOK
  <2>4. CASE d = c
    <3>1. messages'[d] = Append(messages[d], KeyOf(e))
      BY <2>4 DEF HistoryTypeOK
    <3>2. /\ DOMAIN messages'[d] = 1 .. Len(messages[d]) + 1
          /\ DOMAIN messages[d] = 1 .. Len(messages[d])
          /\ Len(messages[d]) \in Nat
          /\ messages'[d][Len(messages[d]) + 1] = KeyOf(e)
          /\ \A i \in 1 .. Len(messages[d]) : messages'[d][i] = messages[d][i]
      BY <2>2, <3>1, EventFields
    <3>3. \A i : i \in DOMAIN messages'[d] <=>
                     i \in DOMAIN messages[d] \/ i = Len(messages[d]) + 1
      BY <3>2
    <3>4. QED
      BY <2>4, <3>2, <3>3 DEF Holds
  <2>5. QED
    BY <2>3, <2>4
<1>3. index' = kept \cup {new} /\ new.key = KeyOf(e) /\ new.chat = c
  BY DEF IndexWith
<1>4. \A n \in kept : n \in Entry /\ n.chat \in References /\ Holds(n.chat, n.key)
  BY ReindexedEntries, MatchingIndex DEF Entry
<1>5. \A d \in References : \A k : Holds(d, k) => \E n \in kept : n.key = k /\ n.chat = d
  BY <1>1, ReindexedEntries, MatchingIndex
<1>6. \A d \in References : \A k : Holds(d, k)' => \E n \in index' : n.key = k /\ n.chat = d
  <2>1. TAKE d \in References
  <2>a. TAKE k
  <2>2. CASE Holds(d, k)
    BY <1>3, <1>5, <2>2
  <2>3. CASE d = c /\ k = KeyOf(e)
    BY <1>3, <2>3
  <2>4. QED
    BY <1>2, <2>2, <2>3
<1>7. \A n \in index' : Holds(n.chat, n.key)'
  BY <1>2, <1>3, <1>4
<1>8. \A m, n \in index' : m.key = n.key => m = n
  BY <1>3, ReindexedIsUnique, MatchingIndex
<1>9. ASSUME NEW d \in References, NEW i \in DOMAIN messages'[d]
      PROVE  \E n \in index' : n.key = messages'[d][i] /\ n.chat = d
  <2>1. PICK k : k = messages'[d][i]
    OBVIOUS
  <2>2. Holds(d, k)'
    BY <2>1 DEF Holds
  <2>3. QED
    BY <1>6, <2>1, <2>2
<1> HIDE DEF new, kept
<1>10. QED
  BY <1>7, <1>8, <1>9 DEF IndexMatchesHistory, Holds

LEMMA RepeatedMessage ==
    ASSUME HistoryTypeOK, IndexMatchesHistory, NEW c \in References,
           NEW p \in Owners, messages' = messages, index' = Reindexed(c, p)
    PROVE  IndexMatchesHistory'
<1>1. \A d, k : Holds(d, k)' <=> Holds(d, k)
  BY DEF Holds
<1>2. \A d \in References : \A k : Holds(d, k)' => \E n \in index' : n.key = k /\ n.chat = d
  BY <1>1, ReindexedEntries, MatchingIndex
<1>3. \A n \in index' : Holds(n.chat, n.key)'
  BY <1>1, ReindexedEntries, MatchingIndex
<1>4. \A m, n \in index' : m.key = n.key => m = n
  BY ReindexedIsUnique, MatchingIndex
<1>5. QED
  BY <1>2, <1>3, <1>4 DEF IndexMatchesHistory, Holds

\* The lexical index and the messages agree after any number of ingestions,
\* repetitions, rebindings and changes of project.
THEOREM IndexIsExact == HistorySpec => []IndexMatchesHistory
<1>1. HistoryInit => IndexMatchesHistory
  BY DEF HistoryInit, IndexMatchesHistory
<1>2. HistoryTypeOK /\ IndexMatchesHistory /\ [HistoryNext]_historyVars
          => IndexMatchesHistory'
  <2> SUFFICES ASSUME HistoryTypeOK, IndexMatchesHistory,
                      [HistoryNext]_historyVars
               PROVE  IndexMatchesHistory'
    OBVIOUS
  <2>1. ASSUME NEW e \in Event, Ingest(e) PROVE IndexMatchesHistory'
    <3>1. PICK c \in References, p \in Owners : WriteMessage(e, c, p)
      BY <2>1 DEF Ingest, Owners
    <3>2. QED
      BY <3>1, InsertedMessage, RepeatedMessage DEF WriteMessage
  <2>2. ASSUME NEW e \in Event, Refuse(e) PROVE IndexMatchesHistory'
    BY <2>2 DEF Refuse, IndexMatchesHistory
  <2>3. CASE UNCHANGED historyVars
    BY <2>3 DEF historyVars, IndexMatchesHistory
  <2>4. QED
    BY <2>1, <2>2, <2>3 DEF HistoryNext
<1>3. QED
  BY <1>1, <1>2, HistoryTypes, PTL DEF HistorySpec
==============================================================================
