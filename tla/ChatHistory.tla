----------------------------- MODULE ChatHistory -----------------------------
(***************************************************************************)
(* The stored history of chats: the tables chats, messages and             *)
(* lexical_entries, and the one transaction that changes them, the         *)
(* ingestion of a captured event.  The transaction holds the write lock of *)
(* the database from its start and is rolled back when a step of it fails, *)
(* so an event is either ingested as a whole or refused.                   *)
(*                                                                         *)
(* The local identifier of a chat is a hash of the host's reference at its *)
(* creation; it is that reference here.  The identifier of a message and   *)
(* its dedupe key are hashes of the same material, the reference it was    *)
(* observed under and what was observed (turn, role and text); they are    *)
(* one key.                                                                *)
(***************************************************************************)
EXTENDS Naturals, Sequences

CONSTANTS
    References,    \* the host's references to its chats
    Provisionals,  \* those the extension makes up for a chat that has none
    Targets,       \* those a provisional chat may be rebound to
    Observations,  \* turn, role and text of an observed message
    Prompts,       \* those of role user
    Projects,      \* the host's projects
    Unassigned,    \* the local project of chats without one
    None

ASSUME HistoryAssumption ==
    /\ Provisionals \subseteq References
    /\ Targets \subseteq References \ Provisionals
    /\ Prompts \subseteq Observations
    /\ None \notin References \cup Projects \cup {Unassigned}

VARIABLES
    reference,  \* of each chat: the host's current reference, None without row
    owner,      \* of each chat: its project
    messages,   \* of each chat: the keys of its messages by sequence number
    index       \* the lexical entries

historyVars == <<reference, owner, messages, index>>

Key == [reference: References, observation: Observations]
Entry == [key: Key, chat: References, project: Projects \cup {Unassigned}]

\* What a host adapter hands to the ingestion.  A rebinding is only accepted
\* from a user's submission, from a provisional to a stable reference.
Event ==
    {e \in [chat: References, from: References \cup {None},
            project: Projects \cup {None}, titled: BOOLEAN,
            observation: Observations] :
        e.from # None => /\ e.from \in Provisionals
                         /\ e.chat \in Targets
                         /\ e.observation \in Prompts}

HistoryInit ==
    /\ reference = [c \in References |-> None]
    /\ owner = [c \in References |-> Unassigned]
    /\ messages = [c \in References |-> <<>>]
    /\ index = {}

---------------------------------------------------------------------------

\* The chats the host refers to by r.
ReferredTo(r) == {c \in References : reference[c] = r}

\* The project an event belongs to: its own, else that of its chat.
Resolved(e, p) ==
    \/ e.project # None /\ p = e.project
    \/ e.project = None /\ \E c \in ReferredTo(e.chat) : p = owner[c]
    \/ e.project = None /\ ReferredTo(e.chat) = {} /\ p = Unassigned

\* Chat c has the message the rebinding was submitted with.
Submitted(c, e) ==
    \E i \in DOMAIN messages[c] : messages[c][i].observation = e.observation

KnownChat(e, c) == e.from = None /\ c \in ReferredTo(e.chat)

\* A new row; its identifier may be taken by a chat that was rebound.
NewChat(e, c) ==
    /\ e.from = None
    /\ ReferredTo(e.chat) = {}
    /\ c = e.chat
    /\ reference[c] = None

\* Mutant: the rebinding does not look for a chat with the target reference.
ProvisionalChatUnguarded(e, c) ==
    e.from # None /\ c \in ReferredTo(e.from) /\ Submitted(c, e)

ProvisionalChat(e, c) ==
    /\ e.from # None
    /\ c \in ReferredTo(e.from)
    /\ ReferredTo(e.chat) = {}
    /\ Submitted(c, e)

\* The rebinding was ingested before.
ReboundChat(e, c) ==
    /\ e.from # None
    /\ ReferredTo(e.from) = {}
    /\ c \in ReferredTo(e.chat)
    /\ Submitted(c, e)

BindsTo(e, c) ==
    \/ KnownChat(e, c)
    \/ NewChat(e, c)
    \/ ProvisionalChat(e, c)
    \/ ReboundChat(e, c)

\* Mutant: the row takes the project of the event, not the resolved one.
OwnerOfEvent(e, c, p) == e.project

\* A repeated rebinding updates the row only to change its title.
OwnerAfter(e, c, p) == IF ReboundChat(e, c) /\ ~e.titled THEN owner[c] ELSE p

KeyOf(e) == [reference |-> e.chat, observation |-> e.observation]
PriorKeyOf(e) == [reference |-> e.from, observation |-> e.observation]

\* Mutant: a rebinding is not looked for under its provisional reference.
HoldersOfKey(e) ==
    {c \in References : \E i \in DOMAIN messages[c] : messages[c][i] = KeyOf(e)}

\* The chats that have a message the event is a duplicate of.
Holders(e) ==
    {c \in References :
        \E i \in DOMAIN messages[c] :
            \/ messages[c][i] = KeyOf(e)
            \/ e.from # None /\ messages[c][i] = PriorKeyOf(e)}

\* Mutant: the entries of a chat that changed its project stay as they are.
ReindexedNever(c, p) == index

\* The entries of chat c under project p, the others as they are.
Reindexed(c, p) ==
    {IF n.chat = c THEN [n EXCEPT !.project = p] ELSE n : n \in index}

\* Mutant: a new entry is filed under the reference, not the local chat.
IndexWithReference(e, c, p) ==
    {n \in Reindexed(c, p) : n.key # KeyOf(e)}
        \cup {[key |-> KeyOf(e), chat |-> e.chat, project |-> p]}

IndexWith(e, c, p) ==
    {n \in Reindexed(c, p) : n.key # KeyOf(e)}
        \cup {[key |-> KeyOf(e), chat |-> c, project |-> p]}

WriteMessage(e, c, p) ==
    \/ /\ Holders(e) = {}
       /\ messages' = [messages EXCEPT ![c] = Append(@, KeyOf(e))]
       /\ index' = IndexWith(e, c, p)
    \/ /\ c \in Holders(e)
       /\ messages' = messages
       /\ index' = Reindexed(c, p)

Ingest(e) ==
    \E c \in References, p \in Projects \cup {Unassigned} :
        /\ BindsTo(e, c)
        /\ Resolved(e, p)
        /\ reference' = [reference EXCEPT ![c] = e.chat]
        /\ owner' = [owner EXCEPT ![c] = OwnerAfter(e, c, p)]
        /\ WriteMessage(e, c, p)

\* The transaction fails: there is no chat the event can go to, or its
\* message is in another one.
Refuse(e) ==
    /\ \A c \in References :
           BindsTo(e, c) => \E d \in Holders(e) : d # c
    /\ UNCHANGED <<reference, owner, messages, index>>

HistoryNext == \E e \in Event : Ingest(e) \/ Refuse(e)

HistorySpec == HistoryInit /\ [][HistoryNext]_historyVars

---------------------------------------------------------------------------

\* Types of the tables.
HistoryTypeOK ==
    /\ reference \in [References -> References \cup {None}]
    /\ owner \in [References -> Projects \cup {Unassigned}]
    /\ messages \in [References -> Seq(Key)]
    /\ index \subseteq Entry

\* Whatever is rebound, in whatever order, two local chats never stand for
\* the same conversation of the host.
OneChatPerReference ==
    \A c, d \in References :
        reference[c] = reference[d] /\ reference[c] # None => c = d

\* The search index has exactly one entry for each stored message and files
\* it under the chat that has the message.
IndexMatchesHistory ==
    /\ \A c \in References : \A i \in DOMAIN messages[c] :
           \E n \in index : n.key = messages[c][i] /\ n.chat = c
    /\ \A n \in index : \E i \in DOMAIN messages[n.chat] :
           messages[n.chat][i] = n.key
    /\ \A m, n \in index : m.key = n.key => m = n

\* The messages of a chat are searched under the project it is in, through the
\* rebindings and moves that clients report.  A client that repeated a
\* rebinding without a title from another project would break it.
IndexFollowsProject == \A n \in index : n.project = owner[n.chat]
==============================================================================
