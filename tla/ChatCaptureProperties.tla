------------------------ MODULE ChatCaptureProperties ------------------------
(***************************************************************************)
(* What the capture of a chat host's pages promises about the stored       *)
(* history.                                                                *)
(***************************************************************************)
EXTENDS ChatCapture, FiniteSets

PageTypeOK ==
    /\ \A t \in Pages :
        /\ page[t].live \in Conversations \cup {None}
        /\ page[t].rounds \in 0 .. MaxRounds
        /\ page[t].dom \subseteq Conversations
        /\ page[t].watched \subseteq Conversations
        /\ page[t].emitted \subseteq Conversations
        /\ Len(page[t].tail) <= 2 * MaxSubmissions + Cardinality(Conversations)
        /\ \A i \in DOMAIN page[t].tail : page[t].tail[i] \in Event
    /\ asked \in [Submissions -> Conversations \cup {None}]
    /\ HistoryTypeOK

ConversationOf(o) == IF o.role = "user" THEN asked[o.of] ELSE o.of

\* The conversations that chat c has messages of.
Mixed(c) == {ConversationOf(messages[c][i].observation) : i \in DOMAIN messages[c]}

\* The chat of a conversation, provisional or stable, only has messages of
\* that conversation, whatever routes the page went through while the prompt
\* was pending, the answer was ripening and the deliveries were under way.
FiledUnderItsConversation ==
    \A c \in DOMAIN messages :
        /\ reference[c] # None /\ reference[c].kind = "stable" =>
               Mixed(c) \subseteq {reference[c].of}
        /\ reference[c] # None /\ reference[c].kind = "provisional" =>
               Mixed(c) \subseteq {asked[reference[c].of]}

\* An answer is stored once, whatever routes a page shows it under and at
\* whatever point of its delivery it sees it again.  A page remembers what it
\* sent until it is loaded anew, so this is about one page and one visit.
AnswerStoredOnce ==
    \A a \in Conversations :
        \A c, d \in DOMAIN messages :
            \A i \in DOMAIN messages[c], j \in DOMAIN messages[d] :
                /\ messages[c][i].observation = Answer(a)
                /\ messages[d][j].observation = Answer(a)
                => c = d /\ i = j

\* A rebinding is delivered after the submission it refers to: unless that
\* one failed, the bridge finds it in a chat.
RebindFindsItsSubmission ==
    \A t \in Pages :
        page[t].tail # <<>> /\ Head(page[t].tail).from # None =>
            LET e == Head(page[t].tail)
            IN  \/ e.observation.of \in lost
                \/ \E c \in DOMAIN messages :
                      /\ reference[c] = e.from
                      /\ Submitted(c, e)

\* What pages still have to deliver is what the bridge accepts, no more than
\* they captured, and in an order in which no rebinding comes too early.
DeliveriesInOrder == PageTypeOK /\ RebindFindsItsSubmission

\* The prompt of a submission, which is sent once for the provisional chat and
\* again to rebind it, is stored once, whatever the host and the user do.
PromptStoredOnce ==
    \A s \in Submissions :
        \A c, d \in DOMAIN messages :
            \A i \in DOMAIN messages[c], j \in DOMAIN messages[d] :
                /\ messages[c][i].observation = Prompt(s)
                /\ messages[d][j].observation = Prompt(s)
                => c = d /\ i = j

StoredUnder(s, r) ==
    \E c \in DOMAIN messages :
        /\ reference[c] = r
        /\ \E i \in DOMAIN messages[c] : messages[c][i].observation = Prompt(s)

PendingOn(t, s) == page[t].pending # None /\ page[t].pending.submission = s

\* A timer looks for the reference that the submission's chat is to have.
LookedFor(s) == \E t \in Pages : PendingOn(t, s) /\ page[t].rounds > 0

\* The timer made its last round, and the host has given no reference.
GivenUp(s) ==
    \E t \in Pages : PendingOn(t, s) /\ page[t].rounds = 0 /\ page[t].route.kind # "chat"

\* A later submission to the same conversation is the pending one.
Overtaken(s) ==
    \E t \in Pages, r \in s + 1 .. MaxSubmissions : PendingOn(t, r) /\ asked[r] = asked[s]

\* Every submission is stored, and ends in the chat that has the host's reference
\* of its conversation: unless a delivery of it failed, or before the host gave
\* the reference another one followed or the timer made its last round.  Then it
\* is left in its provisional chat.
SubmissionReachesItsChat ==
    \A s \in Submissions :
        /\ asked[s] # None ~>
               \/ s \in lost
               \/ StoredUnder(s, Stable(asked[s])) \/ StoredUnder(s, Provisional(s))
        /\ LookedFor(s) ~>
               \/ s \in lost
               \/ StoredUnder(s, Stable(asked[s])) \/ Overtaken(s) \/ GivenUp(s)
==============================================================================
