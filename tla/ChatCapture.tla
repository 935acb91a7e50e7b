----------------------------- MODULE ChatCapture -----------------------------
(***************************************************************************)
(* Pages of a chat host with the extension's content script in them, and   *)
(* the delivery of what they capture to the local history.  A page is      *)
(* single threaded: an action is one callback of the script, run to its    *)
(* end.  What the host and the user do to the page (its route, what it     *)
(* shows) is free, but for the conditions that Allowed names.              *)
(*                                                                         *)
(* A submission on a page without a chat opens a conversation, which has   *)
(* the number of the submission, unless it follows one whose conversation  *)
(* has no route yet: then it goes there.  Conversation 0, if there is one, *)
(* existed before.  Each conversation has one answer.                      *)
(***************************************************************************)
EXTENDS Naturals, Sequences, SequencesExt

CONSTANTS
    Pages,
    Projects,        \* the host's projects
    Unassigned,
    None,
    First,           \* 0 if there was a conversation before, else 1
    MaxSubmissions,  \* bound on the submissions of the user
    MaxRounds,       \* pendingRoutePollLimit
    Allowed          \* of what the host and the user may do, see Habits

\* "lose": a delivery fails, for the runtime is away or the page is gone;
\* "reload": the user reloads a page; "leave": the user leaves or reloads a
\* new chat before the script has seen its reference; "hurry": the user acts
\* before the script has looked at the route, which takes it 250 ms at most;
\* "fast": the answer of a new chat is complete before it has a reference;
\* "linger": a page shows the answers of the chat it left for longer than an
\* answer must be stable; "move": the user moves a conversation to another
\* project.
Habits == {"lose", "reload", "leave", "hurry", "fast", "linger", "move"}

Submissions == 1 .. MaxSubmissions
Conversations == First .. MaxSubmissions

Stable(c) == [kind |-> "stable", of |-> c]
Provisional(s) == [kind |-> "provisional", of |-> s]
Temporary == [kind |-> "temporary", of |-> 0]

ASSUME CaptureAssumption ==
    /\ First \in 0 .. 1
    /\ {MaxSubmissions, MaxRounds} \subseteq Nat
    /\ Allowed \subseteq Habits
    /\ None \notin Projects /\ None # Unassigned /\ None # Temporary
    /\ \A c \in Conversations : None # c /\ None # Stable(c)
    /\ \A s \in Submissions : None # Provisional(s)

Prompt(s) == [role |-> "user", of |-> s]
Answer(c) == [role |-> "assistant", of |-> c]

VARIABLES
    page,       \* of each page: the script's state and what the page shows
    asked,      \* of each submission: the conversation it went to
    place,      \* of each conversation: its project
    lost,       \* submissions a delivery of which failed
    reference, owner, messages, index

INSTANCE ChatHistory WITH
    References <- {Stable(c) : c \in Conversations}
                    \cup {Provisional(s) : s \in Submissions} \cup {Temporary},
    Provisionals <- {Provisional(s) : s \in Submissions},
    Targets <- {Stable(c) : c \in Conversations},
    Observations <- {Prompt(s) : s \in Submissions}
                      \cup {Answer(c) : c \in Conversations},
    Prompts <- {Prompt(s) : s \in Submissions}

storeVars == <<reference, owner, messages, index>>
hostVars == <<asked, place>>
vars == <<page, hostVars, lost, storeVars>>

Root == [kind |-> "root", project |-> None, chat |-> None]
Home(q) == [kind |-> "home", project |-> q, chat |-> None]
Chat(c) == [kind |-> "chat", project |-> place[c], chat |-> c]

\* The script as it starts on a page: pending is the submission whose chat
\* has no reference yet, rounds the looks at the route that its timer has left,
\* recent the chat a project home still shows answers of, watched and emitted
\* the answers seen and sent, tail the deliveries.
Fresh(route) ==
    [route |-> route, live |-> route.chat, dom |-> {},
     pending |-> None, rounds |-> 0, recent |-> None, watched |-> {}, emitted |-> {},
     tail |-> <<>>]

Init ==
    /\ page = [t \in Pages |-> Fresh(Root)]
    /\ asked = [s \in Submissions |-> None]
    /\ place = [c \in Conversations |-> None]
    /\ lost = {}
    /\ HistoryInit

---------------------------------------------------------------------------
(* The script's functions, from a page to the page they leave. *)

PromptsOf(es) == {e.observation.of : e \in {f \in es : f.observation.role = "user"}}

Captured(ref, from, project, observation) ==
    [chat |-> ref, from |-> from, project |-> project, titled |-> FALSE,
     observation |-> observation]

\* The route left the project or the chat that the recent chat is of.
WithoutRecent(p) ==
    IF /\ p.recent # None
       /\ \/ p.route.project # p.recent.project
          \/ p.route.kind = "chat" /\ p.route.chat # p.recent.chat
    THEN [p EXCEPT !.recent = None]
    ELSE p

Rebinding(p) ==
    Captured(Stable(p.route.chat), Provisional(p.pending.submission),
             p.route.project, Prompt(p.pending.submission))

RecentAfter(p) ==
    IF p.pending.project # None /\ ~p.pending.captured
    THEN [chat |-> p.route.chat, project |-> p.pending.project,
          ignored |-> p.pending.ignored]
    ELSE None

\* Mutant: the rebinding does not wait for the deliveries before it.
ReconciledAhead(p) ==
    IF /\ p.pending # None
       /\ p.route.kind = "chat"
       /\ p.route.project = p.pending.project
    THEN [p EXCEPT !.pending = None, !.rounds = 0, !.recent = RecentAfter(p),
                   !.tail = <<Rebinding(p)>> \o @]
    ELSE p

\* The chat got its reference: the pending submission is sent again, to
\* rebind the provisional chat.
Reconciled(p) ==
    IF /\ p.pending # None
       /\ p.route.kind = "chat"
       /\ p.route.project = p.pending.project
    THEN [p EXCEPT !.pending = None, !.rounds = 0, !.recent = RecentAfter(p),
                   !.tail = Append(@, Rebinding(p))]
    ELSE p

Noticed(p) == Reconciled(WithoutRecent(p))

RouteChanged(p) == Noticed([p EXCEPT !.watched = {}])

AtHomeOf(p, saved) ==
    /\ p.route.kind = "home"
    /\ saved # None
    /\ saved.project = p.route.project

\* Mutant: on a project home the answers that were there before a prompt
\* count, too.
AssociationsOfAll(p) ==
    CASE p.route.kind = "chat" ->
           {[ref |-> Stable(p.route.chat), ignored |-> {}]}
      [] p.route.kind = "root" ->
           {[ref |-> Temporary, ignored |-> {}]}
      [] AtHomeOf(p, p.pending) ->
           {[ref |-> Provisional(p.pending.submission), ignored |-> {}]}
      [] AtHomeOf(p, p.recent) /\ ~AtHomeOf(p, p.pending) ->
           {[ref |-> Stable(p.recent.chat), ignored |-> {}]}
      [] OTHER -> {}

\* The references that the answers on a page may be filed under, none or
\* one, with the answers that do not count.
Associations(p) ==
    CASE p.route.kind = "chat" ->
           {[ref |-> Stable(p.route.chat), ignored |-> {}]}
      [] p.route.kind = "root" ->
           {[ref |-> Temporary, ignored |-> {}]}
      [] AtHomeOf(p, p.pending) ->
           {[ref |-> Provisional(p.pending.submission),
             ignored |-> p.pending.ignored]}
      [] AtHomeOf(p, p.recent) /\ ~AtHomeOf(p, p.pending) ->
           {[ref |-> Stable(p.recent.chat), ignored |-> p.recent.ignored]}
      [] OTHER -> {}

Sent(p, a, ripe) ==
    [i \in 1 .. Cardinality(ripe) |->
        Captured(a.ref, None, p.route.project, Answer(SetToSeq(ripe)[i]))]

\* Mutant: an answer does not count as sent.
ScannedAgain(p, a, ripe) ==
    [p EXCEPT !.watched = @ \cup (p.dom \ a.ignored),
              !.tail = @ \o Sent(p, a, ripe)]

\* One scan: answers that were seen before and are ripe are sent, the others
\* are watched.
Scanned(p, a, ripe) ==
    [p EXCEPT
       !.watched = @ \cup (p.dom \ a.ignored),
       !.emitted = @ \cup ripe,
       !.tail = @ \o Sent(p, a, ripe),
       !.pending = IF ripe # {} /\ AtHomeOf(p, @)
                   THEN [@ EXCEPT !.captured = TRUE] ELSE @,
       !.recent = IF ripe # {} /\ @ # None /\ a.ref = Stable(@.chat)
                  THEN None ELSE @]

---------------------------------------------------------------------------
(* The script's callbacks. *)

\* The user acts on page p.
Ready(p) == "hurry" \notin Allowed => Noticed(p) = p

\* The user sends a prompt on a page without a chat: it goes to a provisional
\* chat of its own, also when it follows another one in a conversation that has
\* no reference yet.  Only the last one is pending then.
SubmitNewChat(t, s) ==
    LET p == page[t]
        home == p.route.kind = "home"
        opens == p.live = None
    IN  /\ asked[s] = None /\ \A r \in 1 .. s - 1 : asked[r] # None
        /\ Ready(p) /\ p.route.kind # "chat"
        /\ asked' = [asked EXCEPT ![s] = IF opens THEN s ELSE p.live]
        /\ place' = IF opens THEN [place EXCEPT ![s] = p.route.project] ELSE place
        /\ page' = [page EXCEPT ![t] = [p EXCEPT
             !.live = IF opens THEN s ELSE @,
             !.rounds = MaxRounds,
             !.pending = [submission |-> s, project |-> p.route.project,
                          ignored |-> IF home THEN p.dom ELSE {},
                          captured |-> FALSE],
             !.recent = IF home THEN None ELSE @,
             !.tail = Append(@, Captured(Provisional(s), None,
                                         p.route.project, Prompt(s)))]]
        /\ UNCHANGED <<lost, storeVars>>

SubmitInChat(t, s) ==
    LET p == page[t]
    IN  /\ asked[s] = None /\ \A r \in 1 .. s - 1 : asked[r] # None
        /\ Ready(p) /\ p.route.kind = "chat"
        /\ asked' = [asked EXCEPT ![s] = p.route.chat]
        /\ page' = [page EXCEPT ![t].tail =
                      Append(@, Captured(Stable(p.route.chat), None,
                                         p.route.project, Prompt(s)))]
        /\ UNCHANGED <<place, lost, storeVars>>

\* A scan of the answers on the page.  An answer is ripe when it did not
\* change for a while.
Scan(t) ==
    LET p == Noticed(page[t])
    IN  /\ \/ /\ Associations(p) = {}
              /\ page' = [page EXCEPT ![t] = p]
           \/ \E a \in Associations(p) :
                \E ripe \in SUBSET ((p.watched \cap p.dom)
                                       \ (a.ignored \cup p.emitted)) :
                   /\ p.route.kind # "home" /\ "linger" \notin Allowed =>
                          ripe \subseteq {p.live}
                   /\ page' = [page EXCEPT ![t] = Scanned(p, a, ripe)]
        /\ UNCHANGED <<hostVars, lost, storeVars>>

\* The timer counts a round.
Counted(p) == [p EXCEPT !.rounds = @ - 1]

\* Mutant: the timer does not look at the route.
PollInVain(t) ==
    /\ page[t].pending # None /\ page[t].rounds > 0
    /\ page' = [page EXCEPT ![t] = Counted(@)]
    /\ UNCHANGED <<hostVars, lost, storeVars>>

\* The timer that looks at the route while a submission is pending, in as many
\* rounds as it may.
PollRoute(t) ==
    /\ page[t].pending # None /\ page[t].rounds > 0
    /\ page' = [page EXCEPT ![t] = Reconciled(Counted(@))]
    /\ UNCHANGED <<hostVars, lost, storeVars>>

\* The recent chat has been kept long enough.
RecentExpires(t) ==
    /\ page[t].recent # None
    /\ page' = [page EXCEPT ![t].recent = None]
    /\ UNCHANGED <<hostVars, lost, storeVars>>

\* The bridge ingests or refuses the oldest delivery; the next one starts
\* when it has answered.
Deliver(t) ==
    /\ page[t].tail # <<>>
    /\ page' = [page EXCEPT ![t].tail = Tail(@)]
    /\ Ingest(Head(page[t].tail)) \/ Refuse(Head(page[t].tail))
    /\ UNCHANGED <<hostVars, lost>>

\* The runtime cannot be reached: the event is gone, for it counts as sent.
DeliveryFails(t) ==
    /\ "lose" \in Allowed
    /\ page[t].tail # <<>>
    /\ page' = [page EXCEPT ![t].tail = Tail(@)]
    /\ lost' = lost \cup PromptsOf({Head(page[t].tail)})
    /\ UNCHANGED <<hostVars, storeVars>>

---------------------------------------------------------------------------
(* The host and the user. *)

Begun == (Conversations \ Submissions) \cup {s \in Submissions : asked[s] = s}

\* A route change made by the host's own script may escape the watcher.
RouteBecomes(t, r, c) ==
    LET p == [page[t] EXCEPT !.route = r, !.live = c]
    IN  \E q \in {p, RouteChanged(p)} : page' = [page EXCEPT ![t] = q]

MayLeave(p) == Ready(p) /\ (p.pending # None => "leave" \in Allowed)

HostAssignsRoute(t) ==
    /\ page[t].live # None /\ page[t].route.kind # "chat"
    /\ RouteBecomes(t, Chat(page[t].live), page[t].live)
    /\ UNCHANGED <<hostVars, lost, storeVars>>

Navigate(t, r) ==
    /\ r # page[t].route
    /\ MayLeave(page[t])
    /\ RouteBecomes(t, r, r.chat)
    /\ UNCHANGED <<hostVars, lost, storeVars>>

Visit(t) ==
    \/ Navigate(t, Root)
    \/ \E q \in Projects : Navigate(t, Home(q))
    \/ \E c \in Begun : Navigate(t, Chat(c))

\* The page goes over to show the answer of its own conversation, or no
\* longer shows that of another one.
Render(t) ==
    LET c == page[t].live
    IN  /\ c # None /\ c \notin page[t].dom
        /\ page[t].route.kind = "root" => "fast" \in Allowed
        /\ page' = [page EXCEPT ![t].dom = @ \cup {c}]
        /\ UNCHANGED <<hostVars, lost, storeVars>>

Clear(t) ==
    /\ page[t].dom \ {page[t].live} # {}
    /\ page' = [page EXCEPT ![t].dom = @ \cap {page[t].live}]
    /\ UNCHANGED <<hostVars, lost, storeVars>>

Reload(t) ==
    /\ "reload" \in Allowed
    /\ MayLeave(page[t])
    /\ page[t].tail # <<>> => "lose" \in Allowed
    /\ page' = [page EXCEPT ![t] = Fresh(@.route)]
    /\ lost' = lost \cup PromptsOf(ToSet(page[t].tail))
    /\ UNCHANGED <<hostVars, storeVars>>

Move(c, q) ==
    /\ "move" \in Allowed
    /\ c \in Begun
    /\ place[c] # q
    /\ place' = [place EXCEPT ![c] = q]
    /\ UNCHANGED <<page, asked, lost, storeVars>>

---------------------------------------------------------------------------

PageStep(t) ==
    \/ \E s \in Submissions : SubmitNewChat(t, s) \/ SubmitInChat(t, s)
    \/ Scan(t)
    \/ PollRoute(t)
    \/ RecentExpires(t)
    \/ Deliver(t)
    \/ DeliveryFails(t)

HostStep ==
    \/ \E t \in Pages : \/ HostAssignsRoute(t) \/ Visit(t)
                        \/ Render(t) \/ Clear(t) \/ Reload(t)
    \/ \E c \in Conversations, q \in Projects : Move(c, q)

Next == (\E t \in Pages : PageStep(t)) \/ HostStep

Spec == Init /\ [][Next]_vars

\* Deliveries are answered or fail, and the timer runs while it has rounds left.
\* Of the host and the user nothing is assumed.
FairSpec ==
    /\ Spec
    /\ \A t \in Pages : WF_vars(Deliver(t)) /\ WF_vars(PollRoute(t))
==============================================================================
