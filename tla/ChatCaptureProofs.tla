-------------------------- MODULE ChatCaptureProofs --------------------------
(***************************************************************************)
(* Proofs about the capture of a chat host's pages, for any number of      *)
(* pages, submissions and projects and whatever the host and the user do.  *)
(***************************************************************************)
EXTENDS ChatCaptureProperties, FiniteSetTheorems, FunctionTheorems, TLAPS

Owners == Projects \cup {Unassigned}

Routes ==
    {Root} \cup {Home(q) : q \in Projects}
    \cup [kind : {"chat"}, project : Projects \cup {None}, chat : Conversations]

\* The submission that waits for its reference, and the chat that was left.
Pending == [submission : Submissions, project : Projects \cup {None},
            ignored : SUBSET Conversations, captured : BOOLEAN]
Recent == [chat : Conversations, project : Projects \cup {None}, ignored : SUBSET Conversations]

\* What the deliveries know of submission s: it is sent once for itself, and
\* once more when its page has seen the reference of the new chat.
Original(e, s) == e.from = None /\ e.observation = Prompt(s)
Rebinds(e, s) == e.from = Provisional(s) /\ e.observation = Prompt(s)
About(e, s) == e.chat = Provisional(s) \/ e.observation = Prompt(s)

Delivery == {e \in Event : e.from # None => \E s \in Submissions : Rebinds(e, s)}

\* What a page is, as far as deliveries depend on it.
PageOK(p) ==
    /\ DOMAIN p = DOMAIN Fresh(Root)
    /\ p.route \in Routes
    /\ p.live \in Conversations \cup {None}
    /\ p.dom \subseteq Conversations /\ p.watched \subseteq Conversations /\ p.emitted \subseteq Conversations
    /\ p.pending \in Pending \cup {None} /\ p.recent \in Recent \cup {None}
    /\ p.rounds \in 0 .. MaxRounds
    /\ p.tail \in Seq(Delivery)

Pagewise(pg) == DOMAIN pg = Pages /\ \A t \in Pages : PageOK(pg[t])

HostInv ==
    /\ asked \in [Submissions -> Conversations \cup {None}]
    /\ place \in [Conversations -> Projects \cup {None}]

-----------------------------------------------------------------------------
Waits(p, s) == p.pending # None /\ p.pending.submission = s

\* The rebinding of s is still to come, or under way.
Undecided(pg, s) ==
    \E t \in Pages : Waits(pg[t], s) \/ \E i \in DOMAIN pg[t].tail : Rebinds(pg[t].tail[i], s)

Sending(pg, s) == \E t \in Pages : \E i \in DOMAIN pg[t].tail : Original(pg[t].tail[i], s)

Stored(c, s) == \E i \in DOMAIN messages[c] : messages[c][i].observation = Prompt(s)

\* A submission that was not made has left no trace.
Unmade(pg, s) ==
    /\ \A t \in Pages : ~Waits(pg[t], s) /\ \A i \in DOMAIN pg[t].tail : ~About(pg[t].tail[i], s)
    /\ reference[Provisional(s)] = None
    /\ \A c \in DOMAIN messages : ~Stored(c, s)

\* The submission itself is delivered before everything that refers to it, and
\* until then the store does not know it.
SentFirst(pg, s) ==
    \A t \in Pages : \A i \in DOMAIN pg[t].tail :
        Original(pg[t].tail[i], s) =>
            /\ \A u \in Pages : \A j \in DOMAIN pg[u].tail : About(pg[u].tail[j], s) => t = u /\ i <= j
            /\ \A u \in Pages : Waits(pg[u], s) => t = u
            /\ \A c \in DOMAIN messages : ~Stored(c, s)
            /\ pg[t].tail[i].chat = Provisional(s) => reference[Provisional(s)] = None

\* It is rebound once, by the page that it was made on.
ReboundOnce(pg, s) ==
    /\ \A t, u \in Pages : Waits(pg[t], s) /\ Waits(pg[u], s) => t = u
    /\ \A t, u \in Pages : Waits(pg[t], s) => \A i \in DOMAIN pg[u].tail : ~Rebinds(pg[u].tail[i], s)
    /\ \A t, u \in Pages : \A i \in DOMAIN pg[t].tail, j \in DOMAIN pg[u].tail :
           Rebinds(pg[t].tail[i], s) /\ Rebinds(pg[u].tail[j], s) => t = u /\ i = j

\* Until it is rebound, it is known under its provisional reference.
Provisionally(pg, s) ==
    Undecided(pg, s) =>
        /\ \A t \in Pages : \A i \in DOMAIN pg[t].tail :
               Original(pg[t].tail[i], s) => pg[t].tail[i].chat = Provisional(s)
        /\ \A c \in DOMAIN messages : \A i \in DOMAIN messages[c] :
               messages[c][i].observation = Prompt(s) =>
                   messages[c][i].reference = Provisional(s) /\ reference[c] = Provisional(s)
        /\ s \in lost \/ Sending(pg, s) \/ \E c \in DOMAIN messages : Stored(c, s)

Traced(pg, s) ==
    /\ asked[s] = None => Unmade(pg, s)
    /\ SentFirst(pg, s) /\ ReboundOnce(pg, s) /\ Provisionally(pg, s)

Followed(pg) == \A s \in Submissions : Traced(pg, s)

\* A page sends an answer once between two reloads.
AnswersOnce(pg) ==
    \A t \in Pages : \A i \in DOMAIN pg[t].tail :
        pg[t].tail[i].observation.role = "assistant" =>
            /\ pg[t].tail[i].observation.of \in pg[t].emitted
            /\ \A j \in DOMAIN pg[t].tail : pg[t].tail[j].observation = pg[t].tail[i].observation => i = j

-----------------------------------------------------------------------------
\* References, keys and events.

Refs == {Stable(c) : c \in Conversations} \cup {Provisional(s) : s \in Submissions} \cup {Temporary}
Observed == {Prompt(s) : s \in Submissions} \cup {Answer(c) : c \in Conversations}
Keys == [reference : Refs, observation : Observed]

LEMMA Numbers == /\ Submissions \subseteq Conversations /\ Conversations \subseteq Nat
                 /\ None \notin Conversations /\ None \notin Projects
  BY CaptureAssumption DEF Submissions, Conversations

LEMMA NoneIsNoReference == None \notin Refs
  BY CaptureAssumption DEF Refs

LEMMA Names ==
    /\ \A s, r : Provisional(s) = Provisional(r) => s = r
    /\ \A s, c : Provisional(s) # Stable(c) /\ Provisional(s) # Temporary
    /\ \A s, r : Prompt(s) = Prompt(r) => s = r
    /\ \A s, c : Prompt(s) # Answer(c) /\ Prompt(s).role = "user" /\ Prompt(s).of = s
    /\ \A c, d : Answer(c) = Answer(d) => c = d
    /\ \A c : Answer(c).role = "assistant" /\ Answer(c).of = c
<1>1. /\ \A s : Provisional(s).kind = "provisional" /\ Provisional(s).of = s
      /\ \A c : Stable(c).kind = "stable"
      /\ Temporary.kind = "temporary"
      /\ \A s : Prompt(s).role = "user" /\ Prompt(s).of = s
      /\ \A c : Answer(c).role = "assistant" /\ Answer(c).of = c
  BY DEF Provisional, Stable, Temporary, Prompt, Answer
<1>2. QED
  BY <1>1

LEMMA References ==
    /\ \A s \in Submissions : Provisional(s) \in Refs
    /\ \A c \in Conversations : Stable(c) \in Refs
    /\ Temporary \in Refs
  BY DEF Refs

LEMMA EventFields ==
    ASSUME NEW e \in Event
    PROVE  /\ e.chat \in Refs /\ e.from \in Refs \cup {None} /\ e.project \in Projects \cup {None}
           /\ e.observation \in Observed
           /\ e.from # None => \E s \in Submissions :
                  /\ e.from = Provisional(s)
                  /\ \E c \in Conversations : e.chat = Stable(c)
                  /\ \E r \in Submissions : e.observation = Prompt(r)
  BY DEF Event, Refs, Observed

LEMMA CapturedFields ==
    ASSUME NEW ref, NEW from, NEW project, NEW o
    PROVE  /\ Captured(ref, from, project, o).chat = ref
           /\ Captured(ref, from, project, o).from = from
           /\ Captured(ref, from, project, o).observation = o
  BY DEF Captured

\* What captureUserSubmit and the scan send is an event, and so is a rebinding.
LEMMA CapturedEvents ==
    ASSUME NEW ref \in Refs, NEW project \in Projects \cup {None}
    PROVE  /\ \A o \in Observed : Captured(ref, None, project, o) \in Delivery
           /\ \A s \in Submissions, c \in Conversations :
                  Captured(Stable(c), Provisional(s), project, Prompt(s)) \in Delivery
<1>1. /\ \A o \in Observed : Captured(ref, None, project, o) \in Event
      /\ \A s \in Submissions, c \in Conversations :
             Captured(Stable(c), Provisional(s), project, Prompt(s)) \in Event
  BY DEF Captured, Event, Refs, Observed
<1>2. QED
  BY <1>1, CapturedFields DEF Delivery, Rebinds

LEMMA ProvisionalIsSome == \A s \in Submissions : Provisional(s) # None
  BY CaptureAssumption

-----------------------------------------------------------------------------
\* The functions of the script.

LEMMA RouteFields ==
    ASSUME NEW route \in Routes
    PROVE  /\ route.kind \in {"root", "home", "chat"} /\ route.project \in Projects \cup {None}
           /\ route.chat \in Conversations \cup {None}
           /\ route.kind = "chat" <=> route.chat \in Conversations
<1>1. CASE route = Root
  BY <1>1, Numbers DEF Root
<1>2. CASE \E q \in Projects : route = Home(q)
  BY <1>2, Numbers DEF Home
<1>3. CASE route \in [kind : {"chat"}, project : Projects \cup {None}, chat : Conversations]
  BY <1>3
<1>4. QED
  BY <1>1, <1>2, <1>3 DEF Routes

LEMMA FieldsOfPage ==
    DOMAIN Fresh(Root) = {"route", "live", "dom", "pending", "rounds", "recent", "watched", "emitted", "tail"}
  BY DEF Fresh

LEMMA FieldsOfSaved ==
    ASSUME NEW p, PageOK(p)
    PROVE  /\ p.pending # None => /\ p.pending.submission \in Submissions /\ p.pending.project \in Projects \cup {None}
                                  /\ p.pending.ignored \subseteq Conversations
                                  /\ [p.pending EXCEPT !.captured = TRUE] \in Pending
                                  /\ [p.pending EXCEPT !.captured = TRUE].submission = p.pending.submission
           /\ p.recent # None => /\ p.recent.chat \in Conversations /\ p.recent.project \in Projects \cup {None}
                                 /\ p.recent.ignored \subseteq Conversations
<1>3. p.pending \in Pending \cup {None} /\ p.recent \in Recent \cup {None}
  BY DEF PageOK
<1>4. /\ p.pending # None => /\ p.pending.submission \in Submissions /\ p.pending.project \in Projects \cup {None}
                             /\ p.pending.ignored \subseteq Conversations
                             /\ [p.pending EXCEPT !.captured = TRUE] \in Pending
                             /\ [p.pending EXCEPT !.captured = TRUE].submission = p.pending.submission
  <2>1. SUFFICES ASSUME p.pending \in Pending
                 PROVE  /\ p.pending.submission \in Submissions /\ p.pending.project \in Projects \cup {None}
                        /\ p.pending.ignored \subseteq Conversations
                        /\ [p.pending EXCEPT !.captured = TRUE] \in Pending
                        /\ [p.pending EXCEPT !.captured = TRUE].submission = p.pending.submission
    BY <1>3
  <2>2. QED
    BY <2>1 DEF Pending
<1>5. p.recent # None => /\ p.recent.chat \in Conversations /\ p.recent.project \in Projects \cup {None}
                         /\ p.recent.ignored \subseteq Conversations
  BY <1>3 DEF Recent
<1>6. QED
  BY <1>4, <1>5

\* Nothing is sent, and no submission begins to wait.
Idles(p, q) ==
    /\ q.tail = p.tail /\ q.emitted = p.emitted
    /\ \A s : Waits(q, s) => Waits(p, s)

\* The submission that waited is sent again.
Rebound(p, q) ==
    \E s \in Submissions, c \in Conversations, e \in Delivery :
        /\ Waits(p, s) /\ \A r : ~Waits(q, r)
        /\ e.from = Provisional(s) /\ e.observation = Prompt(s) /\ e.chat = Stable(c)
        /\ q.tail = Append(p.tail, e) /\ q.emitted = p.emitted

LEMMA FreshPage ==
    ASSUME NEW route \in Routes
    PROVE  /\ PageOK(Fresh(route)) /\ Fresh(route).tail = <<>> /\ \A s : ~Waits(Fresh(route), s)
<1>1. PageOK(Fresh(route))
  BY RouteFields, FieldsOfPage, CaptureAssumption DEF PageOK, Fresh
<1>2. QED
  BY <1>1 DEF Fresh, Waits

LEMMA ForgottenPage ==
    ASSUME NEW p, PageOK(p)
    PROVE  PageOK(WithoutRecent(p)) /\ Idles(p, WithoutRecent(p)) /\ WithoutRecent(p).route = p.route
<1>1. CASE WithoutRecent(p) = p
  BY <1>1 DEF Idles
<1>2. CASE WithoutRecent(p) = [p EXCEPT !.recent = None]
  BY <1>2, FieldsOfPage DEF PageOK, Idles, Waits
<1>3. QED
  BY <1>1, <1>2 DEF WithoutRecent

LEMMA UnwatchedPage ==
    ASSUME NEW p, PageOK(p), NEW W \in SUBSET Conversations
    PROVE  PageOK([p EXCEPT !.watched = W]) /\ Idles(p, [p EXCEPT !.watched = W])
  BY FieldsOfPage DEF PageOK, Idles, Waits

\* The timer counts a round.
LEMMA CountedPage ==
    ASSUME NEW p, PageOK(p), p.rounds > 0
    PROVE  PageOK(Counted(p)) /\ Idles(p, Counted(p))
<1>1. p.rounds \in 0 .. MaxRounds /\ MaxRounds \in Nat
  BY CaptureAssumption DEF PageOK
<1>2. p.rounds - 1 \in 0 .. MaxRounds
  BY <1>1
<1>3. QED
  BY <1>2, FieldsOfPage DEF PageOK, Idles, Waits, Counted

LEMMA ReconciledPage ==
    ASSUME NEW p, PageOK(p)
    PROVE  PageOK(Reconciled(p)) /\ (Idles(p, Reconciled(p)) \/ Rebound(p, Reconciled(p)))
<1> DEFINE q == Reconciled(p)
           e == Rebinding(p)
<1>1. CASE q = p
  BY <1>1 DEF Idles
<1>2. CASE /\ p.pending # None /\ p.route.kind = "chat"
           /\ q = [p EXCEPT !.pending = None, !.rounds = 0, !.recent = RecentAfter(p), !.tail = Append(@, e)]
  <2>1. p.pending.submission \in Submissions /\ p.route.chat \in Conversations /\ p.route.project \in Projects \cup {None}
    BY <1>2, FieldsOfSaved, RouteFields DEF PageOK
  <2>2. e \in Delivery
    BY <2>1, CapturedEvents, References DEF Rebinding
  <2>3. /\ e.from = Provisional(p.pending.submission) /\ e.observation = Prompt(p.pending.submission)
        /\ e.chat = Stable(p.route.chat)
    BY CapturedFields DEF Rebinding
  <2> HIDE DEF e
  <2>4. /\ DOMAIN q = DOMAIN p /\ q.route = p.route /\ q.live = p.live /\ q.dom = p.dom /\ q.watched = p.watched
        /\ q.emitted = p.emitted /\ q.pending = None /\ q.recent = RecentAfter(p) /\ q.tail = Append(p.tail, e)
        /\ q.rounds \in 0 .. MaxRounds
    BY <1>2, FieldsOfPage, CaptureAssumption DEF PageOK
  <2>5. RecentAfter(p) \in Recent \cup {None}
    BY <1>2, <2>1, FieldsOfSaved DEF RecentAfter, Recent
  <2>6. Append(p.tail, e) \in Seq(Delivery)
    BY <2>2 DEF PageOK
  <2> HIDE DEF q
  <2>7. PageOK(q)
    BY <2>1, <2>4, <2>5, <2>6 DEF PageOK
  <2>8. Rebound(p, q)
    BY <1>2, <2>1, <2>2, <2>3, <2>4 DEF Rebound, Waits
  <2>9. QED
    BY <2>7, <2>8 DEF q
<1>3. QED
  BY <1>1, <1>2 DEF Reconciled

LEMMA NoticedPage ==
    ASSUME NEW p, PageOK(p)
    PROVE  PageOK(Noticed(p)) /\ (Idles(p, Noticed(p)) \/ Rebound(p, Noticed(p)))
<1>1. PageOK(WithoutRecent(p)) /\ Idles(p, WithoutRecent(p))
  BY ForgottenPage
<1>2. PICK w : w = WithoutRecent(p)
  OBVIOUS
<1>3. PageOK(Noticed(p)) /\ (Idles(w, Noticed(p)) \/ Rebound(w, Noticed(p)))
  BY <1>1, <1>2, ReconciledPage DEF Noticed
<1>4. QED
  BY <1>1, <1>2, <1>3 DEF Idles, Rebound

LEMMA ChangedRoute ==
    ASSUME NEW p, PageOK(p)
    PROVE  PageOK(RouteChanged(p)) /\ (Idles(p, RouteChanged(p)) \/ Rebound(p, RouteChanged(p)))
<1>1. PICK w : w = [p EXCEPT !.watched = {}]
  OBVIOUS
<1>2. PageOK(w) /\ Idles(p, w)
  BY <1>1, UnwatchedPage
<1>3. PageOK(RouteChanged(p)) /\ (Idles(w, RouteChanged(p)) \/ Rebound(w, RouteChanged(p)))
  BY <1>1, <1>2, NoticedPage DEF RouteChanged
<1>4. QED
  BY <1>2, <1>3 DEF Idles, Rebound

-----------------------------------------------------------------------------
\* What a page does without the store.

LEMMA IdlesKeeps ==
    ASSUME NEW pg, Followed(pg), AnswersOnce(pg), DOMAIN pg = Pages,
           NEW t \in Pages, NEW q, Idles(pg[t], q)
    PROVE  Followed([pg EXCEPT ![t] = q]) /\ AnswersOnce([pg EXCEPT ![t] = q])
<1>1. PICK pn : pn = [pg EXCEPT ![t] = q]
  OBVIOUS
<1>2. \A u \in Pages : /\ pn[u].tail = pg[u].tail /\ pn[u].emitted = pg[u].emitted
                       /\ \A s : Waits(pn[u], s) => Waits(pg[u], s)
  BY <1>1 DEF Idles
<1>3. AnswersOnce(pn)
  BY <1>2 DEF AnswersOnce
<1>4. ASSUME NEW s \in Submissions
      PROVE  Traced(pn, s)
  <2>1. Unmade(pg, s) => Unmade(pn, s)
    BY <1>2 DEF Unmade
  <2>2. SentFirst(pg, s) => SentFirst(pn, s)
    BY <1>2 DEF SentFirst
  <2>3. ReboundOnce(pg, s) => ReboundOnce(pn, s)
    BY <1>2 DEF ReboundOnce
  <2>4. Undecided(pn, s) => Undecided(pg, s)
    BY <1>2 DEF Undecided
  <2>5. Sending(pg, s) => Sending(pn, s)
    BY <1>2 DEF Sending
  <2>6. Provisionally(pg, s) => Provisionally(pn, s)
    BY <1>2, <2>4, <2>5 DEF Provisionally
  <2>7. QED
    BY <2>1, <2>2, <2>3, <2>6 DEF Followed, Traced
<1>5. QED
  BY <1>1, <1>3, <1>4 DEF Followed

\* Page t sends some more; pn are the pages after that.
Sends(pg, pn, t, news) ==
    /\ \A u \in Pages \ {t} : pn[u] = pg[u]
    /\ pn[t].tail = pg[t].tail \o news

\* What was to be sent keeps its place, and the new deliveries follow.
Follow(pg, pn, t, news) ==
    /\ \A u \in Pages : \A i \in DOMAIN pg[u].tail :
           i \in Nat /\ i \in DOMAIN pn[u].tail /\ pn[u].tail[i] = pg[u].tail[i]
    /\ \A u \in Pages : \A i \in DOMAIN pn[u].tail :
           i \in Nat /\ (i \in DOMAIN pg[u].tail \/ (u = t /\ \A j \in DOMAIN pg[t].tail : j < i))
    /\ \A i \in DOMAIN pn[t].tail : i \notin DOMAIN pg[t].tail =>
           \E k \in DOMAIN news : i = Len(pg[t].tail) + k /\ pn[t].tail[i] = news[k]
    /\ Len(pg[t].tail) \in Nat

LEMMA Appended ==
    ASSUME NEW pg, NEW pn, Pagewise(pg), NEW t \in Pages, NEW news \in Seq(Delivery), Sends(pg, pn, t, news)
    PROVE  Follow(pg, pn, t, news)
<1>1. pg[t].tail \in Seq(Delivery) /\ \A u \in Pages : pg[u].tail \in Seq(Delivery)
  BY DEF Pagewise, PageOK
<1>2. PICK old \in Seq(Delivery) : old = pg[t].tail
  BY <1>1
<1>3. /\ Len(old) \in Nat /\ Len(news) \in Nat /\ Len(old \o news) = Len(old) + Len(news)
      /\ DOMAIN old = 1 .. Len(old) /\ DOMAIN news = 1 .. Len(news)
      /\ DOMAIN (old \o news) = 1 .. Len(old) + Len(news)
      /\ \A i \in 1 .. Len(old) : (old \o news)[i] = old[i]
      /\ \A i \in 1 .. Len(old) + Len(news) : i > Len(old) => (old \o news)[i] = news[i - Len(old)]
  OBVIOUS
<1>4. PICK new : new = old \o news
  OBVIOUS
<1>5. pn[t].tail = new /\ \A u \in Pages : u # t => pn[u].tail = pg[u].tail
  BY <1>2, <1>4 DEF Sends
<1>6. \A i \in DOMAIN old : i \in Nat /\ i \in DOMAIN new /\ new[i] = old[i]
  BY <1>3, <1>4
<1>7. \A i \in DOMAIN new : i \in Nat /\ (i \in DOMAIN old \/ \A j \in DOMAIN old : j < i)
  BY <1>3, <1>4
<1>8. ASSUME NEW i \in DOMAIN new, i \notin DOMAIN old
      PROVE  \E k \in DOMAIN news : i = Len(old) + k /\ new[i] = news[k]
  <2>1. i - Len(old) \in DOMAIN news /\ i = Len(old) + (i - Len(old)) /\ new[i] = news[i - Len(old)]
    BY <1>3, <1>4, <1>8
  <2>2. QED
    BY <2>1
<1>9. \A u \in Pages : \A i \in DOMAIN pg[u].tail : i \in Nat
  <2>1. \A u \in Pages : DOMAIN pg[u].tail = 1 .. Len(pg[u].tail) /\ Len(pg[u].tail) \in Nat
    BY <1>1
  <2>2. QED
    BY <2>1
<1>10. QED
  BY <1>2, <1>3, <1>5, <1>6, <1>7, <1>8, <1>9 DEF Follow

BeginsNoWait(pg, pn, r) == \A u \in Pages : Waits(pn[u], r) => Waits(pg[u], r)

Harmless(pg, t, news, r) ==
    \A k \in DOMAIN news : /\ ~Original(news[k], r) /\ ~Rebinds(news[k], r)
                           /\ About(news[k], r) => Waits(pg[t], r)

\* Deliveries that are about no prompt, or of a page that waits, disturb nothing.
LEMMA AppendingKeeps ==
    ASSUME NEW pg, NEW pn, NEW t \in Pages, NEW news, NEW r \in Submissions,
           Follow(pg, pn, t, news), Traced(pg, r), BeginsNoWait(pg, pn, r), Harmless(pg, t, news, r)
    PROVE  Traced(pn, r)
<1> USE DEF BeginsNoWait, Harmless
<1>0. ASSUME NEW u \in Pages, NEW i \in DOMAIN pn[u].tail
      PROVE  \/ i \in DOMAIN pg[u].tail /\ pn[u].tail[i] = pg[u].tail[i]
             \/ /\ u = t /\ ~Original(pn[u].tail[i], r) /\ ~Rebinds(pn[u].tail[i], r)
                /\ About(pn[u].tail[i], r) => Waits(pg[t], r)
  BY DEF Follow
<1>1. (asked[r] = None => Unmade(pg, r)) /\ SentFirst(pg, r) /\ ReboundOnce(pg, r) /\ Provisionally(pg, r)
  BY DEF Traced
<1>2. ASSUME asked[r] = None
      PROVE  Unmade(pn, r)
  <2>1. Unmade(pg, r)
    BY <1>1, <1>2
  <2>2. \A u \in Pages : ~Waits(pn[u], r) /\ ~Waits(pg[u], r)
    BY <2>1 DEF Unmade
  <2>3. \A u \in Pages : \A i \in DOMAIN pn[u].tail : ~About(pn[u].tail[i], r)
    BY <1>0, <2>1, <2>2 DEF Unmade
  <2>4. QED
    BY <2>1, <2>2, <2>3 DEF Unmade
<1>3. SentFirst(pn, r)
  <2>1. SUFFICES ASSUME NEW u \in Pages, NEW i \in DOMAIN pn[u].tail, Original(pn[u].tail[i], r)
                 PROVE  /\ \A v \in Pages : \A j \in DOMAIN pn[v].tail : About(pn[v].tail[j], r) => u = v /\ i <= j
                        /\ \A v \in Pages : Waits(pn[v], r) => u = v
                        /\ \A d \in DOMAIN messages : ~Stored(d, r)
                        /\ pn[u].tail[i].chat = Provisional(r) => reference[Provisional(r)] = None
    BY DEF SentFirst
  <2>2. i \in DOMAIN pg[u].tail /\ pn[u].tail[i] = pg[u].tail[i] /\ i \in Nat
    BY <1>0, <2>1 DEF Follow
  <2>3. /\ \A v \in Pages : \A j \in DOMAIN pg[v].tail : About(pg[v].tail[j], r) => u = v /\ i <= j
        /\ \A v \in Pages : Waits(pg[v], r) => u = v
        /\ \A d \in DOMAIN messages : ~Stored(d, r)
        /\ pg[u].tail[i].chat = Provisional(r) => reference[Provisional(r)] = None
    BY <1>1, <2>1, <2>2 DEF SentFirst
  <2>4. ASSUME NEW v \in Pages, NEW j \in DOMAIN pn[v].tail, About(pn[v].tail[j], r)
        PROVE  u = v /\ i <= j
    <3>1. CASE j \in DOMAIN pg[v].tail
      BY <2>3, <2>4, <3>1 DEF Follow
    <3>2. CASE j \notin DOMAIN pg[v].tail
      <4>1. v = t /\ j \in Nat /\ \A k \in DOMAIN pg[t].tail : k < j
        BY <3>2 DEF Follow
      <4>2. u = t
        BY <1>0, <2>3, <2>4, <3>2
      <4>3. i < j
        BY <2>2, <4>1, <4>2
      <4>4. QED
        BY <2>2, <4>1, <4>2, <4>3
    <3>3. QED
      BY <3>1, <3>2
  <2>5. QED
    BY <2>2, <2>3, <2>4
<1>4. ReboundOnce(pn, r)
  <2>1. \A u \in Pages : \A i \in DOMAIN pn[u].tail :
            Rebinds(pn[u].tail[i], r) => i \in DOMAIN pg[u].tail /\ Rebinds(pg[u].tail[i], r)
    BY <1>0
  <2>2. QED
    BY <1>1, <2>1 DEF ReboundOnce
<1>5. Provisionally(pn, r)
  <2>1. Undecided(pn, r) => Undecided(pg, r)
    BY <1>0 DEF Undecided
  <2>2. Sending(pg, r) => Sending(pn, r)
    BY DEF Sending, Follow
  <2>3. \A u \in Pages : \A i \in DOMAIN pn[u].tail : Original(pn[u].tail[i], r) =>
            i \in DOMAIN pg[u].tail /\ pn[u].tail[i] = pg[u].tail[i]
    BY <1>0
  <2>4. QED
    BY <1>1, <2>1, <2>2, <2>3 DEF Provisionally
<1>6. QED
  BY <1>1, <1>2, <1>3, <1>4, <1>5 DEF Traced

LEMMA OneMore ==
    ASSUME NEW pg, NEW pn, Pagewise(pg), NEW t \in Pages, NEW e \in Delivery,
           pn[t].tail = Append(pg[t].tail, e), \A u \in Pages : u # t => pn[u] = pg[u]
    PROVE  Follow(pg, pn, t, <<e>>)
<1>1. <<e>> \in Seq(Delivery)
  OBVIOUS
<1>2. Append(pg[t].tail, e) = pg[t].tail \o <<e>>
  BY DEF Pagewise, PageOK
<1>3. Sends(pg, pn, t, <<e>>)
  BY <1>2 DEF Sends
<1>4. QED
  BY <1>1, <1>3, Appended

SameEmitted(pg, pn) == \A u \in Pages : pn[u].emitted = pg[u].emitted
OnlyPrompts(news) == \A k \in DOMAIN news : news[k].observation.role = "user"

LEMMA PromptsAreNoAnswers ==
    ASSUME NEW pg, NEW pn, NEW t \in Pages, NEW news, AnswersOnce(pg),
           Follow(pg, pn, t, news), OnlyPrompts(news), SameEmitted(pg, pn)
    PROVE  AnswersOnce(pn)
<1>1. \A u \in Pages : pn[u].emitted = pg[u].emitted
  BY DEF SameEmitted
<1>2. \A u \in Pages : \A i \in DOMAIN pn[u].tail : pn[u].tail[i].observation.role = "assistant" =>
          i \in DOMAIN pg[u].tail /\ pn[u].tail[i] = pg[u].tail[i]
  <2> SUFFICES ASSUME NEW u \in Pages, NEW i \in DOMAIN pn[u].tail, pn[u].tail[i].observation.role = "assistant"
               PROVE  i \in DOMAIN pg[u].tail /\ pn[u].tail[i] = pg[u].tail[i]
    OBVIOUS
  <2>2. i \in DOMAIN pg[u].tail
    BY DEF Follow, OnlyPrompts
  <2>3. QED
    BY <2>2 DEF Follow
<1>3. QED
  BY <1>1, <1>2 DEF AnswersOnce

\* What is traced is a matter of the deliveries and the store.
LEMMA TracesAreOfTheStore ==
    ASSUME NEW pg, NEW r, UNCHANGED <<reference, messages>>, lost \subseteq lost'
    PROVE  /\ Unmade(pg, r) => Unmade(pg, r)'
           /\ SentFirst(pg, r) => SentFirst(pg, r)'
           /\ ReboundOnce(pg, r) => ReboundOnce(pg, r)'
           /\ Provisionally(pg, r) => Provisionally(pg, r)'
<1>1. \A c : Stored(c, r)' <=> Stored(c, r)
  BY DEF Stored
<1>2. (Sending(pg, r)' <=> Sending(pg, r)) /\ (Undecided(pg, r)' <=> Undecided(pg, r))
  BY DEF Sending, Undecided
<1>3. Unmade(pg, r) => Unmade(pg, r)'
  BY <1>1 DEF Unmade
<1>4. SentFirst(pg, r) => SentFirst(pg, r)'
  BY <1>1 DEF SentFirst
<1>5. ReboundOnce(pg, r) => ReboundOnce(pg, r)'
  BY DEF ReboundOnce
<1>6. Provisionally(pg, r) => Provisionally(pg, r)'
  BY <1>1, <1>2 DEF Provisionally
<1>7. QED
  BY <1>3, <1>4, <1>5, <1>6

LEMMA TracedIsOfTheStore ==
    ASSUME NEW pg, NEW r, UNCHANGED <<reference, messages, lost>>, asked'[r] = asked[r], Traced(pg, r)
    PROVE  Traced(pg, r)'
  BY TracesAreOfTheStore DEF Traced

\* The rebinding comes after the submission it is of, if that is still to be sent.
LEMMA ReboundKeeps ==
    ASSUME NEW pg, Pagewise(pg), Followed(pg), AnswersOnce(pg), NEW t \in Pages, NEW q, Rebound(pg[t], q)
    PROVE  Followed([pg EXCEPT ![t] = q]) /\ AnswersOnce([pg EXCEPT ![t] = q])
<1>1. PICK s \in Submissions, c \in Conversations, e \in Delivery :
          /\ Waits(pg[t], s) /\ \A r : ~Waits(q, r)
          /\ e.from = Provisional(s) /\ e.observation = Prompt(s) /\ e.chat = Stable(c)
          /\ q.tail = Append(pg[t].tail, e) /\ q.emitted = pg[t].emitted
  BY DEF Rebound
<1>2. PICK pn : pn = [pg EXCEPT ![t] = q]
  OBVIOUS
<1>3. pn[t] = q /\ \A u \in Pages : u # t => pn[u] = pg[u]
  BY <1>2 DEF Pagewise
<1>4. PICK news : news = <<e>>
  OBVIOUS
<1>5. DOMAIN news = {1} /\ news[1] = e
  BY <1>4
<1>6. Follow(pg, pn, t, news)
  BY <1>1, <1>3, <1>4, OneMore
<1>7. e.from # None /\ e.observation.role = "user"
  BY <1>1, ProvisionalIsSome, Names
<1>8. \A u \in Pages : \A r : Waits(pn[u], r) => Waits(pg[u], r) /\ u # t
  BY <1>1, <1>3
<1>9. AnswersOnce(pn)
  <2>1. OnlyPrompts(news) /\ SameEmitted(pg, pn)
    BY <1>1, <1>3, <1>5, <1>7 DEF OnlyPrompts, SameEmitted
  <2>2. QED
    BY <1>6, <2>1, PromptsAreNoAnswers
<1>10. Traced(pg, s) /\ asked[s] # None
  BY <1>1 DEF Followed, Traced, Unmade
<1>11. ~Original(e, s) /\ About(e, s) /\ e.chat # Provisional(s)
  BY <1>1, <1>7, Names DEF Original, About, Rebinds
<1>12. \A u \in Pages : \A i \in DOMAIN pn[u].tail :
           \/ i \in DOMAIN pg[u].tail /\ pn[u].tail[i] = pg[u].tail[i]
           \/ u = t /\ i = Len(pg[t].tail) + 1 /\ pn[u].tail[i] = e /\ \A j \in DOMAIN pg[t].tail : j < i
  BY <1>5, <1>6 DEF Follow
<1>13. SentFirst(pn, s)
  <2>1. SUFFICES ASSUME NEW u \in Pages, NEW i \in DOMAIN pn[u].tail, Original(pn[u].tail[i], s)
                 PROVE  /\ \A v \in Pages : \A j \in DOMAIN pn[v].tail : About(pn[v].tail[j], s) => u = v /\ i <= j
                        /\ \A v \in Pages : Waits(pn[v], s) => u = v
                        /\ \A d \in DOMAIN messages : ~Stored(d, s)
                        /\ pn[u].tail[i].chat = Provisional(s) => reference[Provisional(s)] = None
    BY DEF SentFirst
  <2>2. i \in DOMAIN pg[u].tail /\ pn[u].tail[i] = pg[u].tail[i] /\ i \in Nat
    BY <1>6, <1>11, <1>12, <2>1 DEF Follow
  <2>3. /\ \A v \in Pages : \A j \in DOMAIN pg[v].tail : About(pg[v].tail[j], s) => u = v /\ i <= j
        /\ \A v \in Pages : Waits(pg[v], s) => u = v
        /\ \A d \in DOMAIN messages : ~Stored(d, s)
        /\ pg[u].tail[i].chat = Provisional(s) => reference[Provisional(s)] = None
    BY <1>10, <2>1, <2>2 DEF Traced, SentFirst
  <2>4. u = t
    BY <1>1, <2>3
  <2>5. \A v \in Pages : \A j \in DOMAIN pn[v].tail : About(pn[v].tail[j], s) => u = v /\ i <= j
    <3>1. SUFFICES ASSUME NEW v \in Pages, NEW j \in DOMAIN pn[v].tail, About(pn[v].tail[j], s)
                   PROVE  u = v /\ i <= j
      OBVIOUS
    <3>2. j \in Nat
      BY <1>6 DEF Follow
    <3>3. QED
      BY <1>12, <2>2, <2>3, <2>4, <3>1, <3>2
  <2>6. QED
    BY <1>8, <2>2, <2>3, <2>5
<1>14. ReboundOnce(pn, s)
  <2>1. \A u \in Pages : Waits(pg[u], s) => u = t
    BY <1>1, <1>10 DEF Traced, ReboundOnce
  <2>2. \A u \in Pages : \A i \in DOMAIN pg[u].tail : ~Rebinds(pg[u].tail[i], s)
    BY <1>1, <1>10 DEF Traced, ReboundOnce
  <2>3. \A u \in Pages : \A i \in DOMAIN pn[u].tail :
            Rebinds(pn[u].tail[i], s) => u = t /\ i = Len(pg[t].tail) + 1
    BY <1>12, <2>2
  <2>4. \A u \in Pages : ~Waits(pn[u], s)
    BY <1>8, <2>1
  <2>5. QED
    BY <2>3, <2>4 DEF ReboundOnce
<1>15. Provisionally(pn, s)
  <2>1. Undecided(pg, s) /\ Provisionally(pg, s)
    BY <1>1, <1>10 DEF Undecided, Traced
  <2>2. Sending(pg, s) => Sending(pn, s)
    BY <1>6 DEF Sending, Follow
  <2>3. \A u \in Pages : \A i \in DOMAIN pn[u].tail : Original(pn[u].tail[i], s) =>
            i \in DOMAIN pg[u].tail /\ pn[u].tail[i] = pg[u].tail[i]
    BY <1>11, <1>12
  <2>4. QED
    BY <2>1, <2>2, <2>3 DEF Provisionally
<1>16. ASSUME NEW r \in Submissions, r # s
       PROVE  Traced(pn, r)
  <2>1. ~Original(e, r) /\ ~Rebinds(e, r) /\ ~About(e, r)
    BY <1>1, <1>16, Names DEF Original, Rebinds, About
  <2>2. Traced(pg, r)
    BY DEF Followed
  <2>3. BeginsNoWait(pg, pn, r) /\ Harmless(pg, t, news, r)
    BY <1>5, <1>8, <2>1 DEF BeginsNoWait, Harmless
  <2>4. QED
    BY <1>6, <2>2, <2>3, AppendingKeeps
<1>17. QED
  BY <1>2, <1>9, <1>10, <1>13, <1>14, <1>15, <1>16 DEF Followed, Traced

\* A new submission is the first delivery that is about it.
LEMMA SubmittingKeeps ==
    ASSUME HostInv, NEW pg, Pagewise(pg), Followed(pg), AnswersOnce(pg), NEW t \in Pages, NEW q,
           NEW s \in Submissions, asked[s] = None, NEW c \in Conversations, asked' = [asked EXCEPT ![s] = c],
           UNCHANGED <<reference, messages, lost>>,
           NEW e \in Delivery, Original(e, s), \A r : e.chat = Provisional(r) => r = s,
           \A r : Waits(q, r) => Waits(pg[t], r) \/ (r = s /\ e.chat = Provisional(s)),
           q.tail = Append(pg[t].tail, e), q.emitted = pg[t].emitted
    PROVE  Followed([pg EXCEPT ![t] = q])' /\ AnswersOnce([pg EXCEPT ![t] = q])
<1>1. PICK pn : pn = [pg EXCEPT ![t] = q]
  OBVIOUS
<1>2. pn[t] = q /\ \A u \in Pages : u # t => pn[u] = pg[u]
  BY <1>1 DEF Pagewise
<1>3. PICK news : news = <<e>>
  OBVIOUS
<1>4. DOMAIN news = {1} /\ news[1] = e
  BY <1>3
<1>5. Follow(pg, pn, t, news)
  BY <1>2, <1>3, OneMore
<1>6. e.observation = Prompt(s) /\ e.from = None
  BY DEF Original
<1>7. AnswersOnce(pn)
  <2>1. e.observation.role = "user"
    BY <1>6, Names
  <2>2. OnlyPrompts(news) /\ SameEmitted(pg, pn)
    BY <1>2, <1>4, <2>1 DEF OnlyPrompts, SameEmitted
  <2>3. QED
    BY <1>5, <2>2, PromptsAreNoAnswers
<1>8. ASSUME NEW r \in Submissions, r # s
      PROVE  Traced(pn, r)'
  <2>1. ~Original(e, r) /\ ~Rebinds(e, r) /\ ~About(e, r)
    BY <1>6, <1>8, Names, ProvisionalIsSome DEF Original, Rebinds, About
  <2>2. Traced(pg, r)
    BY DEF Followed
  <2>3. BeginsNoWait(pg, pn, r) /\ Harmless(pg, t, news, r)
    BY <1>2, <1>4, <1>8, <2>1 DEF BeginsNoWait, Harmless
  <2>4. Traced(pn, r)
    BY <1>5, <2>2, <2>3, AppendingKeeps
  <2>5. asked'[r] = asked[r]
    BY <1>8 DEF HostInv
  <2>6. QED
    BY <2>4, <2>5, TracedIsOfTheStore
<1>9. Traced(pn, s)'
  <2>1. Unmade(pg, s)
    BY DEF Followed, Traced
  <2>2. asked'[s] # None
    BY Numbers DEF HostInv
  <2>3. \A u \in Pages : \A i \in DOMAIN pn[u].tail :
            About(pn[u].tail[i], s) => u = t /\ i = Len(pg[t].tail) + 1 /\ pn[u].tail[i] = e
    BY <1>4, <1>5, <2>1 DEF Follow, Unmade
  <2>4. \A u \in Pages : Waits(pn[u], s) => u = t /\ e.chat = Provisional(s)
    BY <1>2, <2>1 DEF Unmade
  <2>5. \A u \in Pages : \A i \in DOMAIN pn[u].tail : ~Rebinds(pn[u].tail[i], s)
    <3>1. ~Rebinds(e, s)
      BY <1>6, ProvisionalIsSome DEF Rebinds
    <3>2. QED
      BY <2>3, <3>1 DEF About, Rebinds
  <2>6. SentFirst(pn, s)
    <3>1. \A u \in Pages : \A i \in DOMAIN pn[u].tail : Original(pn[u].tail[i], s) => About(pn[u].tail[i], s)
      BY DEF Original, About
    <3>2. Len(pg[t].tail) \in Nat
      BY <1>5 DEF Follow
    <3>3. (\A d \in DOMAIN messages : ~Stored(d, s)) /\ reference[Provisional(s)] = None
      BY <2>1 DEF Unmade
    <3>4. QED
      BY <2>3, <2>4, <3>1, <3>2, <3>3 DEF SentFirst
  <2>7. ReboundOnce(pn, s)
    BY <2>4, <2>5 DEF ReboundOnce
  <2>8. Provisionally(pn, s)
    <3>1. SUFFICES ASSUME Undecided(pn, s)
                   PROVE  /\ \A u \in Pages : \A i \in DOMAIN pn[u].tail :
                                 Original(pn[u].tail[i], s) => pn[u].tail[i].chat = Provisional(s)
                          /\ \A d \in DOMAIN messages : ~Stored(d, s)
                          /\ Sending(pn, s)
      BY DEF Provisionally, Stored
    <3>2. e.chat = Provisional(s)
      BY <2>4, <2>5, <3>1 DEF Undecided
    <3>3. \A u \in Pages : \A i \in DOMAIN pn[u].tail : Original(pn[u].tail[i], s) => pn[u].tail[i] = e
      BY <2>3 DEF Original, About
    <3>4. Len(pg[t].tail) + 1 \in DOMAIN pn[t].tail /\ pn[t].tail[Len(pg[t].tail) + 1] = e
      BY <1>2 DEF Pagewise, PageOK
    <3>5. QED
      BY <2>1, <3>2, <3>3, <3>4 DEF Sending, Unmade
  <2>9. SentFirst(pn, s)' /\ ReboundOnce(pn, s)' /\ Provisionally(pn, s)'
    BY <2>6, <2>7, <2>8, TracesAreOfTheStore
  <2>10. QED
    BY <2>2, <2>9 DEF Traced
<1>10. Followed(pn)'
  BY <1>8, <1>9 DEF Followed
<1>11. QED
  BY <1>1, <1>7, <1>10

-----------------------------------------------------------------------------
\* A scan sends answers that its page has not sent before.

Answering(p, q, news) ==
    /\ q.tail = p.tail \o news
    /\ \A s : Waits(q, s) => Waits(p, s)
    /\ p.emitted \subseteq q.emitted
    /\ \A k \in DOMAIN news :
        /\ news[k].from = None /\ news[k].observation.role = "assistant"
        /\ news[k].observation.of \in q.emitted /\ news[k].observation.of \notin p.emitted
        /\ \A s : news[k].chat = Provisional(s) => Waits(p, s)
        /\ \A l \in DOMAIN news : news[l].observation = news[k].observation => k = l

LEMMA ConversationsAreFinite == \A S \in SUBSET Conversations : IsFiniteSet(S) /\ Cardinality(S) \in Nat
<1>1. IsFiniteSet(Conversations)
  BY CaptureAssumption, FS_Interval DEF Conversations
<1>2. QED
  BY <1>1, FS_Subset, FS_CardinalityType

LEMMA Enumerated ==
    ASSUME NEW S, IsFiniteSet(S)
    PROVE  SetToSeq(S) \in [1 .. Cardinality(S) -> S] /\ \A i, j \in 1 .. Cardinality(S) :
               SetToSeq(S)[i] = SetToSeq(S)[j] => i = j
<1>1. ExistsBijection(1 .. Cardinality(S), S)
  BY FS_CardinalityType
<1>2. PICK f : f \in Bijection(1 .. Cardinality(S), S)
  BY <1>1 DEF ExistsBijection
<1>3. f \in [1 .. Cardinality(S) -> S] /\ IsInjective(f)
  BY <1>2 DEF Bijection, Injection
<1>4. SetToSeq(S) \in [1 .. Cardinality(S) -> S] /\ IsInjective(SetToSeq(S))
  BY <1>3 DEF SetToSeq
<1>5. QED
  BY <1>4 DEF IsInjective

\* The reference that an answer is filed under belongs to the page.
LEMMA AssociationsOfPage ==
    ASSUME NEW p, PageOK(p), NEW a \in Associations(p)
    PROVE  a.ref \in Refs /\ \A s : a.ref = Provisional(s) => Waits(p, s)
<1> DEFINE Only(ref, ignored) == {[ref |-> ref, ignored |-> ignored]}
<1>1. CASE p.route.kind = "chat"
  <2>1. Associations(p) = Only(Stable(p.route.chat), {})
    BY <1>1 DEF Associations, AtHomeOf
  <2>2. p.route.chat \in Conversations
    BY <1>1, RouteFields DEF PageOK
  <2>3. QED
    BY <2>1, <2>2, References, Names
<1>2. CASE p.route.kind = "root"
  <2>1. Associations(p) = Only(Temporary, {})
    BY <1>2 DEF Associations, AtHomeOf
  <2>2. QED
    BY <2>1, References, Names
<1>3. CASE p.route.kind = "home" /\ AtHomeOf(p, p.pending)
  <2>1. Associations(p) = Only(Provisional(p.pending.submission), p.pending.ignored)
    BY <1>3 DEF Associations
  <2>2. p.pending # None /\ p.pending.submission \in Submissions
    BY <1>3, FieldsOfSaved DEF AtHomeOf
  <2>3. QED
    BY <2>1, <2>2, References, Names DEF Waits
<1>4. CASE p.route.kind = "home" /\ ~AtHomeOf(p, p.pending) /\ AtHomeOf(p, p.recent)
  <2>1. Associations(p) = Only(Stable(p.recent.chat), p.recent.ignored)
    BY <1>4 DEF Associations
  <2>2. p.recent.chat \in Conversations
    BY <1>4, FieldsOfSaved DEF AtHomeOf
  <2>3. QED
    BY <2>1, <2>2, References, Names
<1>5. CASE p.route.kind = "home" /\ ~AtHomeOf(p, p.pending) /\ ~AtHomeOf(p, p.recent)
  <2>1. Associations(p) = {}
    BY <1>5 DEF Associations
  <2>2. QED
    BY <2>1
<1>6. QED
  BY <1>1, <1>2, <1>3, <1>4, <1>5, RouteFields DEF PageOK

LEMMA SentAnswers ==
    ASSUME NEW p, PageOK(p), NEW a \in Associations(p), NEW ripe \in SUBSET Conversations
    PROVE  /\ Sent(p, a, ripe) \in Seq(Delivery)
           /\ \A k \in DOMAIN Sent(p, a, ripe) :
                  /\ Sent(p, a, ripe)[k].from = None /\ Sent(p, a, ripe)[k].chat = a.ref
                  /\ \E c \in ripe : Sent(p, a, ripe)[k].observation = Answer(c)
                  /\ \A l \in DOMAIN Sent(p, a, ripe) :
                         Sent(p, a, ripe)[l].observation = Sent(p, a, ripe)[k].observation => k = l
<1>0. PICK n \in Nat : n = Cardinality(ripe)
  BY ConversationsAreFinite
<1>1. PICK f \in [1 .. n -> ripe] :
          f = SetToSeq(ripe) /\ \A i, j \in 1 .. n : f[i] = f[j] => i = j
  BY <1>0, ConversationsAreFinite, Enumerated
<1>2. PICK g : g = Sent(p, a, ripe)
  OBVIOUS
<1>3. g = [i \in 1 .. n |-> Captured(a.ref, None, p.route.project, Answer(f[i]))]
  BY <1>0, <1>1, <1>2 DEF Sent
<1>4. ASSUME NEW i \in 1 .. n
      PROVE  /\ g[i] \in Delivery /\ g[i].from = None /\ g[i].chat = a.ref
             /\ f[i] \in ripe /\ g[i].observation = Answer(f[i])
  <2>1. Answer(f[i]) \in Observed /\ f[i] \in ripe
    BY DEF Observed
  <2>2. a.ref \in Refs /\ p.route.project \in Projects \cup {None}
    BY AssociationsOfPage, RouteFields DEF PageOK
  <2>3. g[i] = Captured(a.ref, None, p.route.project, Answer(f[i]))
    BY <1>3
  <2>4. g[i] \in Delivery
    BY <2>1, <2>2, <2>3, CapturedEvents
  <2>5. QED
    BY <2>1, <2>3, <2>4, CapturedFields
<1>5. g \in Seq(Delivery) /\ DOMAIN g = 1 .. n
  <2>1. g \in [1 .. n -> Delivery]
    BY <1>3, <1>4
  <2>2. QED
    BY <2>1
<1>6. \A k, l \in 1 .. n : g[l].observation = g[k].observation => k = l
  BY <1>1, <1>4, Names
<1>7. QED
  BY <1>2, <1>4, <1>5, <1>6

LEMMA ScannedPage ==
    ASSUME NEW p, PageOK(p), NEW a \in Associations(p), NEW ripe,
           ripe \subseteq (p.watched \cap p.dom) \ (a.ignored \cup p.emitted)
    PROVE  PageOK(Scanned(p, a, ripe)) /\ \E news \in Seq(Delivery) : Answering(p, Scanned(p, a, ripe), news)
<1>1. ripe \subseteq Conversations /\ ripe \cap p.emitted = {}
  BY DEF PageOK
<1>2. PICK news \in Seq(Delivery) :
          /\ news = Sent(p, a, ripe)
          /\ \A k \in DOMAIN news :
                 /\ news[k].from = None /\ news[k].chat = a.ref
                 /\ \E c \in ripe : news[k].observation = Answer(c)
                 /\ \A l \in DOMAIN news : news[l].observation = news[k].observation => k = l
  BY <1>1, SentAnswers
<1>3. PICK q : q = Scanned(p, a, ripe)
  OBVIOUS
<1>4. /\ DOMAIN q = DOMAIN p /\ q.route = p.route /\ q.live = p.live /\ q.dom = p.dom /\ q.rounds = p.rounds
      /\ q.watched = p.watched \cup (p.dom \ a.ignored) /\ q.emitted = p.emitted \cup ripe
      /\ q.tail = p.tail \o news
      /\ q.pending = IF ripe # {} /\ AtHomeOf(p, p.pending) THEN [p.pending EXCEPT !.captured = TRUE] ELSE p.pending
      /\ q.recent = None \/ q.recent = p.recent
  BY <1>2, <1>3, FieldsOfPage DEF Scanned, PageOK
<1>5. /\ q.pending # None => p.pending # None /\ q.pending.submission = p.pending.submission
  <2>1. CASE ripe # {} /\ AtHomeOf(p, p.pending)
    BY <1>4, <2>1, FieldsOfSaved DEF AtHomeOf
  <2>2. CASE ~(ripe # {} /\ AtHomeOf(p, p.pending))
    BY <1>4, <2>2
  <2>3. QED
    BY <2>1, <2>2
<1>6. q.tail \in Seq(Delivery)
  BY <1>2, <1>4 DEF PageOK
<1>7. PageOK(q)
  <2>1. q.pending \in Pending \cup {None} /\ q.recent \in Recent \cup {None}
    BY <1>4, FieldsOfSaved DEF PageOK, AtHomeOf
  <2>2. q.watched \subseteq Conversations /\ q.emitted \subseteq Conversations
    BY <1>1, <1>4 DEF PageOK
  <2>3. QED
    BY <1>4, <1>6, <2>1, <2>2 DEF PageOK
<1>8. \A s : Waits(q, s) => Waits(p, s)
  BY <1>5 DEF Waits
<1>9. Answering(p, q, news)
  <2>1. \A s : a.ref = Provisional(s) => Waits(p, s)
    BY AssociationsOfPage
  <2>2. \A k \in DOMAIN news :
          /\ news[k].from = None /\ news[k].observation.role = "assistant"
          /\ news[k].observation.of \in q.emitted /\ news[k].observation.of \notin p.emitted
          /\ \A s : news[k].chat = Provisional(s) => Waits(p, s)
          /\ \A l \in DOMAIN news : news[l].observation = news[k].observation => k = l
    BY <1>1, <1>2, <1>4, <2>1, Names
  <2>3. QED
    BY <1>4, <1>8, <2>2 DEF Answering
<1>10. QED
  BY <1>3, <1>7, <1>9
\* Answers are filed under the references that their pages know, and the
\* deliveries of a page's own submission come before them.
LEMMA AnsweringKeeps ==
    ASSUME NEW pg, Pagewise(pg), Followed(pg), AnswersOnce(pg), NEW t \in Pages, NEW q,
           NEW news \in Seq(Delivery), Answering(pg[t], q, news)
    PROVE  Followed([pg EXCEPT ![t] = q]) /\ AnswersOnce([pg EXCEPT ![t] = q])
<1>1. PICK pn : pn = [pg EXCEPT ![t] = q]
  OBVIOUS
<1>2. pn[t] = q /\ \A u \in Pages : u # t => pn[u] = pg[u]
  BY <1>1 DEF Pagewise
<1>3. Sends(pg, pn, t, news)
  BY <1>2 DEF Sends, Answering
<1>4. Follow(pg, pn, t, news)
  BY <1>3, Appended
<1>5. \A k \in DOMAIN news :
          /\ news[k].from = None /\ news[k].observation.role = "assistant"
          /\ news[k].observation.of \in q.emitted /\ news[k].observation.of \notin pg[t].emitted
          /\ \A s : news[k].chat = Provisional(s) => Waits(pg[t], s)
          /\ \A l \in DOMAIN news : news[l].observation = news[k].observation => k = l
  BY DEF Answering
<1>6. \A u \in Pages : \A r : Waits(pn[u], r) => Waits(pg[u], r)
  BY <1>2 DEF Answering
<1>8. AnswersOnce(pn)
  <2>1. \A u \in Pages : pg[u].emitted \subseteq pn[u].emitted
    BY <1>2 DEF Answering
  <2>2. ASSUME NEW u \in Pages, NEW i \in DOMAIN pn[u].tail, pn[u].tail[i].observation.role = "assistant"
        PROVE  /\ pn[u].tail[i].observation.of \in pn[u].emitted
               /\ \A j \in DOMAIN pn[u].tail : pn[u].tail[j].observation = pn[u].tail[i].observation => i = j
    <3>1. CASE u # t
      <4>1. pn[u] = pg[u]
        BY <1>2, <3>1
      <4>2. QED
        BY <2>2, <4>1 DEF AnswersOnce
    <3>2. CASE u = t
      <4>1. ASSUME NEW j \in DOMAIN pn[t].tail
            PROVE  \/ j \in DOMAIN pg[t].tail /\ pn[t].tail[j] = pg[t].tail[j]
                   \/ j \notin DOMAIN pg[t].tail /\ \E k \in DOMAIN news :
                          j = Len(pg[t].tail) + k /\ pn[t].tail[j] = news[k]
        BY <1>4 DEF Follow
      <4>2. CASE i \in DOMAIN pg[t].tail
        <5>1. /\ pn[t].tail[i] = pg[t].tail[i] /\ pg[t].tail[i].observation.of \in pg[t].emitted
              /\ \A j \in DOMAIN pg[t].tail : pg[t].tail[j].observation = pg[t].tail[i].observation => i = j
          BY <1>4, <2>2, <3>2, <4>2 DEF AnswersOnce, Follow
        <5>2. ASSUME NEW j \in DOMAIN pn[t].tail, pn[t].tail[j].observation = pn[t].tail[i].observation
              PROVE  i = j
          <6>1. CASE j \in DOMAIN pg[t].tail /\ pn[t].tail[j] = pg[t].tail[j]
            BY <5>1, <5>2, <6>1
          <6>2. CASE \E k \in DOMAIN news : pn[t].tail[j] = news[k]
            BY <1>5, <5>1, <5>2, <6>2
          <6>3. QED
            BY <4>1, <6>1, <6>2
        <5>3. QED
          BY <2>1, <3>2, <5>1, <5>2
      <4>3. CASE i \notin DOMAIN pg[t].tail
        <5>1. PICK k \in DOMAIN news : i = Len(pg[t].tail) + k /\ pn[t].tail[i] = news[k]
          BY <1>4, <3>2, <4>3 DEF Follow
        <5>2. ASSUME NEW j \in DOMAIN pn[t].tail, pn[t].tail[j].observation = pn[t].tail[i].observation
              PROVE  i = j
          <6>1. CASE j \in DOMAIN pg[t].tail /\ pn[t].tail[j] = pg[t].tail[j]
            <7>1. pg[t].tail[j].observation.of \in pg[t].emitted
              BY <2>2, <3>2, <5>2, <6>1 DEF AnswersOnce
            <7>2. QED
              BY <1>5, <5>1, <5>2, <6>1, <7>1
          <6>2. CASE \E l \in DOMAIN news : j = Len(pg[t].tail) + l /\ pn[t].tail[j] = news[l]
            BY <1>5, <5>1, <5>2, <6>2
          <6>3. QED
            BY <4>1, <6>1, <6>2
        <5>3. QED
          BY <1>2, <1>5, <3>2, <5>1, <5>2
      <4>4. QED
        BY <4>2, <4>3
    <3>3. QED
      BY <3>1, <3>2
  <2>3. QED
    BY <2>2 DEF AnswersOnce
<1>9. ASSUME NEW r \in Submissions
      PROVE  Traced(pn, r)
  <2>1. Harmless(pg, t, news, r)
    BY <1>5, Names, ProvisionalIsSome DEF Harmless, Original, Rebinds, About
  <2>2. BeginsNoWait(pg, pn, r) /\ Traced(pg, r)
    BY <1>6 DEF BeginsNoWait, Followed
  <2>3. QED
    BY <1>4, <2>1, <2>2, AppendingKeeps
<1>10. QED
  BY <1>1, <1>8, <1>9 DEF Followed
-----------------------------------------------------------------------------
\* A page has delivered the oldest event, or lost it.

Drops(pg, pn, t) ==
    /\ DOMAIN pn = Pages /\ \A u \in Pages : PageOK(pn[u])
    /\ 1 \in DOMAIN pg[t].tail /\ pg[t].tail[1] \in Delivery
    /\ \A u \in Pages : pn[u].emitted = pg[u].emitted /\ \A r : Waits(pn[u], r) <=> Waits(pg[u], r)
    /\ \A u \in Pages \ {t} : pn[u].tail = pg[u].tail
    /\ \A u \in Pages : \A i \in DOMAIN pg[u].tail : i \in Nat /\ i >= 1
    /\ \A i \in DOMAIN pn[t].tail :
           i \in Nat /\ i >= 1 /\ i + 1 \in DOMAIN pg[t].tail /\ pn[t].tail[i] = pg[t].tail[i + 1]
    /\ \A i \in DOMAIN pg[t].tail :
           i = 1 \/ (i - 1 \in DOMAIN pn[t].tail /\ pn[t].tail[i - 1] = pg[t].tail[i])

LEMMA DroppingPage ==
    ASSUME NEW pg, Pagewise(pg), NEW t \in Pages, pg[t].tail # <<>>
    PROVE  Drops(pg, [pg EXCEPT ![t].tail = Tail(@)], t) /\ Head(pg[t].tail) = pg[t].tail[1]
<1>1. PICK old \in Seq(Delivery) : old = pg[t].tail
  BY DEF Pagewise, PageOK
<1>2. PICK new : new = Tail(old)
  OBVIOUS
<1>3. PICK n \in Nat : n = Len(old)
  OBVIOUS
<1>4. /\ n >= 1 /\ DOMAIN old = 1 .. n /\ new \in Seq(Delivery) /\ Len(new) = n - 1 /\ DOMAIN new = 1 .. n - 1
      /\ \A i \in 1 .. n - 1 : new[i] = old[i + 1]
      /\ Head(old) = old[1] /\ old[1] \in Delivery
  BY <1>1, <1>2, <1>3
<1>5. PICK q : q = [pg[t] EXCEPT !.tail = new]
  OBVIOUS
<1>6. PICK pn : pn = [pg EXCEPT ![t] = q]
  OBVIOUS
<1>7. pn = [pg EXCEPT ![t].tail = Tail(@)]
  BY <1>1, <1>2, <1>5, <1>6
<1>8. PageOK(pg[t]) /\ DOMAIN pg = Pages
  BY DEF Pagewise
<1>9. /\ PageOK(q) /\ q.tail = new /\ q.emitted = pg[t].emitted
      /\ q.pending = pg[t].pending
  BY <1>4, <1>5, <1>8, FieldsOfPage DEF PageOK
<1>10. pn[t] = q /\ DOMAIN pn = Pages /\ \A u \in Pages \ {t} : pn[u] = pg[u]
  BY <1>6, <1>8
<1>11. \A u \in Pages : /\ PageOK(pn[u]) /\ pn[u].emitted = pg[u].emitted
                        /\ \A r : Waits(pn[u], r) <=> Waits(pg[u], r)
  BY <1>9, <1>10 DEF Pagewise, Waits
<1>12. \A u \in Pages : \A i \in DOMAIN pg[u].tail : i \in Nat /\ i >= 1
  <2>1. \A u \in Pages : pg[u].tail \in Seq(Delivery)
    BY DEF Pagewise, PageOK
  <2>2. QED
    BY <2>1
<1>13. /\ \A i \in DOMAIN new : i \in Nat /\ i >= 1 /\ i + 1 \in DOMAIN old /\ new[i] = old[i + 1]
       /\ \A i \in DOMAIN old : i = 1 \/ (i - 1 \in DOMAIN new /\ new[i - 1] = old[i])
  BY <1>4
<1>14. Drops(pg, pn, t)
  BY <1>1, <1>4, <1>9, <1>10, <1>11, <1>12, <1>13 DEF Drops
<1>15. QED
  BY <1>1, <1>4, <1>7, <1>14

\* What is still to come is as it was.
LEMMA DroppingKeeps ==
    ASSUME NEW pg, NEW pn, NEW t \in Pages, Drops(pg, pn, t), NEW s \in Submissions
    PROVE  /\ Unmade(pg, s) => Unmade(pn, s)
           /\ SentFirst(pg, s) => SentFirst(pn, s)
           /\ ReboundOnce(pg, s) => ReboundOnce(pn, s)
           /\ Undecided(pn, s) => Undecided(pg, s)
           /\ Sending(pg, s) => Sending(pn, s) \/ Original(pg[t].tail[1], s)
<1> DEFINE Was(u, i) == IF u = t THEN i + 1 ELSE i
<1>1. \A u \in Pages : \A i \in DOMAIN pn[u].tail :
          i \in Nat /\ Was(u, i) \in DOMAIN pg[u].tail /\ pn[u].tail[i] = pg[u].tail[Was(u, i)]
  BY DEF Drops
<1>2. \A u \in Pages : \A i \in Nat, j \in Nat :
          /\ Was(u, i) <= Was(u, j) => i <= j
          /\ Was(u, i) = Was(u, j) => i = j
  OBVIOUS
<1>3. \A u \in Pages : \A r : Waits(pn[u], r) <=> Waits(pg[u], r)
  BY DEF Drops
<1> HIDE DEF Was
<1>4. Unmade(pg, s) => Unmade(pn, s)
  BY <1>1, <1>3 DEF Unmade
<1>5. SentFirst(pg, s) => SentFirst(pn, s)
  <2>1. SUFFICES ASSUME SentFirst(pg, s), NEW u \in Pages, NEW i \in DOMAIN pn[u].tail, Original(pn[u].tail[i], s)
                 PROVE  /\ \A v \in Pages : \A j \in DOMAIN pn[v].tail : About(pn[v].tail[j], s) => u = v /\ i <= j
                        /\ \A v \in Pages : Waits(pn[v], s) => u = v
                        /\ \A d \in DOMAIN messages : ~Stored(d, s)
                        /\ pn[u].tail[i].chat = Provisional(s) => reference[Provisional(s)] = None
    BY DEF SentFirst
  <2>2. PICK k \in DOMAIN pg[u].tail : k = Was(u, i) /\ pg[u].tail[k] = pn[u].tail[i]
    BY <1>1
  <2>3. /\ \A v \in Pages : \A j \in DOMAIN pg[v].tail : About(pg[v].tail[j], s) => u = v /\ k <= j
        /\ \A v \in Pages : Waits(pg[v], s) => u = v
        /\ \A d \in DOMAIN messages : ~Stored(d, s)
        /\ pg[u].tail[k].chat = Provisional(s) => reference[Provisional(s)] = None
    BY <2>1, <2>2 DEF SentFirst
  <2>4. ASSUME NEW v \in Pages, NEW j \in DOMAIN pn[v].tail, About(pn[v].tail[j], s)
        PROVE  u = v /\ i <= j
    BY <1>1, <1>2, <2>2, <2>3, <2>4
  <2>5. QED
    BY <1>3, <2>2, <2>3, <2>4
<1>6. ReboundOnce(pg, s) => ReboundOnce(pn, s)
  <2>1. SUFFICES ASSUME ReboundOnce(pg, s)
                 PROVE  ReboundOnce(pn, s)
    OBVIOUS
  <2>2. ASSUME NEW u \in Pages, NEW v \in Pages, NEW i \in DOMAIN pn[u].tail, NEW j \in DOMAIN pn[v].tail,
               Rebinds(pn[u].tail[i], s), Rebinds(pn[v].tail[j], s)
        PROVE  u = v /\ i = j
    <3>1. /\ Was(u, i) \in DOMAIN pg[u].tail /\ Rebinds(pg[u].tail[Was(u, i)], s) /\ i \in Nat
          /\ Was(v, j) \in DOMAIN pg[v].tail /\ Rebinds(pg[v].tail[Was(v, j)], s) /\ j \in Nat
      BY <1>1, <2>2
    <3>2. u = v /\ Was(u, i) = Was(v, j)
      BY <2>1, <3>1 DEF ReboundOnce
    <3>3. QED
      BY <1>2, <3>1, <3>2
  <2>3. \A u \in Pages, v \in Pages : Waits(pn[u], s) => \A i \in DOMAIN pn[v].tail : ~Rebinds(pn[v].tail[i], s)
    BY <1>1, <1>3, <2>1 DEF ReboundOnce
  <2>4. \A u \in Pages, v \in Pages : Waits(pn[u], s) /\ Waits(pn[v], s) => u = v
    BY <1>3, <2>1 DEF ReboundOnce
  <2>5. QED
    BY <2>2, <2>3, <2>4 DEF ReboundOnce
<1>7. Undecided(pn, s) => Undecided(pg, s)
  BY <1>1, <1>3 DEF Undecided
<1>8. Sending(pg, s) => Sending(pn, s) \/ Original(pg[t].tail[1], s)
  BY DEF Sending, Drops
<1>9. QED
  BY <1>4, <1>5, <1>6, <1>7, <1>8

LEMMA DroppedAnswers ==
    ASSUME NEW pg, NEW pn, NEW t \in Pages, Drops(pg, pn, t), AnswersOnce(pg)
    PROVE  AnswersOnce(pn)
<1>1. SUFFICES ASSUME NEW u \in Pages, NEW i \in DOMAIN pn[u].tail, pn[u].tail[i].observation.role = "assistant"
               PROVE  /\ pn[u].tail[i].observation.of \in pn[u].emitted
                      /\ \A j \in DOMAIN pn[u].tail : pn[u].tail[j].observation = pn[u].tail[i].observation => i = j
  BY DEF AnswersOnce
<1>2. CASE u # t
  BY <1>1, <1>2 DEF AnswersOnce, Drops
<1>3. CASE u = t
  <2>1. i \in Nat /\ i + 1 \in DOMAIN pg[t].tail /\ pn[t].tail[i] = pg[t].tail[i + 1]
    BY <1>3 DEF Drops
  <2>2. /\ pg[t].tail[i + 1].observation.of \in pg[t].emitted
        /\ \A j \in DOMAIN pg[t].tail : pg[t].tail[j].observation = pg[t].tail[i + 1].observation => i + 1 = j
    BY <1>1, <1>3, <2>1 DEF AnswersOnce
  <2>3. ASSUME NEW j \in DOMAIN pn[t].tail, pn[t].tail[j].observation = pn[t].tail[i].observation
        PROVE  i = j
    <3>1. j \in Nat /\ j + 1 \in DOMAIN pg[t].tail /\ pn[t].tail[j] = pg[t].tail[j + 1]
      BY DEF Drops
    <3>2. i + 1 = j + 1
      BY <2>1, <2>2, <2>3, <3>1
    <3>3. QED
      BY <2>1, <3>1, <3>2
  <2>4. QED
    BY <1>3, <2>1, <2>2, <2>3 DEF Drops
<1>4. QED
  BY <1>2, <1>3
\* A submission whose delivery fails is lost; one that need not be known to
\* the store may be refused.
LEMMA UndeliveredKeeps ==
    ASSUME NEW pg, NEW pn, NEW t \in Pages, Drops(pg, pn, t), NEW s \in Submissions, Traced(pg, s),
           UNCHANGED <<asked, reference, messages>>, lost \subseteq lost',
           Original(pg[t].tail[1], s) /\ Undecided(pg, s) => s \in lost'
    PROVE  Traced(pn, s)'
<1>1. (asked[s] = None => Unmade(pg, s)) /\ SentFirst(pg, s) /\ ReboundOnce(pg, s) /\ Provisionally(pg, s)
  BY DEF Traced
<1>2. (asked[s] = None => Unmade(pn, s)) /\ SentFirst(pn, s) /\ ReboundOnce(pn, s)
  BY <1>1, DroppingKeeps
<1>3. (Unmade(pn, s) => Unmade(pn, s)') /\ SentFirst(pn, s)' /\ ReboundOnce(pn, s)'
  BY <1>2, TracesAreOfTheStore
<1>4. Provisionally(pn, s)'
  <2>1. SUFFICES ASSUME Undecided(pn, s)
                 PROVE  /\ \A u \in Pages : \A i \in DOMAIN pn[u].tail :
                               Original(pn[u].tail[i], s) => pn[u].tail[i].chat = Provisional(s)
                        /\ \A c \in DOMAIN messages : \A i \in DOMAIN messages[c] :
                               messages[c][i].observation = Prompt(s) =>
                                   messages[c][i].reference = Provisional(s) /\ reference[c] = Provisional(s)
                        /\ s \in lost' \/ Sending(pn, s) \/ \E c \in DOMAIN messages : Stored(c, s)
    BY DEF Provisionally, Undecided, Sending, Stored
  <2>2. Undecided(pg, s)
    BY <2>1, DroppingKeeps
  <2>3. \A u \in Pages : \A i \in DOMAIN pn[u].tail :
            Original(pn[u].tail[i], s) => pn[u].tail[i].chat = Provisional(s)
    <3>1. \A u \in Pages : \A i \in DOMAIN pn[u].tail : \E j \in DOMAIN pg[u].tail : pn[u].tail[i] = pg[u].tail[j]
      BY DEF Drops
    <3>2. QED
      BY <1>1, <2>2, <3>1 DEF Provisionally
  <2>4. s \in lost' \/ Sending(pn, s) \/ \E c \in DOMAIN messages : Stored(c, s)
    BY <1>1, <2>2, DroppingKeeps DEF Provisionally
  <2>5. QED
    BY <1>1, <2>2, <2>3, <2>4 DEF Provisionally
<1>5. QED
  BY <1>2, <1>3, <1>4 DEF Traced

\* A reload forgets the page and what it still had to deliver.
LEMMA ReloadingKeeps ==
    ASSUME NEW pg, Pagewise(pg), Followed(pg), AnswersOnce(pg), NEW t \in Pages, NEW q,
           q.tail = <<>>, \A r : ~Waits(q, r), UNCHANGED <<asked, reference, messages>>,
           lost' = lost \cup PromptsOf(ToSet(pg[t].tail))
    PROVE  Followed([pg EXCEPT ![t] = q])' /\ AnswersOnce([pg EXCEPT ![t] = q])
<1>1. PICK pn : pn = [pg EXCEPT ![t] = q]
  OBVIOUS
<1>2. pn[t] = q /\ \A u \in Pages : u # t => pn[u] = pg[u]
  BY <1>1 DEF Pagewise
<1>3. DOMAIN q.tail = {}
  OBVIOUS
<1>4. \A u \in Pages : \A i \in DOMAIN pn[u].tail : u # t /\ pn[u] = pg[u]
  BY <1>2, <1>3
<1>5. \A u \in Pages : \A r : Waits(pn[u], r) => u # t /\ pn[u] = pg[u]
  BY <1>2
<1>6. AnswersOnce(pn)
  BY <1>4 DEF AnswersOnce
<1>7. ASSUME NEW s \in Submissions
      PROVE  Traced(pn, s)'
  <2>1. (asked[s] = None => Unmade(pg, s)) /\ SentFirst(pg, s) /\ ReboundOnce(pg, s) /\ Provisionally(pg, s)
    BY DEF Followed, Traced
  <2>2. asked[s] = None => Unmade(pn, s)
    BY <1>4, <1>5, <2>1 DEF Unmade
  <2>3. SentFirst(pn, s)
    <3>1. SUFFICES ASSUME NEW u \in Pages, NEW i \in DOMAIN pn[u].tail, Original(pn[u].tail[i], s)
                   PROVE  /\ \A v \in Pages : \A j \in DOMAIN pn[v].tail : About(pn[v].tail[j], s) => u = v /\ i <= j
                          /\ \A v \in Pages : Waits(pn[v], s) => u = v
                          /\ \A c \in DOMAIN messages : ~Stored(c, s)
                          /\ pn[u].tail[i].chat = Provisional(s) => reference[Provisional(s)] = None
      BY DEF SentFirst
    <3>2. i \in DOMAIN pg[u].tail /\ pg[u].tail[i] = pn[u].tail[i]
      BY <1>4, <3>1
    <3>3. /\ \A v \in Pages : \A j \in DOMAIN pg[v].tail : About(pg[v].tail[j], s) => u = v /\ i <= j
          /\ \A v \in Pages : Waits(pg[v], s) => u = v
          /\ \A c \in DOMAIN messages : ~Stored(c, s)
          /\ pg[u].tail[i].chat = Provisional(s) => reference[Provisional(s)] = None
      BY <2>1, <3>1, <3>2 DEF SentFirst
    <3>4. QED
      BY <1>4, <1>5, <3>2, <3>3
  <2>4. ReboundOnce(pn, s)
    <3>1. /\ \A u, v \in Pages : Waits(pg[u], s) /\ Waits(pg[v], s) => u = v
          /\ \A u, v \in Pages : Waits(pg[u], s) => \A i \in DOMAIN pg[v].tail : ~Rebinds(pg[v].tail[i], s)
          /\ \A u, v \in Pages : \A i \in DOMAIN pg[u].tail, j \in DOMAIN pg[v].tail :
                 Rebinds(pg[u].tail[i], s) /\ Rebinds(pg[v].tail[j], s) => u = v /\ i = j
      BY <2>1 DEF ReboundOnce
    <3>2. \A u, v \in Pages : Waits(pn[u], s) /\ Waits(pn[v], s) => u = v
      BY <1>5, <3>1
    <3>3. \A u, v \in Pages : Waits(pn[u], s) => \A i \in DOMAIN pn[v].tail : ~Rebinds(pn[v].tail[i], s)
      BY <1>4, <1>5, <3>1
    <3>4. \A u, v \in Pages : \A i \in DOMAIN pn[u].tail, j \in DOMAIN pn[v].tail :
              Rebinds(pn[u].tail[i], s) /\ Rebinds(pn[v].tail[j], s) => u = v /\ i = j
      BY <1>4, <3>1
    <3>5. QED
      BY <3>2, <3>3, <3>4 DEF ReboundOnce
  <2>5. (Unmade(pn, s) => Unmade(pn, s)') /\ SentFirst(pn, s)' /\ ReboundOnce(pn, s)'
    BY <2>3, <2>4, TracesAreOfTheStore
  <2>6. Provisionally(pn, s)'
    <3>1. SUFFICES ASSUME Undecided(pn, s)
                   PROVE  /\ \A u \in Pages : \A i \in DOMAIN pn[u].tail :
                                 Original(pn[u].tail[i], s) => pn[u].tail[i].chat = Provisional(s)
                          /\ \A c \in DOMAIN messages : \A i \in DOMAIN messages[c] :
                                 messages[c][i].observation = Prompt(s) =>
                                     messages[c][i].reference = Provisional(s) /\ reference[c] = Provisional(s)
                          /\ s \in lost' \/ Sending(pn, s) \/ \E c \in DOMAIN messages : Stored(c, s)
      BY DEF Provisionally, Undecided, Sending, Stored
    <3>2. Undecided(pg, s)
      BY <1>4, <1>5, <3>1 DEF Undecided
    <3>3. Sending(pg, s) => Sending(pn, s) \/ s \in lost'
      <4>1. SUFFICES ASSUME NEW i \in DOMAIN pg[t].tail, Original(pg[t].tail[i], s)
                     PROVE  s \in lost'
        BY <1>2 DEF Sending
      <4>2. PICK e : e = pg[t].tail[i]
        OBVIOUS
      <4>3. e \in ToSet(pg[t].tail) /\ e.observation.role = "user" /\ e.observation.of = s
        BY <4>1, <4>2, Names DEF Original, ToSet
      <4>4. QED
        BY <4>3 DEF PromptsOf
    <3>4. QED
      BY <1>4, <2>1, <3>2, <3>3 DEF Provisionally
  <2>7. QED
    BY <2>2, <2>5, <2>6 DEF Traced
<1>8. Followed(pn)'
  BY <1>7 DEF Followed
<1>9. QED
  BY <1>1, <1>6, <1>8
-----------------------------------------------------------------------------
\* What an ingestion does to the references and the messages: a chat that has
\* the reference or takes it, or the one that the submission is rebound in.

Takes(e, c) ==
    /\ reference' = [reference EXCEPT ![c] = e.chat]
    /\ \/ e.from = None /\ reference[c] = e.chat
       \/ e.from = None /\ reference[c] = None /\ c = e.chat
       \/ \E s \in Submissions : Rebinds(e, s) /\ reference[c] = Provisional(s)
    /\ \/ messages' = messages /\ Submitted(c, e)
       \/ e.from = None /\ messages' = [messages EXCEPT ![c] = Append(@, KeyOf(e))]

LEMMA HistoryDomains ==
    ASSUME HistoryTypeOK
    PROVE  /\ DOMAIN messages = Refs /\ DOMAIN reference = Refs
           /\ \A c \in Refs : messages[c] \in Seq(Keys) /\ reference[c] \in Refs \cup {None}
  BY DEF HistoryTypeOK, Refs, Keys, Key, Observed

\* A rebinding finds its submission under the provisional reference.
LEMMA FoundProvisionally ==
    ASSUME HistoryTypeOK, NEW pg, NEW t \in Pages, 1 \in DOMAIN pg[t].tail, NEW s \in Submissions,
           Provisionally(pg, s), Rebinds(pg[t].tail[1], s), NEW c \in Refs, Submitted(c, pg[t].tail[1])
    PROVE  reference[c] = Provisional(s) /\ c \in Holders(pg[t].tail[1])
<1>1. PICK e : e = pg[t].tail[1]
  OBVIOUS
<1>2. e.from = Provisional(s) /\ e.observation = Prompt(s) /\ e.from # None
  BY <1>1, ProvisionalIsSome DEF Rebinds
<1>3. Undecided(pg, s)
  BY DEF Undecided
<1>4. PICK i \in DOMAIN messages[c] : messages[c][i].observation = Prompt(s)
  BY <1>1, <1>2 DEF Submitted
<1>5. messages[c][i].reference = Provisional(s) /\ reference[c] = Provisional(s)
  BY <1>3, <1>4, HistoryDomains DEF Provisionally
<1>6. messages[c][i] = PriorKeyOf(e)
  <2>1. messages[c][i] \in Keys
    BY HistoryDomains
  <2>2. QED
    BY <1>2, <1>4, <1>5, <2>1 DEF PriorKeyOf, Keys
<1>7. c \in Holders(e)
  BY <1>2, <1>6 DEF Holders, Refs
<1>8. QED
  BY <1>1, <1>5, <1>7

\* The repetition of a rebinding, which would leave the project of a chat and
\* of its entries apart, does not happen.
LEMMA NeverRebound ==
    ASSUME HistoryTypeOK, NEW pg, Followed(pg), NEW t \in Pages, 1 \in DOMAIN pg[t].tail,
           pg[t].tail[1] \in Delivery, NEW c \in Refs
    PROVE  ~ReboundChat(pg[t].tail[1], c)
<1>1. SUFFICES ASSUME ReboundChat(pg[t].tail[1], c)
               PROVE  FALSE
  OBVIOUS
<1>2. PICK e \in Delivery : e = pg[t].tail[1]
  OBVIOUS
<1>3. e.from # None /\ ReferredTo(e.from) = {} /\ Submitted(c, e)
  BY <1>1, <1>2 DEF ReboundChat
<1>4. PICK s \in Submissions : Rebinds(e, s)
  BY <1>3 DEF Delivery
<1>5. reference[c] = Provisional(s)
  BY <1>2, <1>3, <1>4, FoundProvisionally DEF Followed, Traced
<1>6. c \in ReferredTo(e.from)
  BY <1>4, <1>5 DEF ReferredTo, Rebinds, Refs
<1>7. QED
  BY <1>3, <1>6

LEMMA IngestionTakes ==
    ASSUME HistoryTypeOK, NEW pg, Followed(pg), NEW t \in Pages, 1 \in DOMAIN pg[t].tail,
           pg[t].tail[1] \in Delivery, Ingest(pg[t].tail[1])
    PROVE  \E c \in Refs, p \in Owners :
               /\ Takes(pg[t].tail[1], c)
               /\ owner' = [owner EXCEPT ![c] = p]
               /\ index' = IndexWith(pg[t].tail[1], c, p) \/ index' = Reindexed(c, p)
<1>1. PICK e \in Delivery : e = pg[t].tail[1]
  OBVIOUS
<1>2. PICK c \in Refs, p \in Owners :
          /\ BindsTo(e, c) /\ reference' = [reference EXCEPT ![c] = e.chat]
          /\ owner' = [owner EXCEPT ![c] = OwnerAfter(e, c, p)]
          /\ WriteMessage(e, c, p)
  BY <1>1 DEF Ingest, Refs, Owners
<1>3. ~ReboundChat(e, c)
  BY <1>1, NeverRebound
<1>4. OwnerAfter(e, c, p) = p
  BY <1>3 DEF OwnerAfter
<1>5. e.from # None => \E s \in Submissions :
          Rebinds(e, s) /\ reference[c] = Provisional(s) /\ c \in Holders(e)
  <2>1. SUFFICES ASSUME e.from # None
                 PROVE  \E s \in Submissions :
                            Rebinds(e, s) /\ reference[c] = Provisional(s) /\ c \in Holders(e)
    OBVIOUS
  <2>2. PICK s \in Submissions : Rebinds(e, s)
    BY <2>1 DEF Delivery
  <2>3. Submitted(c, e)
    BY <1>2, <2>1 DEF BindsTo, KnownChat, NewChat, ProvisionalChat, ReboundChat
  <2>4. QED
    BY <1>1, <2>2, <2>3, FoundProvisionally DEF Followed, Traced
<1>6. e.from = None => reference[c] = e.chat \/ (reference[c] = None /\ c = e.chat)
  BY <1>2 DEF BindsTo, KnownChat, NewChat, ProvisionalChat, ReboundChat, ReferredTo
<1>7. c \in Holders(e) => Submitted(c, e)
  BY DEF Holders, Submitted, KeyOf, PriorKeyOf
<1>8. Takes(e, c)
  <2>1. CASE Holders(e) = {} /\ messages' = [messages EXCEPT ![c] = Append(@, KeyOf(e))]
    BY <1>2, <1>5, <1>6, <2>1 DEF Takes
  <2>2. CASE c \in Holders(e) /\ messages' = messages
    BY <1>2, <1>5, <1>6, <1>7, <2>2 DEF Takes
  <2>3. QED
    BY <1>2, <2>1, <2>2 DEF WriteMessage
<1>9. QED
  BY <1>1, <1>2, <1>4, <1>8 DEF WriteMessage

LEMMA TakenMessages ==
    ASSUME HistoryTypeOK, NEW e \in Delivery, NEW c \in Refs, Takes(e, c)
    PROVE  /\ DOMAIN messages' = Refs
           /\ \A d \in Refs : \A i \in DOMAIN messages[d] : i \in DOMAIN messages'[d] /\ messages'[d][i] = messages[d][i]
           /\ \A d \in Refs : \A i \in DOMAIN messages'[d] :
                  \/ i \in DOMAIN messages[d] /\ messages'[d][i] = messages[d][i]
                  \/ d = c /\ i = Len(messages[c]) + 1 /\ e.from = None /\ messages'[d][i] = KeyOf(e)
           /\ Submitted(c, e)'
<1>1. CASE messages' = messages /\ Submitted(c, e)
  BY <1>1, HistoryDomains DEF Submitted
<1>2. CASE e.from = None /\ messages' = [messages EXCEPT ![c] = Append(@, KeyOf(e))]
  <2>1. PICK old \in Seq(Keys) : old = messages[c]
    BY HistoryDomains
  <2>2. PICK k \in Keys : k = KeyOf(e)
    BY EventFields DEF KeyOf, Keys, Delivery
  <2>3. PICK new : new = Append(old, k)
    OBVIOUS
  <2>4. /\ DOMAIN old = 1 .. Len(old) /\ DOMAIN new = 1 .. Len(old) + 1 /\ Len(old) \in Nat
        /\ \A i \in 1 .. Len(old) : new[i] = old[i]
        /\ new[Len(old) + 1] = k
    BY <2>3
  <2>5. messages'[c] = new /\ DOMAIN messages' = Refs /\ \A d \in Refs : d # c => messages'[d] = messages[d]
    BY <1>2, <2>1, <2>2, <2>3, HistoryDomains
  <2>6. /\ \A i \in DOMAIN old : i \in DOMAIN new /\ new[i] = old[i]
        /\ \A i \in DOMAIN new : (i \in DOMAIN old /\ new[i] = old[i]) \/ (i = Len(old) + 1 /\ new[i] = k)
        /\ Len(old) + 1 \in DOMAIN new
    BY <2>4
  <2>7. Submitted(c, e)'
    <3>1. k.observation = e.observation
      BY <2>2 DEF KeyOf
    <3>2. QED
      BY <2>4, <2>5, <2>6, <3>1 DEF Submitted
  <2>8. QED
    BY <1>2, <2>1, <2>2, <2>5, <2>6, <2>7
<1>3. QED
  BY <1>1, <1>2 DEF Takes
LEMMA IngestedKeeps ==
    ASSUME HistoryTypeOK, NEW pg, NEW pn, NEW t \in Pages, Drops(pg, pn, t), NEW e, e = pg[t].tail[1],
           NEW c \in Refs, Takes(e, c), UNCHANGED <<asked, lost>>, NEW s \in Submissions, Traced(pg, s)
    PROVE  Traced(pn, s)'
<1>1. (asked[s] = None => Unmade(pg, s)) /\ SentFirst(pg, s) /\ ReboundOnce(pg, s) /\ Provisionally(pg, s)
  BY DEF Traced
<1>2. (asked[s] = None => Unmade(pn, s)) /\ SentFirst(pn, s) /\ ReboundOnce(pn, s)
  BY <1>1, DroppingKeeps
<1>3. e \in Delivery /\ e.chat \in Refs /\ 1 \in DOMAIN pg[t].tail
  BY EventFields DEF Drops, Delivery
<1>4. \A d \in Refs : d # c => reference'[d] = reference[d]
  BY HistoryDomains DEF Takes
<1>5. reference'[c] = e.chat
  BY HistoryDomains DEF Takes
<1>6. \A d \in Refs : \A i \in DOMAIN messages'[d] :
          \/ i \in DOMAIN messages[d] /\ messages'[d][i] = messages[d][i]
          \/ d = c /\ e.from = None /\ messages'[d][i] = KeyOf(e)
  BY <1>3, TakenMessages
<1>7. DOMAIN messages' = Refs /\ DOMAIN messages = Refs
  BY <1>3, TakenMessages, HistoryDomains
<1>8. KeyOf(e).observation = e.observation /\ KeyOf(e).reference = e.chat
  BY DEF KeyOf
\* What is not about the submission leaves the store as ignorant of it.
<1>9. ASSUME ~About(e, s)
      PROVE  /\ reference[Provisional(s)] = None => reference'[Provisional(s)] = None
             /\ \A d \in Refs : ~Stored(d, s) => ~Stored(d, s)'
  <2>1. reference[Provisional(s)] = None => c # Provisional(s)
    BY <1>3, <1>9, NoneIsNoReference, ProvisionalIsSome DEF Takes, About
  <2>2. Provisional(s) \in Refs
    BY References
  <2>3. \A d \in Refs : ~Stored(d, s) => ~Stored(d, s)'
    BY <1>6, <1>8, <1>9 DEF Stored, About
  <2>4. QED
    BY <1>4, <2>1, <2>2, <2>3
<1>10. Unmade(pn, s) /\ asked[s] = None => Unmade(pn, s)'
  <2>1. SUFFICES ASSUME asked[s] = None, Unmade(pn, s)
                 PROVE  Unmade(pn, s)'
    OBVIOUS
  <2>2. ~About(e, s)
    BY <1>1, <1>3, <2>1 DEF Unmade
  <2>3. QED
    BY <1>7, <1>9, <2>1, <2>2 DEF Unmade
<1>11. SentFirst(pn, s)'
  <2>1. SUFFICES ASSUME NEW u \in Pages, NEW i \in DOMAIN pn[u].tail, Original(pn[u].tail[i], s)
                 PROVE  /\ \A v \in Pages : \A j \in DOMAIN pn[v].tail : About(pn[v].tail[j], s) => u = v /\ i <= j
                        /\ \A v \in Pages : Waits(pn[v], s) => u = v
                        /\ \A d \in DOMAIN messages' : ~Stored(d, s)'
                        /\ pn[u].tail[i].chat = Provisional(s) => reference'[Provisional(s)] = None
    BY DEF SentFirst
  <2>2. ~About(e, s)
    <3>1. SUFFICES ASSUME About(e, s)
                   PROVE  FALSE
      OBVIOUS
    <3>2. PICK k \in DOMAIN pg[u].tail : /\ Original(pg[u].tail[k], s) /\ k \in Nat /\ k >= 1
                                         /\ u = t => k # 1
      <4>1. CASE u = t
        BY <2>1, <4>1 DEF Drops
      <4>2. CASE u # t
        BY <2>1, <4>2 DEF Drops
      <4>3. QED
        BY <4>1, <4>2
    <3>3. u = t /\ k <= 1
      BY <1>1, <1>3, <3>1, <3>2 DEF SentFirst
    <3>4. QED
      BY <3>2, <3>3
  <2>3. /\ \A v \in Pages : \A j \in DOMAIN pn[v].tail : About(pn[v].tail[j], s) => u = v /\ i <= j
        /\ \A v \in Pages : Waits(pn[v], s) => u = v
        /\ \A d \in DOMAIN messages : ~Stored(d, s)
        /\ pn[u].tail[i].chat = Provisional(s) => reference[Provisional(s)] = None
    BY <1>2, <2>1 DEF SentFirst
  <2>4. QED
    BY <1>7, <1>9, <2>2, <2>3
<1>12. ReboundOnce(pn, s)'
  BY <1>2 DEF ReboundOnce
<1>13. Provisionally(pn, s)'
  <2>1. SUFFICES ASSUME Undecided(pn, s)
                 PROVE  /\ \A u \in Pages : \A i \in DOMAIN pn[u].tail :
                               Original(pn[u].tail[i], s) => pn[u].tail[i].chat = Provisional(s)
                        /\ \A d \in DOMAIN messages' : \A i \in DOMAIN messages'[d] :
                               messages'[d][i].observation = Prompt(s) =>
                                   messages'[d][i].reference = Provisional(s) /\ reference'[d] = Provisional(s)
                        /\ s \in lost \/ Sending(pn, s) \/ \E d \in DOMAIN messages' : Stored(d, s)'
    BY DEF Provisionally, Undecided, Sending, Stored
  <2>2. Undecided(pg, s)
    BY <2>1, DroppingKeeps
  <2>3. /\ \A u \in Pages : \A i \in DOMAIN pg[u].tail :
               Original(pg[u].tail[i], s) => pg[u].tail[i].chat = Provisional(s)
        /\ \A d \in DOMAIN messages : \A i \in DOMAIN messages[d] :
               messages[d][i].observation = Prompt(s) =>
                   messages[d][i].reference = Provisional(s) /\ reference[d] = Provisional(s)
        /\ s \in lost \/ Sending(pg, s) \/ \E d \in DOMAIN messages : Stored(d, s)
    BY <1>1, <2>2 DEF Provisionally
  <2>4. ~Rebinds(e, s)
    <3>1. SUFFICES ASSUME Rebinds(pg[t].tail[1], s)
                   PROVE  FALSE
      OBVIOUS
    <3>2. \A u \in Pages : ~Waits(pn[u], s)
      BY <1>1, <1>3, <3>1 DEF ReboundOnce, Drops
    <3>3. \A u \in Pages : \A i \in DOMAIN pn[u].tail : ~Rebinds(pn[u].tail[i], s)
      <4>1. SUFFICES ASSUME NEW u \in Pages, NEW i \in DOMAIN pn[u].tail, Rebinds(pn[u].tail[i], s)
                     PROVE  FALSE
        OBVIOUS
      <4>2. CASE u = t
        <5>1. i \in Nat /\ i >= 1 /\ i + 1 \in DOMAIN pg[t].tail /\ Rebinds(pg[t].tail[i + 1], s)
          BY <4>1, <4>2 DEF Drops
        <5>2. i + 1 = 1
          BY <1>1, <1>3, <3>1, <5>1 DEF ReboundOnce
        <5>3. QED
          BY <5>1, <5>2
      <4>3. CASE u # t
        <5>1. i \in DOMAIN pg[u].tail /\ Rebinds(pg[u].tail[i], s)
          BY <4>1, <4>3 DEF Drops
        <5>2. QED
          BY <1>1, <1>3, <3>1, <4>3, <5>1 DEF ReboundOnce
      <4>4. QED
        BY <4>2, <4>3
    <3>4. QED
      BY <2>1, <3>2, <3>3 DEF Undecided
  <2>5. \A u \in Pages : \A i \in DOMAIN pn[u].tail :
            Original(pn[u].tail[i], s) => pn[u].tail[i].chat = Provisional(s)
    <3>1. \A u \in Pages : \A i \in DOMAIN pn[u].tail : \E j \in DOMAIN pg[u].tail : pn[u].tail[i] = pg[u].tail[j]
      BY DEF Drops
    <3>2. QED
      BY <2>3, <3>1
  <2>6. ASSUME NEW d \in Refs, reference[d] = Provisional(s)
        PROVE  reference'[d] = Provisional(s)
    <3>1. CASE d # c
      BY <1>4, <2>6, <3>1
    <3>2. CASE d = c
      <4>1. \A r \in Submissions : ~(Rebinds(e, r) /\ reference[c] = Provisional(r))
        BY <2>4, <2>6, <3>2, Names
      <4>2. reference[c] = e.chat
        BY <2>6, <3>2, <4>1, ProvisionalIsSome DEF Takes
      <4>3. QED
        BY <1>5, <2>6, <3>2, <4>2
    <3>3. QED
      BY <3>1, <3>2
  <2>7. ASSUME NEW d \in Refs, NEW i \in DOMAIN messages'[d], messages'[d][i].observation = Prompt(s)
        PROVE  messages'[d][i].reference = Provisional(s) /\ reference'[d] = Provisional(s)
    <3>1. CASE i \in DOMAIN messages[d] /\ messages'[d][i] = messages[d][i]
      BY <1>7, <2>3, <2>6, <2>7, <3>1
    <3>2. CASE d = c /\ e.from = None /\ messages'[d][i] = KeyOf(e)
      <4>1. Original(e, s)
        BY <1>8, <2>7, <3>2 DEF Original
      <4>2. e.chat = Provisional(s)
        BY <1>3, <2>3, <4>1
      <4>3. QED
        BY <1>5, <1>8, <3>2, <4>2
    <3>3. QED
      BY <1>6, <3>1, <3>2
  <2>8. s \in lost \/ Sending(pn, s) \/ \E d \in Refs : Stored(d, s)'
    <3>1. \A d \in Refs : Stored(d, s) => Stored(d, s)'
      BY <1>3, TakenMessages DEF Stored
    <3>2. Original(e, s) => Stored(c, s)'
      <4>1. Submitted(c, e)'
        BY <1>3, TakenMessages
      <4>2. QED
        BY <4>1 DEF Submitted, Stored, Original
    <3>3. Sending(pg, s) => Sending(pn, s) \/ Original(e, s)
      BY DroppingKeeps
    <3>4. QED
      BY <1>7, <2>3, <3>1, <3>2, <3>3
  <2>9. QED
    BY <1>7, <2>5, <2>7, <2>8
<1>14. QED
  BY <1>2, <1>10, <1>11, <1>12, <1>13 DEF Traced

\* A prompt is stored when it is delivered for the first time.
LEMMA IngestedOnce ==
    ASSUME HistoryTypeOK, PromptStoredOnce, NEW pg, Followed(pg), NEW t \in Pages, 1 \in DOMAIN pg[t].tail,
           NEW e \in Delivery, e = pg[t].tail[1], NEW c \in Refs, Takes(e, c)
    PROVE  PromptStoredOnce'
<1>1. SUFFICES ASSUME NEW s \in Submissions, NEW d \in Refs, NEW f \in Refs,
                      NEW i \in DOMAIN messages'[d], NEW j \in DOMAIN messages'[f],
                      messages'[d][i].observation = Prompt(s), messages'[f][j].observation = Prompt(s)
               PROVE  d = f /\ i = j
  BY TakenMessages DEF PromptStoredOnce
<1>2. /\ \/ i \in DOMAIN messages[d] /\ messages'[d][i] = messages[d][i]
         \/ d = c /\ i = Len(messages[c]) + 1 /\ e.from = None /\ messages'[d][i] = KeyOf(e)
      /\ \/ j \in DOMAIN messages[f] /\ messages'[f][j] = messages[f][j]
         \/ f = c /\ j = Len(messages[c]) + 1 /\ e.from = None /\ messages'[f][j] = KeyOf(e)
  BY TakenMessages
<1>3. DOMAIN messages = Refs
  BY HistoryDomains
<1>4. CASE Original(e, s)
  <2>1. \A g \in Refs : ~Stored(g, s)
    BY <1>3, <1>4 DEF Followed, Traced, SentFirst
  <2>2. QED
    BY <1>1, <1>2, <2>1 DEF Stored
<1>5. CASE ~Original(e, s)
  <2>1. ~(e.from = None /\ KeyOf(e).observation = Prompt(s))
    BY <1>5 DEF Original, KeyOf
  <2>2. /\ i \in DOMAIN messages[d] /\ messages'[d][i] = messages[d][i]
        /\ j \in DOMAIN messages[f] /\ messages'[f][j] = messages[f][j]
    BY <1>1, <1>2, <2>1
  <2>3. QED
    BY <1>1, <1>3, <2>2 DEF PromptStoredOnce
<1>6. QED
  BY <1>4, <1>5

\* The entries of a chat get its new project.
LEMMA IngestedIndex ==
    ASSUME HistoryTypeOK, IndexFollowsProject, NEW e, NEW c \in Refs, NEW p \in Owners,
           owner' = [owner EXCEPT ![c] = p], index' = IndexWith(e, c, p) \/ index' = Reindexed(c, p)
    PROVE  IndexFollowsProject'
<1>1. ASSUME NEW n \in Reindexed(c, p)
      PROVE  n.project = owner'[n.chat]
  <2>1. PICK m \in index : n = IF m.chat = c THEN [m EXCEPT !.project = p] ELSE m
    BY <1>1 DEF Reindexed
  <2>2. m \in Entry /\ m.chat \in Refs /\ DOMAIN owner = Refs /\ m.project = owner[m.chat]
    BY <2>1 DEF HistoryTypeOK, Entry, Refs, IndexFollowsProject
  <2>3. CASE m.chat = c
    <3>1. n = [m EXCEPT !.project = p]
      BY <2>1, <2>3
    <3>2. n.project = p /\ n.chat = c
      BY <2>2, <2>3, <3>1 DEF Entry
    <3>3. QED
      BY <2>2, <3>2
  <2>4. CASE m.chat # c
    BY <2>1, <2>2, <2>4
  <2>5. QED
    BY <2>3, <2>4
<1>2. [key |-> KeyOf(e), chat |-> c, project |-> p].project = owner'[c]
  BY DEF HistoryTypeOK, Refs
<1>3. QED
  BY <1>1, <1>2 DEF IndexFollowsProject, IndexWith
-----------------------------------------------------------------------------
\* The steps.  A quiet one neither begins nor delivers a submission: a page
\* notices its route, and may send answers.

Quiet(t) ==
    \E w, q :
        /\ PageOK(w) /\ (Idles(page[t], w) \/ Rebound(page[t], w))
        /\ PageOK(q) /\ (q = w \/ \E news \in Seq(Delivery) : Answering(w, q, news))
        /\ page' = [page EXCEPT ![t] = q]
        /\ UNCHANGED <<asked, lost, storeVars>>

LEMMA QuietTypes ==
    ASSUME Pagewise(page), NEW t \in Pages, Quiet(t)
    PROVE  Pagewise(page)'
  BY DEF Quiet, Pagewise

LEMMA QuietKeeps ==
    ASSUME Pagewise(page), Followed(page), AnswersOnce(page), NEW t \in Pages, Quiet(t)
    PROVE  Followed(page)' /\ AnswersOnce(page)'
<1>1. PICK w, q :
        /\ PageOK(w) /\ (Idles(page[t], w) \/ Rebound(page[t], w))
        /\ PageOK(q) /\ (q = w \/ \E news \in Seq(Delivery) : Answering(w, q, news))
        /\ page' = [page EXCEPT ![t] = q]
        /\ UNCHANGED <<asked, lost, storeVars>>
  BY DEF Quiet
<1>2. PICK noticed : noticed = [page EXCEPT ![t] = w]
  OBVIOUS
<1>3. Followed(noticed) /\ AnswersOnce(noticed)
  <2>1. DOMAIN page = Pages
    BY DEF Pagewise
  <2>2. CASE Idles(page[t], w)
    BY <1>2, <2>1, <2>2, IdlesKeeps
  <2>3. CASE Rebound(page[t], w)
    BY <1>2, <2>3, ReboundKeeps
  <2>4. QED
    BY <1>1, <2>2, <2>3
<1>4. Pagewise(noticed) /\ noticed[t] = w
  BY <1>1, <1>2 DEF Pagewise
<1>5. PICK after : after = [noticed EXCEPT ![t] = q]
  OBVIOUS
<1>6. after = page'
  BY <1>1, <1>2, <1>5
<1>7. Followed(after) /\ AnswersOnce(after)
  <2>1. CASE q = w
    <3>1. after = noticed
      BY <1>2, <1>4, <1>5, <2>1 DEF Pagewise
    <3>2. QED
      BY <1>3, <3>1
  <2>2. CASE \E news \in Seq(Delivery) : Answering(w, q, news)
    <3>1. PICK news \in Seq(Delivery) : Answering(noticed[t], q, news)
      BY <1>4, <2>2
    <3>2. QED
      BY <1>3, <1>4, <1>5, <3>1, AnsweringKeeps
  <2>3. QED
    BY <1>1, <2>1, <2>2
<1>8. UNCHANGED <<reference, messages, lost, asked>>
  BY <1>1 DEF storeVars
<1>9. Followed(after)'
  BY <1>7, <1>8, TracedIsOfTheStore DEF Followed
<1>10. AnswersOnce(after)'
  BY <1>7 DEF AnswersOnce
<1>11. QED
  BY <1>6, <1>9, <1>10 DEF Followed, AnswersOnce, Traced, Unmade, SentFirst, ReboundOnce, Provisionally, Undecided, Sending, Stored

LEMMA IdlesIsReflexive == \A p : Idles(p, p)
  BY DEF Idles

\* A page whose route, chat or answers the host changed.
LEMMA ShownPage ==
    ASSUME NEW p, PageOK(p), NEW route \in Routes, NEW live \in Conversations \cup {None},
           NEW dom \in SUBSET Conversations
    PROVE  /\ PageOK([p EXCEPT !.route = route, !.live = live]) /\ Idles(p, [p EXCEPT !.route = route, !.live = live])
           /\ PageOK([p EXCEPT !.dom = dom]) /\ Idles(p, [p EXCEPT !.dom = dom])
           /\ PageOK([p EXCEPT !.recent = None]) /\ Idles(p, [p EXCEPT !.recent = None])
<1>1. PageOK([p EXCEPT !.route = route, !.live = live]) /\ Idles(p, [p EXCEPT !.route = route, !.live = live])
  BY FieldsOfPage DEF PageOK, Idles, Waits
<1>2. PageOK([p EXCEPT !.dom = dom]) /\ Idles(p, [p EXCEPT !.dom = dom])
  BY FieldsOfPage DEF PageOK, Idles, Waits
<1>3. PageOK([p EXCEPT !.recent = None]) /\ Idles(p, [p EXCEPT !.recent = None])
  BY FieldsOfPage DEF PageOK, Idles, Waits
<1>4. QED
  BY <1>1, <1>2, <1>3

LEMMA ScanIsQuiet ==
    ASSUME Pagewise(page), NEW t \in Pages, Scan(t)
    PROVE  Quiet(t)
<1>1. PICK p : p = Noticed(page[t])
  OBVIOUS
<1>2. PageOK(p) /\ (Idles(page[t], p) \/ Rebound(page[t], p))
  BY <1>1, NoticedPage DEF Pagewise
<1>3. UNCHANGED <<asked, lost, storeVars>>
  BY DEF Scan, hostVars
<1>4. CASE page' = [page EXCEPT ![t] = p]
  BY <1>2, <1>3, <1>4 DEF Quiet
<1>5. CASE \E a \in Associations(p) : \E ripe \in SUBSET ((p.watched \cap p.dom) \ (a.ignored \cup p.emitted)) :
               page' = [page EXCEPT ![t] = Scanned(p, a, ripe)]
  <2>1. PICK a \in Associations(p) :
            \E ripe \in SUBSET ((p.watched \cap p.dom) \ (a.ignored \cup p.emitted)) :
                page' = [page EXCEPT ![t] = Scanned(p, a, ripe)]
    BY <1>5
  <2>2. PICK ripe \in SUBSET ((p.watched \cap p.dom) \ (a.ignored \cup p.emitted)) :
            page' = [page EXCEPT ![t] = Scanned(p, a, ripe)]
    BY <2>1
  <2>3. PICK q : q = Scanned(p, a, ripe)
    OBVIOUS
  <2>4. PageOK(q) /\ \E news \in Seq(Delivery) : Answering(p, q, news)
    BY <1>2, <2>2, <2>3, ScannedPage
  <2>5. QED
    BY <1>2, <1>3, <2>2, <2>3, <2>4 DEF Quiet
<1>6. QED
  BY <1>1, <1>4, <1>5 DEF Scan

LEMMA PollIsQuiet ==
    ASSUME Pagewise(page), NEW t \in Pages, PollRoute(t)
    PROVE  Quiet(t)
<1>1. PICK w : w = Counted(page[t])
  OBVIOUS
<1>2. PageOK(w) /\ Idles(page[t], w)
  BY <1>1, CountedPage DEF PollRoute, Pagewise
<1>3. PICK q : q = Reconciled(w)
  OBVIOUS
<1>4. PageOK(q) /\ (Idles(w, q) \/ Rebound(w, q))
  BY <1>2, <1>3, ReconciledPage
<1>5. PageOK(q) /\ (Idles(page[t], q) \/ Rebound(page[t], q))
  BY <1>2, <1>4 DEF Idles, Rebound
<1>6. page' = [page EXCEPT ![t] = q] /\ UNCHANGED <<asked, lost, storeVars>>
  BY <1>1, <1>3 DEF PollRoute, hostVars, Pagewise
<1>7. QED
  BY <1>5, <1>6 DEF Quiet

LEMMA ShowingIsQuiet ==
    ASSUME Pagewise(page), NEW t \in Pages, RecentExpires(t) \/ Render(t) \/ Clear(t)
    PROVE  Quiet(t)
<1>1. PageOK(page[t]) /\ DOMAIN page = Pages
  BY DEF Pagewise
<1>2. UNCHANGED <<asked, lost, storeVars>>
  BY DEF RecentExpires, Render, Clear, hostVars
<1>3. page[t].route \in Routes /\ page[t].live \in Conversations \cup {None} /\ page[t].dom \in SUBSET Conversations
  BY <1>1 DEF PageOK
<1>4. \E q : PageOK(q) /\ Idles(page[t], q) /\ page' = [page EXCEPT ![t] = q]
  <2>1. CASE RecentExpires(t)
    <3>1. PICK q : q = [page[t] EXCEPT !.recent = None]
      OBVIOUS
    <3>2. page' = [page EXCEPT ![t] = q]
      BY <2>1, <3>1 DEF RecentExpires
    <3>3. PageOK(q) /\ Idles(page[t], q)
      BY <1>1, <1>3, <3>1, ShownPage
    <3>4. QED
      BY <3>2, <3>3
  <2>2. CASE Render(t)
    <3>1. PICK dom : dom = page[t].dom \cup {page[t].live}
      OBVIOUS
    <3>2. dom \subseteq Conversations
      BY <1>1, <2>2, <3>1 DEF Render, PageOK
    <3>3. PICK q : q = [page[t] EXCEPT !.dom = dom]
      OBVIOUS
    <3>4. page' = [page EXCEPT ![t] = q]
      BY <1>1, <2>2, <3>1, <3>3 DEF Render, PageOK
    <3>5. PageOK(q) /\ Idles(page[t], q)
      BY <1>1, <1>3, <3>2, <3>3, ShownPage
    <3>6. QED
      BY <3>4, <3>5
  <2>3. CASE Clear(t)
    <3>1. PICK dom : dom = page[t].dom \cap {page[t].live}
      OBVIOUS
    <3>2. dom \subseteq Conversations
      BY <1>1, <3>1 DEF PageOK
    <3>3. PICK q : q = [page[t] EXCEPT !.dom = dom]
      OBVIOUS
    <3>4. page' = [page EXCEPT ![t] = q]
      BY <1>1, <2>3, <3>1, <3>3 DEF Clear, PageOK
    <3>5. PageOK(q) /\ Idles(page[t], q)
      BY <1>1, <1>3, <3>2, <3>3, ShownPage
    <3>6. QED
      BY <3>4, <3>5
  <2>4. QED
    BY <2>1, <2>2, <2>3
<1>5. QED
  BY <1>2, <1>4 DEF Quiet

LEMMA RoutingIsQuiet ==
    ASSUME Pagewise(page), NEW t \in Pages, NEW route \in Routes, NEW live \in Conversations \cup {None},
           RouteBecomes(t, route, live), UNCHANGED <<hostVars, lost, storeVars>>
    PROVE  Quiet(t)
<1>1. PICK p : p = [page[t] EXCEPT !.route = route, !.live = live]
  OBVIOUS
<1>2. PageOK(p) /\ Idles(page[t], p)
  BY <1>1, ShownPage DEF Pagewise
<1>3. PICK q \in {p, RouteChanged(p)} : page' = [page EXCEPT ![t] = q]
  BY <1>1 DEF RouteBecomes
<1>4. PageOK(q) /\ (Idles(page[t], q) \/ Rebound(page[t], q))
  <2>1. PageOK(RouteChanged(p)) /\ (Idles(p, RouteChanged(p)) \/ Rebound(p, RouteChanged(p)))
    BY <1>2, ChangedRoute
  <2>2. QED
    BY <1>2, <1>3, <2>1 DEF Idles, Rebound
<1>5. QED
  BY <1>3, <1>4 DEF Quiet, hostVars

LEMMA ChatRoutes ==
    ASSUME HostInv
    PROVE  /\ Root \in Routes /\ \A q \in Projects : Home(q) \in Routes
           /\ \A c \in Conversations : Chat(c) \in Routes
           /\ Begun \subseteq Conversations
<1>1. \A c \in Conversations : Chat(c) \in Routes
  BY DEF HostInv, Chat, Routes
<1>2. QED
  BY <1>1, Numbers DEF Routes, Begun

LEMMA HostIsQuiet ==
    ASSUME Pagewise(page), HostInv, NEW t \in Pages, HostAssignsRoute(t) \/ Visit(t)
    PROVE  Quiet(t)
<1>1. CASE HostAssignsRoute(t)
  <2>1. page[t].live \in Conversations
    BY <1>1 DEF HostAssignsRoute, Pagewise, PageOK
  <2>2. Chat(page[t].live) \in Routes
    BY <2>1, ChatRoutes
  <2>3. RouteBecomes(t, Chat(page[t].live), page[t].live) /\ UNCHANGED <<hostVars, lost, storeVars>>
    BY <1>1 DEF HostAssignsRoute
  <2>4. QED
    BY <2>1, <2>2, <2>3, RoutingIsQuiet
<1>2. ASSUME NEW route \in Routes, Navigate(t, route)
      PROVE  Quiet(t)
  <2>1. route.chat \in Conversations \cup {None}
    BY RouteFields
  <2>2. RouteBecomes(t, route, route.chat) /\ UNCHANGED <<hostVars, lost, storeVars>>
    BY <1>2 DEF Navigate
  <2>3. QED
    BY <2>1, <2>2, RoutingIsQuiet
<1>3. CASE Visit(t)
  BY <1>2, <1>3, ChatRoutes DEF Visit
<1>4. QED
  BY <1>1, <1>3

\* A submission is typed into a page, and its delivery awaits its turn.
Submitting(t, s) ==
    \E q : \E c \in Conversations, e \in Delivery :
        /\ PageOK(q) /\ page' = [page EXCEPT ![t] = q]
        /\ asked[s] = None /\ asked' = [asked EXCEPT ![s] = c]
        /\ Original(e, s) /\ \A r : e.chat = Provisional(r) => r = s
        /\ \A r : Waits(q, r) => Waits(page[t], r) \/ (r = s /\ e.chat = Provisional(s))
        /\ q.tail = Append(page[t].tail, e) /\ q.emitted = page[t].emitted
        /\ UNCHANGED <<lost, storeVars>>

LEMMA NewChatIsSubmitted ==
    ASSUME Pagewise(page), HostInv, NEW t \in Pages, NEW s \in Submissions, SubmitNewChat(t, s)
    PROVE  Submitting(t, s) /\ HostInv'
<1>1. PICK p : p = page[t]
  OBVIOUS
<1>2. PageOK(p)
  BY <1>1 DEF Pagewise
<1>3. p.route.project \in Projects \cup {None}
  BY <1>2, RouteFields DEF PageOK
<1>4. PICK e : e = Captured(Provisional(s), None, p.route.project, Prompt(s))
  OBVIOUS
<1>5. /\ e \in Delivery /\ Original(e, s)
      /\ e.chat = Provisional(s) /\ \A r : e.chat = Provisional(r) => r = s
  <2>1. Prompt(s) \in Observed
    BY DEF Observed
  <2>2. e \in Delivery
    BY <1>3, <1>4, <2>1, References, CapturedEvents
  <2>3. QED
    BY <1>4, <2>2, CapturedFields, Names DEF Original
<1>6. PICK w : w = [submission |-> s, project |-> p.route.project,
                    ignored |-> IF p.route.kind = "home" THEN p.dom ELSE {}, captured |-> FALSE]
  OBVIOUS
<1>7. w \in Pending /\ w.submission = s
  BY <1>2, <1>3, <1>6 DEF Pending, PageOK
<1>8. PICK n : n = IF p.route.kind = "home" THEN None ELSE p.recent
  OBVIOUS
<1> DEFINE c == IF p.live = None THEN s ELSE p.live
<1>9. PICK q : q = [p EXCEPT !.live = c, !.rounds = MaxRounds, !.pending = w, !.recent = n, !.tail = Append(@, e)]
  OBVIOUS
<1>10. /\ page' = [page EXCEPT ![t] = q]
       /\ asked[s] = None /\ asked' = [asked EXCEPT ![s] = c]
       /\ place' = [place EXCEPT ![s] = p.route.project] \/ UNCHANGED place
       /\ UNCHANGED <<lost, storeVars>>
  BY <1>1, <1>4, <1>6, <1>8, <1>9 DEF SubmitNewChat
<1>11. /\ DOMAIN q = DOMAIN p /\ q.route = p.route /\ q.live = c /\ q.rounds = MaxRounds /\ q.dom = p.dom /\ q.watched = p.watched
       /\ q.emitted = p.emitted /\ q.pending = w /\ q.recent = n /\ q.tail = Append(p.tail, e)
  BY <1>2, <1>9, FieldsOfPage DEF PageOK
<1>12. s \in Conversations /\ c \in Conversations /\ MaxRounds \in 0 .. MaxRounds
  BY <1>2, Numbers, CaptureAssumption DEF PageOK
<1> HIDE DEF c
<1>13. PageOK(q)
  <2>1. n \in Recent \cup {None} /\ Append(p.tail, e) \in Seq(Delivery)
    BY <1>2, <1>5, <1>8 DEF PageOK
  <2>2. QED
    BY <1>2, <1>7, <1>11, <1>12, <2>1 DEF PageOK
<1>14. \A r : Waits(q, r) => r = s
  BY <1>7, <1>11 DEF Waits
<1>15. Submitting(t, s)
  BY <1>1, <1>5, <1>10, <1>11, <1>12, <1>13, <1>14 DEF Submitting
<1>16. HostInv'
  BY <1>3, <1>10, <1>12 DEF HostInv
<1>17. QED
  BY <1>15, <1>16

LEMMA PromptIsSubmitted ==
    ASSUME Pagewise(page), HostInv, NEW t \in Pages, NEW s \in Submissions, SubmitInChat(t, s)
    PROVE  Submitting(t, s) /\ HostInv'
<1>1. PICK p : p = page[t]
  OBVIOUS
<1>2. PageOK(p)
  BY <1>1 DEF Pagewise
<1>3. p.route.project \in Projects \cup {None} /\ p.route.chat \in Conversations
  BY <1>1, <1>2, RouteFields DEF PageOK, SubmitInChat
<1>4. PICK e : e = Captured(Stable(p.route.chat), None, p.route.project, Prompt(s))
  OBVIOUS
<1>5. e \in Delivery /\ Original(e, s) /\ \A r : e.chat # Provisional(r)
  <2>1. Prompt(s) \in Observed
    BY DEF Observed
  <2>2. e \in Delivery
    BY <1>3, <1>4, <2>1, References, CapturedEvents
  <2>3. QED
    BY <1>4, <2>2, CapturedFields, Names DEF Original
<1>6. PICK q : q = [p EXCEPT !.tail = Append(@, e)]
  OBVIOUS
<1>7. /\ page' = [page EXCEPT ![t] = q]
      /\ asked[s] = None /\ asked' = [asked EXCEPT ![s] = p.route.chat]
      /\ UNCHANGED <<place, lost, storeVars>>
  BY <1>1, <1>2, <1>4, <1>6 DEF SubmitInChat, Pagewise
<1>8. PageOK(q) /\ q.tail = Append(p.tail, e) /\ q.emitted = p.emitted /\ \A r : Waits(q, r) => Waits(p, r)
  <2>1. Append(p.tail, e) \in Seq(Delivery)
    BY <1>2, <1>5 DEF PageOK
  <2>2. /\ DOMAIN q = DOMAIN p /\ q.route = p.route /\ q.live = p.live /\ q.dom = p.dom /\ q.watched = p.watched
        /\ q.emitted = p.emitted /\ q.pending = p.pending /\ q.recent = p.recent /\ q.tail = Append(p.tail, e)
        /\ q.rounds = p.rounds
    BY <1>2, <1>6, FieldsOfPage DEF PageOK
  <2>3. QED
    BY <1>2, <2>1, <2>2 DEF PageOK, Waits
<1>9. Submitting(t, s)
  BY <1>1, <1>3, <1>5, <1>7, <1>8 DEF Submitting
<1>10. HostInv'
  BY <1>3, <1>7 DEF HostInv
<1>11. QED
  BY <1>9, <1>10

LEMMA SubmittedTypes ==
    ASSUME Pagewise(page), NEW t \in Pages, NEW s \in Submissions, Submitting(t, s)
    PROVE  Pagewise(page)'
  BY DEF Submitting, Pagewise

LEMMA SubmittedKeeps ==
    ASSUME HostInv, Pagewise(page), Followed(page), AnswersOnce(page),
           NEW t \in Pages, NEW s \in Submissions, Submitting(t, s)
    PROVE  Followed(page)' /\ AnswersOnce(page)'
<1>1. PICK q : \E c \in Conversations, e \in Delivery :
        /\ PageOK(q) /\ page' = [page EXCEPT ![t] = q]
        /\ asked[s] = None /\ asked' = [asked EXCEPT ![s] = c]
        /\ Original(e, s) /\ \A r : e.chat = Provisional(r) => r = s
        /\ \A r : Waits(q, r) => Waits(page[t], r) \/ (r = s /\ e.chat = Provisional(s))
        /\ q.tail = Append(page[t].tail, e) /\ q.emitted = page[t].emitted
        /\ UNCHANGED <<lost, storeVars>>
  BY DEF Submitting
<1>2. PICK c \in Conversations, e \in Delivery :
        /\ PageOK(q) /\ page' = [page EXCEPT ![t] = q]
        /\ asked[s] = None /\ asked' = [asked EXCEPT ![s] = c]
        /\ Original(e, s) /\ \A r : e.chat = Provisional(r) => r = s
        /\ \A r : Waits(q, r) => Waits(page[t], r) \/ (r = s /\ e.chat = Provisional(s))
        /\ q.tail = Append(page[t].tail, e) /\ q.emitted = page[t].emitted
        /\ UNCHANGED <<lost, storeVars>>
  BY <1>1
<1>3. PICK pg : pg = page
  OBVIOUS
<1>4. PICK after : after = [pg EXCEPT ![t] = q]
  OBVIOUS
<1>5. Pagewise(pg) /\ Followed(pg) /\ AnswersOnce(pg)
  BY <1>3
<1>6. UNCHANGED <<reference, messages, lost>>
  BY <1>2 DEF storeVars
<1>7. Followed(after)' /\ AnswersOnce(after)'
  BY <1>2, <1>3, <1>4, <1>5, <1>6, SubmittingKeeps
<1>8. after = page'
  BY <1>2, <1>3, <1>4
<1>9. QED
  BY <1>7, <1>8 DEF Followed, AnswersOnce, Traced, Unmade, SentFirst, ReboundOnce, Provisionally, Undecided, Sending, Stored

-----------------------------------------------------------------------------
\* Deliveries.

Dropping(t) == page[t].tail # <<>> /\ page' = [page EXCEPT ![t].tail = Tail(@)]

LEMMA DroppedTypes ==
    ASSUME Pagewise(page), NEW t \in Pages, Dropping(t)
    PROVE  Pagewise(page)'
<1>1. PICK pn : pn = [page EXCEPT ![t].tail = Tail(@)]
  OBVIOUS
<1>2. Drops(page, pn, t)
  BY <1>1, DroppingPage DEF Dropping
<1>3. page' = pn
  BY <1>1 DEF Dropping
<1>4. QED
  BY <1>2, <1>3 DEF Drops, Pagewise

\* The bridge refuses no submission that a rebinding is still to follow: its
\* provisional chat does not exist yet, or does not have its message.
LEMMA RefusedIsDecided ==
    ASSUME HistoryTypeOK, NEW pg, NEW t \in Pages, 1 \in DOMAIN pg[t].tail, NEW s \in Submissions, Traced(pg, s),
           Original(pg[t].tail[1], s), Undecided(pg, s), Refuse(pg[t].tail[1])
    PROVE  FALSE
<1>1. PICK e : e = pg[t].tail[1]
  OBVIOUS
<1>2. e.from = None /\ e.observation = Prompt(s) /\ e.chat = Provisional(s)
  BY <1>1 DEF Traced, Provisionally, Original
<1>3. reference[Provisional(s)] = None /\ \A c \in Refs : ~Stored(c, s)
  BY <1>1, <1>2, HistoryDomains DEF Traced, SentFirst
<1>4. Holders(e) = {}
  <2>1. ASSUME NEW c \in Refs, NEW i \in DOMAIN messages[c], messages[c][i] = KeyOf(e)
        PROVE  FALSE
    BY <1>2, <1>3, <2>1 DEF Stored, KeyOf
  <2>2. QED
    BY <1>2, <2>1 DEF Holders, Refs
<1>5. \E c \in Refs : BindsTo(e, c)
  <2>1. CASE ReferredTo(e.chat) = {}
    <3>1. NewChat(e, Provisional(s))
      BY <1>2, <1>3, <2>1 DEF NewChat
    <3>2. QED
      BY <3>1, References DEF BindsTo
  <2>2. CASE ReferredTo(e.chat) # {}
    <3>1. PICK c \in Refs : c \in ReferredTo(e.chat)
      BY <2>2 DEF ReferredTo, Refs
    <3>2. QED
      BY <1>2, <3>1 DEF BindsTo, KnownChat
  <2>3. QED
    BY <2>1, <2>2
<1>6. QED
  BY <1>1, <1>4, <1>5 DEF Refuse, Refs

Kept == Followed(page) /\ AnswersOnce(page) /\ PromptStoredOnce /\ IndexFollowsProject

\* What is kept is a matter of the pages and the store.
LEMMA KeptIsOfThePages ==
    ASSUME NEW pn, page' = pn, Followed(pn)', AnswersOnce(pn)', PromptStoredOnce', IndexFollowsProject'
    PROVE  Kept'
  BY DEF Kept, Followed, AnswersOnce, Traced, Unmade, SentFirst, ReboundOnce, Provisionally, Undecided, Sending, Stored

LEMMA StoreKeeps ==
    ASSUME UNCHANGED storeVars
    PROVE  (PromptStoredOnce => PromptStoredOnce') /\ (IndexFollowsProject => IndexFollowsProject')
  BY DEF storeVars, PromptStoredOnce, IndexFollowsProject

LEMMA DeliveryKeeps ==
    ASSUME Pagewise(page), HistoryTypeOK, Kept, NEW t \in Pages, Deliver(t)
    PROVE  Kept'
<1>1. PICK pg : pg = page
  OBVIOUS
<1>2. PICK pn : pn = [pg EXCEPT ![t].tail = Tail(@)]
  OBVIOUS
<1>3. Pagewise(pg) /\ Followed(pg) /\ AnswersOnce(pg) /\ PromptStoredOnce /\ IndexFollowsProject
  BY <1>1 DEF Kept
<1>4. page' = pn /\ UNCHANGED <<asked, lost>>
  BY <1>1, <1>2 DEF Deliver, hostVars
<1>5. Drops(pg, pn, t) /\ Head(pg[t].tail) = pg[t].tail[1]
  BY <1>1, <1>2, <1>3, DroppingPage DEF Deliver
<1>6. PICK e : e = pg[t].tail[1]
  OBVIOUS
<1>7. 1 \in DOMAIN pg[t].tail /\ e \in Delivery
  BY <1>5, <1>6 DEF Drops
<1>8. AnswersOnce(pn)'
  <2>1. AnswersOnce(pn)
    BY <1>3, <1>5, DroppedAnswers
  <2>2. QED
    BY <2>1 DEF AnswersOnce
<1>9. CASE Ingest(e)
  <2>1. PICK c \in Refs, p \in Owners :
            /\ Takes(e, c)
            /\ owner' = [owner EXCEPT ![c] = p]
            /\ index' = IndexWith(e, c, p) \/ index' = Reindexed(c, p)
    BY <1>3, <1>6, <1>7, <1>9, IngestionTakes
  <2>2. Followed(pn)'
    <3>1. ASSUME NEW s \in Submissions
          PROVE  Traced(pn, s)'
      BY <1>3, <1>4, <1>5, <1>6, <2>1, IngestedKeeps DEF Followed
    <3>2. QED
      BY <3>1 DEF Followed
  <2>3. PromptStoredOnce'
    BY <1>3, <1>6, <1>7, <2>1, IngestedOnce
  <2>4. IndexFollowsProject'
    BY <1>3, <2>1, IngestedIndex
  <2>5. QED
    BY <1>4, <1>8, <2>2, <2>3, <2>4, KeptIsOfThePages
<1>10. CASE Refuse(e)
  <2>1. UNCHANGED storeVars
    BY <1>10 DEF Refuse, storeVars
  <2>2. Followed(pn)'
    <3>1. ASSUME NEW s \in Submissions
          PROVE  Traced(pn, s)'
      <4>1. Traced(pg, s)
        BY <1>3 DEF Followed
      <4>2. ~(Original(pg[t].tail[1], s) /\ Undecided(pg, s))
        BY <1>6, <1>7, <1>10, <4>1, RefusedIsDecided
      <4>3. UNCHANGED <<asked, reference, messages>> /\ lost \subseteq lost'
        BY <1>4, <2>1 DEF storeVars
      <4>4. QED
        BY <1>5, <4>1, <4>2, <4>3, UndeliveredKeeps
    <3>2. QED
      BY <3>1 DEF Followed
  <2>3. PromptStoredOnce' /\ IndexFollowsProject'
    BY <1>3, <2>1, StoreKeeps
  <2>4. QED
    BY <1>4, <1>8, <2>2, <2>3, KeptIsOfThePages
<1>11. QED
  BY <1>1, <1>5, <1>6, <1>9, <1>10 DEF Deliver

LEMMA FailureKeeps ==
    ASSUME Pagewise(page), HistoryTypeOK, Kept, NEW t \in Pages, DeliveryFails(t)
    PROVE  Kept'
<1>1. PICK pg : pg = page
  OBVIOUS
<1>2. PICK pn : pn = [pg EXCEPT ![t].tail = Tail(@)]
  OBVIOUS
<1>3. Pagewise(pg) /\ Followed(pg) /\ AnswersOnce(pg) /\ PromptStoredOnce /\ IndexFollowsProject
  BY <1>1 DEF Kept
<1>4. page' = pn /\ UNCHANGED <<asked, reference, messages>> /\ UNCHANGED storeVars
  BY <1>1, <1>2 DEF DeliveryFails, hostVars, storeVars
<1>5. Drops(pg, pn, t) /\ Head(pg[t].tail) = pg[t].tail[1]
  BY <1>1, <1>2, <1>3, DroppingPage DEF DeliveryFails
<1>6. lost' = lost \cup PromptsOf({pg[t].tail[1]})
  BY <1>1, <1>5 DEF DeliveryFails
<1>7. AnswersOnce(pn)'
  <2>1. AnswersOnce(pn)
    BY <1>3, <1>5, DroppedAnswers
  <2>2. QED
    BY <2>1 DEF AnswersOnce
<1>8. ASSUME NEW s \in Submissions
      PROVE  Traced(pn, s)'
  <2>1. Traced(pg, s)
    BY <1>3 DEF Followed
  <2>2. Original(pg[t].tail[1], s) => s \in lost'
    BY <1>6, Names DEF Original, PromptsOf
  <2>3. QED
    BY <1>4, <1>5, <1>6, <2>1, <2>2, UndeliveredKeeps
<1>9. PromptStoredOnce' /\ IndexFollowsProject'
  BY <1>3, <1>4, StoreKeeps
<1>10. QED
  BY <1>4, <1>7, <1>8, <1>9, KeptIsOfThePages DEF Followed

LEMMA ReloadKeeps ==
    ASSUME Pagewise(page), Kept, NEW t \in Pages, Reload(t)
    PROVE  Kept' /\ Pagewise(page)'
<1>1. PICK pg : pg = page
  OBVIOUS
<1>2. PICK q : q = Fresh(pg[t].route)
  OBVIOUS
<1>3. PICK pn : pn = [pg EXCEPT ![t] = q]
  OBVIOUS
<1>4. Pagewise(pg) /\ Followed(pg) /\ AnswersOnce(pg) /\ PromptStoredOnce /\ IndexFollowsProject
  BY <1>1 DEF Kept
<1>5. page' = pn /\ UNCHANGED <<asked, reference, messages>> /\ UNCHANGED storeVars
  BY <1>1, <1>2, <1>3 DEF Reload, hostVars, storeVars
<1>6. lost' = lost \cup PromptsOf(ToSet(pg[t].tail))
  BY <1>1 DEF Reload
<1>7. PageOK(q) /\ q.tail = <<>> /\ \A r : ~Waits(q, r)
  BY <1>2, <1>4, FreshPage DEF Pagewise, PageOK
<1>8. Followed(pn)' /\ AnswersOnce(pn)'
  BY <1>3, <1>4, <1>5, <1>6, <1>7, ReloadingKeeps
<1>9. PromptStoredOnce' /\ IndexFollowsProject'
  BY <1>4, <1>5, StoreKeeps
<1>10. Pagewise(pn)
  BY <1>3, <1>4, <1>7 DEF Pagewise
<1>11. QED
  BY <1>5, <1>8, <1>9, <1>10, KeptIsOfThePages

-----------------------------------------------------------------------------
\* The invariants of the pages and the host.

LEMMA BegunOnce ==
    ASSUME Init
    PROVE  Pagewise(page) /\ HostInv /\ Kept
<1>1. PICK q : q = Fresh(Root)
  OBVIOUS
<1>2. PageOK(q) /\ q.tail = <<>> /\ \A r : ~Waits(q, r)
  BY <1>1, FreshPage DEF Routes
<1>3. page = [t \in Pages |-> q]
  BY <1>1 DEF Init
<1>4. Pagewise(page)
  BY <1>2, <1>3 DEF Pagewise
<1>5. HostInv
  BY DEF Init, HostInv
<1>6. \A t \in Pages : DOMAIN page[t].tail = {} /\ \A r : ~Waits(page[t], r)
  BY <1>2, <1>3
<1>7. DOMAIN messages = Refs /\ DOMAIN reference = Refs /\ index = {}
      /\ \A c \in Refs : DOMAIN messages[c] = {} /\ reference[c] = None
  BY DEF Init, HistoryInit, Refs
<1>8. ASSUME NEW s \in Submissions
      PROVE  Traced(page, s)
  <2>1. Unmade(page, s)
    BY <1>6, <1>7, References DEF Unmade, Stored
  <2>2. SentFirst(page, s) /\ ReboundOnce(page, s) /\ Provisionally(page, s)
    BY <1>6 DEF SentFirst, ReboundOnce, Provisionally, Undecided
  <2>3. QED
    BY <2>1, <2>2 DEF Traced
<1>9. AnswersOnce(page) /\ PromptStoredOnce /\ IndexFollowsProject
  BY <1>6, <1>7 DEF AnswersOnce, PromptStoredOnce, IndexFollowsProject
<1>10. QED
  BY <1>4, <1>5, <1>8, <1>9 DEF Kept, Followed

LEMMA QuietStep ==
    ASSUME Pagewise(page), HostInv, NEW t \in Pages,
           \/ Scan(t) \/ PollRoute(t) \/ RecentExpires(t) \/ HostAssignsRoute(t)
           \/ Visit(t) \/ Render(t) \/ Clear(t)
    PROVE  Quiet(t) /\ UNCHANGED hostVars
<1>1. Quiet(t)
  BY ScanIsQuiet, PollIsQuiet, ShowingIsQuiet, HostIsQuiet
<1>2. UNCHANGED hostVars
  BY DEF Scan, PollRoute, RecentExpires, HostAssignsRoute, Visit, Navigate, Render, Clear
<1>3. QED
  BY <1>1, <1>2

LEMMA StepKinds ==
    ASSUME Next
    PROVE  \/ \E t \in Pages :
                \/ \E s \in Submissions : SubmitNewChat(t, s) \/ SubmitInChat(t, s)
                \/ \/ Scan(t) \/ PollRoute(t) \/ RecentExpires(t) \/ HostAssignsRoute(t)
                   \/ Visit(t) \/ Render(t) \/ Clear(t)
                \/ Deliver(t) \/ DeliveryFails(t) \/ Reload(t)
           \/ \E c \in Conversations, q \in Projects : Move(c, q)
  BY DEF Next, PageStep, HostStep

LEMMA PagesKeepTypes ==
    ASSUME Pagewise(page), HostInv, [Next]_vars
    PROVE  Pagewise(page)' /\ HostInv'
<1>1. CASE UNCHANGED vars
  BY <1>1 DEF vars, hostVars, Pagewise, HostInv
<1>2. ASSUME NEW t \in Pages, NEW s \in Submissions, SubmitNewChat(t, s) \/ SubmitInChat(t, s)
      PROVE  Pagewise(page)' /\ HostInv'
  BY <1>2, NewChatIsSubmitted, PromptIsSubmitted, SubmittedTypes
<1>3. UNCHANGED hostVars => HostInv'
  BY DEF hostVars, HostInv
<1>4. ASSUME NEW t \in Pages,
             \/ Scan(t) \/ PollRoute(t) \/ RecentExpires(t) \/ HostAssignsRoute(t)
             \/ Visit(t) \/ Render(t) \/ Clear(t)
      PROVE  Pagewise(page)' /\ HostInv'
  BY <1>3, <1>4, QuietStep, QuietTypes
<1>5. ASSUME NEW t \in Pages, Deliver(t) \/ DeliveryFails(t)
      PROVE  Pagewise(page)' /\ HostInv'
  <2>1. Dropping(t) /\ UNCHANGED hostVars
    BY <1>5 DEF Deliver, DeliveryFails, Dropping
  <2>2. QED
    BY <1>3, <2>1, DroppedTypes
<1>6. ASSUME NEW t \in Pages, Reload(t)
      PROVE  Pagewise(page)' /\ HostInv'
  <2>1. page' = [page EXCEPT ![t] = Fresh(page[t].route)] /\ UNCHANGED hostVars
    BY <1>6 DEF Reload
  <2>2. PageOK(Fresh(page[t].route))
    BY FreshPage DEF Pagewise, PageOK
  <2>3. PICK q : q = Fresh(page[t].route)
    OBVIOUS
  <2>4. Pagewise(page)'
    BY <2>1, <2>2, <2>3 DEF Pagewise
  <2>5. QED
    BY <1>3, <2>1, <2>4
<1>7. ASSUME NEW c \in Conversations, NEW q \in Projects, Move(c, q)
      PROVE  Pagewise(page)' /\ HostInv'
  BY <1>7 DEF Move, HostInv, Pagewise
<1>8. QED
  BY <1>1, <1>2, <1>4, <1>5, <1>6, <1>7, StepKinds

LEMMA StepKeeps ==
    ASSUME Pagewise(page), HostInv, HistoryTypeOK, Kept, [Next]_vars
    PROVE  Kept'
<1>1. ASSUME UNCHANGED <<page, asked, lost, storeVars>>
      PROVE  Kept'
  <2>1. UNCHANGED <<reference, messages>>
    BY <1>1 DEF storeVars
  <2>2. PICK pg : pg = page
    OBVIOUS
  <2>3. Followed(pg) /\ AnswersOnce(pg)
    BY <2>2 DEF Kept
  <2>4. Followed(pg)' /\ AnswersOnce(pg)'
    BY <1>1, <2>1, <2>3, TracedIsOfTheStore DEF Followed, AnswersOnce
  <2>5. page' = pg /\ PromptStoredOnce' /\ IndexFollowsProject'
    BY <1>1, <2>2, StoreKeeps DEF Kept
  <2>6. QED
    BY <2>4, <2>5, KeptIsOfThePages
<1>2. ASSUME NEW t \in Pages, NEW s \in Submissions, SubmitNewChat(t, s) \/ SubmitInChat(t, s)
      PROVE  Kept'
  <2>1. Submitting(t, s)
    BY <1>2, NewChatIsSubmitted, PromptIsSubmitted
  <2>2. UNCHANGED storeVars
    BY <2>1 DEF Submitting
  <2>3. QED
    BY <2>1, <2>2, SubmittedKeeps, StoreKeeps DEF Kept
<1>3. ASSUME NEW t \in Pages,
             \/ Scan(t) \/ PollRoute(t) \/ RecentExpires(t) \/ HostAssignsRoute(t)
             \/ Visit(t) \/ Render(t) \/ Clear(t)
      PROVE  Kept'
  <2>1. Quiet(t)
    BY <1>3, QuietStep
  <2>2. UNCHANGED storeVars
    BY <2>1 DEF Quiet
  <2>3. QED
    BY <2>1, <2>2, QuietKeeps, StoreKeeps DEF Kept
<1>4. ASSUME NEW t \in Pages, Deliver(t) \/ DeliveryFails(t) \/ Reload(t)
      PROVE  Kept'
  BY <1>4, DeliveryKeeps, FailureKeeps, ReloadKeeps
<1>5. ASSUME NEW c \in Conversations, NEW q \in Projects, Move(c, q)
      PROVE  Kept'
  BY <1>1, <1>5 DEF Move
<1>6. CASE UNCHANGED vars
  BY <1>1, <1>6 DEF vars, hostVars
<1>7. QED
  BY <1>2, <1>3, <1>4, <1>5, <1>6, StepKinds

-----------------------------------------------------------------------------
\* The captured events are events of the history, which implies what is
\* proved of it.

H == INSTANCE ChatHistoryProofs WITH
    References <- {Stable(c) : c \in Conversations}
                    \cup {Provisional(s) : s \in Submissions} \cup {Temporary},
    Provisionals <- {Provisional(s) : s \in Submissions},
    Targets <- {Stable(c) : c \in Conversations},
    Observations <- {Prompt(s) : s \in Submissions}
                      \cup {Answer(c) : c \in Conversations},
    Prompts <- {Prompt(s) : s \in Submissions}

LEMMA SameAssumption == H!HistoryAssumption
  BY CaptureAssumption, Names DEF H!HistoryAssumption

LEMMA SameStart == H!HistoryInit <=> HistoryInit
  BY DEF HistoryInit, H!HistoryInit

LEMMA SameEvents == H!Event = Event
  BY DEF Event, H!Event

LEMMA SameTransaction ==
    ASSUME NEW e
    PROVE  (H!Ingest(e) <=> Ingest(e)) /\ (H!Refuse(e) <=> Refuse(e))
<1>1. \A c : H!BindsTo(e, c) <=> BindsTo(e, c)
  BY DEF BindsTo, KnownChat, NewChat, ProvisionalChat, ReboundChat, ReferredTo, Submitted,
         H!BindsTo, H!KnownChat, H!NewChat, H!ProvisionalChat, H!ReboundChat, H!ReferredTo, H!Submitted
<1>2. \A p : H!Resolved(e, p) <=> Resolved(e, p)
  BY DEF Resolved, ReferredTo, H!Resolved, H!ReferredTo
<1>3. \A c, p : H!OwnerAfter(e, c, p) = OwnerAfter(e, c, p)
  BY DEF OwnerAfter, ReboundChat, ReferredTo, Submitted, H!OwnerAfter, H!ReboundChat, H!ReferredTo, H!Submitted
<1>4. H!KeyOf(e) = KeyOf(e) /\ H!PriorKeyOf(e) = PriorKeyOf(e)
  BY DEF KeyOf, H!KeyOf, PriorKeyOf, H!PriorKeyOf
<1>5. H!Holders(e) = Holders(e)
  BY <1>4 DEF Holders, H!Holders
<1>6. \A c, p : H!Reindexed(c, p) = Reindexed(c, p)
  BY DEF Reindexed, H!Reindexed
<1>7. \A c, p : H!IndexWith(e, c, p) = IndexWith(e, c, p)
  BY <1>4, <1>6 DEF IndexWith, H!IndexWith
<1>8. \A c, p : H!WriteMessage(e, c, p) <=> WriteMessage(e, c, p)
  BY <1>4, <1>5, <1>6, <1>7 DEF WriteMessage, H!WriteMessage
<1>9. H!Ingest(e) <=> Ingest(e)
  BY <1>1, <1>2, <1>3, <1>8 DEF Ingest, H!Ingest
<1>10. H!Refuse(e) <=> Refuse(e)
  BY <1>1, <1>5 DEF Refuse, H!Refuse
<1>11. QED
  BY <1>9, <1>10

LEMMA SameHistory == H!HistorySpec <=> HistorySpec
<1>1. [H!HistoryNext]_(H!historyVars) <=> [HistoryNext]_historyVars
  BY SameEvents, SameTransaction DEF HistoryNext, H!HistoryNext, historyVars, H!historyVars
<1>2. QED
  BY <1>1, SameStart, PTL DEF HistorySpec, H!HistorySpec

LEMMA HistoryIsTyped == HistorySpec => []HistoryTypeOK
<1>1. HistoryTypeOK <=> H!HistoryTypeOK
  BY DEF HistoryTypeOK, H!HistoryTypeOK, Key, H!Key, Entry, H!Entry
<1>2. H!HistorySpec => []H!HistoryTypeOK
  BY SameAssumption, H!HistoryTypes
<1>3. QED
  BY <1>1, <1>2, SameHistory, PTL

LEMMA PagesAreTyped == Spec => [](Pagewise(page) /\ HostInv)
<1>1. Init => Pagewise(page) /\ HostInv
  BY BegunOnce
<1>2. Pagewise(page) /\ HostInv /\ [Next]_vars => (Pagewise(page) /\ HostInv)'
  BY PagesKeepTypes
<1>3. QED
  BY <1>1, <1>2, PTL DEF Spec

\* A step of the pages delivers an event of the history or leaves it alone.
LEMMA StepOfHistory ==
    ASSUME Pagewise(page), [Next]_vars
    PROVE  [HistoryNext]_historyVars
<1>1. UNCHANGED storeVars => UNCHANGED historyVars
  BY DEF storeVars, historyVars
<1>2. ASSUME NEW t \in Pages, Deliver(t)
      PROVE  HistoryNext
  <2>1. page[t].tail \in Seq(Delivery) /\ page[t].tail # <<>>
    BY <1>2 DEF Deliver, Pagewise, PageOK
  <2>2. Head(page[t].tail) \in Event
    BY <2>1 DEF Delivery
  <2>3. QED
    BY <1>2, <2>2 DEF Deliver, HistoryNext
<1>3. \A t \in Pages, s \in Submissions : SubmitNewChat(t, s) \/ SubmitInChat(t, s) => UNCHANGED storeVars
  BY DEF SubmitNewChat, SubmitInChat
<1>4. ASSUME NEW t \in Pages,
             \/ Scan(t) \/ PollRoute(t) \/ RecentExpires(t) \/ HostAssignsRoute(t)
             \/ Visit(t) \/ Render(t) \/ Clear(t) \/ DeliveryFails(t) \/ Reload(t)
      PROVE  UNCHANGED storeVars
  BY <1>4 DEF Scan, PollRoute, RecentExpires, HostAssignsRoute, Visit, Navigate, Render, Clear, DeliveryFails, Reload
<1>5. \A c \in Conversations, q \in Projects : Move(c, q) => UNCHANGED storeVars
  BY DEF Move
<1>6. UNCHANGED vars => UNCHANGED storeVars
  BY DEF vars
<1>7. CASE Next
  <2>1. HistoryNext \/ UNCHANGED storeVars
    BY <1>2, <1>3, <1>4, <1>5, <1>7, StepKinds
  <2>2. QED
    BY <1>1, <2>1
<1>8. CASE UNCHANGED vars
  BY <1>1, <1>6, <1>8
<1>9. QED
  BY <1>7, <1>8

\* Whatever the pages send, in whatever order and with whatever losses, the
\* store goes through a behaviour of the history: what is promised of the
\* history for every client holds for the extension.
THEOREM CaptureIsHistory == Spec => HistorySpec
<1>1. Init => HistoryInit
  BY DEF Init
<1>2. Pagewise(page) /\ [Next]_vars => [HistoryNext]_historyVars
  BY StepOfHistory
<1>3. QED
  BY <1>1, <1>2, PagesAreTyped, PTL DEF Spec, HistorySpec

LEMMA CaptureInvariant == Spec => [](Pagewise(page) /\ HostInv /\ HistoryTypeOK /\ Kept)
<1>1. Init => Kept
  BY BegunOnce
<1>2. Pagewise(page) /\ HostInv /\ HistoryTypeOK /\ Kept /\ [Next]_vars => Kept'
  BY StepKeeps
<1>3. Spec => [](Pagewise(page) /\ HostInv /\ HistoryTypeOK)
  BY CaptureIsHistory, HistoryIsTyped, PagesAreTyped, PTL
<1>4. QED
  BY <1>1, <1>2, <1>3, PTL DEF Spec

\* A prompt, which the script sends for the provisional chat and again when
\* the chat has a reference, is stored once, through reloads, lost deliveries
\* and moves of the conversation.
THEOREM PromptsAreStoredOnce == Spec => []PromptStoredOnce
<1>1. Kept => PromptStoredOnce
  BY DEF Kept
<1>2. QED
  BY <1>1, CaptureInvariant, PTL

\* The lexical entries of a chat have the project of its row: the extension
\* never repeats a rebinding, the one call that would leave them behind.
THEOREM IndexKeepsUp == Spec => []IndexFollowsProject
<1>1. Kept => IndexFollowsProject
  BY DEF Kept
<1>2. QED
  BY <1>1, CaptureInvariant, PTL

-----------------------------------------------------------------------------
\* What a page has to deliver: of each submission the prompt and its
\* rebinding, and of each conversation the answer.

OnlyOne(D, S, of) == of \in [D -> S] /\ \A i, j \in D : of[i] = of[j] => i = j

LEMMA AtMostOne ==
    ASSUME NEW D, NEW S, IsFiniteSet(S), NEW of, OnlyOne(D, S, of)
    PROVE  IsFiniteSet(D) /\ Cardinality(D) <= Cardinality(S) /\ Cardinality(D) \in Nat
<1>1. of \in Injection(D, S)
  BY DEF OnlyOne, Injection, IsInjective
<1>2. QED
  BY <1>1, FS_Injection, FS_CardinalityType

LEMMA AtMostBoth ==
    ASSUME NEW S, IsFiniteSet(S), NEW T, IsFiniteSet(T)
    PROVE  /\ IsFiniteSet(S \cup T) /\ Cardinality(S \cup T) \in Nat
           /\ Cardinality(S \cup T) <= Cardinality(S) + Cardinality(T)
<1>1. IsFiniteSet(S \cap T)
  BY FS_Subset
<1>2. Cardinality(S) \in Nat /\ Cardinality(T) \in Nat /\ Cardinality(S \cap T) \in Nat
  BY <1>1, FS_CardinalityType
<1>3. IsFiniteSet(S \cup T) /\ Cardinality(S \cup T) = Cardinality(S) + Cardinality(T) - Cardinality(S \cap T)
  BY FS_Union
<1>4. Cardinality(S \cup T) \in Nat
  BY <1>3, FS_CardinalityType
<1>5. QED
  BY <1>2, <1>3, <1>4

LEMMA DeliveryKinds ==
    ASSUME NEW e \in Delivery
    PROVE  \/ \E s \in Submissions : Original(e, s)
           \/ \E s \in Submissions : Rebinds(e, s)
           \/ e.observation.role = "assistant" /\ \E c \in Conversations : e.observation = Answer(c)
<1>1. CASE e.from # None
  BY <1>1 DEF Delivery
<1>2. CASE e.from = None
  <2>1. e.observation \in Observed
    BY EventFields DEF Delivery
  <2>2. QED
    BY <1>2, <2>1, Names DEF Observed, Original
<1>3. QED
  BY <1>1, <1>2

LEMMA TailIsBounded ==
    ASSUME Pagewise(page), Kept, NEW t \in Pages
    PROVE  Len(page[t].tail) <= 2 * MaxSubmissions + Cardinality(Conversations)
<1>1. PICK tail : tail = page[t].tail
  OBVIOUS
<1>2. tail \in Seq(Delivery)
  BY <1>1 DEF Pagewise, PageOK
<1>3. PICK D : D = 1 .. Len(tail)
  OBVIOUS
<1>4. D = DOMAIN tail /\ Len(tail) \in Nat /\ \A i \in D : i \in Nat /\ tail[i] \in Delivery
  BY <1>2, <1>3
<1>5. PICK O : O = {i \in D : \E s \in Submissions : Original(tail[i], s)}
  OBVIOUS
<1>6. PICK R : R = {i \in D : \E s \in Submissions : Rebinds(tail[i], s)}
  OBVIOUS
<1>7. PICK A : A = {i \in D : tail[i].observation.role = "assistant" /\ \E c \in Conversations : tail[i].observation = Answer(c)}
  OBVIOUS
<1>8. D = O \cup R \cup A
  BY <1>4, <1>5, <1>6, <1>7, DeliveryKinds
<1>9. OnlyOne(O, Submissions, [i \in O |-> tail[i].observation.of])
  <2>1. ASSUME NEW i \in O
        PROVE  tail[i].observation.of \in Submissions /\ Original(tail[i], tail[i].observation.of)
    BY <1>5, Names DEF Original
  <2>2. ASSUME NEW i \in O, NEW j \in O, tail[i].observation.of = tail[j].observation.of
        PROVE  i = j
    <3>1. PICK s \in Submissions : Original(tail[i], s) /\ Original(tail[j], s)
      BY <2>1, <2>2
    <3>2. About(tail[i], s) /\ About(tail[j], s)
      BY <3>1 DEF Original, About
    <3>3. SentFirst(page, s)
      BY DEF Kept, Followed, Traced
    <3>4. i \in DOMAIN page[t].tail /\ j \in DOMAIN page[t].tail /\ i \in Nat /\ j \in Nat
      BY <1>1, <1>4, <1>5
    <3>5. i <= j /\ j <= i
      BY <1>1, <3>1, <3>2, <3>3, <3>4 DEF SentFirst
    <3>6. QED
      BY <3>4, <3>5
  <2>3. QED
    BY <2>1, <2>2 DEF OnlyOne
<1>10. OnlyOne(R, Submissions, [i \in R |-> tail[i].observation.of])
  <2>1. ASSUME NEW i \in R
        PROVE  tail[i].observation.of \in Submissions /\ Rebinds(tail[i], tail[i].observation.of)
    BY <1>6, Names DEF Rebinds
  <2>2. ASSUME NEW i \in R, NEW j \in R, tail[i].observation.of = tail[j].observation.of
        PROVE  i = j
    <3>1. PICK s \in Submissions : Rebinds(tail[i], s) /\ Rebinds(tail[j], s)
      BY <2>1, <2>2
    <3>2. ReboundOnce(page, s)
      BY DEF Kept, Followed, Traced
    <3>3. i \in DOMAIN page[t].tail /\ j \in DOMAIN page[t].tail
      BY <1>1, <1>4, <1>6
    <3>4. QED
      BY <1>1, <3>1, <3>2, <3>3 DEF ReboundOnce
  <2>3. QED
    BY <2>1, <2>2 DEF OnlyOne
<1>11. OnlyOne(A, Conversations, [i \in A |-> tail[i].observation.of])
  <2>1. ASSUME NEW i \in A
        PROVE  tail[i].observation.of \in Conversations /\ tail[i].observation = Answer(tail[i].observation.of)
    BY <1>7, Names
  <2>2. ASSUME NEW i \in A, NEW j \in A, tail[i].observation.of = tail[j].observation.of
        PROVE  i = j
    <3>1. tail[i].observation = tail[j].observation /\ tail[i].observation.role = "assistant"
      BY <1>7, <2>1, <2>2
    <3>2. AnswersOnce(page) /\ i \in DOMAIN page[t].tail /\ j \in DOMAIN page[t].tail
      BY <1>1, <1>4, <1>7 DEF Kept
    <3>3. QED
      BY <1>1, <3>1, <3>2 DEF AnswersOnce
  <2>3. QED
    BY <2>1, <2>2 DEF OnlyOne
<1>12. IsFiniteSet(Submissions) /\ Cardinality(Submissions) = MaxSubmissions /\ MaxSubmissions \in Nat
  BY CaptureAssumption, FS_Interval DEF Submissions
<1>13. IsFiniteSet(Conversations) /\ Cardinality(Conversations) \in Nat
  BY ConversationsAreFinite
<1>14. IsFiniteSet(O) /\ Cardinality(O) <= MaxSubmissions /\ Cardinality(O) \in Nat
  BY <1>9, <1>12, AtMostOne
<1>15. IsFiniteSet(R) /\ Cardinality(R) <= MaxSubmissions /\ Cardinality(R) \in Nat
  BY <1>10, <1>12, AtMostOne
<1>16. IsFiniteSet(A) /\ Cardinality(A) <= Cardinality(Conversations) /\ Cardinality(A) \in Nat
  BY <1>11, <1>13, AtMostOne
<1>17. /\ IsFiniteSet(O \cup R) /\ Cardinality(O \cup R) \in Nat
       /\ Cardinality(O \cup R) <= Cardinality(O) + Cardinality(R)
  BY <1>14, <1>15, AtMostBoth
<1>18. Cardinality(D) <= Cardinality(O \cup R) + Cardinality(A)
  BY <1>8, <1>16, <1>17, AtMostBoth
<1>19. Cardinality(D) = Len(tail)
  <2>1. 1 \in Int /\ Len(tail) \in Int
    BY <1>4
  <2>2. Cardinality(1 .. Len(tail)) = IF 1 > Len(tail) THEN 0 ELSE Len(tail) - 1 + 1
    BY <2>1, FS_Interval
  <2>3. QED
    BY <1>3, <1>4, <2>2
<1>20. QED
  BY <1>1, <1>4, <1>12, <1>13, <1>14, <1>15, <1>16, <1>17, <1>18, <1>19

LEMMA RebindingIsOf ==
    ASSUME Pagewise(page), HistoryTypeOK, Kept, NEW t \in Pages, page[t].tail # <<>>, Head(page[t].tail).from # None
    PROVE  \/ Head(page[t].tail).observation.of \in lost
           \/ \E c \in DOMAIN messages :
                 reference[c] = Head(page[t].tail).from /\ Submitted(c, Head(page[t].tail))
<1>1. PICK e : e = Head(page[t].tail)
  OBVIOUS
<1>2. 1 \in DOMAIN page[t].tail /\ e = page[t].tail[1] /\ e \in Delivery
  BY <1>1 DEF Pagewise, PageOK
<1>3. PICK s \in Submissions : Rebinds(e, s)
  BY <1>1, <1>2 DEF Delivery
<1>4. Traced(page, s)
  BY DEF Kept, Followed
<1>5. Undecided(page, s)
  BY <1>2, <1>3 DEF Undecided
<1>6. e.from = Provisional(s) /\ e.observation = Prompt(s) /\ e.observation.of = s /\ e.from # None
  BY <1>3, Names, ProvisionalIsSome DEF Rebinds
<1>7. ~Sending(page, s)
  <2>1. SUFFICES ASSUME NEW u \in Pages, NEW i \in DOMAIN page[u].tail, Original(page[u].tail[i], s)
                 PROVE  FALSE
    BY DEF Sending
  <2>2. About(page[t].tail[1], s)
    BY <1>2, <1>6 DEF About
  <2>3. u = t /\ i <= 1
    BY <1>2, <1>4, <2>1, <2>2 DEF Traced, SentFirst
  <2>4. i = 1
    BY <2>1, <2>3 DEF Pagewise, PageOK
  <2>5. QED
    BY <1>2, <1>6, <2>1, <2>3, <2>4 DEF Original
<1>8. CASE s \in lost
  BY <1>1, <1>6, <1>8
<1>9. CASE \E c \in DOMAIN messages : Stored(c, s)
  <2>1. PICK c \in DOMAIN messages : Stored(c, s)
    BY <1>9
  <2>2. Submitted(c, e)
    BY <1>6, <2>1 DEF Stored, Submitted
  <2>3. reference[c] = Provisional(s)
    BY <1>4, <1>5, <2>1 DEF Traced, Provisionally, Stored
  <2>4. QED
    BY <1>1, <1>6, <2>2, <2>3
<1>10. QED
  BY <1>4, <1>5, <1>7, <1>8, <1>9 DEF Traced, Provisionally

\* What is still to be delivered is bounded and acceptable, and a rebinding
\* comes when the bridge knows its submission or has lost it.
THEOREM DeliveriesStayInOrder == Spec => []DeliveriesInOrder
<1>1. Pagewise(page) /\ HostInv /\ HistoryTypeOK /\ Kept => DeliveriesInOrder
  <2>1. SUFFICES ASSUME Pagewise(page), HostInv, HistoryTypeOK, Kept
                 PROVE  DeliveriesInOrder
    OBVIOUS
  <2>2. PageTypeOK
    <3>1. ASSUME NEW t \in Pages
          PROVE  /\ page[t].live \in Conversations \cup {None}
                 /\ page[t].rounds \in 0 .. MaxRounds
                 /\ page[t].dom \subseteq Conversations
                 /\ page[t].watched \subseteq Conversations
                 /\ page[t].emitted \subseteq Conversations
                 /\ \A i \in DOMAIN page[t].tail : page[t].tail[i] \in Event
      <4>1. PageOK(page[t])
        BY <2>1 DEF Pagewise
      <4>2. \A i \in DOMAIN page[t].tail : page[t].tail[i] \in Delivery
        BY <4>1 DEF PageOK
      <4>3. Delivery \subseteq Event
        BY DEF Delivery
      <4>4. QED
        BY <4>1, <4>2, <4>3 DEF PageOK
    <3>2. QED
      BY <2>1, <3>1, TailIsBounded DEF PageTypeOK, HostInv
  <2>3. RebindFindsItsSubmission
    BY <2>1, RebindingIsOf DEF RebindFindsItsSubmission
  <2>4. QED
    BY <2>2, <2>3 DEF DeliveriesInOrder
<1>2. QED
  BY <1>1, CaptureInvariant, PTL

-----------------------------------------------------------------------------
\* Under which chat things are filed.  Where nobody leaves a new chat early,
\* acts before the script has looked or shows answers of a chat for long after
\* leaving it, a page knows what the answers on it belong to.

Unhurried == Allowed \cap {"leave", "hurry", "linger"} = {}

\* The recent chat is of the project and the chat of the route.
Agrees(p) ==
    p.recent # None => /\ p.route.project = p.recent.project
                       /\ p.route.kind = "chat" => p.route.chat = p.recent.chat

\* The pending submission is of the conversation that the page is in, and all answers
\* but its own are to be ignored; likewise for the recent chat.
Settled(p) ==
    /\ p.route.kind = "chat" => p.live = p.route.chat
    /\ p.pending # None => p.live # None /\ asked[p.pending.submission] = p.live
    /\ p.pending # None /\ p.pending.project # None => p.dom \subseteq p.pending.ignored \cup {p.live}
    /\ p.recent # None => p.recent.project # None
    /\ p.recent # None /\ Agrees(p) => p.dom \subseteq p.recent.ignored \cup {p.recent.chat}
    /\ p.route.kind # "chat" /\ p.live # None => p.recent = None

\* The reference stands for conversation c.
Meant(ref, c) ==
    /\ ref.kind = "stable" => c = ref.of
    /\ ref.kind = "provisional" => c = asked[ref.of]

Right(e) == Meant(e.chat, ConversationOf(e.observation))

PageFiled(p) == Settled(p) /\ \A i \in DOMAIN p.tail : Right(p.tail[i])

StoreFiled ==
    \A c \in Refs :
        /\ reference[c] = None => DOMAIN messages[c] = {}
        /\ reference[c] # None => \A i \in DOMAIN messages[c] :
               Meant(reference[c], ConversationOf(messages[c][i].observation))
        /\ \A s \in Submissions : reference[c] = Provisional(s) => c = Provisional(s)

LEMMA ReferenceFields ==
    /\ \A s : Provisional(s).kind = "provisional" /\ Provisional(s).of = s
    /\ \A c : Stable(c).kind = "stable" /\ Stable(c).of = c
    /\ Temporary.kind = "temporary"
  BY DEF Provisional, Stable, Temporary

LEMMA ConversationFields ==
    /\ \A s : ConversationOf(Prompt(s)) = asked[s]
    /\ \A c : ConversationOf(Answer(c)) = c
  BY DEF ConversationOf, Prompt, Answer

LEMMA ForgottenFiled ==
    ASSUME NEW p, PageOK(p), PageFiled(p)
    PROVE  PageFiled(WithoutRecent(p)) /\ Agrees(WithoutRecent(p))
<1>1. CASE WithoutRecent(p) = p /\ Agrees(p)
  BY <1>1
<1>2. CASE WithoutRecent(p) = [p EXCEPT !.recent = None]
  <2>1. PICK w : w = WithoutRecent(p)
    OBVIOUS
  <2>2. /\ w.route = p.route /\ w.live = p.live /\ w.dom = p.dom /\ w.pending = p.pending
        /\ w.recent = None /\ w.tail = p.tail
    BY <1>2, <2>1, FieldsOfPage DEF PageOK
  <2>3. QED
    BY <2>1, <2>2 DEF PageFiled, Settled, Agrees
<1>3. QED
  BY <1>1, <1>2 DEF WithoutRecent, Agrees

LEMMA AppendedRight ==
    ASSUME NEW p, PageOK(p), PageFiled(p), NEW e, Right(e)
    PROVE  \A i \in DOMAIN Append(p.tail, e) : Right(Append(p.tail, e)[i])
<1>1. p.tail \in Seq(Delivery)
  BY DEF PageOK
<1>2. ASSUME NEW i \in DOMAIN Append(p.tail, e)
      PROVE  Append(p.tail, e)[i] = e \/ (i \in DOMAIN p.tail /\ Append(p.tail, e)[i] = p.tail[i])
  BY <1>1
<1>3. QED
  BY <1>2 DEF PageFiled

LEMMA ReconciledFiled ==
    ASSUME NEW p, PageOK(p), PageFiled(p)
    PROVE  PageFiled(Reconciled(p)) /\ (Agrees(p) => Agrees(Reconciled(p)))
<1> DEFINE q == Reconciled(p)
           e == Rebinding(p)
<1>1. CASE q = p
  BY <1>1
<1>2. CASE /\ p.pending # None /\ p.route.kind = "chat" /\ p.route.project = p.pending.project
           /\ q = [p EXCEPT !.pending = None, !.rounds = 0, !.recent = RecentAfter(p), !.tail = Append(@, e)]
  <2>1. p.pending.submission \in Submissions /\ p.route.chat = p.live /\ asked[p.pending.submission] = p.live
    BY <1>2, FieldsOfSaved DEF PageFiled, Settled
  <2>2. Right(e)
    BY <2>1, CapturedFields, ReferenceFields, ConversationFields DEF Rebinding, Right, Meant
  <2> HIDE DEF e
  <2>3. /\ q.route = p.route /\ q.live = p.live /\ q.dom = p.dom
        /\ q.pending = None /\ q.recent = RecentAfter(p) /\ q.tail = Append(p.tail, e)
    BY <1>2, FieldsOfPage DEF PageOK
  <2>4. RecentAfter(p) # None =>
            /\ p.pending.project # None
            /\ RecentAfter(p).chat = p.route.chat /\ RecentAfter(p).project = p.pending.project
            /\ RecentAfter(p).ignored = p.pending.ignored
    BY DEF RecentAfter
  <2>5. \A i \in DOMAIN q.tail : Right(q.tail[i])
    BY <2>2, <2>3, AppendedRight
  <2> HIDE DEF q
  <2>6. Settled(q) /\ Agrees(q)
    BY <1>2, <2>1, <2>3, <2>4 DEF PageFiled, Settled, Agrees
  <2>7. QED
    BY <2>5, <2>6 DEF PageFiled, q
<1>3. QED
  BY <1>1, <1>2 DEF Reconciled

LEMMA NoticedFiled ==
    ASSUME NEW p, PageOK(p), PageFiled(p)
    PROVE  PageFiled(Noticed(p)) /\ Agrees(Noticed(p))
<1>1. PICK w : w = WithoutRecent(p)
  OBVIOUS
<1>2. PageOK(w) /\ PageFiled(w) /\ Agrees(w)
  BY <1>1, ForgottenPage, ForgottenFiled
<1>3. QED
  BY <1>1, <1>2, ReconciledFiled DEF Noticed

LEMMA ChangedFiled ==
    ASSUME NEW p, PageOK(p), PageFiled(p)
    PROVE  PageFiled(RouteChanged(p))
<1>1. PICK w : w = [p EXCEPT !.watched = {}]
  OBVIOUS
<1>2. PageOK(w)
  BY <1>1, UnwatchedPage
<1>3. PageFiled(w)
  <2>1. /\ w.route = p.route /\ w.live = p.live /\ w.dom = p.dom
        /\ w.pending = p.pending /\ w.recent = p.recent /\ w.tail = p.tail
    BY <1>1, FieldsOfPage DEF PageOK
  <2>2. QED
    BY <2>1 DEF PageFiled, Settled, Agrees
<1>4. QED
  BY <1>1, <1>2, <1>3, NoticedFiled DEF RouteChanged

\* The answers that a scan may send belong to the chat it sends them for.
LEMMA AnswersBelong ==
    ASSUME NEW p, PageOK(p), PageFiled(p), Agrees(p), NEW a \in Associations(p),
           NEW ripe, ripe \subseteq (p.watched \cap p.dom) \ (a.ignored \cup p.emitted),
           p.route.kind # "home" => ripe \subseteq {p.live}
    PROVE  \A c \in ripe : Meant(a.ref, c)
<1>1. CASE p.route.kind = "chat"
  <2>1. a.ref = Stable(p.route.chat) /\ ripe \subseteq {p.route.chat}
    BY <1>1 DEF Associations, AtHomeOf, PageFiled, Settled
  <2>2. QED
    BY <2>1, ReferenceFields DEF Meant
<1>2. CASE p.route.kind = "root"
  <2>1. a.ref = Temporary
    BY <1>2 DEF Associations, AtHomeOf
  <2>2. QED
    BY <2>1, ReferenceFields DEF Meant
<1>3. CASE p.route.kind \notin {"chat", "root"} /\ AtHomeOf(p, p.pending)
  <2>1. a.ref = Provisional(p.pending.submission) /\ a.ignored = p.pending.ignored
    BY <1>3 DEF Associations
  <2>2. p.pending # None /\ p.pending.project = p.route.project /\ p.route.kind = "home"
    BY <1>3 DEF AtHomeOf
  <2>3. p.route.project # None
    <3>1. p.route \in Routes
      BY DEF PageOK
    <3>2. PICK h \in Projects : p.route = Home(h)
      BY <2>2, <3>1 DEF Routes, Root
    <3>3. QED
      BY <3>2, Numbers DEF Home
  <2>4. p.dom \subseteq p.pending.ignored \cup {p.live} /\ asked[p.pending.submission] = p.live
    BY <2>2, <2>3 DEF PageFiled, Settled
  <2>5. \A c \in ripe : c = asked[p.pending.submission]
    BY <2>1, <2>4
  <2>6. QED
    BY <2>1, <2>5, ReferenceFields DEF Meant
<1>4. CASE p.route.kind \notin {"chat", "root"} /\ AtHomeOf(p, p.recent) /\ ~AtHomeOf(p, p.pending)
  <2>1. a.ref = Stable(p.recent.chat) /\ a.ignored = p.recent.ignored
    BY <1>4 DEF Associations
  <2>2. p.recent # None
    BY <1>4 DEF AtHomeOf
  <2>3. p.dom \subseteq p.recent.ignored \cup {p.recent.chat}
    BY <2>2 DEF PageFiled, Settled
  <2>4. \A c \in ripe : c = p.recent.chat
    BY <2>1, <2>3
  <2>5. QED
    BY <2>1, <2>4, ReferenceFields DEF Meant
<1>5. QED
  BY <1>1, <1>2, <1>3, <1>4 DEF Associations

LEMMA ScannedFiled ==
    ASSUME NEW p, PageOK(p), PageFiled(p), Agrees(p), NEW a \in Associations(p),
           NEW ripe, ripe \subseteq (p.watched \cap p.dom) \ (a.ignored \cup p.emitted),
           p.route.kind # "home" => ripe \subseteq {p.live}
    PROVE  PageFiled(Scanned(p, a, ripe))
<1>1. ripe \in SUBSET Conversations
  BY DEF PageOK
<1>2. PICK news \in Seq(Delivery) :
          /\ news = Sent(p, a, ripe)
          /\ \A k \in DOMAIN news : news[k].chat = a.ref /\ \E c \in ripe : news[k].observation = Answer(c)
  BY <1>1, SentAnswers
<1>3. \A k \in DOMAIN news : Right(news[k])
  BY <1>2, AnswersBelong, ConversationFields DEF Right
<1>4. PICK q : q = Scanned(p, a, ripe)
  OBVIOUS
<1>5. /\ q.route = p.route /\ q.live = p.live /\ q.dom = p.dom /\ q.tail = p.tail \o news
      /\ q.pending = IF ripe # {} /\ AtHomeOf(p, p.pending) THEN [p.pending EXCEPT !.captured = TRUE] ELSE p.pending
      /\ q.recent = None \/ q.recent = p.recent
  BY <1>2, <1>4, FieldsOfPage DEF Scanned, PageOK
<1>6. q.pending # None => /\ p.pending # None /\ q.pending.submission = p.pending.submission
                          /\ q.pending.project = p.pending.project /\ q.pending.ignored = p.pending.ignored
  <2>1. CASE ripe # {} /\ AtHomeOf(p, p.pending)
    <3>1. p.pending \in Pending /\ q.pending = [p.pending EXCEPT !.captured = TRUE]
      BY <1>5, <2>1 DEF PageOK, AtHomeOf
    <3>2. QED
      BY <1>5, <2>1, <3>1 DEF Pending, AtHomeOf
  <2>2. CASE ~(ripe # {} /\ AtHomeOf(p, p.pending))
    BY <1>5, <2>2
  <2>3. QED
    BY <2>1, <2>2
<1>7. Settled(q)
  BY <1>5, <1>6 DEF PageFiled, Settled, Agrees
<1>8. \A i \in DOMAIN q.tail : Right(q.tail[i])
  <2>1. p.tail \in Seq(Delivery)
    BY DEF PageOK
  <2>2. ASSUME NEW i \in DOMAIN q.tail
        PROVE  \/ i \in DOMAIN p.tail /\ q.tail[i] = p.tail[i]
               \/ \E k \in DOMAIN news : q.tail[i] = news[k]
    <3>1. DOMAIN q.tail = 1 .. Len(p.tail) + Len(news) /\ Len(p.tail) \in Nat /\ Len(news) \in Nat
      BY <1>2, <1>5, <2>1
    <3>2. CASE i <= Len(p.tail)
      BY <1>2, <1>5, <2>1, <3>1, <3>2
    <3>3. CASE i > Len(p.tail)
      <4>1. PICK k : k = i - Len(p.tail)
        OBVIOUS
      <4>2. k \in DOMAIN news /\ q.tail[i] = news[k]
        BY <1>2, <1>5, <2>1, <3>1, <3>3, <4>1
      <4>3. QED
        BY <4>2
    <3>4. QED
      BY <3>1, <3>2, <3>3
  <2>3. QED
    BY <1>3, <2>2 DEF PageFiled
<1>9. QED
  BY <1>4, <1>7, <1>8 DEF PageFiled

\* A page that the user may act on has noticed its route.
LEMMA ReadyAgrees ==
    ASSUME NEW p, PageOK(p), PageFiled(p), Unhurried, Ready(p)
    PROVE  Agrees(p)
<1>1. Noticed(p) = p
  BY DEF Unhurried, Ready
<1>2. QED
  BY <1>1, NoticedFiled

\* A page that goes on with the same submissions and store.
Goes(t) ==
    \E q : PageFiled(q) /\ page' = [page EXCEPT ![t] = q] /\ UNCHANGED asked

LEMMA DroppedFiled ==
    ASSUME NEW p, PageOK(p), PageFiled(p), p.tail # <<>>
    PROVE  PageFiled([p EXCEPT !.tail = Tail(@)]) /\ Right(Head(p.tail)) /\ Head(p.tail) \in Delivery
<1>1. PICK q : q = [p EXCEPT !.tail = Tail(@)]
  OBVIOUS
<1>2. /\ q.route = p.route /\ q.live = p.live /\ q.dom = p.dom
      /\ q.pending = p.pending /\ q.recent = p.recent /\ q.tail = Tail(p.tail)
  BY <1>1, FieldsOfPage DEF PageOK
<1>3. p.tail \in Seq(Delivery)
  BY DEF PageOK
<1>4. Right(Head(p.tail)) /\ Head(p.tail) \in Delivery
  BY <1>3 DEF PageFiled
<1>5. \A i \in DOMAIN q.tail : i + 1 \in DOMAIN p.tail /\ q.tail[i] = p.tail[i + 1]
  BY <1>2, <1>3
<1>6. Settled(q)
  BY <1>2 DEF PageFiled, Settled, Agrees
<1>7. QED
  BY <1>1, <1>4, <1>5, <1>6 DEF PageFiled

LEMMA ScanGoes ==
    ASSUME Unhurried, Pagewise(page), NEW t \in Pages, PageFiled(page[t]), Scan(t)
    PROVE  Goes(t)
<1>1. PICK p : p = Noticed(page[t])
  OBVIOUS
<1>2. PageOK(p) /\ PageFiled(p) /\ Agrees(p)
  BY <1>1, NoticedPage, NoticedFiled DEF Pagewise
<1>3. UNCHANGED asked
  BY DEF Scan, hostVars
<1>4. CASE page' = [page EXCEPT ![t] = p]
  BY <1>2, <1>3, <1>4 DEF Goes
<1>5. CASE \E a \in Associations(p) : \E ripe \in SUBSET ((p.watched \cap p.dom) \ (a.ignored \cup p.emitted)) :
               /\ p.route.kind # "home" => ripe \subseteq {p.live}
               /\ page' = [page EXCEPT ![t] = Scanned(p, a, ripe)]
  <2>1. PICK a \in Associations(p) : \E ripe \in SUBSET ((p.watched \cap p.dom) \ (a.ignored \cup p.emitted)) :
               /\ p.route.kind # "home" => ripe \subseteq {p.live}
               /\ page' = [page EXCEPT ![t] = Scanned(p, a, ripe)]
    BY <1>5
  <2>2. PICK ripe \in SUBSET ((p.watched \cap p.dom) \ (a.ignored \cup p.emitted)) :
               /\ p.route.kind # "home" => ripe \subseteq {p.live}
               /\ page' = [page EXCEPT ![t] = Scanned(p, a, ripe)]
    BY <2>1
  <2>3. PageFiled(Scanned(p, a, ripe))
    BY <1>2, <2>2, ScannedFiled
  <2>4. QED
    BY <1>3, <2>2, <2>3 DEF Goes
<1>6. QED
  BY <1>1, <1>4, <1>5 DEF Scan, Unhurried

LEMMA PollGoes ==
    ASSUME Pagewise(page), NEW t \in Pages, PageFiled(page[t]), PollRoute(t)
    PROVE  Goes(t)
<1>1. PICK p : p = page[t]
  OBVIOUS
<1>2. PICK w : w = Counted(p)
  OBVIOUS
<1>3. PageOK(p) /\ PageOK(w)
  BY <1>1, <1>2, CountedPage DEF PollRoute, Pagewise
<1>4. /\ w.route = p.route /\ w.live = p.live /\ w.dom = p.dom
      /\ w.pending = p.pending /\ w.recent = p.recent /\ w.tail = p.tail
  BY <1>2, <1>3, FieldsOfPage DEF PageOK, Counted
<1>5. PageFiled(w)
  BY <1>1, <1>4 DEF PageFiled, Settled, Agrees
<1>6. PageFiled(Reconciled(w))
  BY <1>3, <1>5, ReconciledFiled
<1>7. page' = [page EXCEPT ![t] = Reconciled(w)] /\ UNCHANGED asked
  BY <1>1, <1>2 DEF PollRoute, hostVars, Pagewise
<1>8. QED
  BY <1>6, <1>7 DEF Goes

LEMMA ShowingGoes ==
    ASSUME Pagewise(page), NEW t \in Pages, PageFiled(page[t]), RecentExpires(t) \/ Render(t) \/ Clear(t)
    PROVE  Goes(t)
<1>1. PICK p : p = page[t]
  OBVIOUS
<1>2. PageOK(p) /\ PageFiled(p) /\ DOMAIN page = Pages
  BY <1>1 DEF Pagewise
<1>3. UNCHANGED asked
  BY DEF RecentExpires, Render, Clear, hostVars
<1>4. CASE RecentExpires(t)
  <2>1. PICK q : q = [p EXCEPT !.recent = None]
    OBVIOUS
  <2>2. page' = [page EXCEPT ![t] = q]
    BY <1>1, <1>4, <2>1 DEF RecentExpires
  <2>3. /\ q.route = p.route /\ q.live = p.live /\ q.dom = p.dom
        /\ q.pending = p.pending /\ q.recent = None /\ q.tail = p.tail
    BY <1>2, <2>1, FieldsOfPage DEF PageOK
  <2>4. PageFiled(q)
    BY <1>2, <2>3 DEF PageFiled, Settled, Agrees
  <2>5. QED
    BY <1>3, <2>2, <2>4 DEF Goes
<1>5. ASSUME NEW dom, page' = [page EXCEPT ![t].dom = dom],
             dom \subseteq p.dom \/ (p.live # None /\ dom = p.dom \cup {p.live})
      PROVE  Goes(t)
  <2>1. PICK q : q = [p EXCEPT !.dom = dom]
    OBVIOUS
  <2>2. page' = [page EXCEPT ![t] = q]
    BY <1>1, <1>2, <1>5, <2>1
  <2>3. /\ q.route = p.route /\ q.live = p.live /\ q.dom = dom
        /\ q.pending = p.pending /\ q.recent = p.recent /\ q.tail = p.tail
    BY <1>2, <2>1, FieldsOfPage DEF PageOK
  <2>4. Settled(q)
    BY <1>2, <1>5, <2>3 DEF PageFiled, Settled, Agrees
  <2>5. QED
    BY <1>2, <1>3, <2>2, <2>3, <2>4 DEF Goes, PageFiled
<1>6. CASE Render(t)
  <2>1. page' = [page EXCEPT ![t].dom = p.dom \cup {p.live}] /\ p.live # None
    BY <1>1, <1>2, <1>6 DEF Render
  <2>2. QED
    BY <1>5, <2>1
<1>7. CASE Clear(t)
  <2>1. page' = [page EXCEPT ![t].dom = p.dom \cap {p.live}]
    BY <1>1, <1>2, <1>7 DEF Clear
  <2>2. QED
    BY <1>5, <2>1
<1>8. QED
  BY <1>4, <1>6, <1>7

LEMMA RoutingGoes ==
    ASSUME Pagewise(page), NEW t \in Pages, NEW route \in Routes, NEW live \in Conversations \cup {None},
           RouteBecomes(t, route, live), PageFiled([page[t] EXCEPT !.route = route, !.live = live]),
           UNCHANGED hostVars
    PROVE  Goes(t)
<1>1. PICK p : p = [page[t] EXCEPT !.route = route, !.live = live]
  OBVIOUS
<1>2. PageOK(p) /\ PageFiled(p)
  BY <1>1, ShownPage DEF Pagewise
<1>3. PICK q \in {p, RouteChanged(p)} : page' = [page EXCEPT ![t] = q]
  BY <1>1 DEF RouteBecomes
<1>4. PageFiled(q)
  BY <1>2, <1>3, ChangedFiled
<1>5. QED
  BY <1>3, <1>4 DEF Goes, hostVars

LEMMA HostGoes ==
    ASSUME Unhurried, Pagewise(page), HostInv, NEW t \in Pages, PageFiled(page[t]), HostAssignsRoute(t) \/ Visit(t)
    PROVE  Goes(t)
<1>1. PICK p : p = page[t]
  OBVIOUS
<1>2. PageOK(p) /\ PageFiled(p)
  BY <1>1 DEF Pagewise
<1>3. ASSUME NEW route, NEW live
      PROVE  LET q == [p EXCEPT !.route = route, !.live = live]
             IN  /\ q.route = route /\ q.live = live /\ q.dom = p.dom
                 /\ q.pending = p.pending /\ q.recent = p.recent /\ q.tail = p.tail
  BY <1>2, FieldsOfPage DEF PageOK
<1>4. CASE HostAssignsRoute(t)
  <2>1. p.live \in Conversations /\ p.route.kind # "chat" /\ Chat(p.live) \in Routes
    BY <1>1, <1>2, <1>4, ChatRoutes DEF HostAssignsRoute, PageOK
  <2>2. PICK q : q = [p EXCEPT !.route = Chat(p.live), !.live = p.live]
    OBVIOUS
  <2>3. /\ q.route = Chat(p.live) /\ q.live = p.live /\ q.dom = p.dom
        /\ q.pending = p.pending /\ q.recent = p.recent /\ q.tail = p.tail
    BY <1>3, <2>2
  <2>4. Chat(p.live).kind = "chat" /\ Chat(p.live).chat = p.live
    BY DEF Chat
  <2>5. p.recent = None
    BY <1>2, <2>1, Numbers DEF PageFiled, Settled
  <2>6. PageFiled(q)
    BY <1>2, <2>3, <2>4, <2>5 DEF PageFiled, Settled
  <2>7. RouteBecomes(t, Chat(p.live), p.live) /\ UNCHANGED hostVars
    BY <1>1, <1>4 DEF HostAssignsRoute
  <2>8. QED
    BY <1>1, <2>1, <2>2, <2>6, <2>7, RoutingGoes
<1>5. ASSUME NEW route \in Routes, Navigate(t, route)
      PROVE  Goes(t)
  <2>1. Ready(p) /\ p.pending = None
    BY <1>1, <1>5 DEF Navigate, MayLeave, Unhurried
  <2>2. Agrees(p)
    BY <1>2, <2>1, ReadyAgrees
  <2>3. route.chat \in Conversations \cup {None} /\ (route.kind = "chat" <=> route.chat \in Conversations)
    BY RouteFields
  <2>4. PICK q : q = [p EXCEPT !.route = route, !.live = route.chat]
    OBVIOUS
  <2>5. /\ q.route = route /\ q.live = route.chat /\ q.dom = p.dom
        /\ q.pending = p.pending /\ q.recent = p.recent /\ q.tail = p.tail
    BY <1>3, <2>4
  <2>6. PageFiled(q)
    BY <1>2, <2>1, <2>2, <2>3, <2>5 DEF PageFiled, Settled
  <2>7. RouteBecomes(t, route, route.chat) /\ UNCHANGED hostVars
    BY <1>5 DEF Navigate
  <2>8. QED
    BY <1>1, <2>3, <2>4, <2>6, <2>7, RoutingGoes
<1>6. CASE Visit(t)
  BY <1>5, <1>6, ChatRoutes DEF Visit
<1>7. QED
  BY <1>4, <1>6

LEMMA FreshFiled ==
    ASSUME NEW route \in Routes
    PROVE  PageFiled(Fresh(route))
<1>1. PICK q : q = Fresh(route)
  OBVIOUS
<1>2. q.route = route /\ q.live = route.chat /\ q.pending = None /\ q.recent = None /\ q.tail = <<>>
  BY <1>1 DEF Fresh
<1>3. QED
  BY <1>1, <1>2, RouteFields DEF PageFiled, Settled

LEMMA DroppingGoes ==
    ASSUME Pagewise(page), NEW t \in Pages, PageFiled(page[t]), Dropping(t), UNCHANGED asked
    PROVE  Goes(t)
<1>1. PICK q : q = [page[t] EXCEPT !.tail = Tail(@)]
  OBVIOUS
<1>2. PageFiled(q)
  BY <1>1, DroppedFiled DEF Pagewise, Dropping
<1>3. page' = [page EXCEPT ![t] = q]
  BY <1>1 DEF Dropping, Pagewise
<1>4. QED
  BY <1>2, <1>3 DEF Goes

PagesFiled == \A t \in Pages : PageFiled(page[t])

LEMMA FiledAsAsked ==
    ASSUME UNCHANGED asked, NEW p, PageFiled(p)
    PROVE  PageFiled(p)'
  BY DEF PageFiled, Settled, Right, Meant, ConversationOf, Agrees

LEMMA GoneKeeps ==
    ASSUME Pagewise(page), PagesFiled, NEW t \in Pages, Goes(t)
    PROVE  PagesFiled'
<1>1. PICK q : PageFiled(q) /\ page' = [page EXCEPT ![t] = q] /\ UNCHANGED asked
  BY DEF Goes
<1>2. ASSUME NEW p, PageFiled(p)
      PROVE  PageFiled(p)'
  BY <1>1, <1>2, FiledAsAsked
<1>3. ASSUME NEW u \in Pages
      PROVE  PageFiled(page[u])'
  <2>1. PICK p : p = page'[u]
    OBVIOUS
  <2>2. p = q \/ p = page[u]
    BY <1>1, <2>1 DEF Pagewise
  <2>3. PageFiled(p)
    BY <1>1, <2>2 DEF PagesFiled
  <2>4. PageFiled(p)'
    BY <1>2, <2>3
  <2>5. QED
    BY <2>1, <2>4 DEF PageFiled, Settled, Right, Agrees, Meant, ConversationOf
<1>4. QED
  BY <1>3 DEF PagesFiled

LEMMA SameStoreFiled ==
    ASSUME StoreFiled, UNCHANGED <<asked, storeVars>>
    PROVE  StoreFiled'
  BY DEF StoreFiled, storeVars, Meant, ConversationOf

\* What is about other submissions is not touched by a new one.
LEMMA RightStays ==
    ASSUME HostInv, NEW s \in Submissions, NEW c \in Conversations, asked' = [asked EXCEPT ![s] = c],
           NEW ref \in Refs, NEW o \in Observed, Meant(ref, ConversationOf(o)),
           ref # Provisional(s), o # Prompt(s)
    PROVE  Meant(ref, ConversationOf(o))'
<1>1. \A r \in Submissions : r # s => asked'[r] = asked[r]
  BY DEF HostInv
<1>2. ConversationOf(o)' = ConversationOf(o)
  <2>1. CASE \E r \in Submissions : o = Prompt(r)
    BY <1>1, <2>1 DEF ConversationOf, Prompt
  <2>2. CASE \E d \in Conversations : o = Answer(d)
    BY <2>2 DEF ConversationOf, Answer
  <2>3. QED
    BY <2>1, <2>2 DEF Observed
<1>3. CASE \E r \in Submissions : ref = Provisional(r)
  BY <1>1, <1>2, <1>3, ReferenceFields DEF Meant
<1>4. CASE ref = Temporary \/ \E d \in Conversations : ref = Stable(d)
  BY <1>2, <1>4, ReferenceFields DEF Meant
<1>5. QED
  BY <1>3, <1>4 DEF Refs

\* A page on which a new submission was typed.
LEMMA SubmittedFiled ==
    ASSUME Unhurried, Pagewise(page), HostInv, NEW t \in Pages, PageFiled(page[t]),
           NEW s \in Submissions, asked[s] = None, SubmitNewChat(t, s) \/ SubmitInChat(t, s)
    PROVE  /\ \E c \in Conversations : asked' = [asked EXCEPT ![s] = c]
           /\ UNCHANGED storeVars
           /\ \E q, e : /\ page' = [page EXCEPT ![t] = q] /\ Settled(q)'
                        /\ q.tail = Append(page[t].tail, e) /\ Right(e)'
<1>1. PICK p : p = page[t]
  OBVIOUS
<1>2. PageOK(p) /\ PageFiled(p)
  BY <1>1 DEF Pagewise
<1>3. Ready(p)
  BY <1>1 DEF SubmitNewChat, SubmitInChat
<1>4. Agrees(p)
  BY <1>2, <1>3, ReadyAgrees
<1>5. CASE SubmitNewChat(t, s)
  <2>1. PICK e : e = Captured(Provisional(s), None, p.route.project, Prompt(s))
    OBVIOUS
  <2>2. PICK w : w = [submission |-> s, project |-> p.route.project,
                      ignored |-> IF p.route.kind = "home" THEN p.dom ELSE {}, captured |-> FALSE]
    OBVIOUS
  <2>3. PICK n : n = IF p.route.kind = "home" THEN None ELSE p.recent
    OBVIOUS
  <2> DEFINE c == IF p.live = None THEN s ELSE p.live
  <2>4. PICK q : q = [p EXCEPT !.live = c, !.rounds = MaxRounds, !.pending = w, !.recent = n, !.tail = Append(@, e)]
    OBVIOUS
  <2>5. /\ page' = [page EXCEPT ![t] = q]
        /\ asked' = [asked EXCEPT ![s] = c]
        /\ p.route.kind # "chat"
        /\ UNCHANGED storeVars
    BY <1>1, <1>5, <2>1, <2>2, <2>3, <2>4 DEF SubmitNewChat
  <2>6. /\ q.route = p.route /\ q.live = c /\ q.dom = p.dom
        /\ q.pending = w /\ q.recent = n /\ q.tail = Append(p.tail, e)
    BY <1>2, <2>4, FieldsOfPage DEF PageOK
  <2>7. asked'[s] = c /\ c \in Conversations /\ c # None
    BY <1>2, <2>5, Numbers DEF HostInv, PageOK
  <2> HIDE DEF c
  <2>8. Right(e)'
    BY <2>1, <2>7, CapturedFields, ReferenceFields DEF Right, Meant, ConversationOf, Prompt
  <2>9. n = None
    <3>1. p.route.kind = "home" \/ p.route = Root
      BY <1>2, <2>5 DEF PageOK, Routes, Home
    <3>2. CASE p.route = Root
      BY <1>2, <1>4, <2>3, <3>2 DEF Agrees, Root, PageFiled, Settled
    <3>3. QED
      BY <2>3, <3>1, <3>2
  <2>10. /\ q.pending.submission = s /\ q.pending.project = p.route.project
         /\ p.route.project # None => q.pending.ignored = p.dom
    <3>1. p.route.project # None => p.route.kind = "home"
      BY <1>2, <2>5 DEF PageOK, Routes, Home, Root
    <3>2. QED
      BY <2>2, <2>6, <3>1
  <2>11. Settled(q)'
    BY <2>5, <2>6, <2>7, <2>9, <2>10 DEF Settled
  <2>12. QED
    BY <1>1, <2>5, <2>6, <2>7, <2>8, <2>11
<1>6. CASE SubmitInChat(t, s)
  <2>1. PICK e : e = Captured(Stable(p.route.chat), None, p.route.project, Prompt(s))
    OBVIOUS
  <2>2. PICK q : q = [p EXCEPT !.tail = Append(@, e)]
    OBVIOUS
  <2>3. /\ page' = [page EXCEPT ![t] = q]
        /\ asked' = [asked EXCEPT ![s] = p.route.chat]
        /\ p.route.kind = "chat"
        /\ UNCHANGED storeVars
    BY <1>1, <1>2, <1>6, <2>1, <2>2 DEF SubmitInChat, Pagewise
  <2>4. /\ q.route = p.route /\ q.live = p.live /\ q.dom = p.dom
        /\ q.pending = p.pending /\ q.recent = p.recent /\ q.tail = Append(p.tail, e)
    BY <1>2, <2>2, FieldsOfPage DEF PageOK
  <2>5. p.route.chat \in Conversations /\ asked'[s] = p.route.chat
    BY <1>2, <2>3, RouteFields DEF HostInv, PageOK
  <2>6. Right(e)'
    BY <2>1, <2>5, CapturedFields, ReferenceFields DEF Right, Meant, ConversationOf, Prompt
  <2>7. p.pending # None => asked'[p.pending.submission] = asked[p.pending.submission]
    <3>1. p.pending # None => p.pending.submission \in Submissions /\ asked[p.pending.submission] # None
      BY <1>2, FieldsOfSaved DEF PageFiled, Settled
    <3>2. p.pending # None => p.pending.submission # s
      BY <3>1
    <3>3. QED
      BY <2>3, <3>1, <3>2 DEF HostInv
  <2>8. Settled(q)'
    BY <1>2, <2>4, <2>7 DEF PageFiled, Settled, Agrees
  <2>9. QED
    BY <1>1, <2>3, <2>4, <2>5, <2>6, <2>8
<1>7. QED
  BY <1>5, <1>6

\* What pages still have to deliver is not about a new submission.
LEMMA SubmissionFiles ==
    ASSUME Unhurried, Pagewise(page), HostInv, HistoryTypeOK, Kept, PagesFiled, StoreFiled,
           NEW t \in Pages, NEW s \in Submissions, SubmitNewChat(t, s) \/ SubmitInChat(t, s)
    PROVE  PagesFiled' /\ StoreFiled'
<1>1. asked[s] = None
  BY DEF SubmitNewChat, SubmitInChat
<1>2. Unmade(page, s)
  BY <1>1 DEF Kept, Followed, Traced
<1>3. PICK c \in Conversations : asked' = [asked EXCEPT ![s] = c]
  BY <1>1, SubmittedFiled DEF PagesFiled
<1>4. PICK q, e : /\ page' = [page EXCEPT ![t] = q] /\ Settled(q)'
                  /\ q.tail = Append(page[t].tail, e) /\ Right(e)'
  BY <1>1, SubmittedFiled DEF PagesFiled
<1>5. UNCHANGED storeVars
  BY <1>1, SubmittedFiled DEF PagesFiled
<1>6. ASSUME NEW u \in Pages, NEW i \in DOMAIN page[u].tail, NEW f, f = page[u].tail[i]
      PROVE  Right(f)'
  <2>1. f \in Event
    <3>1. page[u].tail \in Seq(Delivery)
      BY DEF Pagewise, PageOK
    <3>2. f \in Delivery
      BY <1>6, <3>1
    <3>3. QED
      BY <3>2 DEF Delivery
  <2>2. f.chat \in Refs /\ f.observation \in Observed
    BY <2>1, EventFields
  <2>3. f.chat # Provisional(s) /\ f.observation # Prompt(s)
    BY <1>2, <1>6 DEF Unmade, About
  <2>4. Right(f)
    BY <1>6 DEF PagesFiled, PageFiled
  <2>5. Meant(f.chat, ConversationOf(f.observation))'
    BY <1>3, <2>2, <2>3, <2>4, RightStays DEF Right
  <2>6. QED
    BY <2>5 DEF Right
<1>7. ASSUME NEW u \in Pages, NEW p, p = page[u]
      PROVE  Settled(p)'
  <2>1. Settled(p) /\ PageOK(p)
    BY <1>7 DEF PagesFiled, PageFiled, Pagewise
  <2>2. p.pending # None => asked'[p.pending.submission] = asked[p.pending.submission]
    <3>1. p.pending # None => p.pending.submission \in Submissions /\ asked[p.pending.submission] # None
      BY <2>1, FieldsOfSaved DEF Settled
    <3>2. p.pending # None => p.pending.submission # s
      BY <1>1, <3>1
    <3>3. QED
      BY <1>3, <3>1, <3>2 DEF HostInv
  <2>3. QED
    BY <2>1, <2>2 DEF Settled, Agrees
<1>8. ASSUME NEW u \in Pages
      PROVE  PageFiled(page[u])'
  <2>1. PICK p : p = page'[u]
    OBVIOUS
  <2>2. Settled(p)'
    BY <1>4, <1>7, <2>1 DEF Pagewise
  <2>3. \A i \in DOMAIN p.tail : Right(p.tail[i])'
    <3>1. CASE u # t
      BY <1>4, <1>6, <2>1, <3>1 DEF Pagewise
    <3>2. CASE u = t
      <4>1. p.tail = Append(page[t].tail, e) /\ page[t].tail \in Seq(Delivery)
        BY <1>4, <2>1, <3>2 DEF Pagewise, PageOK
      <4>2. ASSUME NEW i \in DOMAIN p.tail
            PROVE  p.tail[i] = e \/ (i \in DOMAIN page[t].tail /\ p.tail[i] = page[t].tail[i])
        BY <4>1
      <4>3. QED
        BY <1>4, <1>6, <4>2
    <3>3. QED
      BY <3>1, <3>2
  <2>4. PageFiled(p)'
    BY <2>2, <2>3 DEF PageFiled
  <2>5. QED
    BY <2>1, <2>4 DEF PageFiled, Settled, Right, Agrees, Meant, ConversationOf
<1>9. StoreFiled'
  <2>1. UNCHANGED <<reference, messages>>
    BY <1>5 DEF storeVars
  <2>2. ASSUME NEW d \in Refs, reference[d] # None, NEW i \in DOMAIN messages[d]
        PROVE  Meant(reference[d], ConversationOf(messages[d][i].observation))'
    <3>1. PICK ref, o : ref = reference[d] /\ o = messages[d][i].observation
      OBVIOUS
    <3>2. ref \in Refs /\ o \in Observed
      <4>1. messages[d] \in Seq(Keys) /\ reference[d] \in Refs \cup {None}
        BY HistoryDomains
      <4>2. messages[d][i] \in Keys
        BY <2>2, <4>1
      <4>3. QED
        BY <2>2, <3>1, <4>1, <4>2 DEF Keys
    <3>3. ref # Provisional(s)
      <4>1. reference[d] = Provisional(s) => d = Provisional(s)
        BY DEF StoreFiled
      <4>2. QED
        BY <1>2, <2>2, <3>1, <4>1 DEF Unmade
    <3>4. o # Prompt(s)
      <4>1. ~Stored(d, s)
        BY <1>2, HistoryDomains DEF Unmade
      <4>2. QED
        BY <2>2, <3>1, <4>1 DEF Stored
    <3>5. Meant(ref, ConversationOf(o))
      BY <2>2, <3>1 DEF StoreFiled
    <3>6. Meant(ref, ConversationOf(o))'
      BY <1>3, <3>2, <3>3, <3>4, <3>5, RightStays
    <3>7. QED
      BY <2>1, <3>1, <3>6 DEF Meant, ConversationOf
  <2>3. QED
    BY <2>1, <2>2 DEF StoreFiled
<1>10. QED
  BY <1>8, <1>9 DEF PagesFiled

\* An event is filed with what it belongs to, and what a rebinding takes to the
\* chat's reference is what was filed under the provisional one.
LEMMA IngestionFiles ==
    ASSUME HistoryTypeOK, StoreFiled, NEW e \in Delivery, Right(e), NEW c \in Refs, Takes(e, c), UNCHANGED asked
    PROVE  StoreFiled'
<1>1. /\ DOMAIN reference = Refs /\ DOMAIN messages = Refs
      /\ reference' = [reference EXCEPT ![c] = e.chat]
  BY HistoryDomains DEF Takes
<1>2. e.chat \in Refs /\ e.chat # None
  BY EventFields, NoneIsNoReference DEF Delivery
<1>3. \A d \in Refs : \A i \in DOMAIN messages'[d] :
          \/ i \in DOMAIN messages[d] /\ messages'[d][i] = messages[d][i]
          \/ d = c /\ messages'[d][i] = KeyOf(e)
  BY TakenMessages
<1>4. KeyOf(e).observation = e.observation
  BY DEF KeyOf
<1>5. \A i \in DOMAIN messages[c] : Meant(e.chat, ConversationOf(messages[c][i].observation))
  <2>1. CASE reference[c] = e.chat
    BY <1>2, <2>1 DEF StoreFiled
  <2>2. CASE reference[c] = None
    BY <2>2 DEF StoreFiled
  <2>3. CASE \E s \in Submissions : Rebinds(e, s) /\ reference[c] = Provisional(s)
    <3>1. PICK s \in Submissions : Rebinds(e, s) /\ reference[c] = Provisional(s)
      BY <2>3
    <3>2. PICK d \in Conversations : e.chat = Stable(d)
      BY <3>1, EventFields, ProvisionalIsSome DEF Rebinds, Delivery
    <3>3. d = asked[s]
      BY <3>1, <3>2, ReferenceFields, ConversationFields DEF Right, Meant, Rebinds
    <3>4. \A i \in DOMAIN messages[c] : ConversationOf(messages[c][i].observation) = asked[s]
      BY <3>1, ProvisionalIsSome, ReferenceFields DEF StoreFiled, Meant
    <3>5. QED
      BY <3>2, <3>3, <3>4, ReferenceFields DEF Meant
  <2>4. QED
    BY <2>1, <2>2, <2>3 DEF Takes
<1>6. ASSUME NEW d \in Refs
      PROVE  /\ reference'[d] = None => DOMAIN messages'[d] = {}
             /\ reference'[d] # None => \A i \in DOMAIN messages'[d] :
                    Meant(reference'[d], ConversationOf(messages'[d][i].observation))
             /\ \A s \in Submissions : reference'[d] = Provisional(s) => d = Provisional(s)
  <2>1. CASE d # c
    <3>1. reference'[d] = reference[d]
      BY <1>1, <2>1
    <3>2. messages'[d] = messages[d]
      BY <1>1, <2>1 DEF Takes
    <3>3. QED
      BY <3>1, <3>2 DEF StoreFiled
  <2>2. CASE d = c
    <3>1. reference'[d] = e.chat
      BY <1>1, <2>2
    <3>2. \A i \in DOMAIN messages'[d] : Meant(e.chat, ConversationOf(messages'[d][i].observation))
      BY <1>3, <1>4, <1>5, <2>2 DEF Right
    <3>3. \A s \in Submissions : e.chat = Provisional(s) => d = Provisional(s)
      <4>1. CASE reference[c] = e.chat \/ c = e.chat
        BY <2>2, <4>1 DEF StoreFiled
      <4>2. CASE \E s \in Submissions : Rebinds(e, s)
        <5>1. \E k \in Conversations : e.chat = Stable(k)
          BY <4>2, EventFields, ProvisionalIsSome DEF Rebinds, Delivery
        <5>2. QED
          BY <5>1, Names
      <4>3. QED
        BY <4>1, <4>2 DEF Takes
    <3>4. QED
      BY <1>2, <3>1, <3>2, <3>3
  <2>3. QED
    BY <2>1, <2>2
<1>7. QED
  BY <1>6 DEF StoreFiled, Meant, ConversationOf

LEMMA DeliveryFiles ==
    ASSUME Pagewise(page), HistoryTypeOK, Kept, PagesFiled, StoreFiled, NEW t \in Pages, Deliver(t)
    PROVE  PagesFiled' /\ StoreFiled'
<1>1. Dropping(t) /\ UNCHANGED asked
  BY DEF Deliver, Dropping, hostVars
<1>2. PagesFiled'
  BY <1>1, DroppingGoes, GoneKeeps DEF PagesFiled
<1>3. PICK pg : pg = page
  OBVIOUS
<1>4. PICK e : e = Head(pg[t].tail)
  OBVIOUS
<1>5. /\ pg[t].tail # <<>> /\ Pagewise(pg) /\ Followed(pg)
  BY <1>1, <1>3 DEF Dropping, Kept
<1>6. e = pg[t].tail[1] /\ 1 \in DOMAIN pg[t].tail
  BY <1>4, <1>5, DroppingPage DEF Drops
<1>7. Right(e) /\ e \in Delivery
  BY <1>3, <1>4, <1>5, DroppedFiled DEF PagesFiled, Pagewise
<1>8. CASE Ingest(e)
  <2>1. PICK c \in Refs : Takes(e, c)
    BY <1>5, <1>6, <1>7, <1>8, IngestionTakes
  <2>2. StoreFiled'
    BY <1>1, <1>7, <2>1, IngestionFiles
  <2>3. QED
    BY <1>2, <2>2
<1>9. CASE Refuse(e)
  <2>1. UNCHANGED storeVars
    BY <1>9 DEF Refuse, storeVars
  <2>2. QED
    BY <1>1, <1>2, <2>1, SameStoreFiled
<1>10. QED
  BY <1>3, <1>4, <1>8, <1>9 DEF Deliver

LEMMA FilingBegins ==
    ASSUME Init
    PROVE  PagesFiled /\ StoreFiled
<1>1. PICK q : q = Fresh(Root)
  OBVIOUS
<1>2. PageFiled(q)
  BY <1>1, FreshFiled DEF Routes
<1>3. page = [t \in Pages |-> q]
  BY <1>1 DEF Init
<1>4. PagesFiled
  BY <1>2, <1>3 DEF PagesFiled
<1>5. \A c \in Refs : DOMAIN messages[c] = {} /\ reference[c] = None
  BY DEF Init, HistoryInit, Refs
<1>6. StoreFiled
  BY <1>5, ProvisionalIsSome DEF StoreFiled
<1>7. QED
  BY <1>4, <1>6

LEMMA FilingKeeps ==
    ASSUME Unhurried, Pagewise(page), HostInv, HistoryTypeOK, Kept, PagesFiled, StoreFiled, [Next]_vars
    PROVE  PagesFiled' /\ StoreFiled'
<1>1. ASSUME NEW t \in Pages,
             \/ Scan(t) \/ PollRoute(t) \/ RecentExpires(t) \/ HostAssignsRoute(t)
             \/ Visit(t) \/ Render(t) \/ Clear(t)
      PROVE  PagesFiled' /\ StoreFiled'
  <2>1. Goes(t)
    BY <1>1, ScanGoes, PollGoes, ShowingGoes, HostGoes DEF PagesFiled
  <2>2. UNCHANGED <<asked, storeVars>>
    BY <1>1, QuietStep DEF Quiet
  <2>3. QED
    BY <2>1, <2>2, GoneKeeps, SameStoreFiled
<1>2. ASSUME NEW t \in Pages, DeliveryFails(t)
      PROVE  PagesFiled' /\ StoreFiled'
  <2>1. Dropping(t) /\ UNCHANGED <<asked, storeVars>>
    BY <1>2 DEF DeliveryFails, Dropping, hostVars
  <2>2. Goes(t)
    BY <2>1, DroppingGoes DEF PagesFiled
  <2>3. QED
    BY <2>1, <2>2, GoneKeeps, SameStoreFiled
<1>3. ASSUME NEW t \in Pages, Reload(t)
      PROVE  PagesFiled' /\ StoreFiled'
  <2>1. page' = [page EXCEPT ![t] = Fresh(page[t].route)] /\ UNCHANGED <<asked, storeVars>>
    BY <1>3 DEF Reload, hostVars
  <2>2. PageFiled(Fresh(page[t].route))
    BY FreshFiled DEF Pagewise, PageOK
  <2>3. Goes(t)
    BY <2>1, <2>2 DEF Goes
  <2>4. QED
    BY <2>1, <2>3, GoneKeeps, SameStoreFiled
<1>4. ASSUME UNCHANGED <<page, asked, storeVars>>
      PROVE  PagesFiled' /\ StoreFiled'
  <2>1. PagesFiled'
    <3>1. ASSUME NEW t \in Pages
          PROVE  PageFiled(page[t])'
      <4>1. PICK p : p = page[t]
        OBVIOUS
      <4>2. PageFiled(p)
        BY <4>1 DEF PagesFiled
      <4>3. PageFiled(p)'
        BY <1>4, <4>2, FiledAsAsked
      <4>4. page'[t] = p
        BY <1>4, <4>1
      <4>5. QED
        BY <4>3, <4>4 DEF PageFiled, Settled, Right, Agrees, Meant, ConversationOf
    <3>2. QED
      BY <3>1 DEF PagesFiled
  <2>2. QED
    BY <1>4, <2>1, SameStoreFiled
<1>5. ASSUME NEW c \in Conversations, NEW q \in Projects, Move(c, q)
      PROVE  PagesFiled' /\ StoreFiled'
  BY <1>4, <1>5 DEF Move
<1>6. CASE UNCHANGED vars
  BY <1>4, <1>6 DEF vars, hostVars
<1>7. CASE Next
  BY <1>1, <1>2, <1>3, <1>5, <1>7, StepKinds, SubmissionFiles, DeliveryFiles
<1>8. QED
  BY <1>6, <1>7

LEMMA FiledIsFiled ==
    ASSUME HistoryTypeOK, StoreFiled
    PROVE  FiledUnderItsConversation
<1>1. DOMAIN messages = Refs
  BY HistoryDomains
<1>2. ASSUME NEW c \in Refs, reference[c] # None, NEW k \in Mixed(c)
      PROVE  Meant(reference[c], k)
  BY <1>2 DEF StoreFiled, Mixed
<1>3. QED
  BY <1>1, <1>2 DEF FiledUnderItsConversation, Meant

\* Whatever projects and chats the pages go through, with reloads, failed
\* deliveries and moves, the messages of two conversations do not get into one
\* chat, as long as nobody is faster than the script looks.
THEOREM ConversationsStayApart == Unhurried /\ Spec => []FiledUnderItsConversation
<1>1. Init => PagesFiled /\ StoreFiled
  BY FilingBegins
<1>2. /\ Unhurried /\ Pagewise(page) /\ HostInv /\ HistoryTypeOK /\ Kept /\ PagesFiled /\ StoreFiled /\ [Next]_vars
      => (PagesFiled /\ StoreFiled)'
  BY FilingKeeps
<1>3. HistoryTypeOK /\ StoreFiled => FiledUnderItsConversation
  BY FiledIsFiled
<1>4. CASE Unhurried
  <2>1. Spec => [](HistoryTypeOK /\ PagesFiled /\ StoreFiled)
    BY <1>1, <1>2, <1>4, CaptureInvariant, PTL DEF Spec
  <2>2. QED
    BY <1>3, <2>1, PTL
<1>5. QED
  BY <1>4

-----------------------------------------------------------------------------
\* The answers.  A page sends an answer once until it is loaded anew, so one
\* page that is not loaded anew has it stored once.

OneVisit == (\A t, u \in Pages : t = u) /\ "reload" \notin Allowed

Known(a) == \E c \in Refs : \E i \in DOMAIN messages[c] : messages[c][i].observation = Answer(a)

\* An answer that is stored was sent and is no longer under way.
AnswersFiled ==
    /\ AnswerStoredOnce
    /\ \A t \in Pages, a \in Conversations :
           /\ Known(a) => a \in page[t].emitted
           /\ \A i \in DOMAIN page[t].tail : page[t].tail[i].observation = Answer(a) => ~Known(a)

\* From p to q no answer gets under way again.
Fresher(p, q) ==
    /\ p.emitted \subseteq q.emitted
    /\ \A a \in Conversations : \A i \in DOMAIN q.tail : q.tail[i].observation = Answer(a) =>
           a \notin p.emitted \/ \E j \in DOMAIN p.tail : p.tail[j].observation = Answer(a)

Unstored(t) == \E q : Fresher(page[t], q) /\ page' = [page EXCEPT ![t] = q] /\ UNCHANGED storeVars

LEMMA AppendedAnswers ==
    ASSUME NEW p, PageOK(p), NEW q, NEW news \in Seq(Delivery), q.tail = p.tail \o news, p.emitted \subseteq q.emitted,
           \A k \in DOMAIN news : \A a \in Conversations : news[k].observation = Answer(a) => a \notin p.emitted
    PROVE  Fresher(p, q)
<1>1. PICK old \in Seq(Delivery) : old = p.tail
  BY DEF PageOK
<1>2. ASSUME NEW i \in DOMAIN (old \o news)
      PROVE  \/ i \in DOMAIN old /\ (old \o news)[i] = old[i]
             \/ \E k \in DOMAIN news : (old \o news)[i] = news[k]
  <2>1. CASE i \in 1 .. Len(old)
    BY <2>1
  <2>2. CASE i \notin 1 .. Len(old)
    <3>1. i - Len(old) \in DOMAIN news /\ (old \o news)[i] = news[i - Len(old)]
      BY <2>2
    <3>2. QED
      BY <3>1
  <2>3. QED
    BY <2>1, <2>2
<1>3. QED
  BY <1>1, <1>2 DEF Fresher

LEMMA AppendedPrompt ==
    ASSUME NEW p, PageOK(p), NEW q, NEW e \in Delivery, NEW s, e.observation = Prompt(s),
           q.tail = Append(p.tail, e), q.emitted = p.emitted
    PROVE  Fresher(p, q)
<1>1. PICK old \in Seq(Delivery) : old = p.tail
  BY DEF PageOK
<1>2. \A i \in DOMAIN Append(old, e) :
          (i \in DOMAIN old /\ Append(old, e)[i] = old[i]) \/ Append(old, e)[i] = e
  OBVIOUS
<1>3. \A a : e.observation # Answer(a)
  BY Names
<1>4. QED
  BY <1>1, <1>2, <1>3 DEF Fresher

LEMMA QuietIsUnstored ==
    ASSUME Pagewise(page), NEW t \in Pages, Quiet(t)
    PROVE  Unstored(t)
<1>1. PICK w, q :
        /\ PageOK(w) /\ (Idles(page[t], w) \/ Rebound(page[t], w))
        /\ PageOK(q) /\ (q = w \/ \E news \in Seq(Delivery) : Answering(w, q, news))
        /\ page' = [page EXCEPT ![t] = q]
        /\ UNCHANGED <<asked, lost, storeVars>>
  BY DEF Quiet
<1>2. PICK p : p = page[t] /\ PageOK(p)
  BY DEF Pagewise
<1>3. Fresher(p, w) /\ w.emitted = p.emitted
  <2>1. CASE Idles(p, w)
    BY <2>1 DEF Idles, Fresher
  <2>2. CASE Rebound(p, w)
    <3>1. PICK s \in Submissions, e \in Delivery :
              e.observation = Prompt(s) /\ w.tail = Append(p.tail, e) /\ w.emitted = p.emitted
      BY <2>2 DEF Rebound
    <3>2. QED
      BY <1>2, <3>1, AppendedPrompt
  <2>3. QED
    BY <1>1, <1>2, <2>1, <2>2
<1>4. Fresher(w, q)
  <2>1. CASE q = w
    BY <2>1 DEF Fresher
  <2>2. CASE \E news \in Seq(Delivery) : Answering(w, q, news)
    <3>1. PICK news \in Seq(Delivery) : Answering(w, q, news)
      BY <2>2
    <3>2. \A k \in DOMAIN news : \A a \in Conversations : news[k].observation = Answer(a) => a \notin w.emitted
      BY <3>1, Names DEF Answering
    <3>3. QED
      BY <1>1, <3>1, <3>2, AppendedAnswers DEF Answering
  <2>3. QED
    BY <1>1, <2>1, <2>2
<1>5. Fresher(p, q)
  BY <1>3, <1>4 DEF Fresher
<1>6. QED
  BY <1>1, <1>2, <1>5 DEF Unstored

LEMMA SubmittingIsUnstored ==
    ASSUME Pagewise(page), NEW t \in Pages, NEW s \in Submissions, Submitting(t, s)
    PROVE  Unstored(t)
<1>1. PICK p : p = page[t] /\ PageOK(p)
  BY DEF Pagewise
<1>2. PICK q : \E e \in Delivery :
        /\ Original(e, s) /\ page' = [page EXCEPT ![t] = q] /\ UNCHANGED storeVars
        /\ q.tail = Append(p.tail, e) /\ q.emitted = p.emitted
  BY <1>1 DEF Submitting
<1>3. PICK e \in Delivery :
        /\ Original(e, s) /\ page' = [page EXCEPT ![t] = q] /\ UNCHANGED storeVars
        /\ q.tail = Append(p.tail, e) /\ q.emitted = p.emitted
  BY <1>2
<1>4. Fresher(p, q)
  BY <1>1, <1>3, AppendedPrompt DEF Original
<1>5. QED
  BY <1>1, <1>3, <1>4 DEF Unstored

LEMMA UnstoredKeeps ==
    ASSUME Pagewise(page), AnswersFiled, NEW t \in Pages, Unstored(t)
    PROVE  AnswersFiled'
<1>1. PICK q : Fresher(page[t], q) /\ page' = [page EXCEPT ![t] = q] /\ UNCHANGED storeVars
  BY DEF Unstored
<1>2. page'[t] = q /\ \A u \in Pages : u # t => page'[u] = page[u]
  BY <1>1 DEF Pagewise
<1>3. AnswerStoredOnce' /\ \A a : Known(a)' <=> Known(a)
  BY <1>1 DEF storeVars, AnswersFiled, AnswerStoredOnce, Known
<1>4. ASSUME NEW u \in Pages, NEW a \in Conversations
      PROVE  /\ Known(a) => a \in page'[u].emitted
             /\ \A i \in DOMAIN page'[u].tail : page'[u].tail[i].observation = Answer(a) => ~Known(a)
  BY <1>1, <1>2 DEF AnswersFiled, Fresher
<1>5. QED
  BY <1>3, <1>4 DEF AnswersFiled

LEMMA DroppingIsFresher ==
    ASSUME Pagewise(page), NEW t \in Pages, Dropping(t)
    PROVE  \A u \in Pages : Fresher(page[u], page'[u])
<1>1. PICK pn : pn = [page EXCEPT ![t].tail = Tail(@)]
  OBVIOUS
<1>2. Drops(page, pn, t) /\ page' = pn
  BY <1>1, DroppingPage DEF Dropping
<1>3. QED
  BY <1>2 DEF Drops, Fresher

LEMMA StoredAnswers ==
    ASSUME HistoryTypeOK, AnswerStoredOnce, NEW e \in Delivery, NEW c \in Refs, Takes(e, c),
           \A a \in Conversations : e.observation = Answer(a) => ~Known(a)
    PROVE  /\ AnswerStoredOnce'
           /\ \A a \in Conversations : Known(a)' => Known(a) \/ e.observation = Answer(a)
<1>1. ASSUME NEW d \in Refs, NEW i \in DOMAIN messages'[d]
      PROVE  \/ i \in DOMAIN messages[d] /\ messages'[d][i] = messages[d][i]
             \/ d = c /\ i = Len(messages[c]) + 1 /\ messages'[d][i].observation = e.observation
  <2>1. KeyOf(e).observation = e.observation
    BY DEF KeyOf
  <2>2. QED
    BY <2>1, TakenMessages
<1>2. \A a \in Conversations : Known(a)' => Known(a) \/ e.observation = Answer(a)
  BY <1>1 DEF Known
<1>3. ASSUME NEW a \in Conversations, NEW d \in Refs, NEW f \in Refs,
             NEW i \in DOMAIN messages'[d], NEW j \in DOMAIN messages'[f],
             messages'[d][i].observation = Answer(a), messages'[f][j].observation = Answer(a)
      PROVE  d = f /\ i = j
  <2>1. CASE e.observation = Answer(a)
    <3>1. ~Known(a)
      BY <2>1
    <3>2. d = c /\ i = Len(messages[c]) + 1
      BY <1>1, <1>3, <3>1 DEF Known
    <3>3. f = c /\ j = Len(messages[c]) + 1
      BY <1>1, <1>3, <3>1 DEF Known
    <3>4. QED
      BY <3>2, <3>3
  <2>2. CASE e.observation # Answer(a)
    <3>1. i \in DOMAIN messages[d] /\ messages[d][i].observation = Answer(a)
      BY <1>1, <1>3, <2>2
    <3>2. j \in DOMAIN messages[f] /\ messages[f][j].observation = Answer(a)
      BY <1>1, <1>3, <2>2
    <3>3. QED
      BY <3>1, <3>2, HistoryDomains DEF AnswerStoredOnce
  <2>3. QED
    BY <2>1, <2>2
<1>4. DOMAIN messages' = Refs
  BY TakenMessages
<1>5. QED
  BY <1>2, <1>3, <1>4 DEF AnswerStoredOnce

LEMMA DeliveredAnswers ==
    ASSUME OneVisit, Pagewise(page), HistoryTypeOK, Kept, AnswersFiled, NEW t \in Pages, Deliver(t)
    PROVE  AnswersFiled'
<1>1. Dropping(t)
  BY DEF Deliver, Dropping
<1>2. PICK pg : pg = page
  OBVIOUS
<1>3. PICK pn : pn = [pg EXCEPT ![t].tail = Tail(@)]
  OBVIOUS
<1>4. Drops(pg, pn, t) /\ page' = pn /\ Head(pg[t].tail) = pg[t].tail[1]
  BY <1>1, <1>2, <1>3, DroppingPage DEF Dropping
<1>5. PICK e \in Delivery : e = pg[t].tail[1] /\ 1 \in DOMAIN pg[t].tail
  BY <1>4 DEF Drops
<1>6. CASE Refuse(e)
  <2>1. AnswerStoredOnce' /\ \A a : Known(a)' <=> Known(a)
    BY <1>6 DEF Refuse, AnswersFiled, AnswerStoredOnce, Known
  <2>2. \A u \in Pages : Fresher(page[u], page'[u])
    BY <1>1, DroppingIsFresher
  <2>3. QED
    BY <2>1, <2>2 DEF AnswersFiled, Fresher
<1>7. CASE Ingest(e)
  <2>1. PICK c \in Refs : Takes(e, c)
    BY <1>2, <1>5, <1>7, IngestionTakes DEF Kept
  <2>2. \A a \in Conversations : e.observation = Answer(a) => ~Known(a)
    BY <1>2, <1>5 DEF AnswersFiled
  <2>3. /\ AnswerStoredOnce'
        /\ \A a \in Conversations : Known(a)' => Known(a) \/ e.observation = Answer(a)
    BY <2>1, <2>2, StoredAnswers DEF AnswersFiled
  <2>4. ASSUME NEW a \in Conversations
        PROVE  /\ Known(a)' => a \in pn[t].emitted
               /\ \A i \in DOMAIN pn[t].tail : pn[t].tail[i].observation = Answer(a) => ~Known(a)'
    <3>1. e.observation = Answer(a) => /\ a \in pg[t].emitted
                                       /\ \A j \in DOMAIN pg[t].tail : pg[t].tail[j].observation = Answer(a) => j = 1
      BY <1>2, <1>5, Names DEF Kept, AnswersOnce
    <3>2. \A i \in DOMAIN pn[t].tail :
              i \in Nat /\ i >= 1 /\ i + 1 \in DOMAIN pg[t].tail /\ pn[t].tail[i] = pg[t].tail[i + 1]
      BY <1>4 DEF Drops
    <3>3. ASSUME NEW i \in DOMAIN pn[t].tail, pn[t].tail[i].observation = Answer(a)
          PROVE  ~Known(a)'
      <4>1. ~Known(a)
        BY <1>2, <3>2, <3>3 DEF AnswersFiled
      <4>2. e.observation # Answer(a)
        <5>1. i \in Nat /\ i >= 1 /\ i + 1 \in DOMAIN pg[t].tail /\ pg[t].tail[i + 1].observation = Answer(a)
          BY <3>2, <3>3
        <5>2. i + 1 # 1
          BY <5>1
        <5>3. QED
          BY <3>1, <5>1, <5>2
      <4>3. QED
        BY <2>3, <4>1, <4>2
    <3>4. Known(a)' => a \in pn[t].emitted
      <4>1. pn[t].emitted = pg[t].emitted
        BY <1>4 DEF Drops
      <4>2. QED
        BY <1>2, <2>3, <3>1, <4>1 DEF AnswersFiled
    <3>5. QED
      BY <3>3, <3>4
  <2>5. QED
    BY <1>4, <2>3, <2>4 DEF AnswersFiled, OneVisit
<1>8. QED
  BY <1>2, <1>4, <1>5, <1>6, <1>7 DEF Deliver

LEMMA AnswersStayFiled ==
    ASSUME OneVisit, Pagewise(page), HostInv, HistoryTypeOK, Kept, AnswersFiled, [Next]_vars
    PROVE  AnswersFiled'
<1>1. ASSUME UNCHANGED <<page, storeVars>>
      PROVE  AnswersFiled'
  BY <1>1 DEF storeVars, AnswersFiled, AnswerStoredOnce, Known
<1>2. ASSUME NEW t \in Pages, NEW s \in Submissions, SubmitNewChat(t, s) \/ SubmitInChat(t, s)
      PROVE  AnswersFiled'
  BY <1>2, NewChatIsSubmitted, PromptIsSubmitted, SubmittingIsUnstored, UnstoredKeeps
<1>3. ASSUME NEW t \in Pages,
             \/ Scan(t) \/ PollRoute(t) \/ RecentExpires(t) \/ HostAssignsRoute(t)
             \/ Visit(t) \/ Render(t) \/ Clear(t)
      PROVE  AnswersFiled'
  BY <1>3, QuietStep, QuietIsUnstored, UnstoredKeeps
<1>4. ASSUME NEW t \in Pages, DeliveryFails(t)
      PROVE  AnswersFiled'
  <2>1. Dropping(t) /\ UNCHANGED storeVars
    BY <1>4 DEF DeliveryFails, Dropping
  <2>2. \A u \in Pages : Fresher(page[u], page'[u])
    BY <2>1, DroppingIsFresher
  <2>3. AnswerStoredOnce' /\ \A a : Known(a)' <=> Known(a)
    BY <2>1 DEF storeVars, AnswersFiled, AnswerStoredOnce, Known
  <2>4. QED
    BY <2>2, <2>3 DEF AnswersFiled, Fresher
<1>5. ASSUME NEW t \in Pages, Reload(t)
      PROVE  AnswersFiled'
  BY <1>5 DEF Reload, OneVisit
<1>6. ASSUME NEW c \in Conversations, NEW q \in Projects, Move(c, q)
      PROVE  AnswersFiled'
  BY <1>1, <1>6 DEF Move
<1>7. CASE UNCHANGED vars
  BY <1>1, <1>7 DEF vars
<1>8. QED
  BY <1>2, <1>3, <1>4, <1>5, <1>6, <1>7, DeliveredAnswers, StepKinds

\* The answer of a conversation, which the page may show again in another
\* chat or project, is stored once as long as one page captures and is not
\* loaded anew, even when deliveries fail and the user is fast.
THEOREM AnswersAreStoredOnce == OneVisit /\ Spec => []AnswerStoredOnce
<1>1. Init => AnswersFiled
  <2>1. SUFFICES ASSUME Init
                 PROVE  AnswersFiled
    OBVIOUS
  <2>2. DOMAIN messages = Refs /\ \A c \in Refs : DOMAIN messages[c] = {}
    BY <2>1 DEF Init, HistoryInit, Refs
  <2>3. \A t \in Pages : DOMAIN page[t].tail = {}
    BY <2>1 DEF Init, Fresh
  <2>4. QED
    BY <2>2, <2>3 DEF AnswersFiled, AnswerStoredOnce, Known
<1>2. /\ OneVisit /\ Pagewise(page) /\ HostInv /\ HistoryTypeOK /\ Kept /\ AnswersFiled /\ [Next]_vars
      => AnswersFiled'
  BY AnswersStayFiled
<1>3. AnswersFiled => AnswerStoredOnce
  BY DEF AnswersFiled
<1>4. CASE OneVisit
  <2>1. Spec => []AnswersFiled
    BY <1>1, <1>2, <1>4, CaptureInvariant, PTL DEF Spec
  <2>2. QED
    BY <1>3, <2>1, PTL
<1>5. QED
  BY <1>4

=============================================================================
