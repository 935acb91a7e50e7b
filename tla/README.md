# Context Atomizer Local: verification project

Context Atomizer Local is a local runtime that captures chats from AI hosts,
indexes them and the user's elected documents in one SQLite Library, and lets
an AI client read that Library either directly (MCP) or through a trusted
manager.  This directory holds TLA+ models of its concurrent core, the TLC runs
that check them, and TLAPS proofs.

## The system

| component | state | operations | module |
|---|---|---|---|
| managed authority (`managed_access/authority.py`, `capability.py`) | installed session, capability, heartbeat; ledger of consumed leases | activate, revoke, require, authority, session_for_scope, verify/consume | `ManagedAuthority`, `ManagedAccess` |
| context broker (`managed_access/broker.py`) and hook client | queue of pending requests, their results and events | request, next, complete, revoke, prune | `ContextBroker`, `ManagedAccess` |
| managed ingress and controls (`ingress.py`, `bridge/local_ingress.py`, `runtime/application.py`) | pairing secret and code, access mode file | activate, revoke, request, next, complete, read; mode, pair, unpair, stop | `ManagedAccess` |
| local authentication (`local_auth/`, `bridge/`, `ui/library_server.py`, the extension's service worker) | nonce windows, pairing code and attempts, launch and session tokens | accept, pair, revoke, issue and consume | `LocalAuth` |
| chat ingestion and history (`chat/`, `chats/`, `history/`, `lexical/`) | chats, messages, lexical index in SQLite | ingest, rebind | `ChatHistory` |
| browser extension (`browser_extension/`) | candidates, captured keys, provisional chat | observe, settle, emit, forward | `ChatCapture` |
| documents (`library/`) | elected sources, documents, revisions, memberships | authorize, rescan, revoke, maintenance scans | `Documents` |
| derived state (`derived_state/`, `semantic/`, `claims/`, `entities/`, `temporal/`, `contradictions/`, `verification/`) | projections of the stored text, signature of the last inspection | inspect, rebuild, fail, restart | `DerivedState` |
| runtime and migrations (`runtime/`, `history/migrations.py`) | lock, state file, credential, configuration, schema version | install, start, stop, restart, update, rotate, open, uninstall | `Lifecycle` |
| integrations (`runtime/codex_*.py`, `runtime/claude_*.py`, `runtime/permissions.py`) | hook files of Codex and Claude Code, permission file | install, uninstall, enable, disable | `Integrations` |
| readers (`mcp/`, `memory_access/`, `retrieval/`) | the request that is served | search, list, get | `LibraryReads` |

How they interact: the extension and the hooks post to the bridge, whose
handlers are threads of the runtime; everything stored is in one SQLite file
that the runtime, the hooks and the MCP server open on their own; the
maintainers of documents and of the derived state are threads that share a
lock with the user interface; a manager gets authority from the registry and
prompts from the broker; the commands of the lifecycle know the runtime only
by its state file, its credential and what answers on its port.

What is hard to test: every HTTP request is a thread; the registry, the ledger,
the broker, the pairing and the policy file each have their own lock, and the
operations that matter span several of them; host hooks, the MCP server and the
runtime are separate processes on one database file; other programs write the
files that are scanned and the hook files that are reconciled; the runtime can
stop at any point; leases, prompts, codes and tokens expire.  `PROJECT.json`
lists each hazard at its line, with the properties that would catch it.

Each component has its module `M`, its properties in `MProperties` (for
`ManagedAccess` with the refinement mapping), `MCM` with the instances for TLC,
and its theorems in `MProofs`; those of `Integrations` are the second part of
`LifecycleProofs`, for both are about the commands of the manager.  Operators
marked `Mutant:` stand beside the definition that they would replace if the code
had the bug they name; nothing uses them otherwise.

## Managed access

### Modules

* `ManagedAuthority` - state of `ManagedAuthorityRegistry` and
  `_LeaseReplayState`.  `session`, `capability` and `idle` are `_session`,
  `_capability` and the clock steps since `_last_seen`; `ledger` is `_entries`.
  Each operator is one critical section of a lock.
* `ContextBroker` - state of `ManagedContextBroker`: `queue` holds the keys of
  `_pending`, the other variables the fields of a pending request.
* `ManagedAccess` - the threads.  `hook[h]` is where the call of a host hook
  is, `call[t]` a manager call with its local variables between two critical
  sections, `human` the thread of the user's control.  One action is one
  critical section, or one read of the policy file; so all interleavings of
  the code's locks are behaviours.
* `ContextExchange` - the abstract promise: at most one lease in force, a lease
  comes into force at most once (one that comes too late is spent without it),
  only the lease in force answers, and only an exchange that is still open.
* `ManagedAccessProperties` - the properties, the refinement mapping and a
  statement of the documentation that fails.
* `MCManagedAccess` - instances for TLC.
* `ManagedAccessProofs` - theorems.

### Abstractions

* A lease is its capability identifier with what its claims bind it to
  (`Grant`); its signature is the pairing secret and runtime instance it was
  signed for (`minted`).  A context is where it came from: the capability it
  was completed with and the binding its sender wrote.
* Wall-clock expiry of leases and requests is a step that may happen at any
  time (`LeaseExpires`, `RequestExpires`); a verification that read the clock
  before the ledger lock carries what had expired then (`was`).  `activate()`
  reads the clock and checks the expiry before it takes the registry's lock, so
  `CheckExpiry` and `Install` are two steps: a lease that expires between them is
  installed, dead, over whatever session there is (`Waste` in the exchange).  The heartbeat
  is a step counter against `DisconnectTimeout`.
* `complete` holds the broker condition while it takes the registry lock, so
  it is one action.
* The queue is a dict in insertion order; `next` may take any matching request.
* The lines of `require` that only parse are left out, and so is what a
  Library read returns.
* The paired manager is external: `MintLease` signs leases at any time after a
  pairing, and calls come with any token ever issued and any binding.

### Runs

| run | instance | shows |
|---|---|---|
| `exchange_managers` | leases of two manager sessions (one for any scope), one prompt, a revocation, one restart, fair hooks | `TypeOK`, `BoundDelivery`, `NoStrandedHook`, `ImplementsExchange`, `EveryHookReturns` |
| `replay` | two manager threads that may verify one lease at once, two pairings, mode changes, one restart, heartbeat of two steps | `LeaseActivatedOnce`, `DeadCapabilityStaysDead` |
| `disabled_denies_context` | two manager threads, mode changes | the doc's statement about `DISABLED` fails: an activation overtakes the mode change |

Bounds: two leases are enough for a replacement between any two critical
sections, two manager threads for any pair of overlapping calls, two
activations for a replay or a replacement; a third of any adds no new overlap
of two.  One prompt is enough for what a run shows of a hook, since hooks share
only the queue; that several of them never strand or mix is proved below for
any number.  `MaxRestarts`, `MaxPairings` and `MaxActivations` bound counters that
are unbounded in the program.  Symmetry is used on manager threads, in runs
without liveness.

Fairness: `FairSpec` asks weak fairness of each hook call's own steps.  Handler
threads are scheduled by the operating system and the wait of `request()` is
bounded by `HOOK_WAIT_SECONDS`, so nothing is asked of the manager or the user.

### Proved

All for every number of leases, hooks, threads, restarts, pairings and every
size of the ledger:

* `TypeCorrect`: `Spec => []TypeOK`.  Besides the types, session, token and
  heartbeat of the registry are of one activation (`OneActivation`).  One lemma per
  group of critical sections and one step per action; `CallLocals` and `CallStates` are about the local
  variables a thread carries.
* `HooksAreWoken` (`NoStrandedHook`), from `QueueInv`: a queued request has a
  waiting hook, and a hook that has not queued yet has no answer.  Without the
  second part a step that queues a request could inherit an answer.
* `LeasesAreInstalledOnce` (`LeaseActivatedOnce`), from an invariant that says
  of every lease that was used: it is in the ledger, has expired, or was signed
  for a runtime instance that is gone.  The invariant also follows a lease
  through the local variables of the threads that verified and did not install
  it yet, where it is in none of the shared variables: two threads may both stand
  before the second check of the expiry only with an expired lease, and no two
  ever stand behind it with the same one.
* `DeadCapabilitiesStayDead` (`DeadCapabilityStaysDead`), an action property,
  from the capability numbers only growing.
* `DeliveriesAreBound` (`BoundDelivery`), from an invariant that relates the
  answer of a request to the grant it was completed under.

* `AccessImplementsExchange` (`ImplementsExchange`): the detailed specification
  implements `ContextExchange`.  It needs the invariants above and `OfferInv`:
  only what was queued is assigned, and only what was assigned is answered.  One
  step per group of actions maps it to an abstract step or to a stutter;
  `InForceSteps` says that every step but `Install` keeps the lease in force or
  withdraws it, and `MappedMoves` what a revocation does to all open exchanges.

`EveryHookReturns` is liveness and stays with TLC.

## Chat capture

### Modules

* `ChatHistory` - the tables `chats`, `messages` and `lexical_entries` and the
  transaction of `ingest_chat_event`.  It begins with `BEGIN IMMEDIATE` and is
  rolled back on any exception, so an event is one step: `Ingest` with all of
  `resolve_project`, `get_or_create_chat`, `rebind_chat_index`, `write_message`
  and `index_message`, or `Refuse`.  `KnownChat`, `NewChat`, `ProvisionalChat`
  and `ReboundChat` are the branches of `get_or_create_chat` and
  `_rebind_provisional_chat`.
* `ChatCapture` - pages of a chat host with the capture script in them, and
  the bridge with `ChatHistory` behind it.  JavaScript is single threaded, so
  an action is one callback: `SubmitNewChat`, `SubmitInChat`
  (`captureUserSubmit`), `Scan`, `PollRoute`, the expiry of the recent chat,
  and `Deliver`/`DeliveryFails` for the head of `deliveryTail`.  `routeChanged`
  runs within the step of the route change that calls it.  The host and the
  user (`HostAssignsRoute`, `Navigate`, `Render`, `Clear`, `Reload`, `Move`)
  are external.
* `ChatCaptureProperties`, `MCChatCapture`, `MCChatHistory`,
  `ChatHistoryProofs`, `ChatCaptureProofs`.

### Abstractions

* A local chat is named by the reference it was created under, of which its
  identifier is a hash; a dedupe key and a message identifier are the pair of
  reference and observation they are hashes of.
* Titles and project names are left out, but for the one branch that depends
  on a title (`titled`).  Documents share `lexical_entries` and are not here.
* One conversation has one answer, which is watched and then ripe; the 700 ms
  between are the choice of `ripe` in `Scan`.  A scan that finds an answer
  changed is one that does not find it ripe.
* A submission is new content: the window of one second in which the same
  content is taken for the same submission is left out.  So is the bound of
  2000 on what a page remembers to have sent.
* A route change by the host's own script may or may not be seen by the history
  wrapper (`RouteBecomes`), for a content script has its own `history` object.

What the user and the host do is limited by `Allowed`, a set of habits.  Each
habit that is not allowed in a run is an assumption of what the run shows:

| habit | without it |
|---|---|
| `lose` | deliveries arrive |
| `reload` | pages are not reloaded |
| `leave` | nobody leaves a new chat before its reference is seen |
| `hurry` | nobody acts within the 250 ms in which the script looks at a route |
| `fast` | an answer is not complete before its chat has a reference (except on project homes, where the script expects it) |
| `linger` | a page does not show answers of a chat it left for 700 ms |
| `move` | conversations stay in their project |

### Runs

| run | instance | shows |
|---|---|---|
| `chat_history` | every event two stable and one provisional reference can form, any order | `OneChatPerReference`, `IndexMatchesHistory`, types |
| `capture_habits` | two pages, one submission, all habits | `PromptStoredOnce`, `DeliveriesInOrder`, `IndexFollowsProject` |
| `capture_homes` | one page with a project home, two submissions, deliveries that fail, fairness | `FiledUnderItsConversation`, `AnswerStoredOnce`, `SubmissionReachesItsChat` |

`lost` is the set of submissions of which a delivery failed or went with a
reload; `DeliveriesInOrder` and `SubmissionReachesItsChat` speak of the
others.

What the runs assume matters.  With `leave`, a user who goes to an older
conversation before the script saw the reference of the new one has the prompt
rebound to the older one, and with `hurry` or `linger` the scripts have nothing
but time to tell the answers of two conversations apart:
`FiledUnderItsConversation` fails with each of the three.  In `chat_history`,
where clients send anything, `IndexFollowsProject` would fail: a rebinding that
was ingested before updates `chats.project_id` only with a title, while
`rebind_chat_index` always runs.  No page sends such an event, which
`capture_habits` shows.

A second prompt can be sent before the first one's conversation has a reference.  The
script then waits for the second one alone (`SubmitNewChat`, `capture.js:107`), and only
that one is rebound, as `browser_extension/tests/core.test.js:340` expects; the first one
stays in its provisional chat.  So does a submission whose reference the host gives after
the last round of the timer, if the history wrapper does not see the route change.
`SubmissionReachesItsChat` names these two cases, `Overtaken` and `GivenUp`, and a failed
delivery; in every other case a submission the timer looks for gets to the chat
that has the reference, and in each of them it is stored.

Bounds: two submissions give a second one while answers of the first are still
shown or under way, or before the first one has a reference; `MaxRounds`, for the 120
rounds of the code, is 2 in `capture_homes` (a round that finds no reference and one
more) and 1 in `capture_habits`; two pages give any overlap of two scripts, which share
nothing but the store; conversation 0 stands for everything that existed
before.  The store runs unbounded: messages are finite for their keys are.

Fairness: deliveries are answered by the bridge or fail within a timeout
(`Deliver`), and the timer runs while a submission is pending and rounds are left
(`PollRoute`).  Of the host and the user nothing is assumed: the host may never assign
a reference, or assign it after the last round.

### Proved

`HistoryTypes`, `ReferencesAreUnique` and `IndexIsExact` prove the three
invariants of `chat_history` for all sets of references, projects and observations.  Each is inductive together with the types.  `BindingIsFree` is
the core of the second: each branch of the binding either takes the chat that
has the reference already or has seen that none has it.  For the third,
`ReindexedEntries` and `ReindexedIsUnique` say what `rebind_chat_index` keeps,
and `InsertedMessage` that `INSERT ... ON CONFLICT` never meets a conflict.

`ChatCaptureProofs` proves the invariants of the two other runs for any number of
pages, submissions and projects:

* `CaptureIsHistory`: `Spec => HistorySpec`.  Every step of a page or of the host is
  an ingestion, a refusal, or nothing to the store, and what a page queues is an event
  the bridge accepts (`Pagewise`: the types of the pages).  So the theorems of
  `ChatHistoryProofs`, instantiated as `H`, hold of the extension; the types of the
  store are taken from there.
* `PromptsAreStoredOnce`, `IndexKeepsUp` (all habits allowed).  `Followed` traces each
  submission through its life: unmade, it left no trace; sent, its original delivery
  precedes all else about it in one queue (`SentFirst`); it is rebound at most once, by
  the page that waits (`ReboundOnce`); and until then queue and store know it under its
  provisional reference alone (`Provisionally`).  The steps fall into five kinds: quiet
  ones, a submission, the delivery of the oldest event, its loss, and a reload.
  `NeverRebound` follows: `ReboundChat`, the branch that would leave index entries in an
  old project, is never taken for a page's event.
* `DeliveriesStayInOrder`.  The bound on a queue is a matter of counting: its
  deliveries map one to one to submissions, rebindings and answers (`TailIsBounded`).
* `ConversationsStayApart`, of `Unhurried /\ Spec`: without `leave`, `hurry` and
  `linger`.  A page is `Settled` when the chat of its route, the submission that waits
  and the answers it may count are all of the conversation it shows; then what it sends
  is `Right`, and what is stored stays so through rebindings (`StoreFiled`).  Each of the
  three habits refutes it, as said above.
* `AnswersAreStoredOnce`, of `OneVisit /\ Spec`: one page, not loaded anew.  What is
  stored was sent, and is under way no more (`AnswersFiled`).  Two pages, or a reload,
  refute it (see *Answer stored twice*).

`SubmissionReachesItsChat` is liveness and stays with TLC.

## Local authentication

### Modules

* `LocalAuth` - `ReplayWindow` (`seen`), `ExtensionPairingAuthority` (`code`,
  `codeExpires`, `attempts`, `secret`, and `stored` in the credential store),
  `LibrarySessionAuthority` (`launches`, `sessions`) and, of the extension,
  `forward()` with the secret it keeps (`forward`, `extension`).  All of these
  read the clock before they take their lock, so a request is one step that
  reads the clock (`Verify`, `StartPair`, `StartIssue`, `StartLaunch`,
  `StartPage`) and one critical section (`Accept`, `PairLimited`,
  `PairRejected`, `PairAccepted`/`PairFails`, `IssueLaunch`, `ConsumeLaunch`,
  `Authenticated`).
* `LocalAuthProperties`, `MCLocalAuth`, `LocalAuthProofs`.

Codes, secrets and tokens are numbers in the order of their creation; a digest
is the secret that made it.  A signed request may arrive any number of times and
at any time (`ReceiveCapture`).  A new runtime loses everything but the stored secret, which it
may find unreadable; a pairing that was cut off may have rotated it.

### Run

`local_auth`: two handler threads, two nonces, a window of one entry and two
clock steps, two attempts, two launches and sessions, one restart.  A behaviour
uses the endpoints of one of the three services (`Uses`), for they share nothing
but the clock and the paired secret.  `Delay` bounds how long a thread that has
read the clock waits for its lock.

* `NonceOncePerWindow`: a nonce is accepted once per window, less `Delay`,
  unless a full window evicted it, which the code does by intent (4096 entries
  in two minutes).
* `StoresBounded`: the four stores keep their limits, and failed attempts theirs
  within any window, less `Delay`.
* `UsedUpStaysUsedUp`: a code pairs once; a revoked secret is never in force
  again.
* `LaunchesBecomeSessions`: a launch token opens one session, and a session is
  only lost to its time or to newer ones.

Safety only: nothing here must eventually happen.

### Proved

All four properties, for any number of threads, nonces and tokens, any limits and
any `Delay` (`StoresStayBounded`, `NoncesAreAcceptedOnce`,
`CodesAndSecretsAreUsedUp`, `LaunchesOpenLastingSessions`).  The launches and the
sessions are sets whose elements are numbered, as the code's dicts are keyed; so
the trimming of a store is the removal of its least number, and its bound a fact
about cardinalities.  The inductive invariant has what the properties leave out:

* `ClockInv`: a thread's reading of the clock is at most `Delay` old.
* `AttemptsInv`: the attempts kept are the last of all failures, and those that
  were dropped had left the window when they were; without it nothing bounds the
  failures within a window by what `attempts` holds.
* `WindowInv`: an accepted nonce is in the window, too old or evicted.
* `LaunchInv`, `SessionInv`: a launch that opened a session is in the store no
  more, and a session that was lost is expired or has `MaxSessions` newer ones.

## Documents

### Modules

* `Documents` - `disk` is what other programs see and change; `elected`, `docs`
  (with the history that a trigger keeps), `index` and `members` are the tables;
  `job` is what the maintainer and the user interface are doing.  `List`, `Read`
  and `ReadFails` are `_snapshots_for_source` file by file, `Store`/`StoreFails` the
  transaction of `sync_elected_source`: what it finds at its path or moved, what
  is inserted and updated, what is stale, orphaned and pruned.
  `StartCycle`/`Release` are the cycle of the maintainer under
  `source_operation_lock`; `Authorize`, `Rescan` and `Revoke` the requests of the
  user.
* `DocumentsProperties`, `MCDocuments`, `DocumentsProofs`.

What a scan has still to look at is a set: the order of a directory's files is
not promised by the operating system.  A file is an identity (device and inode, used again after a removal), a text or
`Bad` (not UTF-8), and the moment it was written, which only properties look at.
A document's identifier is the path it was first seen at, of which the program
stores a hash.  Symbolic links and the limits of path checks are left out.

### Run

`documents`: a directory with two files and one of them elected on its own as
well, three changes of the disk, one restart, one kept revision.

* `TablesAgree`: types and unique keys; no document without an authorized
  source; the index has the present text; the newest revisions are kept without
  a gap.
* `SharedSurvives`: a source loses a document only to a scan of its own.
* `NeverGoesBack`: what is stored of a path is never replaced by something read
  earlier.
* `FollowedOrReported` (liveness): a source that stays authorized is, again and
  again, as the disk is or reported with an error.

Fairness: both threads go on with what they have begun (`WF`), and the
maintainer gets its turn (`SF` of `StartCycle`): its loop never ends and the
user does not hold the lock for ever, but may take it between any two cycles.
Three changes suffice to move a file, put another one at its old path and edit
one; the two sources overlap in one document, which is what memberships are for.

### Proved

The three safety properties, for any paths, sources, coverings, texts and bounds
(`TablesAlwaysAgree`, `SharedDocumentsSurvive`, `StoredFilesNeverGoBack`).
`TablesInv` makes `TablesAgree` inductive.  `NeverGoesBack` needs more: `DiskInv`
(no document is of a file newer than what is at its path, or was when it was
removed), `JobInv` (who works holds the lock) and `ReadInv`: what a thread has
read of a path is not older than what is stored of it.  The last one is kept by
another thread's transaction only because there is none while the lock is held.
The lemmas follow the transaction: insertion and update, stale memberships,
orphans (`CleanedUp`), and the pruning of revisions (`PrunedHistory`).
`FollowedOrReported` is liveness and stays with TLC.

## Derived state

### Modules

* `DerivedState` - the sources (`messages`, `project`, `documents`, `past`) and
  all projections.  `Inspect`, `RunCycle`, `InspectAfter`, `Fails` and `Restart`
  are the maintainer; `Units`, `Vectors`, `Mentions`, `Filings`, `Wordings`,
  `Temporal`, `Contradictions`, `Disputing` and `Verification` are the rebuilds
  of one cycle in their order, each from the sources and what the ones before
  it gave.  `Capture` and `MoveChat` happen between any two steps;
  `StoreDocument` and `RemoveDocument` only where the lock is free.
* `DerivedStateProperties`, `MCDerivedState`, `DerivedStateProofs`.

A text is one semantic unit that says at most one thing, and `FormOf`,
`EntitiesOf`, `Similar` and `Opposed` say what the extractors find in it and how
forms and texts compare.  Evidence is not always filed under the claim that its
text states: the deduplicator takes a candidate for a known claim that mentions
the same entities, has the same polarity and a vector with a cosine of 0.94 or
more.  `Filings` is the set of all outcomes of its loop: the known claims are
pairwise unlike, every other candidate is like one of them, and the evidence of
that candidate goes to one it is like.  The order of the units (their hashes)
and the better of two scores are left open, so a cycle may choose anew; the code
chooses the same for the same sources.

### Run

`derived_state`: two messages in two chats and two projects, one document, four
texts that say something (two wordings of one claim, a claim like it, its
opposite) and an empty one, three changes, one
failure (of an embedding, of a cycle, or a restart), and a statement of SQL that
takes two variables.

* `ProjectionsAgree`: types, foreign keys, all projections of one moment, and
  evidence filed under what it states or something like it, each claim stated by
  evidence of its own and no two claims alike.
* `VerdictsFollowThePresent`: corroboration by two independent sources whose
  evidence is filed under the claim and which are current; disputes between
  claims that have such evidence only.
* `ConvergedIsTrue`: what was there when a round began that reported convergence
  is found and has its vector.
* `Converges` (liveness): the projections come to follow the sources, if the
  evidence stays within the variables of one statement.

Fairness: the loop of the maintainer goes on (`WF` of its steps).  Changes and
failures are bounded, so a behaviour is one in which they pause in the end.

### Proved

The three invariants, for any messages, chats, projects, documents, texts and
extractors (`ProjectionsAlwaysAgree`, `VerdictsAreOfThePresent`,
`ConvergedRoundsAreComplete`).  Assumed is that identifiers of messages and
documents differ, for they carry their kind; that there is a project; that an
empty text says nothing; and that similarity and opposition are symmetric, as
a cosine is and as the code compares both ways.  `SourceInv` says of the sources that messages are numbered without
gaps and a document's former revisions have smaller numbers.  Most of the proof
is about one cycle: what each rebuild gives, from what the ones before it gave.
`RoundInv` carries `ConvergedIsTrue` over the three steps of a round: what was
there when it began is still a source when the cycle runs, has its unit
afterwards, and its vector if the cycle did not fail.  `Converges` is liveness
and stays with TLC.

## Runtime lifecycle and migrations

### Modules

* `Lifecycle` - runtime processes from their launch over lock, credential,
  database, port and state file to their end (`proc`), the commands of the
  manager step by step (`First`, `AfterStop` and `After` say which step is
  next), hooks that open the database, and
  the files they share.  `FindMissing` and `Script` are `apply_migrations`; the
  login of the user launches a runtime too.  Processes crash, fail to start,
  and their numbers come back as those of other programs (`Reuse`).
* `LifecycleProperties`, `MCLifecycle`, `LifecycleProofs`.

`mode` says who is there: a user who waits for each command to settle, several
managers at any time, or the first start over a new database beside a hook.  A
quiet user's command times out only when all processes have settled (`Timeout`):
the deadlines of the code are far longer than a start or a stop takes.

### Run

`lifecycle`: three processes, two managers, one hook, two migrations, one
failure (a crash, a failed start or an interrupted command) and one reused
process number; with `UnlinksOpenFiles = FALSE`, as on Windows.

* `SchemaGrowsOnce`: types; no script runs twice however many processes open a
  new database.
* `CommandsTellTheTruth`: for the quiet user, what serves is what the state file
  names, with the credential the commands use; and a command that reported
  success has had its effect.
* `OwnState`: a runtime that stops removes no living runtime's state file,
  although it removes whatever file is there.
* `Succeeds` (liveness): when nothing fails any more, start and install bring the
  runtime up from whatever was left behind.

Fairness: processes run and managers poll unless they die.

### Proved

For any number of processes, managers, hooks, migrations and failures:

* `MigrationsRunOnce` (`SchemaGrowsOnce`): a process that read the version before
  another one migrated is about to run a script that has run, which fails, or the
  next one (`SchemaInv`).
* `RuntimesRemoveTheirOwnState` (`OwnState`), from `ServeInv`: the state file
  names a process that served, and one process holds the lock.  Its hypothesis
  `~UnlinksOpenFiles` is a system on which open files cannot be removed; without
  it the property is false, as said below.
* `CommandsAreTruthful` (`CommandsTellTheTruth`): for the quiet user, `SingleInv`
  (at most one process beside those that still start and will find the lock taken),
  `StepInv` (for each step of a command, what it has made sure of: that all have
  settled, that the process it waits for is the only one, that none is alive) and
  `OutcomeInv` (what the last success reported is still so).  One lemma per group
  of steps says which of these it may assume and must restore.

`Succeeds` is liveness and stays with TLC.

## Integrations

### Modules

* `Integrations` - the hook files of Codex (one of the user and those of
  registered workspaces), the settings of Claude Code, and `permissions.json`.
  `Start` is the discovery, `Plan` examines a target, `Write`/`WriteFails`
  replace targets, `RollBack` puts them back, `EndBatch`, `FailBatch` and
  `Unlink` end an installation or an uninstallation.  `InstallRecords` and
  `LibraryToggles` read the permission file in two processes, `WriteTemporary`
  and `Replace` write it.  `Edit` is another program, `InstallerCrashes` the end
  of the installer.  The specification is `SharedSpec`.
* `IntegrationsProperties`, `MCIntegrations`; proofs in `LifecycleProofs`.

A file is what each event runs, in order; `Ambiguous` is a hook that resembles
the own one and belongs to nobody for certain.  Targets are reconciled in the
order of their paths, which the constant `Codex` gives: the file of the user may
stand anywhere among those of the workspaces.  How hooks are grouped, and a
rollback that fails itself, are left out; the two reads of one file
(`codex_integration.py:105-109`, one for its bytes and one for its hooks) are one
step of `Plan`.

Two history variables are about permissions: `asked` is the last request for
each host (an installation asks for it to be on when it records its permission),
`overlapped` has the hosts for which, at that request or after it, a change began
while another process had read the file and not yet replaced it.

### Runs

`integrations`: one workspace, whose path comes first, the file of the user and
the settings, each of them absent, broken, empty, foreign, own or ambiguous at
the start; two commands and two disturbances (an edit, a failed write, a crash
or a switch).

* `FilesKept`: types; the hooks of others stay, in their order, in every file
  nobody edited between a command's reading and its writing.
* `BatchesAreWhole`: a batch that fails leaves every registration as it was; one
  that succeeds leaves the own hook once per event, or not at all.
* `AmbiguousUntouched`: a file with an ambiguous hook is never written.
* `NeverEnabledUnasked`: capture is enabled for a host only when somebody has
  asked for it to be on, whatever two writers of one temporary file do to each
  other; and unless two changes overlapped at its last request or after it, only
  when that request was to switch it on.  What a lost update leaves behind is
  so undone by the next request for the host that nothing overtakes.  The lost
  update itself is the code's, see *Lost permission* below.

### Proved

For any workspaces, events, hooks, initial files and numbers of commands and
disturbances; `IntegrationsAssumption` says that each file of Codex has one
place in the order of paths (`codex_workspace.py:142` skips the user's file among
the workspaces and keeps one target per canonical path), that the settings of Claude Code are another file,
and that own, ambiguous and foreign hooks are told apart.

* *What filtering does.* `Keep` is a recursive function over a sequence, and the
  proofs need what it does to every sequence: it keeps order and types, two
  reductions commute (`KeepCommutes`), and a removal of foreign hooks takes away
  no own one (`KeepCounts`).  The induction theorems of the library take an
  operator and cannot be used; `LeastNumber` gets the least element of a set of
  numbers from the well-foundedness of their order, and `ByAppending` from it
  induction over sequences, for a set `G` in place of an operator: each law is
  the membership of all sequences in the set of those that obey it.
* *Operators on files.* `DesiredLaws`, `RemovalLaws`, `AdditionLaws`: what a
  reconciliation or an edit makes of a file has the hooks of others that it
  should have, and the own registrations that it should have.
* `SharedInvariant`: none of `FilesKept` and `BatchesAreWhole` is inductive.
  `BatchInv` (no file is in two batches, or twice in one), `ProgressInv` (what
  each stage has behind it), `PlannedInv` (the first `written` planned files are
  as planned, the others as they were read, and those had the registrations that
  the command found), `PendingInv` (files to come are registered as found) and
  `FileInv` make them so.  `TurnKeeps` is the step that both a writing and its
  undoing take.
* `SharedFilesAreKept` (`FilesKept`), `BatchesEndAsAWhole` (`BatchesAreWhole`) and
  `AmbiguousFilesAreLeft` (`AmbiguousUntouched`, an action property) follow.
* `NothingEnabledUnasked` (`NeverEnabledUnasked`) has two parts.  `PermissionInv`:
  the file, the one beside it and what each process has read enable only hosts
  that were asked for, so that it does not matter whose copy is put in place.
  `AloneInv`: for each host whose last request and all since were not overtaken,
  only one process has a copy, that copy is up to date with the request, and so is
  the file when the Library is not about to replace it.

## Library reads

### Modules

* `LibraryReads` - the query service behind the MCP server of a frontier client
  and behind the managed reader.  A request goes through its authorization
  (`Require`, `ItemProject`, `Authorize`, `ReadAuthority`) and then one statement
  after the other: `SearchIndex`, `RankLexical`, `Rank`, `ReadItem` for a search,
  `GetEvidence`, `GetSource`, `Recent`.  `Fused` is `RRFFuser.fuse`, with scores
  as fractions, and `Reranked` the cut.  `Write`, `Move`, `Revoke`, `Rebuild`,
  `SetMode` and `LoseAuthority` happen between any two of these.
* `LibraryReadsProperties`, `MCLibraryReads`, `LibraryReadsProofs`.

A message stands for a chat with that message.  What a query matches is
`Matching`, and the order of texts is that of their similarity; so tokens and
vectors are left out.  `Sorted` puts each element where the number of those
before it says, for an order without ties, which the code's sort keys all are.
That a search considers no more candidates than the vector retriever returns
(`MaxCandidates <= MaxVector`) is so because the reranker is built with fifty
(`reranker.py:22`) and the retriever returns a hundred (`vector.py:16`).  The list
of projects is not modelled.

### Run

`library_reads`: two messages and a document in two projects, three texts, limits
so small that each of them is reached, two changes during or between requests.
Both callers search and list with the limits 0, 1 and one above the maximum, in
any project, in one that the Library does not have (`Unknown`), and the frontier
client in all of them.

* `AnswersKeepScope`: limits; a read for one project returns what was in that
  project at some moment since the request.
* `AnsweredUnderMode`: nothing is read unless mode and authority allowed it at
  some moment since the request.
* `RankedByBoth`: candidates are all that either retriever found, once, and what
  both prefer comes first.
* `QuietReadsAreComplete`: when nothing changes meanwhile, an answer misses
  nothing up to its limits, a search but for what evidence of other projects
  pushed out of its candidates (one for one, `FoundAll`); and a request that was
  allowed all the time is refused only when what it names is not there
  (`NothingToFind`).

### Proved

All four, for any sources, projects, texts, limits and rank constant:

* `AnswersWereAllowed` (`AnsweredUnderMode`): `Noted` (what is allowed now is in
  the history of the request) and `PassedTheGate` (a request past the gate found
  there what lets it pass).
* `AnswersStayInScope` (`AnswersKeepScope`): whatever a request carries from one
  statement to the next, index rows, rankings and items, was seen with its text
  and in its project since the request came (`RankInv`, `ItemsInv`), though not
  all of it at one moment.
* `FusionFollowsBoth` (`RankedByBoth`): for any two rankings.  The scores are
  compared as fractions, `FractionsAreOrdered` and `SumsOfReciprocals` are about
  their products; `PreferredIsOrder` gives an order without ties, and `SortedInOrder`
  that the sequence is an ordered permutation.  That one needs no induction over
  the sequence: ranks are cardinalities, so they differ and fill `1..n`.
* `QuietReadsFindAll` (`QuietReadsAreComplete`): a counting argument.  While
  nothing changes, what was shown and what is still to be looked at are together
  what is wanted, or all that the evidence of other projects leaves room for
  (`ToLookAt`, `Enough`), and every statement moves one candidate.  For refusals,
  `OpenGateLetsPass` says that a gate which stood open denies nobody, and
  `RefusalInv` what each step has looked for in vain.

## Known disagreements

`disabled_denies_context` is kept as a run.  The following were met while
modelling; each is a behaviour of the models, for which the properties above
leave room where they say so.

* *Revocation.* An activation whose lease was verified before the user revoked
  the pairing is installed afterwards (`application.py:281`), while
  `MANAGED_LIBRARY.md:36` says "Revocation closes managed access".
* *Expired lease.* `next()` requires its capability once and hands out a prompt
  up to three seconds later (`broker.py:119`), also after the lease expired.
* *Temporary route.* An answer that is complete before its new chat has a
  reference is filed under the temporary route for good (`capture.js:220`).
* *Answer stored twice.* An answer captured on a project home is stored again
  when the page of its chat is loaded anew: its dedupe key holds the provisional
  reference (`message_writer.py:28`).
* *Two chats.* A page that makes a chat for the stable reference before the
  rebinding arrives leaves the conversation in two chats (`repository.py:70`);
  `tests/test_history.py:133` takes this for right.
* *Moved file.* A document keeps the identifier of its first path; when its file
  moves and a new file appears at the old path, the insertion meets the primary
  key in every cycle and the source is not followed any more, though its error
  is reported (`document_registry.py:338`).
* *Wording of a claim.* A claim keeps the wording of the source that stated it
  first after that source was revoked, as long as another one states it
  (`claims/repository.py:80`); `PRIVACY.md:33` says that revoking a source
  "reconciles derived rows away".
* *Similar but opposed.* Two statements that differ in a value alone can have
  vectors similar enough to be filed under one claim (`deduplicator.py:44`), so
  they corroborate each other and are never in dispute; and as similarity is not
  transitive, what a statement is filed under depends on the order of hashes.
* *Evidence beyond one statement.* A DELETE names every piece of evidence as a
  variable; beyond SQLite's limit every cycle fails (`claims/repository.py:214`).
* *Lost permission.* The installer has read the permissions and is about to enable
  a host, the Library switches it off, both write the one temporary file, and the
  installer's copy is put in place (`permissions.py:97`): the host is on, although
  nobody is changing anything any more and the last request was to switch it off,
  while `PRIVACY.md:27` says "Disabling an integration stops future capture for that
  integration."  Without `h \notin overlapped`, TLC refutes `NeverEnabledUnasked`
  with one command and one switch.
* *Raced hook file.* An edit between the reading and the writing of a hook file
  is overwritten (`codex_integration.py:162`).
* *Unlinked lock.* Where open files can be removed, an uninstallation beside a
  starting runtime removes the lock file it holds, and the next runtime locks a
  new one (`lifecycle.py:503`): with `UnlinksOpenFiles = TRUE`, TLC refutes
  `OwnState`.
* *Lost state file.* With two managers at once, `stop()` can remove the state
  file of the runtime that the other one has started (`lifecycle.py:340`).
* *Moved during a search.* Evidence of a chat that was moved and rebuilt between
  its ranking and its reading is returned with its new project
  (`query_service.py:131`); `tests/test_memory_access.py:107` expects the project
  of the search.
* *Cuts before filters.* A search keeps fifty candidates before it compares their
  project (`reranker.py:34`), and the list of projects keeps eight before the
  scope of the manager (`reader.py:139`): what is in the project can be missed.
* *Fixed gate.* An MCP server launched with a mode, and without a mode file,
  keeps it whatever is selected later (`mcp/server.py:174`).

## What is proved, and what is only checked

| module | theorems about runs' properties |
|---|---|
| `ManagedAccessProofs` | `TypeOK`, `NoStrandedHook`, `LeaseActivatedOnce`, `DeadCapabilityStaysDead`, `BoundDelivery`, `ImplementsExchange` |
| `ChatHistoryProofs` | `HistoryTypeOK`, `OneChatPerReference`, `IndexMatchesHistory` |
| `ChatCaptureProofs` | `PromptStoredOnce`, `IndexFollowsProject`, `DeliveriesInOrder`, `FiledUnderItsConversation` (`Unhurried`), `AnswerStoredOnce` (`OneVisit`); `Spec => HistorySpec` |
| `LocalAuthProofs` | `StoresBounded`, `NonceOncePerWindow`, `UsedUpStaysUsedUp`, `LaunchesBecomeSessions` |
| `DocumentsProofs` | `TablesAgree`, `SharedSurvives`, `NeverGoesBack` |
| `DerivedStateProofs` | `ProjectionsAgree`, `VerdictsFollowThePresent`, `ConvergedIsTrue` |
| `LifecycleProofs` | `SchemaGrowsOnce`, `OwnState` (where open files stay), `CommandsTellTheTruth`; `FilesKept`, `BatchesAreWhole`, `AmbiguousUntouched`, `NeverEnabledUnasked` |
| `LibraryReadsProofs` | `AnswersKeepScope`, `AnsweredUnderMode`, `RankedByBoth`, `QuietReadsAreComplete` |

Each holds for all values of the constants that satisfy the named assumption of
its module (`GrantAssumption`, `HistoryAssumption`, `LocalAuthAssumption` and the
like), which TLC evaluates in every run of it.  Each rests on an inductive
invariant, stated as a conjunction of named parts; they were checked by TLC on
the instances above before they were proved.

Every invariant and every action property of a passing run is so proved.  Only
model-checked are the liveness properties (`EveryHookReturns`,
`SubmissionReachesItsChat`, `FollowedOrReported`, `Converges`, `Succeeds`): the
provers handle neither fairness nor `ENABLED`.  Three theorems have a
hypothesis beside the named assumption, and the runs that check their properties
satisfy it: `ConversationsStayApart` needs `Unhurried` (no `leave`, `hurry` or
`linger`) and `AnswersAreStoredOnce` needs `OneVisit` (one page, no `reload`), as
in `capture_homes`, and `OwnState` needs a system on which open files stay, as in
`lifecycle`.  Without them the code does not keep these properties, as said
with the table of habits and under *Known disagreements*.

## Not modelled

Text processing (tokenisation, extraction rules, embeddings), titles and display
names, the syntax of messages, hook payloads and command lines, the wrappers of
operating systems' key stores and login entries, pages, release tooling and the
quality benchmark: they keep no state that a property is about, or are
functions better tested than checked.

## Plan

1. (done) managed access: model, properties, refinement checked, five theorems.
2. (done) chat ingestion, and the browser capture composed with it.
3. (done) local authentication.
4. (done) documents and source maintenance.
5. (done) derived state: convergence of the maintainer, rules of the rebuild.
6. (done) lifecycle and migrations, shared files, Library reads and their gate.
7. (done) proofs of all safety properties, and that `ManagedAccess` implements
   `ContextExchange` and `ChatCapture` the history.
8. Then: host hooks with their permission check beside `Integrations`, a
   rollback that fails, the list of projects.
