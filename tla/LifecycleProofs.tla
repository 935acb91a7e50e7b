-------------------------- MODULE LifecycleProofs --------------------------
(***************************************************************************)
(* Proofs about the commands of the manager: about Lifecycle, for any      *)
(* number of processes, managers and migrations, and, in the second part,  *)
(* about Integrations, for any workspaces, events, hooks and initial files.*)
(***************************************************************************)
EXTENDS LifecycleProperties, IntegrationsProperties, WellFoundedInduction, TLAPS

Phase == Owning \cup {"none", "launched", "dead"}
StopStep == {"read", "request", "await", "clear"}
RunStep == {"configure", "look", "launch", "wait", "open", "register", "rotate"}

Steps == StopStep \cup RunStep \cup {"erase", "none"}

\* A manager's step belongs to its command.
Fits(command, step) ==
    /\ step \in RunStep => command \in Running
    /\ step \in StopStep => command \in {"stop", "restart", "update", "rotate", "uninstall"}
    /\ step = "erase" => command = "uninstall"

ProcTypes ==
    proc \in [Pid -> [at : Phase, token : Nat, stop : BOOLEAN, unlinked : BOOLEAN,
                      script : 0 .. Migrations]]

ManagerTypes ==
    /\ manager \in [Manager -> [command : Command \cup {"none"}, step : Steps, pid : Pid \cup {None}]]
    /\ \A m \in Manager : Fits(manager[m].command, manager[m].step)

HookTypes == hook \in [Hook -> [at : {"none", "opening", "done"}, script : 0 .. Migrations]]

FileTypes ==
    /\ mode \in {"quiet", "crowd", "fresh"}
    /\ state \in Pid \cup {None}
    /\ token \in Nat /\ minted \in Nat /\ issued \in Nat /\ failures \in Nat
    /\ config \in BOOLEAN /\ startup \in BOOLEAN
    /\ reused \subseteq Pid
    /\ schema \in 0 .. Migrations

TypesInv == ProcTypes /\ ManagerTypes /\ HookTypes /\ FileTypes

\* A script that a process is about to run is the next one or one that has run.
SchemaInv ==
    /\ ran \in [1 .. Migrations -> Nat]
    /\ \A v \in 1 .. Migrations : ran[v] = IF v <= schema THEN 1 ELSE 0
    /\ \A p \in Pid : proc[p].script <= schema + 1
    /\ \A h \in Hook : hook[h].script <= schema + 1

\* A process that got as far as its credential has one, the state file names a
\* process that served, and one process holds the lock.
ServeInv ==
    /\ \A p \in Pid : proc[p].at \in {"keyed", "opened", "bound", "serving"} => proc[p].token # None
    /\ state # None => proc[state].at \in {"serving", "closed", "cleared", "dead"}
    /\ \A p, q \in Pid : Holds(p) /\ Holds(q) => p = q
    /\ ~UnlinksOpenFiles => \A p \in Pid : ~proc[p].unlinked

-----------------------------------------------------------------------------
\* Types.

\* What the commands do next.
LEMMA Following ==
    ASSUME NEW c \in Command
    PROVE  /\ First(c) \in {"configure", "look", "read"} /\ Fits(c, First(c))
           /\ AfterStop(c) \in {"look", "register", "rotate", "erase", "end"}
           /\ c \in {"restart", "update", "rotate"} => AfterStop(c) \in RunStep
           /\ c = "uninstall" => AfterStop(c) = "erase"
           /\ c = "stop" => AfterStop(c) = "end"
           /\ \A s \in {"read", "clear"} : After(c, s) = AfterStop(c)
           /\ \A s \in {"configure", "register", "rotate"} : After(c, s) = "look"
           /\ \A s \in {"look", "wait"} : After(c, s) = IF c = "open" THEN "open" ELSE "end"
           /\ \A s \in {"open", "erase"} : After(c, s) = "end"
BY DEF Command, First, AfterStop, After, Fits, Running, RunStep, StopStep

LEMMA EndTypes ==
    ASSUME ManagerTypes, NEW m \in Manager, NEW r, End(m, r)
    PROVE  ManagerTypes'
BY DEF ManagerTypes, End, Idle, Fits, Steps, RunStep, StopStep

LEMMA ContinueTypes ==
    ASSUME ManagerTypes, NEW m \in Manager, NEW s \in Steps, Fits(manager[m].command, s), Continue(m, s)
    PROVE  ManagerTypes'
BY DEF ManagerTypes, Continue, Fits

LEMMA ProceedTypes ==
    ASSUME ManagerTypes, NEW m \in Manager, ~Free(m), Proceed(m),
           manager[m].step \notin {"request", "await", "launch"}
    PROVE  ManagerTypes'
<1> DEFINE c == manager[m].command
           s == manager[m].step
<1>1. s \in Steps \ {"none", "request", "await", "launch"} /\ Fits(c, s)
  BY DEF ManagerTypes, Free, At
<1>2. c \in Command
  BY <1>1 DEF ManagerTypes, Fits, Steps, RunStep, StopStep, Running, Command
<1>3. After(c, s) = "end" \/ (After(c, s) \in Steps /\ Fits(c, After(c, s)))
  <2>1. CASE s \in {"read", "clear"}
    BY <1>1, <1>2, <2>1, Following DEF Fits, Steps, RunStep, StopStep, Running
  <2>2. CASE s \in {"configure", "register", "rotate", "look", "wait", "open", "erase"}
    BY <1>1, <1>2, <2>2, Following DEF Fits, Steps, RunStep, StopStep, Running
  <2>3. QED
    BY <1>1, <2>1, <2>2 DEF Steps, RunStep, StopStep
<1>4. QED
  BY <1>3, EndTypes, ContinueTypes DEF Proceed

LEMMA StepTypes ==
    ASSUME TypesInv, NEW m \in Manager, Step(m)
    PROVE  ManagerTypes'
<1> USE DEF TypesInv
<1>1. CASE \/ Look(m) \/ WaitForRunning(m) \/ (ReadState(m) /\ state = None) \/ ClearState(m)
           \/ RotateCredential(m) \/ Register(m) \/ Configure(m) \/ OpenLibrary(m)
  <2>1. ~Free(m) /\ manager[m].step \notin {"request", "await", "launch"}
    BY <1>1 DEF Look, WaitForRunning, ReadState, ClearState, RotateCredential, Register,
                Configure, OpenLibrary, At, Free
  <2>2. CASE Look(m) /\ Continue(m, "launch")
    BY <2>2, ContinueTypes DEF Look, At, ManagerTypes, Fits, Steps, RunStep, StopStep
  <2>3. Proceed(m) \/ End(m, "error") \/ (Look(m) /\ Continue(m, "launch"))
    BY <1>1 DEF Look, WaitForRunning, ReadState, ClearState, RotateCredential, Register,
                Configure, OpenLibrary
  <2>4. QED
    BY <2>1, <2>2, <2>3, ProceedTypes, EndTypes
<1>2. CASE Launch(m)
  BY <1>2, ContinueTypes DEF Launch, At, ManagerTypes, Fits, Steps, RunStep, StopStep
<1>3. CASE ReadState(m) /\ state # None
  <2>1. manager' = [manager EXCEPT ![m].pid = state, ![m].step = "request"] /\ At(m, "read")
    BY <1>3 DEF ReadState
  <2>2. QED
    BY <2>1 DEF ManagerTypes, FileTypes, At, Fits, Steps, RunStep, StopStep
<1>4. CASE RequestStop(m)
  <2>1. At(m, "request") /\ (Continue(m, "await") \/ Continue(m, "clear") \/ End(m, "error"))
    BY <1>4 DEF RequestStop
  <2>2. \A s \in {"await", "clear"} : s \in Steps /\ Fits(manager[m].command, s)
    BY <2>1 DEF At, ManagerTypes, Fits, Steps, RunStep, StopStep
  <2>3. QED
    BY <2>1, <2>2, ContinueTypes, EndTypes
<1>5. CASE AwaitExit(m)
  BY <1>5, ContinueTypes DEF AwaitExit, At, ManagerTypes, Fits, Steps, RunStep, StopStep
<1>6. CASE Timeout(m)
  BY <1>6, EndTypes DEF Timeout
<1>7. CASE Erase(m)
  <2>1. ~Free(m) /\ manager[m].step \notin {"request", "await", "launch"}
    BY <1>7 DEF Erase, At, Free
  <2>2. QED
    BY <1>7, <2>1, ProceedTypes, EndTypes DEF Erase
<1>8. CASE ReadState(m)
  BY <1>1, <1>3, <1>8
<1>9. QED
  BY <1>1, <1>2, <1>4, <1>5, <1>6, <1>7, <1>8, Zenon DEF Step

LEMMA IssueTypes ==
    ASSUME ManagerTypes, NEW m \in Manager, NEW c \in Command, Issue(m, c)
    PROVE  ManagerTypes'
<1>1. manager' = [manager EXCEPT ![m] = [Idle EXCEPT !.command = c, !.step = First(c)]]
  BY DEF Issue
<1>2. First(c) \in Steps /\ Fits(c, First(c))
  BY Following DEF Steps, RunStep, StopStep
<1>3. QED
  BY <1>1, <1>2 DEF ManagerTypes, Idle

\* Whatever happens, managers do steps of their commands.
LEMMA ManagerSteps ==
    ASSUME TypesInv, [Next]_vars
    PROVE  ManagerTypes'
<1>1. ASSUME UNCHANGED manager PROVE ManagerTypes'
  BY <1>1 DEF TypesInv, ManagerTypes
<1>2. CASE UNCHANGED vars
  BY <1>1, <1>2 DEF vars
<1>3. ASSUME NEW p \in Pid, Runtime(p) \/ Fault(p) PROVE UNCHANGED manager
  BY <1>3 DEF Runtime, Acquire, LoadToken, FindMissing, ApplyMissing, Bind, WriteState, Close,
     RemoveState, Exit, Same, Fault
<1>4. ASSUME NEW h \in Hook, HookStep(h) PROVE UNCHANGED manager
  BY <1>4 DEF HookStep
<1>5. ASSUME NEW m \in Manager, Interrupt(m) PROVE ManagerTypes'
  BY <1>5, EndTypes DEF Interrupt, TypesInv
<1>6. CASE Login \/ Reuse
  BY <1>1, <1>6 DEF Login, Reuse
<1>7. ASSUME NEW m \in Manager, NEW c \in Command, Issue(m, c) PROVE ManagerTypes'
  BY <1>7, IssueTypes DEF TypesInv
<1>8. QED
  BY <1>1, <1>2, <1>3, <1>4, <1>5, <1>6, <1>7, StepTypes DEF Next

-----------------------------------------------------------------------------
\* Processes, files and schema.

BaseInv == ProcTypes /\ HookTypes /\ FileTypes /\ SchemaInv /\ ServeInv

\* Every step is one of five for the processes, the files and the schema.
FileStep ==
    /\ UNCHANGED <<mode, proc, hook, schema, ran>>
    /\ state' \in {None, state}

SpawnStep == Spawn /\ UNCHANGED <<mode, hook, state, schema, ran>>

AskStep ==
    /\ UNCHANGED <<mode, hook, fileVars, schema, ran>>
    /\ proc' = [p \in Pid |-> IF Healthy(p) THEN [proc[p] EXCEPT !.stop = TRUE] ELSE proc[p]]

EraseStep ==
    /\ UNCHANGED <<mode, hook, schema, ran>>
    /\ state' = None
    /\ UnlinksOpenFiles \/ \A p \in Pid : proc[p].at \notin Owning
    /\ proc' = [p \in Pid |-> [proc[p] EXCEPT !.unlinked = @ \/ proc[p].at \in Owning]]

LEMMA BaseSteps ==
    ASSUME FileTypes, [Next]_vars
    PROVE  FileStep \/ SpawnStep \/ AskStep \/ EraseStep
           \/ (\E p \in Pid : Runtime(p) \/ Fault(p)) \/ (\E h \in Hook : HookStep(h))
<1> USE DEF fileVars
<1>1. CASE UNCHANGED vars
  BY <1>1 DEF vars, FileStep
<1>2. ASSUME NEW m \in Manager, Step(m) PROVE FileStep \/ SpawnStep \/ AskStep \/ EraseStep
  <2>0. UNCHANGED <<mode, hook, schema, ran, reused, issued, failures>>
    BY <1>2 DEF Step
  <2>1. CASE Look(m) \/ WaitForRunning(m) \/ ReadState(m) \/ AwaitExit(m) \/ Timeout(m)
             \/ OpenLibrary(m)
    BY <2>0, <2>1 DEF Look, WaitForRunning, ReadState, AwaitExit, Timeout, OpenLibrary, FileStep
  <2>2. CASE ClearState(m) \/ RotateCredential(m) \/ Register(m) \/ Configure(m)
    BY <2>0, <2>2 DEF ClearState, RotateCredential, Register, Configure, FileStep
  <2>3. CASE Launch(m)
    BY <2>0, <2>3 DEF Launch, SpawnStep
  <2>4. CASE RequestStop(m)
    BY <2>0, <2>4, Zenon DEF RequestStop, AskStep, FileStep
  <2>5. CASE Erase(m)
    BY <2>0, <2>5, Zenon DEF Erase, EraseStep, FileStep
  <2>6. QED
    BY <1>2, <2>1, <2>2, <2>3, <2>4, <2>5 DEF Step
<1>3. ASSUME NEW m \in Manager, Interrupt(m) \/ \E c \in Command : Issue(m, c) PROVE FileStep
  BY <1>3 DEF Interrupt, Issue, Begins, FileStep
<1>4. CASE Login
  BY <1>4 DEF Login, Begins, SpawnStep
<1>5. CASE Reuse
  BY <1>5 DEF Reuse, FileStep
<1>6. QED
  BY <1>1, <1>2, <1>3, <1>4, <1>5 DEF Next

LEMMA FileStepBase == ASSUME BaseInv, FileTypes', FileStep PROVE BaseInv'
BY DEF BaseInv, ProcTypes, HookTypes, SchemaInv, ServeInv, Holds, FileStep

LEMMA SpawnStepBase ==
    ASSUME BaseInv, FileTypes', SpawnStep
    PROVE  BaseInv'
<1>1. PICK p \in Pid : proc[p].at = "none" /\ proc' = [proc EXCEPT ![p].at = "launched"]
  BY DEF SpawnStep, Spawn
<1>2. ProcTypes'
  BY <1>1 DEF BaseInv, ProcTypes, Phase
<1>3. /\ proc'[p].at = "launched" /\ proc'[p].script = proc[p].script
      /\ proc'[p].unlinked = proc[p].unlinked
      /\ \A q \in Pid : q # p => proc'[q] = proc[q]
  BY <1>1 DEF BaseInv, ProcTypes
<1>4. HookTypes' /\ SchemaInv'
  BY <1>3 DEF BaseInv, HookTypes, SchemaInv, SpawnStep
<1>5. \A q \in Pid : Holds(q)' => Holds(q)
  BY <1>3 DEF Holds, Owning
<1>6. ServeInv'
  BY <1>1, <1>3, <1>5 DEF BaseInv, ServeInv, SpawnStep, FileTypes
<1>7. QED
  BY <1>2, <1>4, <1>6 DEF BaseInv

LEMMA AskStepBase ==
    ASSUME BaseInv, FileTypes', AskStep
    PROVE  BaseInv'
<1>1. ProcTypes'
  BY DEF BaseInv, ProcTypes, AskStep
<1>2. \A p \in Pid : /\ proc'[p].at = proc[p].at /\ proc'[p].token = proc[p].token
                     /\ proc'[p].unlinked = proc[p].unlinked /\ proc'[p].script = proc[p].script
  BY DEF BaseInv, ProcTypes, AskStep
<1>3. HookTypes' /\ SchemaInv'
  BY <1>2 DEF BaseInv, HookTypes, SchemaInv, AskStep
<1>4. ServeInv'
  BY <1>2 DEF BaseInv, ServeInv, Holds, AskStep, fileVars, FileTypes
<1>5. QED
  BY <1>1, <1>3, <1>4 DEF BaseInv

LEMMA EraseStepBase ==
    ASSUME BaseInv, FileTypes', EraseStep
    PROVE  BaseInv'
<1>1. ProcTypes'
  BY DEF BaseInv, ProcTypes, EraseStep
<1>2. \A p \in Pid : /\ proc'[p].at = proc[p].at /\ proc'[p].token = proc[p].token
                     /\ proc'[p].unlinked = (proc[p].unlinked \/ proc[p].at \in Owning)
                     /\ proc'[p].script = proc[p].script
  BY DEF BaseInv, ProcTypes, EraseStep
<1>3. HookTypes' /\ SchemaInv'
  BY <1>2 DEF BaseInv, HookTypes, SchemaInv, EraseStep
<1>4. ServeInv'
  <2>1. \A p \in Pid : Holds(p)' => Holds(p)
    BY <1>2 DEF Holds
  <2>2. /\ \A p \in Pid : proc'[p].at \in {"keyed", "opened", "bound", "serving"} => proc'[p].token # None
        /\ \A p, q \in Pid : Holds(p)' /\ Holds(q)' => p = q
    BY <1>2, <2>1 DEF BaseInv, ServeInv
  <2>3. state' # None => proc'[state'].at \in {"serving", "closed", "cleared", "dead"}
    BY DEF EraseStep
  <2>4. ~UnlinksOpenFiles => \A p \in Pid : ~proc'[p].unlinked
    BY <1>2 DEF BaseInv, ServeInv, EraseStep
  <2>5. QED
    BY <2>2, <2>3, <2>4 DEF ServeInv
<1>5. QED
  BY <1>1, <1>3, <1>4 DEF BaseInv

\* A step of process p, in terms of its fields.
Only(p) == \A q \in Pid : q # p => proc'[q] = proc[q]

\* Script v was the next one or has run.
LEMMA ScriptSteps ==
    ASSUME SchemaInv, FileTypes, NEW v \in 1 .. Migrations, v <= schema + 1, Script(v)
    PROVE  /\ schema' \in schema .. Migrations
           /\ ran' \in [1 .. Migrations -> Nat]
           /\ \A w \in 1 .. Migrations : ran'[w] = IF w <= schema' THEN 1 ELSE 0
<1>0. schema \in Nat /\ Migrations \in Nat /\ v \in Nat /\ schema <= Migrations
  BY LifecycleAssumption DEF FileTypes
<1>1. CASE Clashes(v)
  BY <1>0, <1>1 DEF Script, SchemaInv
<1>2. CASE ~Clashes(v)
  <2>1. v = schema + 1 /\ schema' = v /\ ran' = [ran EXCEPT ![v] = @ + 1]
    BY <1>0, <1>2 DEF Script, Clashes
  <2>2. ran[v] = 0
    BY <1>0, <2>1 DEF SchemaInv
  <2>3. ran' \in [1 .. Migrations -> Nat]
    BY <2>1 DEF SchemaInv
  <2>4. \A w \in 1 .. Migrations : ran'[w] = IF w = v THEN 1 ELSE ran[w]
    BY <2>1, <2>2 DEF SchemaInv
  <2>5. QED
    BY <1>0, <2>1, <2>3, <2>4 DEF SchemaInv
<1>3. QED
  BY <1>1, <1>2

LEMMA HookStepBase ==
    ASSUME BaseInv, FileTypes', NEW h \in Hook, HookStep(h)
    PROVE  BaseInv'
<1>0. UNCHANGED <<mode, proc, fileVars>> /\ schema \in Nat /\ Migrations \in Nat
  BY LifecycleAssumption DEF HookStep, BaseInv, FileTypes
<1>1. ProcTypes' /\ ServeInv'
  BY <1>0 DEF BaseInv, ProcTypes, ServeInv, Holds, fileVars
<1>2. CASE HookStart(h)
  <2>1. HookTypes' /\ \A g \in Hook : hook'[g].script = hook[g].script
    BY <1>2 DEF HookStart, BaseInv, HookTypes
  <2>2. SchemaInv'
    BY <1>0, <1>2, <2>1 DEF BaseInv, SchemaInv, HookStart
  <2>3. QED
    BY <1>1, <2>1, <2>2 DEF BaseInv
<1>3. CASE HookFindMissing(h)
  <2>1. HookTypes' /\ \A g \in Hook : hook'[g].script \in {hook[g].script, 0, schema + 1}
    BY <1>0, <1>3 DEF HookFindMissing, BaseInv, HookTypes, FileTypes
  <2>2. SchemaInv'
    BY <1>0, <1>3, <2>1 DEF BaseInv, SchemaInv, HookFindMissing
  <2>3. QED
    BY <1>1, <2>1, <2>2 DEF BaseInv
<1>4. CASE HookApplyMissing(h)
  <2>1. HookTypes' /\ \A g \in Hook : hook'[g].script \in {hook[g].script, 0}
    BY <1>0, <1>4 DEF HookApplyMissing, BaseInv, HookTypes
  <2>2. hook[h].script \in 1 .. Migrations /\ hook[h].script <= schema + 1
    BY <1>0, <1>4 DEF HookApplyMissing, BaseInv, HookTypes, SchemaInv
  <2>3. /\ schema' \in schema .. Migrations
        /\ ran' \in [1 .. Migrations -> Nat]
        /\ \A w \in 1 .. Migrations : ran'[w] = IF w <= schema' THEN 1 ELSE 0
    BY <1>4, <2>2, ScriptSteps DEF HookApplyMissing, BaseInv
  <2>4. \A p \in Pid : proc[p].script \in Nat /\ proc'[p] = proc[p]
    BY <1>0 DEF BaseInv, ProcTypes
  <2>5. \A g \in Hook : hook[g].script \in Nat
    BY <1>0 DEF BaseInv, HookTypes
  <2>6. schema <= schema' /\ schema' \in Nat
    BY <1>0, <2>3
  <2>7. \A g \in Hook : hook'[g].script <= schema' + 1
    BY <1>0, <2>1, <2>5, <2>6 DEF BaseInv, SchemaInv
  <2>8. \A p \in Pid : proc'[p].script <= schema' + 1
    BY <1>0, <2>4, <2>6 DEF BaseInv, SchemaInv
  <2>9. SchemaInv'
    BY <2>3, <2>7, <2>8 DEF SchemaInv
  <2>10. QED
    BY <1>1, <2>1, <2>9 DEF BaseInv
<1>5. QED
  BY <1>2, <1>3, <1>4 DEF HookStep
\* What a step of the runtime makes of its own record.
LEMMA RuntimeSteps ==
    ASSUME BaseInv, NEW p \in Pid, Runtime(p)
    PROVE  /\ Only(p) /\ ProcTypes' /\ UNCHANGED <<mode, hook>>
           /\ proc'[p].unlinked = proc[p].unlinked /\ proc'[p].stop = proc[p].stop
           /\ \/ /\ proc[p].at = "launched" /\ config /\ LockIsFree
                 /\ proc'[p].at = "locked"
                 /\ UNCHANGED <<state, token>>
              \/ /\ proc[p].at = "launched" /\ (~config \/ ~LockIsFree)
                 /\ proc'[p].at = "dead"
                 /\ UNCHANGED <<state, token>>
              \/ /\ proc[p].at = "locked" /\ proc'[p].at = "keyed"
                 /\ token' = Keyed /\ proc'[p].token = Keyed
                 /\ UNCHANGED state
              \/ /\ <<proc[p].at, proc'[p].at>> \in
                      {<<"keyed", "opened">>, <<"keyed", "keyed">>, <<"keyed", "closed">>,
                       <<"opened", "closed">>, <<"closed", "cleared">>, <<"cleared", "dead">>}
                 /\ proc'[p].token = proc[p].token
                 /\ state' = IF proc[p].at = "closed" THEN None ELSE state
                 /\ UNCHANGED token
              \/ /\ proc[p].at = "opened" /\ proc'[p].at = "bound"
                 /\ proc'[p].token = proc[p].token
                 /\ UNCHANGED <<state, token>>
              \/ /\ proc[p].at = "bound" /\ proc'[p].at = "serving"
                 /\ proc'[p].token = proc[p].token
                 /\ state' = p
                 /\ UNCHANGED token
              \/ /\ proc[p].at = "serving" /\ proc[p].stop /\ proc'[p].at = "closed"
                 /\ proc'[p].token = proc[p].token
                 /\ UNCHANGED <<state, token>>
<1> USE DEF BaseInv, ProcTypes, Only, Reach, Same
<1>0. schema \in Nat /\ Migrations \in Nat /\ token \in Nat /\ minted \in Nat /\ Keyed \in Nat
  BY LifecycleAssumption DEF FileTypes, Keyed
<1>1. CASE Acquire(p)
  BY <1>1 DEF Acquire, Phase, Owning
<1>2. CASE LoadToken(p)
  BY <1>0, <1>2 DEF LoadToken, Phase, Owning
<1>3. CASE FindMissing(p)
  BY <1>0, <1>3 DEF FindMissing, Phase, Owning, FileTypes
<1>4. CASE ApplyMissing(p)
  <2>1. PICK at \in {"keyed", "closed"} :
          proc' = [proc EXCEPT ![p].script = 0, ![p].at = at]
    BY <1>4 DEF ApplyMissing
  <2>2. /\ proc[p].at = "keyed" /\ UNCHANGED <<mode, hook, state, token>>
    BY <1>4 DEF ApplyMissing
  <2>a. at \in Phase /\ 0 \in 0 .. Migrations
    BY <1>0 DEF Phase, Owning
  <2>b. [proc[p] EXCEPT !.script = 0, !.at = at] \in
          [at : Phase, token : Nat, stop : BOOLEAN, unlinked : BOOLEAN, script : 0 .. Migrations]
    BY <2>a
  <2>3. ProcTypes'
    BY <2>1, <2>b
  <2>4. /\ Only(p) /\ proc'[p].at = at
        /\ proc'[p].unlinked = proc[p].unlinked /\ proc'[p].stop = proc[p].stop
        /\ proc'[p].token = proc[p].token
    BY <2>1
  <2>5. QED
    BY <2>2, <2>3, <2>4
<1>5. CASE Bind(p)
  BY <1>5 DEF Bind, Phase, Owning
<1>6. CASE WriteState(p)
  BY <1>6 DEF WriteState, Phase, Owning
<1>7. CASE Close(p)
  BY <1>7 DEF Close, Phase, Owning
<1>8. CASE RemoveState(p) \/ Exit(p)
  BY <1>8 DEF RemoveState, Exit, Phase, Owning
<1>9. QED
  BY <1>1, <1>2, <1>3, <1>4, <1>5, <1>6, <1>7, <1>8 DEF Runtime

LEMMA KeyedIsSome ==
    ASSUME FileTypes
    PROVE  Keyed \in Nat /\ Keyed # None
BY DEF FileTypes, Keyed, None

LEMMA RuntimeSchema ==
    ASSUME BaseInv, FileTypes', NEW p \in Pid, Runtime(p)
    PROVE  SchemaInv'
<1>0. /\ schema \in Nat /\ Migrations \in Nat /\ UNCHANGED hook
      /\ \A q \in Pid : proc[q].script \in Nat /\ proc[q].script <= schema + 1
      /\ \A h \in Hook : hook[h].script \in Nat /\ hook[h].script <= schema + 1
  <2>1. schema \in Nat /\ Migrations \in Nat
    BY LifecycleAssumption DEF BaseInv, FileTypes
  <2>2. UNCHANGED hook
    BY RuntimeSteps, Zenon
  <2>3. \A q \in Pid : proc[q].script \in Nat /\ proc[q].script <= schema + 1
    BY <2>1 DEF BaseInv, ProcTypes, SchemaInv
  <2>4. \A h \in Hook : hook[h].script \in Nat /\ hook[h].script <= schema + 1
    BY <2>1 DEF BaseInv, HookTypes, SchemaInv
  <2>5. QED
    BY <2>1, <2>2, <2>3, <2>4
<1>1. CASE ApplyMissing(p)
  <2>1. proc[p].script \in 1 .. Migrations /\ proc[p].script <= schema + 1
    BY <1>0, <1>1 DEF ApplyMissing, BaseInv, ProcTypes, SchemaInv
  <2>2. /\ schema' \in schema .. Migrations
        /\ ran' \in [1 .. Migrations -> Nat]
        /\ \A w \in 1 .. Migrations : ran'[w] = IF w <= schema' THEN 1 ELSE 0
    BY <1>1, <2>1, ScriptSteps DEF ApplyMissing, BaseInv
  <2>3. \A q \in Pid : proc'[q].script \in {0, proc[q].script}
    BY <1>1 DEF ApplyMissing, BaseInv, ProcTypes
  <2>4. QED
    BY <1>0, <2>2, <2>3 DEF SchemaInv
<1>2. CASE ~ApplyMissing(p)
  <2>1. UNCHANGED <<schema, ran>>
    BY <1>2 DEF Runtime, Acquire, LoadToken, FindMissing, Bind, WriteState, Close, RemoveState, Exit
  <2>2. \A q \in Pid : proc'[q].script \in {schema + 1, proc[q].script}
    BY <1>2 DEF Runtime, Acquire, LoadToken, FindMissing, Bind, WriteState, Close, RemoveState,
       Exit, Reach, BaseInv, ProcTypes
  <2>3. QED
    BY <1>0, <2>1, <2>2 DEF BaseInv, SchemaInv
<1>3. QED
  BY <1>1, <1>2

LEMMA RuntimeServe ==
    ASSUME BaseInv, NEW p \in Pid, Runtime(p)
    PROVE  ServeInv'
<1> USE RuntimeSteps DEF Only
<1>1. \A q \in Pid : proc'[q].at \in {"keyed", "opened", "bound", "serving"} => proc'[q].token # None
  BY KeyedIsSome DEF BaseInv, ServeInv
<1>2. state' # None => proc'[state'].at \in {"serving", "closed", "cleared", "dead"}
  BY DEF BaseInv, ServeInv, FileTypes
<1>3. \A q, r \in Pid : Holds(q)' /\ Holds(r)' => q = r
  <2>1. CASE proc[p].at = "launched" /\ LockIsFree
    BY <2>1 DEF LockIsFree, Holds
  <2>2. CASE ~(proc[p].at = "launched" /\ LockIsFree)
    <3>1. Holds(p)' => Holds(p)
      BY <2>2 DEF Holds, Owning
    <3>2. \A q \in Pid : Holds(q)' => Holds(q)
      BY <3>1 DEF Holds
    <3>3. QED
      BY <3>2 DEF BaseInv, ServeInv
  <2>3. QED
    BY <2>1, <2>2
<1>4. ~UnlinksOpenFiles => \A q \in Pid : ~proc'[q].unlinked
  BY DEF BaseInv, ServeInv
<1>5. QED
  BY <1>1, <1>2, <1>3, <1>4 DEF ServeInv

LEMMA FaultBase ==
    ASSUME BaseInv, FileTypes', NEW p \in Pid, Fault(p)
    PROVE  BaseInv'
<1>1. /\ Only(p) /\ ProcTypes' /\ UNCHANGED <<mode, hook, fileVars, schema, ran>>
      /\ proc[p].at \in Owning \cup {"launched"}
      /\ proc'[p].at \in {"closed", "dead"} /\ (proc'[p].at = "closed" => proc[p].at \in Owning)
      /\ proc'[p].unlinked = proc[p].unlinked /\ proc'[p].token = proc[p].token
      /\ proc'[p].script = 0
  BY DEF Fault, StartFails, Crash, Alive, Only, BaseInv, ProcTypes, Phase, Owning
<1>2. HookTypes' /\ SchemaInv'
  <2>1. schema \in Nat
    BY DEF BaseInv, FileTypes
  <2>2. QED
    BY <1>1, <2>1 DEF Only, BaseInv, HookTypes, SchemaInv
<1>3. \A q \in Pid : Holds(q)' => Holds(q)
  BY <1>1 DEF Only, Holds, Owning
<1>4. ServeInv'
  BY <1>1, <1>3 DEF Only, BaseInv, ServeInv, fileVars, Owning, FileTypes
<1>5. QED
  BY <1>1, <1>2, <1>4 DEF BaseInv

\* Files, credential and counters.
LEMMA FileTypeSteps ==
    ASSUME BaseInv, ManagerTypes, [Next]_vars
    PROVE  FileTypes'
<1> USE DEF fileVars, FileTypes
<1>0. FileTypes /\ Keyed \in Nat /\ Migrations \in Nat
  BY KeyedIsSome, LifecycleAssumption DEF BaseInv
<1>1. CASE UNCHANGED vars
  BY <1>0, <1>1 DEF vars
<1>2. ASSUME NEW p \in Pid, Runtime(p) PROVE FileTypes'
  <2>1. UNCHANGED <<mode, config, startup, reused, issued, failures>> /\ minted' \in {minted, minted + 1}
    BY <1>2 DEF Runtime, Acquire, LoadToken, FindMissing, ApplyMissing, Bind, WriteState, Close,
       RemoveState, Exit, Same
  <2>2. state' \in Pid \cup {None} /\ token' \in Nat
    BY <1>0, <1>2, RuntimeSteps
  <2>3. schema' \in 0 .. Migrations
    BY <1>0, <1>2 DEF Runtime, Acquire, LoadToken, FindMissing, ApplyMissing, Bind, WriteState,
       Close, RemoveState, Exit, Script, BaseInv, ProcTypes
  <2>4. QED
    BY <1>0, <2>1, <2>2, <2>3
<1>3. ASSUME NEW p \in Pid, Fault(p) PROVE FileTypes'
  BY <1>0, <1>3 DEF Fault
<1>4. ASSUME NEW h \in Hook, HookStep(h) PROVE FileTypes'
  <2>1. schema' \in 0 .. Migrations
    BY <1>0, <1>4 DEF HookStep, HookStart, HookFindMissing, HookApplyMissing, Script, BaseInv,
       HookTypes
  <2>2. QED
    BY <1>0, <1>4, <2>1 DEF HookStep
<1>5. ASSUME NEW m \in Manager, Step(m) PROVE FileTypes'
  <2>1. UNCHANGED <<mode, schema, ran, reused, issued, failures>>
    BY <1>5 DEF Step
  <2>2. /\ state' \in Pid \cup {None} /\ token' \in Nat /\ minted' \in Nat
        /\ config' \in BOOLEAN /\ startup' \in BOOLEAN
    <3>1. CASE \/ Look(m) \/ Launch(m) \/ WaitForRunning(m) \/ ReadState(m) \/ RequestStop(m)
               \/ AwaitExit(m) \/ Timeout(m) \/ OpenLibrary(m)
      BY <1>0, <3>1 DEF Look, Launch, WaitForRunning, ReadState, RequestStop, AwaitExit, Timeout,
         OpenLibrary
    <3>2. CASE ClearState(m) \/ RotateCredential(m) \/ Register(m)
      <4>1. state' \in {state, None} /\ token' \in {token, minted + 1} /\ minted' \in {minted, minted + 1}
        BY <3>2 DEF ClearState, RotateCredential, Register
      <4>2. config' \in BOOLEAN /\ startup' \in BOOLEAN
        BY <1>0, <3>2, Zenon DEF ClearState, RotateCredential, Register
      <4>3. QED
        BY <1>0, <4>1, <4>2
    <3>3. CASE Configure(m)
      BY <1>0, <3>3 DEF Configure
    <3>4. CASE Erase(m)
      BY <1>0, <3>4, Zenon DEF Erase, None
    <3>5. QED
      BY <1>5, <3>1, <3>2, <3>3, <3>4, Zenon DEF Step
  <2>3. QED
    BY <1>0, <2>1, <2>2
<1>6. ASSUME NEW m \in Manager, Interrupt(m) \/ \E c \in Command : Issue(m, c) PROVE FileTypes'
  <2>1. UNCHANGED <<mode, fileVars, schema, reused, minted>>
    BY <1>6 DEF Interrupt, Issue, Begins
  <2>2. issued' \in {issued, issued + 1} /\ failures' \in {failures, failures + 1}
    BY <1>6 DEF Interrupt, Issue, Begins
  <2>3. QED
    BY <1>0, <2>1, <2>2
<1>7. CASE Login \/ Reuse
  BY <1>0, <1>7 DEF Login, Begins, Reuse
<1>8. QED
  BY <1>1, <1>2, <1>3, <1>4, <1>5, <1>6, <1>7 DEF Next

LifecycleInv == BaseInv /\ ManagerTypes

LEMMA InitLifecycle == Init => LifecycleInv
<1> SUFFICES ASSUME Init PROVE LifecycleInv
  OBVIOUS
<1> USE LifecycleAssumption DEF Init
<1>1. ProcTypes
  BY DEF ProcTypes, Unborn, Phase, None
<1>2. HookTypes
  BY DEF HookTypes
<1>3. FileTypes
  <2>1. config \in BOOLEAN /\ startup \in BOOLEAN
    OBVIOUS
  <2>2. schema \in 0 .. Migrations
    OBVIOUS
  <2>3. QED
    BY <2>1, <2>2 DEF FileTypes, None
<1>4. SchemaInv
  BY <1>3 DEF SchemaInv, Unborn, FileTypes
<1>5. ServeInv
  BY DEF ServeInv, Unborn, Holds, Owning, None
<1>6. ManagerTypes
  BY DEF ManagerTypes, Idle, Steps, Fits, RunStep, StopStep, None
<1>7. QED
  BY <1>1, <1>2, <1>3, <1>4, <1>5, <1>6 DEF LifecycleInv, BaseInv

\* Inductive: types, the schema and who migrates it, what a serving runtime holds,
\* and the local variables of the managers.
THEOREM LifecycleInvariant == Spec => []LifecycleInv
<1>1. ASSUME LifecycleInv, [Next]_vars PROVE LifecycleInv'
  <2>1. FileTypes'
    BY <1>1, FileTypeSteps DEF LifecycleInv
  <2>2. ManagerTypes'
    BY <1>1, ManagerSteps DEF LifecycleInv, BaseInv, TypesInv
  <2>3. ASSUME NEW p \in Pid, Runtime(p) PROVE BaseInv'
    <3>1. ProcTypes' /\ UNCHANGED hook
      BY <1>1, <2>3, RuntimeSteps DEF LifecycleInv
    <3>2. HookTypes'
      BY <1>1, <3>1 DEF LifecycleInv, BaseInv, HookTypes
    <3>3. QED
      BY <1>1, <2>1, <2>3, <3>1, <3>2, RuntimeSchema, RuntimeServe DEF LifecycleInv, BaseInv
  <2>4. BaseInv'
    BY <1>1, <2>1, <2>3, BaseSteps, FileStepBase, SpawnStepBase, AskStepBase, EraseStepBase,
       HookStepBase, FaultBase
    DEF LifecycleInv, BaseInv
  <2>5. QED
    BY <2>2, <2>4 DEF LifecycleInv
<1>2. QED
  BY <1>1, InitLifecycle, PTL DEF Spec

\* SchemaGrowsOnce: however many processes open the database at once, a script
\* that another one ran in between fails, and each runs in its turn, once.
THEOREM MigrationsRunOnce == Spec => []SchemaGrowsOnce
<1>1. LifecycleInv => SchemaGrowsOnce
  <2> SUFFICES ASSUME LifecycleInv PROVE SchemaGrowsOnce
    OBVIOUS
  <2>1. LifecycleTypeOK
    BY DEF LifecycleInv, BaseInv, ProcTypes, FileTypes, ServeInv, LifecycleTypeOK, Answers, Phase
  <2>2. ScriptsOnce
    BY DEF LifecycleInv, BaseInv, SchemaInv, FileTypes, ScriptsOnce
  <2>3. QED
    BY <2>1, <2>2 DEF SchemaGrowsOnce
<1>2. QED
  BY <1>1, LifecycleInvariant, PTL

\* OwnState: where a lock file that is open cannot be unlinked, a runtime holds
\* the lock until it has removed the state file, so no other one can have
\* written its own.
THEOREM RuntimesRemoveTheirOwnState ==
    ASSUME ~UnlinksOpenFiles
    PROVE  Spec => OwnState
<1>1. ASSUME LifecycleInv, NEW p \in Pid, proc[p].at = "closed", proc'[p].at = "cleared"
      PROVE  state \in {None, p} \/ ~Alive(state)
  <2>1. ASSUME state # None, Alive(state) PROVE Holds(state) /\ state \in Pid
    BY <1>1, <2>1 DEF LifecycleInv, BaseInv, ServeInv, FileTypes, Alive, Owning, Holds
  <2>2. Holds(p)
    BY <1>1 DEF LifecycleInv, BaseInv, ServeInv, Holds, Owning
  <2>3. QED
    BY <1>1, <2>1, <2>2 DEF LifecycleInv, BaseInv, ServeInv
<1>2. LifecycleInv =>
        [\A p \in Pid : proc[p].at = "closed" /\ proc'[p].at = "cleared" =>
           state \in {None, p} \/ ~Alive(state)]_vars
  BY <1>1
<1>3. QED
  BY <1>2, LifecycleInvariant, PTL DEF OwnState
-----------------------------------------------------------------------------
\* One user, who lets each command settle.

Rests(p) == proc[p].at = "serving" /\ ~proc[p].stop
NoneAlive == \A p \in Pid : ~Alive(p)

\* Beside the process of a login, which finds the lock taken, one process is
\* alive; it holds the lock, its credential is the stored one, and while it
\* serves the state file is its own.
SingleInv ==
    /\ \A p, q \in Pid : Alive(p) /\ Alive(q) /\ p # q =>
         \/ proc[p].at = "launched" /\ Rests(q)
         \/ proc[q].at = "launched" /\ Rests(p)
    /\ \A p \in Pid :
         /\ ~proc[p].unlinked
         /\ proc[p].at \in {"keyed", "opened", "bound", "serving"} => proc[p].token = token
         /\ proc[p].at = "serving" => state = p
         /\ proc[p].at \in {"none", "launched", "locked", "keyed", "opened", "bound"} => ~proc[p].stop

\* What a command may rely on at its present step: nothing starts or stops
\* under it except what it started or stopped itself.
StepOK(m) ==
    /\ manager[m].step \notin {"none", "wait", "open", "await"} => Settled
    /\ At(m, "request") => manager[m].pid = state
    /\ At(m, "await") => \A p \in Pid : Alive(p) =>
         p = manager[m].pid /\ proc[p].at \in {"serving", "closed", "cleared"}
    /\ manager[m].step \in {"clear", "launch", "register", "rotate", "erase"} => NoneAlive
    /\ manager[m].step \in {"wait", "open"} => \A p \in Pid : proc[p].at = "serving" => Rests(p)

StepInv ==
    \A m \in Manager :
        /\ ~Free(m) => \A n \in Manager : n # m => Free(n)
        /\ StepOK(m)

\* How the last command ended is still true, while no other has begun.
Truth(reported) ==
    /\ reported \in Running => \E p \in Pid : Healthy(p) /\ ~proc[p].stop
    /\ reported \in {"stop", "uninstall"} => NoneAlive
    /\ reported = "uninstall" => state = None /\ token = None /\ ~config /\ ~startup

OutcomeInv ==
    /\ outcome # "none" => \A m \in Manager : Free(m)
    /\ Truth(outcome)

UserInv == SingleInv /\ StepInv /\ OutcomeInv
QuietInv == mode = "quiet" => UserInv

Calm == LifecycleInv /\ UserInv /\ mode = "quiet"

\* A command goes on, or ends.
LEMMA Continues ==
    ASSUME Calm, NEW m \in Manager, ~Free(m), NEW s, Continue(m, s), StepOK(m)'
    PROVE  StepInv' /\ OutcomeInv'
<1>1. \A n \in Manager : n # m => manager'[n] = manager[n] /\ Free(n)
  BY DEF Calm, UserInv, StepInv, LifecycleInv, ManagerTypes, Continue
<1>2. \A n \in Manager : n # m => Free(n)' /\ StepOK(n)'
  BY <1>1 DEF Free, At, StepOK
<1>3. outcome' = "none"
  BY DEF Calm, UserInv, OutcomeInv, Continue
<1>4. OutcomeInv'
  BY <1>3 DEF OutcomeInv, Truth, Running
<1>5. QED
  BY <1>2, <1>4 DEF StepInv

LEMMA Ends ==
    ASSUME Calm, NEW m \in Manager, ~Free(m), NEW r, End(m, r), Truth(r)'
    PROVE  StepInv' /\ OutcomeInv'
<1>1. \A n \in Manager : n # m => manager'[n] = manager[n] /\ Free(n)
  BY DEF Calm, UserInv, StepInv, LifecycleInv, ManagerTypes, End
<1>2. \A n \in Manager : Free(n)'
  BY <1>1 DEF End, Free, At, Idle, Calm, LifecycleInv, ManagerTypes
<1>3. \A n \in Manager : StepOK(n)'
  BY <1>2 DEF Free, At, StepOK
<1>4. outcome' = r
  BY DEF Calm, End
<1>5. QED
  BY <1>2, <1>3, <1>4 DEF StepInv, OutcomeInv

LEMMA EndsInError ==
    ASSUME Calm, NEW m \in Manager, ~Free(m), End(m, "error")
    PROVE  StepInv' /\ OutcomeInv'
BY Ends DEF Truth, Running

\* When everything has settled, what is alive serves, is the process of the
\* state file and has the credential.
LEMMA SettledFacts ==
    ASSUME Calm, Settled
    PROVE  /\ \A p \in Pid : Alive(p) => Rests(p) /\ state = p /\ proc[p].token = token
                                         /\ token # None /\ Healthy(p)
           /\ \A p \in Pid : Healthy(p) => Alive(p)
BY DEF Calm, UserInv, SingleInv, Settled, Rests, LifecycleInv, BaseInv, ServeInv, Healthy, Answers,
       Alive, Owning

LEMMA NonePid == None \notin Pid
BY LifecycleAssumption DEF None

LEMMA SameProcesses ==
    ASSUME SingleInv, UNCHANGED <<proc, state, token>>
    PROVE  SingleInv'
BY DEF SingleInv, Rests, Alive

LEMMA NobodySettles == ASSUME NoneAlive PROVE Settled
BY DEF NoneAlive, Settled

\* A healthy process has not been asked to stop.
LEMMA HealthyRests ==
    ASSUME Calm, NEW p \in Pid, Healthy(p), proc[p].at = "serving" => Rests(p)
    PROVE  ~proc[p].stop
BY DEF Healthy, Answers, Rests, Calm, UserInv, SingleInv

\* A process that works is the only one alive, or finds the lock taken.
LEMMA WorksAlone ==
    ASSUME Calm, NEW p \in Pid, Runtime(p)
    PROVE  /\ Alive(p) /\ ~Rests(p) /\ ~Settled /\ ~NoneAlive
           /\ \A q \in Pid : Alive(q) /\ q # p => proc[p].at = "launched" /\ Rests(q) /\ ~LockIsFree
<1>1. Alive(p) /\ ~Rests(p)
  BY RuntimeSteps DEF Calm, LifecycleInv, Alive, Owning, Rests
<1>2. ASSUME NEW q \in Pid, Alive(q), q # p PROVE proc[p].at = "launched" /\ Rests(q) /\ ~LockIsFree
  <2>1. proc[p].at = "launched" /\ Rests(q)
    BY <1>1, <1>2 DEF Calm, UserInv, SingleInv
  <2>2. Holds(q)
    BY <2>1 DEF Holds, Rests, Owning, Calm, UserInv, SingleInv
  <2>3. QED
    BY <2>1, <2>2 DEF LockIsFree
<1>3. QED
  BY <1>1, <1>2 DEF Settled, Rests, NoneAlive

LEMMA QuietRuntime ==
    ASSUME Calm, NEW p \in Pid, Runtime(p)
    PROVE  UserInv'
<1>0. BaseInv /\ UNCHANGED <<manager, outcome, config, startup>>
  BY DEF Calm, LifecycleInv, Runtime, Acquire, LoadToken, FindMissing, ApplyMissing, Bind,
     WriteState, Close, RemoveState, Exit, Same
<1>a. \A q \in Pid : q # p => proc'[q] = proc[q]
  BY <1>0, RuntimeSteps DEF Only
<1>b. /\ proc'[p].unlinked = proc[p].unlinked /\ proc'[p].stop = proc[p].stop
      /\ proc[p].at # "launched" \/ \A q \in Pid : Alive(q) => q = p \/ ~LockIsFree
  BY <1>0, RuntimeSteps, WorksAlone
<1>1. \A q \in Pid : Alive(q)' => Alive(q)
  BY <1>a, WorksAlone DEF Alive
<1>2. SingleInv'
  <2>1. \A q, r \in Pid : Alive(q)' /\ Alive(r)' => q = r
    <3>1. ASSUME NEW q \in Pid, q # p, Alive(q)' PROVE ~Alive(p)' 
      <4>1. proc[p].at = "launched" /\ ~LockIsFree
        BY <1>1, <3>1, WorksAlone
      <4>2. proc'[p].at = "dead"
        BY <1>0, <4>1, RuntimeSteps
      <4>3. QED
        BY <4>2 DEF Alive, Owning
    <3>2. ASSUME NEW q \in Pid, NEW r \in Pid, q # p, r # p, Alive(q), Alive(r) PROVE q = r
      <4>1. Rests(q) /\ Rests(r)
        BY <3>2, WorksAlone
      <4>2. QED
        BY <3>2, <4>1 DEF Calm, UserInv, SingleInv, Rests
    <3>3. QED
      BY <1>1, <3>1, <3>2
  <2>2. ASSUME NEW q \in Pid
        PROVE  /\ ~proc'[q].unlinked
               /\ proc'[q].at \in {"keyed", "opened", "bound", "serving"} => proc'[q].token = token'
               /\ proc'[q].at = "serving" => state' = q
               /\ proc'[q].at \in {"none", "launched", "locked", "keyed", "opened", "bound"} => ~proc'[q].stop
    <3>1. CASE q = p
      BY <1>0, <1>b, <3>1, RuntimeSteps DEF Calm, UserInv, SingleInv
    <3>2. CASE q # p /\ Alive(q)
      <4>1. proc[p].at = "launched"
        BY <3>2, WorksAlone
      <4>2. UNCHANGED <<state, token>>
        BY <1>0, <4>1, RuntimeSteps
      <4>3. QED
        BY <1>a, <3>2, <4>2 DEF Calm, UserInv, SingleInv
    <3>3. CASE q # p /\ ~Alive(q)
      <4>1. proc'[q] = proc[q]
        BY <1>a, <3>3
      <4>2. proc[q].at \notin {"keyed", "opened", "bound", "serving"}
        BY <3>3 DEF Alive, Owning
      <4>3. QED
        BY <4>1, <4>2 DEF Calm, UserInv, SingleInv
    <3>4. QED
      BY <3>1, <3>2, <3>3
  <2>3. QED
    BY <2>1, <2>2 DEF SingleInv
<1>3. StepInv'
  <2>1. ASSUME NEW m \in Manager PROVE StepOK(m)'
    <3>1. manager[m].step \in {"none", "wait", "open", "await"} /\ UNCHANGED manager
      BY <1>0, WorksAlone DEF Calm, UserInv, StepInv, StepOK
    <3>2. ASSUME At(m, "await"), NEW q \in Pid, Alive(q)'
          PROVE  q = manager[m].pid /\ proc'[q].at \in {"serving", "closed", "cleared"}
      <4>1. q = manager[m].pid /\ proc[q].at \in {"serving", "closed", "cleared"}
        BY <1>1, <3>2 DEF Calm, UserInv, StepInv, StepOK
      <4>2. CASE q = p
        BY <1>0, <3>2, <4>1, <4>2, RuntimeSteps DEF Alive, Owning
      <4>3. QED
        BY <1>a, <4>1, <4>2
    <3>3. ASSUME manager[m].step \in {"wait", "open"}, NEW q \in Pid, proc'[q].at = "serving"
          PROVE  Rests(q)'
      <4>1. CASE q = p
        BY <1>0, <1>b, <3>3, <4>1, RuntimeSteps DEF Rests, Calm, UserInv, SingleInv
      <4>2. CASE q # p
        BY <1>a, <3>3, <4>2 DEF Rests, Calm, UserInv, StepInv, StepOK
      <4>3. QED
        BY <4>1, <4>2
    <3>4. QED
      BY <3>1, <3>2, <3>3 DEF StepOK, At
  <2>2. QED
    BY <1>0, <2>1 DEF Calm, UserInv, StepInv, Free, At
<1>4. OutcomeInv'
  <2>1. outcome \notin {"stop", "uninstall"}
    BY WorksAlone DEF Calm, UserInv, OutcomeInv, Truth
  <2>2. ASSUME outcome \in Running PROVE \E q \in Pid : Healthy(q)' /\ ~proc'[q].stop
    <3>1. PICK q \in Pid : Healthy(q) /\ ~proc[q].stop
      BY <2>2 DEF Calm, UserInv, OutcomeInv, Truth
    <3>2. CASE q = p
      <4>1. proc[p].at = "bound"
        BY <3>1, <3>2, WorksAlone DEF Healthy, Answers, Rests
      <4>2. /\ proc'[p].at \in {"serving"} /\ proc'[p].token = proc[p].token /\ token' = token
        BY <1>0, <4>1, RuntimeSteps
      <4>3. QED
        BY <1>b, <3>1, <3>2, <4>2 DEF Healthy, Answers
    <3>3. CASE q # p
      <4>1. proc[p].at = "launched"
        BY <3>1, <3>3, WorksAlone DEF Healthy, Answers, Alive, Owning
      <4>2. token' = token
        BY <1>0, <4>1, RuntimeSteps
      <4>3. QED
        BY <1>a, <3>1, <3>3, <4>2 DEF Healthy, Answers
    <3>4. QED
      BY <3>2, <3>3
  <2>3. QED
    BY <1>0, <2>1, <2>2 DEF Calm, UserInv, OutcomeInv, Truth, Free, At
<1>5. QED
  BY <1>2, <1>3, <1>4 DEF UserInv

LEMMA QuietFault ==
    ASSUME Calm, NEW p \in Pid, Fault(p)
    PROVE  UserInv'
<1>1. /\ Only(p) /\ UNCHANGED <<manager, state, token, config, startup>> /\ outcome' = "none"
      /\ Alive(p) /\ proc'[p].unlinked = proc[p].unlinked
      /\ \/ proc[p].at \in {"locked", "keyed", "opened", "bound"} /\ proc'[p].at = "closed"
         \/ proc'[p].at = "dead"
  BY DEF Calm, LifecycleInv, BaseInv, ProcTypes, Fault, StartFails, Crash, Alive, Only, Owning, fileVars
<1>2. \A q \in Pid : Alive(q)' => Alive(q)
  BY <1>1 DEF Only, Alive
<1>3. SingleInv'
  <2>1. ASSUME NEW q \in Pid, NEW r \in Pid, Alive(q)', Alive(r)', q # r
        PROVE  (proc[q].at = "launched" /\ Rests(r))' \/ (proc[r].at = "launched" /\ Rests(q))'
    <3>1. (proc[q].at = "launched" /\ Rests(r)) \/ (proc[r].at = "launched" /\ Rests(q))
      BY <1>2, <2>1 DEF Calm, UserInv, SingleInv
    <3>2. q # p /\ r # p
      BY <1>1, <2>1, <3>1 DEF Rests, Alive, Owning
    <3>3. QED
      BY <1>1, <3>1, <3>2 DEF Only, Rests
  <2>2. ASSUME NEW q \in Pid
        PROVE  /\ ~proc'[q].unlinked
               /\ proc'[q].at \in {"keyed", "opened", "bound", "serving"} => proc'[q].token = token'
               /\ proc'[q].at = "serving" => state' = q
               /\ proc'[q].at \in {"none", "launched", "locked", "keyed", "opened", "bound"} => ~proc'[q].stop
    BY <1>1 DEF Only, Calm, UserInv, SingleInv
  <2>3. QED
    BY <2>1, <2>2 DEF SingleInv
<1>4. StepInv'
  <2>1. ASSUME NEW m \in Manager PROVE StepOK(m)'
    <3>1. Settled => Settled'
      <4>1. ASSUME Settled, NEW q \in Pid, Alive(q)' PROVE proc'[q] = proc[q] /\ Alive(q)
        BY <1>1, <1>2, <4>1 DEF Only, Settled, Alive, Owning
      <4>2. QED
        BY <4>1 DEF Settled
    <3>2. ~NoneAlive
      BY <1>1 DEF NoneAlive
    <3>3. At(m, "await") => \A q \in Pid : Alive(q)' =>
             q = manager[m].pid /\ proc'[q].at \in {"serving", "closed", "cleared"}
      BY <1>1, <1>2 DEF Only, Alive, Owning, Calm, UserInv, StepInv, StepOK
    <3>4. manager[m].step \in {"wait", "open"} => \A q \in Pid : proc'[q].at = "serving" => Rests(q)'
      BY <1>1 DEF Only, Rests, Calm, UserInv, StepInv, StepOK
    <3>5. QED
      BY <1>1, <3>1, <3>2, <3>3, <3>4 DEF Calm, UserInv, StepInv, StepOK, At
  <2>2. QED
    BY <1>1, <2>1 DEF Calm, UserInv, StepInv, Free, At
<1>5. OutcomeInv'
  BY <1>1 DEF OutcomeInv, Truth, Running
<1>6. QED
  BY <1>3, <1>4, <1>5 DEF UserInv

\* A process that is launched beside others that rest.
LEMMA Launched ==
    ASSUME Calm, Settled, Spawn, UNCHANGED <<state, token>>
    PROVE  /\ SingleInv'
           /\ \A p \in Pid : proc'[p].at = "serving" => proc[p].at = "serving" /\ proc'[p] = proc[p]
<1>1. PICK p \in Pid : proc[p].at = "none" /\ proc' = [proc EXCEPT ![p].at = "launched"]
  BY DEF Spawn
<1>2. /\ proc'[p].at = "launched" /\ proc'[p].unlinked = proc[p].unlinked /\ proc'[p].stop = proc[p].stop
      /\ \A q \in Pid : q # p => proc'[q] = proc[q]
  BY <1>1 DEF Calm, LifecycleInv, BaseInv, ProcTypes
<1>3. \A q, r \in Pid : Alive(q)' /\ Alive(r)' /\ q # r =>
        (proc[q].at = "launched" /\ Rests(r))' \/ (proc[r].at = "launched" /\ Rests(q))'
  <2>1. \A q \in Pid : q # p /\ Alive(q)' => Rests(q) /\ Rests(q)' /\ Alive(q)
    BY <1>2 DEF Alive, Rests, Settled
  <2>2. \A q, r \in Pid : Alive(q) /\ Alive(r) => q = r
    BY DEF Calm, UserInv, SingleInv, Settled, Rests, Alive
  <2>3. QED
    BY <1>2, <2>1, <2>2
<1>4. QED
  BY <1>1, <1>2, <1>3 DEF Calm, UserInv, SingleInv

LEMMA QuietBegins ==
    ASSUME Calm, Begins
    PROVE  Settled /\ (\A m \in Manager : Free(m)) /\ OutcomeInv' /\ UNCHANGED <<state, token>>
<1>1. /\ Settled /\ (\A m \in Manager : Free(m)) /\ outcome' = "none"
      /\ UNCHANGED <<state, token>>
  BY DEF Calm, Begins, fileVars
<1>2. OutcomeInv'
  BY <1>1 DEF OutcomeInv, Truth, Running
<1>3. QED
  BY <1>1, <1>2

LEMMA QuietLogin ==
    ASSUME Calm, Login
    PROVE  UserInv'
<1>1. SingleInv'
  BY QuietBegins, Launched DEF Login
<1>2. StepInv'
  BY QuietBegins DEF Login, StepInv, StepOK, Free, At
<1>3. QED
  BY <1>1, <1>2, QuietBegins DEF Login, UserInv

LEMMA QuietIssue ==
    ASSUME Calm, NEW m \in Manager, NEW c \in Command, Issue(m, c)
    PROVE  UserInv'
<1>1. /\ proc' = proc /\ Begins
      /\ manager' = [manager EXCEPT ![m] = [Idle EXCEPT !.command = c, !.step = First(c)]]
  BY DEF Issue
<1>2. SingleInv' /\ Settled'
  BY <1>1, QuietBegins, SameProcesses DEF Calm, UserInv, Settled, Alive
<1>3. First(c) \in {"configure", "look", "read"}
  BY Following
<1>4. manager'[m].step = First(c) /\ \A n \in Manager : n # m => manager'[n] = manager[n]
  BY <1>1 DEF Idle, Calm, LifecycleInv, ManagerTypes
<1>5. \A n \in Manager : n # m => manager[n].step = "none"
  BY <1>1, QuietBegins DEF Free, At
<1>6. StepInv'
  BY <1>2, <1>3, <1>4, <1>5 DEF StepInv, StepOK, Free, At
<1>7. QED
  BY <1>1, <1>2, <1>6, QuietBegins DEF UserInv

LEMMA QuietInterrupt ==
    ASSUME Calm, NEW m \in Manager, Interrupt(m)
    PROVE  UserInv'
<1>1. SingleInv'
  BY SameProcesses DEF Calm, UserInv, Interrupt, fileVars
<1>2. QED
  BY <1>1, EndsInError DEF Interrupt, UserInv

LEMMA FitsStep ==
    ASSUME Calm, NEW m \in Manager, ~Free(m)
    PROVE  manager[m].command \in Command /\ Fits(manager[m].command, manager[m].step)
BY DEF Calm, LifecycleInv, ManagerTypes, Free, At, Fits, Steps, RunStep, StopStep, Running, Command

LEMMA MovesOn ==
    ASSUME Calm, NEW m \in Manager, NEW s, Continue(m, s)
    PROVE  manager'[m].step = s /\ manager'[m].pid = manager[m].pid
BY DEF Continue, Calm, LifecycleInv, ManagerTypes

\* Once nothing is alive any more, the command does what it stopped the
\* runtime for.
LEMMA AfterStopping ==
    ASSUME Calm, NEW m \in Manager, At(m, "read") \/ At(m, "clear"), NoneAlive', Proceed(m)
    PROVE  StepInv' /\ OutcomeInv'
<1> DEFINE c == manager[m].command
           next == After(c, manager[m].step)
<1>1. ~Free(m) /\ c \in {"stop", "restart", "update", "rotate", "uninstall"} /\ c \in Command
  BY FitsStep DEF Free, At, Fits, StopStep
<1>2. next = AfterStop(c)
  BY <1>1, Following DEF At
<1>3. CASE next = "end"
  <2>1. c = "stop" /\ End(m, c)
    <3>1. End(m, c)
      BY <1>3 DEF Proceed
    <3>2. AfterStop(c) = "end" /\ "end" \notin RunStep
      BY <1>2, <1>3 DEF RunStep
    <3>3. c \notin {"restart", "update", "rotate", "uninstall"}
      BY <1>1, <3>2, Following
    <3>4. QED
      BY <1>1, <3>1, <3>3
  <2>2. Truth("stop")'
    BY DEF Truth, Running
  <2>3. QED
    BY <1>1, <2>1, <2>2, Ends
<1>4. CASE next # "end"
  <2>1. Continue(m, next) /\ next \in {"look", "register", "rotate", "erase"}
    BY <1>1, <1>2, <1>4, Following DEF Proceed
  <2>2. Settled'
    BY DEF NoneAlive, Settled
  <2>3. StepOK(m)'
    BY <2>1, <2>2, MovesOn DEF StepOK, At
  <2>4. QED
    BY <1>1, <2>1, <2>3, Continues
<1>5. QED
  BY <1>3, <1>4

\* A healthy runtime is what the commands that start one are for.
LEMMA AfterStarting ==
    ASSUME Calm, NEW m \in Manager, manager[m].step \in {"look", "wait", "open"}, Proceed(m),
           UNCHANGED <<proc, token>>, NEW p \in Pid, Healthy(p),
           \A q \in Pid : proc[q].at = "serving" => Rests(q)
    PROVE  StepInv' /\ OutcomeInv'
<1>0. PICK c \in Command : c = manager[m].command /\ c \in Running
  BY FitsStep DEF Free, At, Fits, RunStep
<1> DEFINE next == After(c, manager[m].step)
<1>1. ~Free(m)
  BY DEF Free, At
<1>2. next \in {"open", "end"}
  BY <1>0, Following
<1>3. CASE next = "end"
  <2>1. End(m, c)
    BY <1>0, <1>3 DEF Proceed
  <2>2. Healthy(p)' /\ ~proc'[p].stop
    BY HealthyRests DEF Healthy, Answers
  <2>3. Truth(c)'
    BY <1>0, <2>2 DEF Truth, Running
  <2>4. QED
    BY <1>1, <2>1, <2>3, Ends
<1>4. CASE next = "open"
  <2>1. Continue(m, "open")
    BY <1>0, <1>4 DEF Proceed
  <2>2. StepOK(m)'
    BY <2>1, MovesOn DEF StepOK, At, Rests
  <2>3. QED
    BY <1>1, <2>1, <2>2, Continues
<1>5. QED
  BY <1>2, <1>3, <1>4

LEMMA ThenLook ==
    ASSUME Calm, NEW m \in Manager, manager[m].step \in {"configure", "register", "rotate"}, Proceed(m),
           Settled'
    PROVE  StepInv' /\ OutcomeInv'
<1>1. ~Free(m) /\ Continue(m, "look")
  BY FitsStep, Following DEF Proceed, Free, At
<1>2. StepOK(m)'
  BY <1>1, MovesOn DEF StepOK, At
<1>3. QED
  BY <1>1, <1>2, Continues

LEMMA StoodStill ==
    ASSUME UNCHANGED proc
    PROVE  (Settled => Settled') /\ (NoneAlive => NoneAlive')
BY DEF Settled, NoneAlive, Alive

\* One lemma for each kind of step of a command.
LEMMA QuietLook ==
    ASSUME Calm, NEW m \in Manager, Look(m) \/ WaitForRunning(m) \/ OpenLibrary(m),
           UNCHANGED <<proc, fileVars, minted>>
    PROVE  UserInv'
<1>1. SingleInv' /\ UNCHANGED <<proc, token>>
  BY SameProcesses DEF Calm, UserInv, fileVars
<1>2. ~Free(m)
  BY DEF Look, WaitForRunning, OpenLibrary, Free, At
<1>3. Look(m) => Settled
  BY DEF Look, At, Calm, UserInv, StepInv, StepOK
<1>4. \A q \in Pid : proc[q].at = "serving" => Rests(q)
  <2>1. CASE Look(m)
    BY <1>3, <2>1 DEF Settled, Rests, Alive, Owning
  <2>2. CASE ~Look(m)
    BY <2>2 DEF WaitForRunning, OpenLibrary, At, Calm, UserInv, StepInv, StepOK
  <2>3. QED
    BY <2>1, <2>2
<1>5. CASE Proceed(m) /\ \E p \in Pid : Healthy(p)
  <2>1. manager[m].step \in {"look", "wait", "open"}
    BY DEF Look, WaitForRunning, OpenLibrary, At
  <2>2. QED
    BY <1>1, <1>4, <1>5, <2>1, AfterStarting DEF UserInv
<1>6. CASE Look(m) /\ ~Found /\ Continue(m, "launch")
  <2>1. NoneAlive
    BY <1>3, <1>6, SettledFacts, NonePid DEF NoneAlive, Found
  <2>2. NoneAlive' /\ Settled'
    BY <1>1, <1>3, <1>6, <2>1, StoodStill
  <2>3. StepOK(m)'
    BY <1>6, <2>2, MovesOn DEF StepOK, At
  <2>4. QED
    BY <1>1, <1>2, <1>6, <2>3, Continues DEF UserInv
<1>7. CASE End(m, "error")
  BY <1>1, <1>2, <1>7, EndsInError DEF UserInv
<1>8. QED
  BY <1>5, <1>6, <1>7 DEF Look, WaitForRunning, OpenLibrary, Found

LEMMA QuietLaunch ==
    ASSUME Calm, NEW m \in Manager, Launch(m)
    PROVE  UserInv'
<1>1. /\ Settled /\ NoneAlive /\ ~Free(m) /\ Continue(m, "wait") /\ Spawn
      /\ UNCHANGED <<state, token>>
  BY DEF Launch, At, Free, fileVars, Calm, UserInv, StepInv, StepOK
<1>2. SingleInv' /\ \A p \in Pid : proc'[p].at # "serving"
  BY <1>1, Launched DEF NoneAlive, Alive, Owning
<1>3. StepOK(m)'
  BY <1>1, <1>2, MovesOn DEF StepOK, At
<1>4. QED
  BY <1>1, <1>2, <1>3, Continues DEF UserInv

LEMMA QuietRead ==
    ASSUME Calm, NEW m \in Manager, ReadState(m)
    PROVE  UserInv'
<1>1. SingleInv' /\ Settled /\ At(m, "read") /\ ~Free(m) /\ UNCHANGED <<proc, state>>
  BY SameProcesses DEF ReadState, At, Free, fileVars, Calm, UserInv, StepInv, StepOK
<1>2. CASE state = None
  <2>1. NoneAlive'
    BY <1>1, <1>2, SettledFacts, NonePid, StoodStill DEF NoneAlive
  <2>2. QED
    BY <1>1, <1>2, <2>1, AfterStopping DEF ReadState, UserInv
<1>3. CASE state # None
  <2>1. /\ manager' = [manager EXCEPT ![m].pid = state, ![m].step = "request"]
        /\ outcome' = outcome
    BY <1>3 DEF ReadState
  <2>2. /\ manager'[m].step = "request" /\ manager'[m].pid = state
        /\ \A n \in Manager : n # m => manager'[n] = manager[n] /\ Free(n)
    BY <1>1, <2>1 DEF Calm, LifecycleInv, ManagerTypes, UserInv, StepInv
  <2>3. StepOK(m)'
    BY <1>1, <2>2, StoodStill DEF StepOK, At
  <2>4. StepInv'
    BY <2>2, <2>3 DEF StepInv, StepOK, Free, At
  <2>5. OutcomeInv'
    <3>1. outcome' = "none"
      BY <1>1, <2>1 DEF Calm, UserInv, OutcomeInv
    <3>2. QED
      BY <3>1 DEF OutcomeInv, Truth, Running
  <2>6. QED
    BY <1>1, <2>4, <2>5 DEF UserInv
<1>4. QED
  BY <1>2, <1>3

\* Whoever is alive has the credential, and is the process of the state file.
LEMMA QuietRequest ==
    ASSUME Calm, NEW m \in Manager, RequestStop(m)
    PROVE  UserInv'
<1>1. /\ Settled /\ manager[m].pid = state /\ ~Free(m) /\ UNCHANGED <<state, token>>
  BY DEF RequestStop, At, Free, fileVars, Calm, UserInv, StepInv, StepOK
<1>2. CASE \E p \in Pid : Healthy(p)
  <2>1. /\ proc' = [p \in Pid |-> IF Healthy(p) THEN [proc[p] EXCEPT !.stop = TRUE] ELSE proc[p]]
        /\ Continue(m, "await")
    BY <1>2 DEF RequestStop
  <2>2. \A p \in Pid : /\ proc'[p].at = proc[p].at /\ proc'[p].token = proc[p].token
                       /\ proc'[p].unlinked = proc[p].unlinked
                       /\ ~Healthy(p) => proc'[p] = proc[p]
    BY <2>1 DEF Calm, LifecycleInv, BaseInv, ProcTypes
  <2>3. \A p \in Pid : Alive(p) => p = state /\ proc[p].at = "serving"
    BY <1>1, SettledFacts DEF Rests
  <2>4. \A p \in Pid : Healthy(p) => proc[p].at = "serving"
    BY <1>1, <2>3, SettledFacts
  <2>5. SingleInv'
    <3>1. \A p, q \in Pid : Alive(p)' /\ Alive(q)' => p = q
      BY <2>2, <2>3 DEF Alive
    <3>2. ASSUME NEW p \in Pid
          PROVE  /\ ~proc'[p].unlinked
                 /\ proc'[p].at \in {"keyed", "opened", "bound", "serving"} => proc'[p].token = token'
                 /\ proc'[p].at = "serving" => state' = p
                 /\ proc'[p].at \in {"none", "launched", "locked", "keyed", "opened", "bound"} => ~proc'[p].stop
      BY <1>1, <2>2, <2>4 DEF Calm, UserInv, SingleInv
    <3>3. QED
      BY <3>1, <3>2 DEF SingleInv
  <2>6. \A p \in Pid : Alive(p)' => p = manager[m].pid /\ proc'[p].at = "serving"
    BY <1>1, <2>2, <2>3 DEF Alive
  <2>7. StepOK(m)'
    BY <2>1, <2>6, MovesOn DEF StepOK, At
  <2>8. QED
    BY <1>1, <2>1, <2>5, <2>7, Continues DEF UserInv
<1>3. CASE ~\E p \in Pid : Healthy(p)
  <2>1. proc' = proc /\ (End(m, "error") \/ Continue(m, "clear"))
    BY <1>3 DEF RequestStop
  <2>2. SingleInv'
    BY <1>1, <2>1, SameProcesses DEF Calm, UserInv
  <2>3. NoneAlive' /\ Settled'
    BY <1>1, <1>3, <2>1, SettledFacts, StoodStill DEF NoneAlive
  <2>4. CASE Continue(m, "clear")
    <3>1. StepOK(m)'
      BY <2>3, <2>4, MovesOn DEF StepOK, At
    <3>2. QED
      BY <1>1, <2>2, <2>4, <3>1, Continues DEF UserInv
  <2>5. QED
    BY <1>1, <2>1, <2>2, <2>4, EndsInError DEF UserInv
<1>4. QED
  BY <1>2, <1>3

LEMMA QuietAwait ==
    ASSUME Calm, NEW m \in Manager, AwaitExit(m)
    PROVE  UserInv'
<1>1. /\ SingleInv' /\ ~Free(m) /\ Continue(m, "clear") /\ ~IsRunning(manager[m].pid)
      /\ UNCHANGED proc
  BY SameProcesses DEF AwaitExit, Gone, At, Free, fileVars, Calm, UserInv
<1>2. NoneAlive
  BY <1>1, NonePid DEF NoneAlive, IsRunning, AwaitExit, Calm, UserInv, StepInv, StepOK
<1>3. StepOK(m)'
  BY <1>1, <1>2, MovesOn, StoodStill, NobodySettles DEF StepOK, At
<1>4. QED
  BY <1>1, <1>3, Continues DEF UserInv

LEMMA QuietClear ==
    ASSUME Calm, NEW m \in Manager, ClearState(m)
    PROVE  UserInv'
<1>1. NoneAlive /\ At(m, "clear") /\ Proceed(m) /\ UNCHANGED <<proc, token>>
  BY DEF ClearState, At, Calm, UserInv, StepInv, StepOK
<1>2. SingleInv'
  BY <1>1 DEF NoneAlive, Alive, Owning, Rests, Calm, UserInv, SingleInv
<1>3. QED
  BY <1>1, <1>2, StoodStill, AfterStopping DEF UserInv

LEMMA QuietChange ==
    ASSUME Calm, NEW m \in Manager, RotateCredential(m) \/ Register(m) \/ Configure(m)
    PROVE  UserInv'
<1>1. /\ Settled /\ manager[m].step \in {"configure", "register", "rotate"} /\ Proceed(m)
      /\ UNCHANGED <<proc, state>>
  BY DEF RotateCredential, Register, Configure, At, Calm, UserInv, StepInv, StepOK
<1>2. \A p \in Pid : Alive(p) => token' = token
  <2>1. CASE RotateCredential(m) \/ Register(m)
    BY <2>1 DEF RotateCredential, Register, At, NoneAlive, Calm, UserInv, StepInv, StepOK
  <2>2. CASE Configure(m)
    BY <1>1, <2>2, SettledFacts DEF Configure, Keyed
  <2>3. QED
    BY <2>1, <2>2
<1>3. SingleInv'
  BY <1>1, <1>2 DEF Alive, Owning, Rests, Calm, UserInv, SingleInv
<1>4. QED
  BY <1>1, <1>3, StoodStill, ThenLook DEF UserInv

LEMMA QuietErase ==
    ASSUME Calm, NEW m \in Manager, Erase(m)
    PROVE  UserInv'
<1>1. /\ NoneAlive /\ ~Free(m) /\ manager[m].step = "erase"
      /\ ~startup' /\ token' = None /\ ~config' /\ state' = None
  <2>1. NoneAlive /\ ~Free(m) /\ manager[m].step = "erase"
    BY DEF Erase, At, Free, Calm, UserInv, StepInv, StepOK
  <2>2. ~startup' /\ token' = None /\ ~config' /\ state' = None
    BY Zenon DEF Erase
  <2>3. QED
    BY <2>1, <2>2
<1>2. manager[m].command = "uninstall" /\ After("uninstall", "erase") = "end"
  BY <1>1, FitsStep, Following DEF Fits
<1>3. proc' = proc \/ proc' = [p \in Pid |-> [proc[p] EXCEPT !.unlinked = @ \/ proc[p].at \in Owning]]
  BY Zenon DEF Erase
<1>4. \A p \in Pid : /\ proc'[p].at = proc[p].at /\ proc'[p].token = proc[p].token
                     /\ proc'[p].stop = proc[p].stop
                     /\ proc'[p].unlinked = proc[p].unlinked
  BY <1>1, <1>3 DEF NoneAlive, Alive, Calm, LifecycleInv, BaseInv, ProcTypes
<1>5. NoneAlive'
  BY <1>1, <1>4 DEF NoneAlive, Alive
<1>6. SingleInv'
  BY <1>4, <1>5 DEF NoneAlive, Alive, Owning, Calm, UserInv, SingleInv
<1>7. CASE Proceed(m)
  <2>1. End(m, "uninstall")
    BY <1>1, <1>2, <1>7 DEF Proceed
  <2>2. Truth("uninstall")'
    BY <1>1, <1>5, Zenon DEF Truth, Running
  <2>3. QED
    BY <1>1, <1>6, <2>1, <2>2, Ends DEF UserInv
<1>8. CASE End(m, "error")
  BY <1>1, <1>6, <1>8, EndsInError DEF UserInv
<1>9. QED
  BY <1>7, <1>8, Zenon DEF Erase

LEMMA QuietStep ==
    ASSUME Calm, NEW m \in Manager, Step(m)
    PROVE  UserInv'
<1>1. CASE Timeout(m)
  <2>1. SingleInv' /\ ~Free(m) /\ End(m, "error")
    BY <1>1, SameProcesses DEF Timeout, At, Free, fileVars, Calm, UserInv
  <2>2. QED
    BY <2>1, EndsInError DEF UserInv
<1>2. CASE Look(m) \/ WaitForRunning(m) \/ OpenLibrary(m)
  <2>1. UNCHANGED <<proc, fileVars, minted>>
    BY <1>2 DEF Look, WaitForRunning, OpenLibrary
  <2>2. QED
    BY <1>2, <2>1, QuietLook
<1>3. QED
  BY <1>1, <1>2, QuietLaunch, QuietRead, QuietRequest, QuietAwait, QuietClear, QuietChange,
     QuietErase, Zenon DEF Step

LEMMA InitUser == Init => UserInv
<1> SUFFICES ASSUME Init PROVE UserInv
  OBVIOUS
<1>1. SingleInv
  BY DEF Init, Unborn, SingleInv, Alive, Owning
<1>2. StepInv
  BY DEF Init, Idle, StepInv, StepOK, Free, At
<1>3. OutcomeInv
  BY DEF Init, OutcomeInv, Truth, Running
<1>4. QED
  BY <1>1, <1>2, <1>3 DEF UserInv

LEMMA UserSteps ==
    ASSUME LifecycleInv, QuietInv, [Next]_vars
    PROVE  QuietInv'
<1>1. UNCHANGED mode
  BY BaseSteps, RuntimeSteps
  DEF FileStep, SpawnStep, AskStep, EraseStep, Fault, HookStep, LifecycleInv, BaseInv
<1>2. SUFFICES ASSUME Calm PROVE UserInv'
  BY <1>1 DEF QuietInv, Calm
<1>3. ASSUME UNCHANGED <<proc, manager, state, token, config, startup, outcome>> PROVE UserInv'
  <2>1. SingleInv'
    BY <1>2, <1>3, SameProcesses DEF Calm, UserInv
  <2>2. StepInv'
    BY <1>2, <1>3 DEF Calm, UserInv, StepInv, StepOK, Free, At, Settled, NoneAlive, Alive, Rests
  <2>3. OutcomeInv'
    BY <1>2, <1>3 DEF Calm, UserInv, OutcomeInv, Truth, NoneAlive, Alive, Healthy, Answers, Free, At
  <2>4. QED
    BY <2>1, <2>2, <2>3 DEF UserInv
<1>4. CASE UNCHANGED vars
  BY <1>3, <1>4 DEF vars, fileVars
<1>5. CASE Reuse
  BY <1>3, <1>5 DEF Reuse, fileVars
<1>6. ASSUME NEW h \in Hook, HookStep(h) PROVE UserInv'
  BY <1>3, <1>6 DEF HookStep, fileVars
<1>7. QED
  BY <1>2, <1>4, <1>5, <1>6, QuietRuntime, QuietFault, QuietStep, QuietInterrupt, QuietIssue,
     QuietLogin, Zenon
  DEF Next

\* CommandsTellTheTruth: while one user waits for each command to settle, what
\* serves is the process of the state file with the stored credential, and a
\* command that reports success has had its effect.
THEOREM CommandsAreTruthful == Spec => []CommandsTellTheTruth
<1>1. Init => LifecycleInv /\ QuietInv
  BY InitLifecycle, InitUser DEF QuietInv
<1>2. LifecycleInv /\ QuietInv /\ [Next]_vars => QuietInv'
  BY UserSteps
<1>3. LifecycleInv /\ QuietInv => CommandsTellTheTruth
  <2> SUFFICES ASSUME LifecycleInv, QuietInv PROVE CommandsTellTheTruth
    OBVIOUS
  <2>1. Reachable
    BY SettledFacts DEF Reachable, QuietInv, Calm
  <2>2. Accomplished
    BY DEF Accomplished, QuietInv, UserInv, OutcomeInv, Truth, NoneAlive
  <2>3. QED
    BY <2>1, <2>2 DEF CommandsTellTheTruth
<1>4. QED
  BY <1>1, <1>2, <1>3, LifecycleInvariant, PTL DEF Spec

-----------------------------------------------------------------------------
\* Induction over sequences, from the order of the naturals.

LEMMA LeastNumber ==
    ASSUME NEW N \in SUBSET Nat, N # {}
    PROVE  \E n \in N : \A m \in N : n <= m
<1> DEFINE Less == {pair \in Nat \X Nat : pair[1] < pair[2]}
<1>1. IsWellFoundedOn(Less, Nat)
  BY NatLessThanWellFounded DEF OpToRel
<1> HIDE DEF Less
<1>2. PICK n \in N : \A m \in N : ~(<<m, n>> \in Less)
  BY <1>1, WFMin
<1>3. \A m \in N : ~(m < n)
  BY <1>2 DEF Less
<1>4. QED
  BY <1>3

LEMMA ByAppending ==
    ASSUME NEW T, NEW G, <<>> \in G,
           \A s \in Seq(T), x \in T : s \in G => Append(s, x) \in G
    PROVE  \A s \in Seq(T) : s \in G
<1>1. SUFFICES ASSUME NEW s \in Seq(T), s \notin G PROVE FALSE
  OBVIOUS
<1> DEFINE Bad == {n \in 0..Len(s) : SubSeq(s, 1, n) \notin G}
<1>2. SubSeq(s, 1, Len(s)) = s /\ SubSeq(s, 1, 0) = <<>> /\ Len(s) \in Nat
  OBVIOUS
<1>3. PICK n \in Bad : \A m \in Bad : n <= m
  <2>1. Bad \subseteq Nat
    BY <1>2
  <2>2. Len(s) \in 0..Len(s)
    BY <1>2
  <2>3. Len(s) \in Bad
    BY <1>1, <1>2, <2>2, Zenon
  <2> HIDE DEF Bad
  <2>4. QED
    BY <2>1, <2>3, LeastNumber
<1>4. n # 0
  BY <1>2
<1>5. n \in 1..Len(s)
  BY <1>2, <1>4
<1>6. SubSeq(s, 1, n - 1) \in G
  BY <1>3, <1>5
<1>7. SubSeq(s, 1, n - 1) \in Seq(T) /\ s[n] \in T
  BY <1>5
<1>8. SubSeq(s, 1, n) = Append(SubSeq(s, 1, n - 1), s[n])
  BY <1>5
<1>9. QED
  BY <1>3, <1>6, <1>7, <1>8

-----------------------------------------------------------------------------
\* What Keep computes.

Tracks(k, s, kinds) ==
    k = [n \in 0..Len(s) |->
            IF n = 0 THEN <<>> ELSE IF s[n] \in kinds THEN Append(k[n - 1], s[n]) ELSE k[n - 1]]

Grown(k, s, x, kinds) ==
    [n \in 0..Len(s) + 1 |->
        IF n <= Len(s) THEN k[n] ELSE IF x \in kinds THEN Append(k[Len(s)], x) ELSE k[Len(s)]]

LEMMA TrackGrows ==
    ASSUME NEW T, NEW kinds, NEW s \in Seq(T), NEW x \in T, NEW k, Tracks(k, s, kinds)
    PROVE  Tracks(Grown(k, s, x, kinds), Append(s, x), kinds)
<1> DEFINE g == Grown(k, s, x, kinds)
           r == Append(s, x)
<1>1. Len(r) = Len(s) + 1 /\ r[Len(s) + 1] = x /\ \A n \in 1..Len(s) : r[n] = s[n]
  OBVIOUS
<1>2. \A n \in 0..Len(s) : k[n] = IF n = 0 THEN <<>> ELSE IF s[n] \in kinds THEN Append(k[n - 1], s[n]) ELSE k[n - 1]
  BY DEF Tracks
<1>3. \A n \in 0..Len(s) : g[n] = k[n]
  BY DEF Grown
<1>4. g[Len(s) + 1] = IF x \in kinds THEN Append(k[Len(s)], x) ELSE k[Len(s)]
  BY DEF Grown
<1>5. g = [n \in 0..Len(s) + 1 |-> g[n]]
  BY DEF Grown
<1> HIDE DEF g, r
<1>6. ASSUME NEW n \in 0..Len(r)
      PROVE  g[n] = IF n = 0 THEN <<>> ELSE IF r[n] \in kinds THEN Append(g[n - 1], r[n]) ELSE g[n - 1]
  <2>1. CASE n \in 0..Len(s)
    BY <2>1, <1>1, <1>2, <1>3
  <2>2. CASE n = Len(s) + 1
    BY <2>2, <1>1, <1>3, <1>4
  <2>3. QED
    BY <2>1, <2>2, <1>1
<1>7. Tracks(g, r, kinds)
  BY <1>1, <1>5, <1>6, Zenon DEF Tracks
<1>8. QED
  BY <1>7 DEF g, r

LEMMA TrackExists ==
    ASSUME NEW T, NEW kinds
    PROVE  \A s \in Seq(T) : \E k : Tracks(k, s, kinds)
<1> DEFINE G == {s \in Seq(T) : \E k : Tracks(k, s, kinds)}
<1>1. <<>> \in G
  <2>1. Tracks([n \in 0..0 |-> <<>>], <<>>, kinds)
    BY DEF Tracks
  <2>2. QED
    BY <2>1
<1>2. ASSUME NEW s \in Seq(T), NEW x \in T, s \in G PROVE Append(s, x) \in G
  <2>1. PICK k : Tracks(k, s, kinds)
    BY <1>2
  <2>2. Tracks(Grown(k, s, x, kinds), Append(s, x), kinds)
    BY <2>1, TrackGrows
  <2>3. Append(s, x) \in Seq(T)
    OBVIOUS
  <2>4. QED
    BY <2>2, <2>3
<1> HIDE DEF G
<1>3. \A s \in Seq(T) : s \in G
  BY <1>1, <1>2, ByAppending
<1>4. QED
  BY <1>3 DEF G

LEMMA TrackIsOne ==
    ASSUME NEW T, NEW kinds, NEW s \in Seq(T), NEW k, NEW j, Tracks(k, s, kinds), Tracks(j, s, kinds)
    PROVE  k = j
<1>1. /\ k = [n \in 0..Len(s) |-> k[n]] /\ j = [n \in 0..Len(s) |-> j[n]]
      /\ \A n \in 0..Len(s) :
            /\ k[n] = IF n = 0 THEN <<>> ELSE IF s[n] \in kinds THEN Append(k[n - 1], s[n]) ELSE k[n - 1]
            /\ j[n] = IF n = 0 THEN <<>> ELSE IF s[n] \in kinds THEN Append(j[n - 1], s[n]) ELSE j[n - 1]
  BY DEF Tracks
<1> DEFINE Bad == {n \in 0..Len(s) : k[n] # j[n]}
<1>2. SUFFICES ASSUME Bad # {} PROVE FALSE
  BY <1>1
<1>3. PICK n \in Bad : \A m \in Bad : n <= m
  <2>1. Bad \in SUBSET Nat
    OBVIOUS
  <2> HIDE DEF Bad
  <2>2. QED
    BY <1>2, <2>1, LeastNumber
<1>4. n \in 1..Len(s) /\ n - 1 \in 0..Len(s)
  BY <1>1, <1>3
<1>5. k[n - 1] = j[n - 1]
  BY <1>3, <1>4
<1>6. QED
  BY <1>1, <1>3, <1>4, <1>5

LEMMA KeepTracks ==
    ASSUME NEW T, NEW kinds, NEW s \in Seq(T), NEW k, Tracks(k, s, kinds)
    PROVE  Keep(s, kinds) = k[Len(s)]
<1>1. \A j : Tracks(j, s, kinds) => j = k
  BY TrackIsOne
<1>2. (CHOOSE j : Tracks(j, s, kinds)) = k
  BY <1>1
<1>3. Keep(s, kinds) = (CHOOSE j : Tracks(j, s, kinds))[Len(s)]
  BY DEF Keep, Tracks
<1>4. QED
  BY <1>2, <1>3

LEMMA KeepEmpty == \A kinds : Keep(<<>>, kinds) = <<>>
<1> TAKE kinds
<1>1. Tracks([n \in 0..0 |-> <<>>], <<>>, kinds)
  BY DEF Tracks
<1>2. <<>> \in Seq({})
  OBVIOUS
<1>3. QED
  BY <1>1, <1>2, KeepTracks

LEMMA KeepAppend ==
    ASSUME NEW T, NEW kinds, NEW s \in Seq(T), NEW x \in T
    PROVE  Keep(Append(s, x), kinds) = IF x \in kinds THEN Append(Keep(s, kinds), x) ELSE Keep(s, kinds)
<1>1. PICK k : Tracks(k, s, kinds)
  BY TrackExists
<1>2. Keep(s, kinds) = k[Len(s)]
  BY <1>1, KeepTracks
<1>3. Append(s, x) \in Seq(T) /\ Len(Append(s, x)) = Len(s) + 1
  OBVIOUS
<1>4. Keep(Append(s, x), kinds) = Grown(k, s, x, kinds)[Len(s) + 1]
  <2>1. Tracks(Grown(k, s, x, kinds), Append(s, x), kinds)
    BY <1>1, TrackGrows
  <2> DEFINE g == Grown(k, s, x, kinds)
             r == Append(s, x)
  <2> HIDE DEF g, r
  <2>2. Tracks(g, r, kinds) /\ r \in Seq(T) /\ Len(r) = Len(s) + 1
    BY <1>3, <2>1 DEF g, r
  <2>3. Keep(r, kinds) = g[Len(r)]
    BY <2>2, KeepTracks
  <2>4. QED
    BY <2>2, <2>3 DEF g, r
<1>5. QED
  BY <1>2, <1>4 DEF Grown

\* Laws of Keep, each by appending.

LEMMA KeepItems ==
    ASSUME NEW T, NEW kinds
    PROVE  \A s \in Seq(T) : Keep(s, kinds) \in Seq(T \cap kinds) /\ Keep(s, kinds) \in Seq(T)
<1> DEFINE G == {s \in Seq(T) : Keep(s, kinds) \in Seq(T \cap kinds)}
<1>1. <<>> \in G
  <2>1. <<>> \in Seq(T) /\ <<>> \in Seq(T \cap kinds)
    OBVIOUS
  <2>2. QED
    BY <2>1, KeepEmpty
<1>2. ASSUME NEW s \in Seq(T), NEW x \in T, s \in G PROVE Append(s, x) \in G
  BY <1>2, KeepAppend
<1> HIDE DEF G
<1>3. \A s \in Seq(T) : s \in G
  BY <1>1, <1>2, ByAppending
<1>4. QED
  BY <1>3 DEF G

LEMMA KeepAll ==
    ASSUME NEW T, NEW kinds, T \subseteq kinds
    PROVE  \A s \in Seq(T) : Keep(s, kinds) = s
<1> DEFINE G == {s \in Seq(T) : Keep(s, kinds) = s}
<1>1. <<>> \in G
  BY KeepEmpty
<1>2. ASSUME NEW s \in Seq(T), NEW x \in T, s \in G PROVE Append(s, x) \in G
  BY <1>2, KeepAppend
<1> HIDE DEF G
<1>3. \A s \in Seq(T) : s \in G
  BY <1>1, <1>2, ByAppending
<1>4. QED
  BY <1>3 DEF G

\* The order of two reductions does not matter.
LEMMA KeepCommutes ==
    ASSUME NEW T, NEW a, NEW b
    PROVE  \A s \in Seq(T) : Keep(Keep(s, a), b) = Keep(Keep(s, b), a)
<1> DEFINE G == {s \in Seq(T) : Keep(Keep(s, a), b) = Keep(Keep(s, b), a)}
<1>1. <<>> \in G
  BY KeepEmpty
<1>2. ASSUME NEW s \in Seq(T), NEW x \in T, s \in G PROVE Append(s, x) \in G
  <2>1. Keep(s, a) \in Seq(T) /\ Keep(s, b) \in Seq(T)
    BY KeepItems
  <2>2. /\ Keep(Append(s, x), a) = IF x \in a THEN Append(Keep(s, a), x) ELSE Keep(s, a)
        /\ Keep(Append(s, x), b) = IF x \in b THEN Append(Keep(s, b), x) ELSE Keep(s, b)
        /\ Keep(Append(Keep(s, a), x), b) =
              IF x \in b THEN Append(Keep(Keep(s, a), b), x) ELSE Keep(Keep(s, a), b)
        /\ Keep(Append(Keep(s, b), x), a) =
              IF x \in a THEN Append(Keep(Keep(s, b), a), x) ELSE Keep(Keep(s, b), a)
    BY <2>1, KeepAppend
  <2>3. Keep(Keep(s, a), b) = Keep(Keep(s, b), a) /\ Append(s, x) \in Seq(T)
    BY <1>2
  <2>4. Keep(Keep(Append(s, x), a), b) = Keep(Keep(Append(s, x), b), a)
    BY <2>2, <2>3
  <2>5. QED
    BY <2>3, <2>4
<1> HIDE DEF G
<1>3. \A s \in Seq(T) : s \in G
  BY <1>1, <1>2, ByAppending
<1>4. QED
  BY <1>3 DEF G

\* What a reduction to b takes away is the same before and after another
\* reduction, when each item is kept by one of the two.
LEMMA KeepCounts ==
    ASSUME NEW T, NEW a, NEW b, T \subseteq a \cup b
    PROVE  \A s \in Seq(T) : Len(Keep(s, a)) - Len(Keep(Keep(s, a), b)) = Len(s) - Len(Keep(s, b))
<1> DEFINE G == {s \in Seq(T) : Len(Keep(s, a)) - Len(Keep(Keep(s, a), b)) = Len(s) - Len(Keep(s, b))}
<1>1. <<>> \in G
  BY KeepEmpty
<1>2. ASSUME NEW s \in Seq(T), NEW x \in T, s \in G PROVE Append(s, x) \in G
  <2>1. Keep(s, a) \in Seq(T) /\ Keep(s, b) \in Seq(T) /\ Keep(Keep(s, a), b) \in Seq(T)
    BY KeepItems
  <2>2. /\ Keep(Append(s, x), a) = IF x \in a THEN Append(Keep(s, a), x) ELSE Keep(s, a)
        /\ Keep(Append(s, x), b) = IF x \in b THEN Append(Keep(s, b), x) ELSE Keep(s, b)
        /\ Keep(Append(Keep(s, a), x), b) =
              IF x \in b THEN Append(Keep(Keep(s, a), b), x) ELSE Keep(Keep(s, a), b)
    BY <2>1, KeepAppend
  <2>3. \A q \in Seq(T) : Len(Append(q, x)) = Len(q) + 1 /\ Len(q) \in Nat
    OBVIOUS
  <2>4. Len(Keep(s, a)) - Len(Keep(Keep(s, a), b)) = Len(s) - Len(Keep(s, b))
    BY <1>2
  <2>5. Append(s, x) \in Seq(T)
    OBVIOUS
  <2>6. Len(Keep(s, a)) \in Int /\ Len(Keep(Keep(s, a), b)) \in Int /\ Len(s) \in Int /\ Len(Keep(s, b)) \in Int
    BY <2>1, <2>3
  <2> DEFINE r == Append(s, x)
  <2>7. Len(r) = Len(s) + 1 /\ Len(Keep(r, b)) = IF x \in b THEN Len(Keep(s, b)) + 1 ELSE Len(Keep(s, b))
    BY <2>1, <2>2, <2>3
  <2>8. /\ Len(Keep(r, a)) = IF x \in a THEN Len(Keep(s, a)) + 1 ELSE Len(Keep(s, a))
        /\ Len(Keep(Keep(r, a), b)) =
              IF x \in a /\ x \in b THEN Len(Keep(Keep(s, a), b)) + 1 ELSE Len(Keep(Keep(s, a), b))
    BY <2>1, <2>2, <2>3
  <2>9. Len(Keep(r, a)) - Len(Keep(Keep(r, a), b)) = Len(r) - Len(Keep(r, b))
    <3>1. \A p, q, n, m \in Int :
            p - q = n - m => /\ (p + 1) - (q + 1) = (n + 1) - (m + 1)
                             /\ (p + 1) - q = (n + 1) - m
                             /\ p - q = (n + 1) - (m + 1)
      OBVIOUS
    <3>2. /\ (Len(Keep(s, a)) + 1) - (Len(Keep(Keep(s, a), b)) + 1) = (Len(s) + 1) - (Len(Keep(s, b)) + 1)
          /\ (Len(Keep(s, a)) + 1) - Len(Keep(Keep(s, a), b)) = (Len(s) + 1) - Len(Keep(s, b))
          /\ Len(Keep(s, a)) - Len(Keep(Keep(s, a), b)) = (Len(s) + 1) - (Len(Keep(s, b)) + 1)
      BY <2>4, <2>6, <3>1
    <3>3. x \in a \/ x \in b
      OBVIOUS
    <3> HIDE DEF r, G
    <3>4. QED
      BY <2>7, <2>8, <3>2, <3>3, Zenon
  <2>10. QED
    BY <2>5, <2>9
<1> HIDE DEF G
<1>3. \A s \in Seq(T) : s \in G
  BY <1>1, <1>2, ByAppending
<1>4. QED
  BY <1>3 DEF G

Distinct(s) == \A i, j \in DOMAIN s : s[i] = s[j] => i = j

Items(s) == {s[i] : i \in DOMAIN s}

LEMMA KeepDistinct ==
    ASSUME NEW T, NEW kinds
    PROVE  \A s \in Seq(T) : /\ Items(Keep(s, kinds)) = Items(s) \cap kinds
                             /\ Distinct(s) => Distinct(Keep(s, kinds))
<1> DEFINE G == {s \in Seq(T) : /\ Items(Keep(s, kinds)) = Items(s) \cap kinds
                                /\ Distinct(s) => Distinct(Keep(s, kinds))}
<1>1. <<>> \in G
  BY KeepEmpty DEF Items
<1>2. ASSUME NEW s \in Seq(T), NEW x \in T, s \in G PROVE Append(s, x) \in G
  <2>1. Append(s, x) \in Seq(T) /\ s \in Seq(T)
    OBVIOUS
  <2>8. Keep(s, kinds) \in Seq(T)
    BY <2>1, KeepItems
  <2>2. \A q \in Seq(T) : Items(Append(q, x)) = Items(q) \cup {x}
    <3> TAKE q \in Seq(T)
    <3>1. DOMAIN Append(q, x) = 1..Len(q) + 1 /\ DOMAIN q = 1..Len(q) /\ Len(q) \in Nat
      OBVIOUS
    <3>2. /\ \A i \in 1..Len(q) : Append(q, x)[i] = q[i]
          /\ Append(q, x)[Len(q) + 1] = x
      OBVIOUS
    <3> HIDE DEF G
    <3>3. QED
      BY <3>1, <3>2 DEF Items
  <2>3. \A q \in Seq(T) : Distinct(Append(q, x)) <=> Distinct(q) /\ x \notin Items(q)
    <3> TAKE q \in Seq(T)
    <3>1. DOMAIN Append(q, x) = 1..Len(q) + 1 /\ DOMAIN q = 1..Len(q) /\ Len(q) \in Nat
      OBVIOUS
    <3>2. /\ \A i \in 1..Len(q) : Append(q, x)[i] = q[i]
          /\ Append(q, x)[Len(q) + 1] = x
      OBVIOUS
    <3> HIDE DEF G
    <3>3. QED
      BY <3>1, <3>2 DEF Items, Distinct
  <2>4. Keep(Append(s, x), kinds) = IF x \in kinds THEN Append(Keep(s, kinds), x) ELSE Keep(s, kinds)
    BY KeepAppend
  <2>5. Items(Keep(s, kinds)) = Items(s) \cap kinds /\ (Distinct(s) => Distinct(Keep(s, kinds)))
    BY <1>2
  <2>6. /\ Items(Keep(Append(s, x), kinds)) = Items(Append(s, x)) \cap kinds
        /\ Distinct(Append(s, x)) => Distinct(Keep(Append(s, x), kinds))
    BY <2>2, <2>3, <2>4, <2>5, <2>8
  <2>7. QED
    BY <2>1, <2>6
<1> HIDE DEF G
<1>3. \A s \in Seq(T) : s \in G
  BY <1>1, <1>2, ByAppending
<1>4. QED
  BY <1>3 DEF G

-----------------------------------------------------------------------------
\* What the operators on files do to the hooks of others and to the own ones.

Contents == [Event -> Seq(AnyHook)]
Readable == Contents \cup {Absent}

LEMMA OwnIsOwn ==
    /\ Own \in AnyHook /\ Ambiguous \in AnyHook \ {Own}
    /\ Foreign \subseteq AnyHook \ {Own} /\ Broken \notin Readable
  BY IntegrationsAssumption DEF AnyHook, Readable, Contents

LEMMA EmptyContents == Empty \in Contents /\ \A e \in Event : Empty[e] = <<>>
<1>1. <<>> \in Seq(AnyHook)
  OBVIOUS
<1>2. QED
  BY <1>1 DEF Empty, Contents

LEMMA ContentsAreFiles == \A content \in Contents : IsFile(content) /\ Loaded(content) = content
  BY IntegrationsAssumption DEF IsFile, Loaded, Contents

LEMMA OthersLaws ==
    ASSUME NEW s \in Seq(AnyHook)
    PROVE  /\ Others(s) \in Seq(AnyHook \ {Own}) /\ Others(s) \in Seq(AnyHook)
           /\ Others(Others(s)) = Others(s)
           /\ Others(Append(s, Own)) = Others(s)
           /\ \A foreign \in Foreign : Others(Append(s, foreign)) = Append(Others(s), foreign)
<1>1. /\ Keep(s, AnyHook \ {Own}) \in Seq(AnyHook \cap (AnyHook \ {Own}))
      /\ Keep(s, AnyHook \ {Own}) \in Seq(AnyHook)
  BY KeepItems
<1>2. Others(s) \in Seq(AnyHook \ {Own}) /\ Others(s) \in Seq(AnyHook)
  <2>1. AnyHook \cap (AnyHook \ {Own}) = AnyHook \ {Own}
    OBVIOUS
  <2>2. QED
    BY <1>1, <2>1 DEF Others
<1>3. Others(Others(s)) = Others(s)
  BY <1>2, KeepAll DEF Others
<1>4. Others(Append(s, Own)) = Others(s)
  BY OwnIsOwn, KeepAppend DEF Others
<1>5. \A foreign \in Foreign : Others(Append(s, foreign)) = Append(Others(s), foreign)
  BY OwnIsOwn, KeepAppend DEF Others
<1>6. QED
  BY <1>2, <1>3, <1>4, <1>5

\* A file that is not there is as one that is empty.
LEMMA ByLoaded ==
    ASSUME NEW content \in Readable
    PROVE  /\ Loaded(content) \in Contents
           /\ Theirs(content) = [e \in Event |-> Others(Loaded(content)[e])]
           /\ OwnIn(content) = [e \in Event |-> Len(Loaded(content)[e]) - Len(Others(Loaded(content)[e]))]
<1>1. CASE content \in Contents
  BY <1>1, ContentsAreFiles DEF Theirs, OwnIn
<1>2. CASE content = Absent
  <2>1. Loaded(content) = Empty /\ ~IsFile(content)
    BY <1>2 DEF Loaded, IsFile
  <2>2. \A e \in Event : Others(Empty[e]) = <<>> /\ Len(Empty[e]) - Len(<<>>) = 0
    BY EmptyContents, KeepEmpty DEF Others
  <2>3. Theirs(content) = [e \in Event |-> Others(Empty[e])]
    BY <2>1, <2>2, EmptyContents DEF Theirs, Empty
  <2>4. OwnIn(content) = [e \in Event |-> Len(Empty[e]) - Len(Others(Empty[e]))]
    BY <2>1, <2>2 DEF OwnIn
  <2>5. QED
    BY <2>1, <2>3, <2>4, EmptyContents
<1>3. QED
  BY <1>1, <1>2 DEF Readable

LEMMA SameLoaded ==
    ASSUME NEW content \in Readable, NEW other \in Readable, Loaded(content) = Loaded(other)
    PROVE  Theirs(content) = Theirs(other) /\ OwnIn(content) = OwnIn(other)
  BY ByLoaded

LEMMA DesiredLaws ==
    ASSUME NEW content \in Readable, NEW enabled \in BOOLEAN
    PROVE  /\ Desired(content, enabled) \in Contents
           /\ Theirs(Desired(content, enabled)) = Theirs(content)
           /\ OwnIn(Desired(content, enabled)) = [e \in Event |-> IF enabled THEN 1 ELSE 0]
<1> DEFINE c == Loaded(content)
           d == Desired(content, enabled)
<1>1. c \in Contents
  BY ByLoaded
<1> HIDE DEF c
<1>2. \A e \in Event : d[e] = IF enabled THEN Append(Others(c[e]), Own) ELSE Others(c[e])
  <2> TAKE e \in Event
  <2>1. Others(c[e]) \in Seq(AnyHook)
    BY <1>1, OthersLaws DEF Contents
  <2>2. d[e] = Others(c[e]) \o (IF enabled THEN <<Own>> ELSE <<>>)
    BY DEF Desired, c
  <2>3. \A q \in Seq(AnyHook) : q \o <<>> = q /\ q \o <<Own>> = Append(q, Own)
    BY OwnIsOwn
  <2>4. QED
    BY <2>1, <2>2, <2>3
<1>3. \A e \in Event : /\ d[e] \in Seq(AnyHook) /\ Others(d[e]) = Others(c[e])
                       /\ Len(d[e]) - Len(Others(d[e])) = IF enabled THEN 1 ELSE 0
  <2> TAKE e \in Event
  <2>1. Others(c[e]) \in Seq(AnyHook) /\ Others(Others(c[e])) = Others(c[e])
    BY <1>1, OthersLaws DEF Contents
  <2>2. Others(Append(Others(c[e]), Own)) = Others(c[e])
    BY <2>1, OthersLaws
  <2>3. \A q \in Seq(AnyHook) : /\ Append(q, Own) \in Seq(AnyHook)
                                /\ Len(Append(q, Own)) - Len(q) = 1 /\ Len(q) - Len(q) = 0
    BY OwnIsOwn
  <2> HIDE DEF d
  <2>4. CASE enabled
    BY <1>2, <2>1, <2>2, <2>3, <2>4, Zenon
  <2>5. CASE ~enabled
    BY <1>2, <2>1, <2>3, <2>5, Zenon
  <2>6. QED
    BY <2>4, <2>5
<1>4. d = [e \in Event |-> d[e]]
  BY DEF Desired
<1> HIDE DEF d
<1>5. d \in Contents
  BY <1>3, <1>4 DEF Contents
<1>6. Theirs(d) = [e \in Event |-> Others(d[e])] /\ OwnIn(d) = [e \in Event |-> Len(d[e]) - Len(Others(d[e]))]
  BY <1>5, ContentsAreFiles DEF Theirs, OwnIn
<1>7. Theirs(content) = [e \in Event |-> Others(c[e])]
  BY ByLoaded DEF c
<1>8. Theirs(d) = Theirs(content)
  BY <1>3, <1>6, <1>7
<1>9. OwnIn(d) = [e \in Event |-> IF enabled THEN 1 ELSE 0]
  BY <1>3, <1>6
<1>10. QED
  BY <1>5, <1>8, <1>9 DEF d

\* What makes a hook file clear: none of its hooks is ambiguous.
LEMMA ClearContents ==
    ASSUME NEW content \in Readable
    PROVE  ~HasAmbiguous(content) <=> Loaded(content) \in [Event -> Seq(AnyHook \ {Ambiguous})]
<1> DEFINE c == Loaded(content)
<1>1. c \in [Event -> Seq(AnyHook)]
  BY ByLoaded DEF Contents
<1>2. HasAmbiguous(content) <=> \E e \in Event : Ambiguous \in {c[e][i] : i \in DOMAIN c[e]}
  BY DEF HasAmbiguous, HasHook
<1> HIDE DEF c
<1>3. \A s \in Seq(AnyHook) : Ambiguous \notin {s[i] : i \in DOMAIN s} <=> s \in Seq(AnyHook \ {Ambiguous})
  OBVIOUS
<1>4. QED
  BY <1>1, <1>2, <1>3 DEF c

LEMMA DesiredIsClear ==
    ASSUME NEW content \in Readable, NEW enabled \in BOOLEAN, ~HasAmbiguous(content)
    PROVE  ~HasAmbiguous(Desired(content, enabled))
<1> DEFINE c == Loaded(content)
           d == Desired(content, enabled)
<1>1. c \in [Event -> Seq(AnyHook \ {Ambiguous})]
  BY ClearContents
<1>2. \A e \in Event : d[e] = Others(c[e]) \o (IF enabled THEN <<Own>> ELSE <<>>)
  BY DEF Desired
<1> HIDE DEF c
<1>3. \A s \in Seq(AnyHook \ {Ambiguous}) : Others(s) \in Seq(AnyHook \ {Ambiguous})
  BY KeepItems DEF Others
<1>4. Own \in AnyHook \ {Ambiguous}
  BY IntegrationsAssumption, OwnIsOwn
<1>5. \A s \in Seq(AnyHook \ {Ambiguous}) :
          s \o (IF enabled THEN <<Own>> ELSE <<>>) \in Seq(AnyHook \ {Ambiguous})
  <2> TAKE s \in Seq(AnyHook \ {Ambiguous})
  <2>1. s \o <<Own>> = Append(s, Own) /\ s \o <<>> = s
    BY <1>4
  <2>2. Append(s, Own) \in Seq(AnyHook \ {Ambiguous})
    BY <1>4
  <2>3. QED
    BY <2>1, <2>2
<1>6. \A e \in Event : d[e] \in Seq(AnyHook \ {Ambiguous})
  BY <1>1, <1>2, <1>3, <1>5
<1>7. d = [e \in Event |-> d[e]]
  BY DEF Desired
<1>8. d \in Contents
  BY DesiredLaws
<1> HIDE DEF d
<1>9. d \in [Event -> Seq(AnyHook \ {Ambiguous})]
  BY <1>6, <1>7
<1>10. Loaded(d) = d /\ d \in Readable
  BY <1>8, ContentsAreFiles DEF Readable
<1>11. QED
  BY <1>9, <1>10, ClearContents DEF d

\* What becomes of a file when its mutation is written.
Outcome(mutation) == IF Changes(mutation) THEN mutation.desired ELSE mutation.original

Mutation == [target : Target, original : Readable, desired : Contents]

LEMMA OutcomeLaws ==
    ASSUME NEW m \in Mutation, NEW enabled \in BOOLEAN,
           m.desired = Desired(m.original, enabled), ~HasAmbiguous(m.original)
    PROVE  /\ Outcome(m) \in Readable
           /\ Theirs(Outcome(m)) = Theirs(m.original)
           /\ OwnIn(Outcome(m)) = [e \in Event |-> IF enabled THEN 1 ELSE 0]
           /\ ~HasAmbiguous(Outcome(m))
<1>1. m.original \in Readable /\ m.desired \in Readable /\ m.desired \in Contents
  BY DEF Mutation, Readable
<1>2. CASE Changes(m)
  BY <1>1, <1>2, DesiredLaws, DesiredIsClear DEF Outcome
<1>3. CASE ~Changes(m)
  <2>1. Loaded(m.original) = Loaded(m.desired)
    BY <1>1, <1>3, ContentsAreFiles DEF Changes
  <2>2. OwnIn(m.original) = OwnIn(m.desired)
    BY <1>1, <2>1, SameLoaded
  <2>3. QED
    BY <1>1, <1>3, <2>2, DesiredLaws DEF Outcome
<1>4. QED
  BY <1>2, <1>3

LEMMA RemovalLaws ==
    ASSUME NEW content \in Contents, NEW foreign \in Foreign
    PROVE  LET reduced == [f \in Event |-> Keep(content[f], AnyHook \ {foreign})]
           IN  /\ reduced \in Contents
               /\ Theirs(reduced) = [f \in Event |-> Keep(Theirs(content)[f], AnyHook \ {foreign})]
               /\ OwnIn(reduced) = OwnIn(content)
<1> DEFINE reduced == [f \in Event |-> Keep(content[f], AnyHook \ {foreign})]
<1>1. \A e \in Event : content[e] \in Seq(AnyHook)
  BY DEF Contents
<1>2. \A e \in Event : reduced[e] = Keep(content[e], AnyHook \ {foreign}) /\ reduced[e] \in Seq(AnyHook)
  BY <1>1, KeepItems
<1>3. reduced \in Contents
  BY <1>2 DEF Contents
<1>4. AnyHook \subseteq (AnyHook \ {foreign}) \cup (AnyHook \ {Own})
  BY OwnIsOwn
<1>5. /\ Theirs(content) = [e \in Event |-> Keep(content[e], AnyHook \ {Own})]
      /\ OwnIn(content) = [e \in Event |-> Len(content[e]) - Len(Keep(content[e], AnyHook \ {Own}))]
  BY ContentsAreFiles DEF Theirs, OwnIn, Others
<1> HIDE DEF reduced
<1>6. /\ Theirs(reduced) = [e \in Event |-> Keep(reduced[e], AnyHook \ {Own})]
      /\ OwnIn(reduced) = [e \in Event |-> Len(reduced[e]) - Len(Keep(reduced[e], AnyHook \ {Own}))]
  BY <1>3, ContentsAreFiles DEF Theirs, OwnIn, Others
<1>7. \A e \in Event : Keep(reduced[e], AnyHook \ {Own}) = Keep(Theirs(content)[e], AnyHook \ {foreign})
  <2>1. \A s \in Seq(AnyHook) : Keep(Keep(s, AnyHook \ {foreign}), AnyHook \ {Own}) =
                              Keep(Keep(s, AnyHook \ {Own}), AnyHook \ {foreign})
    BY KeepCommutes
  <2>2. QED
    BY <1>1, <1>2, <1>5, <2>1
<1>8. Theirs(reduced) = [f \in Event |-> Keep(Theirs(content)[f], AnyHook \ {foreign})]
  BY <1>6, <1>7
<1>9. \A e \in Event : Len(reduced[e]) - Len(Keep(reduced[e], AnyHook \ {Own})) =
                       Len(content[e]) - Len(Keep(content[e], AnyHook \ {Own}))
  <2>1. \A s \in Seq(AnyHook) :
            Len(Keep(s, AnyHook \ {foreign})) - Len(Keep(Keep(s, AnyHook \ {foreign}), AnyHook \ {Own})) =
            Len(s) - Len(Keep(s, AnyHook \ {Own}))
    BY <1>4, KeepCounts
  <2>2. QED
    BY <1>1, <1>2, <2>1
<1>10. OwnIn(reduced) = OwnIn(content)
  BY <1>5, <1>6, <1>9
<1>11. QED
  BY <1>3, <1>8, <1>10 DEF reduced

LEMMA AdditionLaws ==
    ASSUME NEW content \in Readable, NEW e \in Event, NEW foreign \in Foreign
    PROVE  LET extended == [Loaded(content) EXCEPT ![e] = Append(@, foreign)]
           IN  /\ extended \in Contents
               /\ Theirs(extended) = [Theirs(content) EXCEPT ![e] = Append(@, foreign)]
               /\ OwnIn(extended) = OwnIn(content)
<1> DEFINE c == Loaded(content)
           extended == [c EXCEPT ![e] = Append(@, foreign)]
<1>1. c \in Contents /\ foreign \in AnyHook
  BY ByLoaded, OwnIsOwn
<1>2. /\ Theirs(content) = [f \in Event |-> Others(c[f])]
      /\ OwnIn(content) = [f \in Event |-> Len(c[f]) - Len(Others(c[f]))]
  BY ByLoaded
<1> HIDE DEF c
<1>3. \A f \in Event : c[f] \in Seq(AnyHook)
  BY <1>1 DEF Contents
<1>4. \A f \in Event : extended[f] = IF f = e THEN Append(c[f], foreign) ELSE c[f]
  BY <1>1 DEF Contents
<1>5. extended \in Contents
  BY <1>1, <1>3 DEF Contents
<1> HIDE DEF extended
<1>6. /\ Theirs(extended) = [f \in Event |-> Others(extended[f])]
      /\ OwnIn(extended) = [f \in Event |-> Len(extended[f]) - Len(Others(extended[f]))]
  BY <1>5, ContentsAreFiles DEF Theirs, OwnIn
<1>7. \A f \in Event : Others(extended[f]) = IF f = e THEN Append(Others(c[f]), foreign) ELSE Others(c[f])
  BY <1>3, <1>4, OthersLaws
<1>8. Theirs(extended) = [Theirs(content) EXCEPT ![e] = Append(@, foreign)]
  <2>1. Theirs(extended) = [f \in Event |-> IF f = e THEN Append(Others(c[f]), foreign) ELSE Others(c[f])]
    BY <1>6, <1>7
  <2>2. QED
    BY <1>2, <2>1
<1>9. \A f \in Event : Len(extended[f]) - Len(Others(extended[f])) = Len(c[f]) - Len(Others(c[f]))
  <2> TAKE f \in Event
  <2>1. Others(c[f]) \in Seq(AnyHook)
    BY <1>3, OthersLaws
  <2>2. \A p, q \in Seq(AnyHook) : Len(Append(p, foreign)) - Len(Append(q, foreign)) = Len(p) - Len(q)
    BY <1>1
  <2>3. QED
    BY <1>3, <1>4, <1>7, <2>1, <2>2
<1>10. OwnIn(extended) = OwnIn(content)
  BY <1>2, <1>6, <1>9
<1>11. QED
  BY <1>5, <1>8, <1>10 DEF c, extended

-----------------------------------------------------------------------------
\* The invariant of the commands and the files they share.

Stage == {"idle", "plan", "write", "rollback", "failed", "done", "installed", "enabled", "unlink"}

InstallerTypes ==
    installer \in [command : {"none", "install", "uninstall"}, batches : Seq(Seq(Target)), at : Stage,
                   planned : Seq(Mutation), written : Nat]

\* No file is named twice, in one batch or in two.
Disjoint(batches) ==
    \A i, j \in DOMAIN batches : \A k \in DOMAIN batches[i], l \in DOMAIN batches[j] :
        batches[i][k] = batches[j][l] => i = j /\ k = l

BatchInv ==
    /\ installer.at = "idle" => installer = NoCommand
    /\ installer.at # "idle" => installer.batches # <<>>
    /\ \A i \in DOMAIN installer.batches : installer.batches[i] # <<>>
    /\ Disjoint(installer.batches)

\* How far the batch has come.
ProgressInv ==
    /\ installer.at # "idle" => Len(installer.planned) <= Len(Batch)
    /\ \A i \in DOMAIN installer.planned : installer.planned[i].target = Batch[i]
    /\ installer.written <= Len(installer.planned)
    /\ installer.at = "plan" => installer.written = 0 /\ Len(installer.planned) < Len(Batch)
    /\ installer.at \in {"write", "rollback", "done", "installed", "enabled"} => Len(installer.planned) = Len(Batch)
    /\ installer.at = "failed" => installer.written = 0
    /\ installer.at \in {"done", "installed", "enabled"} => installer.written = Len(installer.planned)
    /\ installer.at \in {"installed", "enabled"} => Enabling
    /\ writer["install"] # Absent => installer.at \in {"installed", "enabled"}

\* What has been planned is what the files were, and the first of them are
\* written.
PlannedInv ==
    \A i \in DOMAIN installer.planned :
        LET m == installer.planned[i]
        IN  /\ ~HasAmbiguous(m.original) /\ m.desired = Desired(m.original, Enabling)
            /\ m.target \notin raced =>
                  /\ file[m.target] = IF i <= installer.written THEN Outcome(m) ELSE m.original
                  /\ OwnIn(m.original) = OwnIn(before[m.target])

\* What has not been planned yet is registered as it was.
PendingInv ==
    \A j \in DOMAIN installer.batches : \A k \in DOMAIN installer.batches[j] :
        (j = 1 => k > Len(installer.planned)) =>
            OwnIn(file[installer.batches[j][k]]) = OwnIn(before[installer.batches[j][k]])

FileInv ==
    /\ file \in [Target -> Readable \cup {Broken}]
    /\ theirs = [t \in Target |-> theirs[t]]
    /\ ForeignKept

WriterDomain == DOMAIN writer = {"install", "library"}

InstallerInv == InstallerTypes /\ BatchInv /\ ProgressInv /\ WriterDomain
SharedInv == InstallerInv /\ PlannedInv /\ PendingInv /\ FileInv

LEMMA NoCommandFields ==
    /\ NoCommand.command = "none" /\ NoCommand.batches = <<>> /\ NoCommand.at = "idle"
    /\ NoCommand.planned = <<>> /\ NoCommand.written = 0
    /\ NoCommand \in [command : {"none", "install", "uninstall"}, batches : Seq(Seq(Target)), at : Stage,
                      planned : Seq(Mutation), written : Nat]
<1>1. <<>> \in Seq(Seq(Target)) /\ <<>> \in Seq(Mutation) /\ 0 \in Nat
  OBVIOUS
<1>2. QED
  BY <1>1 DEF NoCommand, Stage

\* A command that is over leaves nothing to hold.
LEMMA AtRest ==
    ASSUME installer' = NoCommand, writer'["install"] = Absent, WriterDomain'
    PROVE  InstallerInv' /\ PlannedInv' /\ PendingInv'
<1>1. InstallerTypes'
  BY NoCommandFields DEF InstallerTypes
<1>2. DOMAIN <<>> = {} /\ Len(<<>>) = 0
  OBVIOUS
<1>3. BatchInv'
  BY <1>2, NoCommandFields DEF BatchInv, Disjoint
<1>4. ProgressInv'
  BY <1>2, NoCommandFields DEF ProgressInv, Enabling
<1>5. PlannedInv' /\ PendingInv'
  BY <1>2, NoCommandFields DEF PlannedInv, PendingInv
<1>6. QED
  BY <1>1, <1>3, <1>4, <1>5 DEF InstallerInv

\* The first batch of a command at work.
LEMMA BatchFacts ==
    ASSUME InstallerInv, installer.at # "idle"
    PROVE  /\ Batch = installer.batches[1] /\ 1 \in DOMAIN installer.batches
           /\ Batch \in Seq(Target) /\ Len(Batch) \in Nat /\ Len(Batch) > 0
           /\ Len(installer.planned) \in Nat /\ installer.written \in Nat
           /\ \A i \in DOMAIN installer.planned : i \in 1..Len(Batch) /\ installer.planned[i] \in Mutation
           /\ \A i, j \in DOMAIN Batch : Batch[i] = Batch[j] => i = j
<1>1. installer.batches \in Seq(Seq(Target)) /\ installer.batches # <<>> /\ installer.planned \in Seq(Mutation)
  BY DEF InstallerInv, InstallerTypes, BatchInv
<1>2. Batch = installer.batches[1] /\ 1 \in DOMAIN installer.batches
  BY <1>1 DEF Batch
<1>3. Batch \in Seq(Target) /\ Batch # <<>>
  BY <1>1, <1>2 DEF InstallerInv, BatchInv
<1>4. \A i, j \in DOMAIN Batch : Batch[i] = Batch[j] => i = j
  BY <1>2 DEF InstallerInv, BatchInv, Disjoint
<1>5. Len(Batch) \in Nat /\ Len(Batch) > 0
  BY <1>3
<1>6. Len(installer.planned) \in Nat /\ installer.written \in Nat
  BY <1>1 DEF InstallerInv, InstallerTypes
<1>7. \A i \in DOMAIN installer.planned : i \in 1..Len(Batch) /\ installer.planned[i] \in Mutation
  <2>1. Len(installer.planned) <= Len(Batch)
    BY DEF InstallerInv, ProgressInv
  <2>2. QED
    BY <1>1, <1>5, <1>6, <2>1
<1>8. QED
  BY <1>2, <1>3, <1>4, <1>5, <1>6, <1>7

\* A command goes on to another stage, with what it has planned and written.
LEMMA StageMoves ==
    ASSUME InstallerInv, PlannedInv, PendingInv, installer.at # "idle",
           NEW stage \in Stage \ {"idle", "plan"}, installer' = [installer EXCEPT !.at = stage],
           UNCHANGED hookVars, WriterDomain',
           stage \in {"write", "rollback", "done", "installed", "enabled"} => Len(installer.planned) = Len(Batch),
           stage = "failed" => installer.written = 0,
           stage \in {"done", "installed", "enabled"} => installer.written = Len(installer.planned),
           stage \in {"installed", "enabled"} => Enabling,
           writer'["install"] # Absent => stage \in {"installed", "enabled"}
    PROVE  InstallerInv' /\ PlannedInv' /\ PendingInv'
<1>1. /\ installer'.command = installer.command /\ installer'.batches = installer.batches
      /\ installer'.at = stage
      /\ installer'.planned = installer.planned /\ installer'.written = installer.written
  BY DEF InstallerInv, InstallerTypes
<1>2. InstallerTypes'
  BY DEF InstallerInv, InstallerTypes
<1>3. BatchInv'
  BY <1>1 DEF InstallerInv, BatchInv
<1>4. Batch' = Batch /\ Enabling' = Enabling
  BY <1>1 DEF Batch, Enabling
<1>5. ProgressInv'
  BY <1>1, <1>4 DEF InstallerInv, ProgressInv
<1>6. PlannedInv' /\ PendingInv'
  BY <1>1, <1>4 DEF PlannedInv, PendingInv, hookVars
<1>7. QED
  BY <1>2, <1>3, <1>5, <1>6 DEF InstallerInv

LEMMA TailFacts ==
    ASSUME NEW T, NEW s \in Seq(T), s # <<>>, Len(s) # 1
    PROVE  /\ Tail(s) \in Seq(T) /\ Tail(s) # <<>> /\ 1 \in DOMAIN Tail(s)
           /\ \A i \in DOMAIN Tail(s) : i \in Nat /\ i + 1 \in DOMAIN s /\ Tail(s)[i] = s[i + 1]
<1>1. Len(s) \in Nat /\ Len(s) > 1
  <2>1. Len(s) \in Nat /\ (Len(s) = 0 => s = <<>>)
    OBVIOUS
  <2>2. \A n \in Nat : n # 0 /\ n # 1 => n > 1
    OBVIOUS
  <2>3. QED
    BY <2>1, <2>2, Zenon
<1>2. Tail(s) \in Seq(T) /\ Len(Tail(s)) = Len(s) - 1 /\ DOMAIN Tail(s) = 1..Len(s) - 1
  BY <1>1
<1>3. \A i \in 1..Len(s) - 1 : Tail(s)[i] = s[i + 1]
  BY <1>1
<1>4. DOMAIN s = 1..Len(s)
  OBVIOUS
<1>5. Tail(s) # <<>>
  <2>1. Len(Tail(s)) # 0 /\ Len(<<>>) = 0
    BY <1>1, <1>2
  <2>2. QED
    BY <2>1
<1>6. QED
  BY <1>1, <1>2, <1>3, <1>4, <1>5

\* The end of a batch: that of the command, or the next one begins.
LEMMA NextBatchKeeps ==
    ASSUME InstallerInv, PlannedInv, PendingInv, installer.at # "idle", NextBatch,
           UNCHANGED hookVars, WriterDomain', writer'["install"] = Absent
    PROVE  InstallerInv' /\ PlannedInv' /\ PendingInv'
<1> DEFINE b == installer.batches
<1>1. CASE Len(b) = 1 /\ Enabling
  BY <1>1, AtRest DEF NextBatch
<1>2. CASE Len(b) = 1 /\ ~Enabling
  <2>1. installer' = [installer EXCEPT !.at = "unlink"]
    BY <1>2 DEF NextBatch
  <2>2. QED
    BY <2>1, StageMoves DEF Stage
<1>3. CASE Len(b) # 1
  <2>1. installer' = [installer EXCEPT !.batches = Tail(@), !.at = "plan", !.planned = <<>>, !.written = 0]
    BY <1>3 DEF NextBatch
  <2>2. b \in Seq(Seq(Target)) /\ b # <<>>
    BY DEF InstallerInv, InstallerTypes, BatchInv
  <2>3. /\ Tail(b) \in Seq(Seq(Target)) /\ Tail(b) # <<>> /\ 1 \in DOMAIN Tail(b)
        /\ \A i \in DOMAIN Tail(b) : i \in Nat /\ i + 1 \in DOMAIN b /\ Tail(b)[i] = b[i + 1]
    BY <1>3, <2>2, TailFacts
  <2> HIDE DEF b
  <2>4. /\ installer'.command = installer.command /\ installer'.batches = Tail(b)
        /\ installer'.at = "plan" /\ installer'.planned = <<>> /\ installer'.written = 0
    BY <2>1 DEF InstallerInv, InstallerTypes, b
  <2>5. InstallerTypes'
    <3>1. <<>> \in Seq(Mutation) /\ 0 \in Nat /\ "plan" \in Stage
      BY DEF Stage
    <3>2. QED
      BY <2>1, <2>3, <3>1 DEF InstallerInv, InstallerTypes, b
  <2>6. BatchInv'
    <3>1. \A i \in DOMAIN b : b[i] # <<>>
      BY DEF InstallerInv, BatchInv, b
    <3>2. Disjoint(b)
      BY DEF InstallerInv, BatchInv, b
    <3>3. Disjoint(Tail(b))
      BY <2>3, <3>2 DEF Disjoint
    <3>4. QED
      BY <2>3, <2>4, <3>1, <3>3 DEF BatchInv
  <2>7. Tail(b)[1] # <<>> /\ Tail(b)[1] \in Seq(Target) /\ Batch' = Tail(b)[1]
    <3>1. Batch' = Tail(b)[1]
      BY <2>3, <2>4 DEF Batch
    <3>2. Tail(b)[1] # <<>>
      BY <2>3, <2>4, <2>6 DEF BatchInv
    <3>3. \A q \in Seq(Seq(Target)) : \A i \in DOMAIN q : q[i] \in Seq(Target)
      OBVIOUS
    <3>4. QED
      BY <2>3, <3>1, <3>2, <3>3
  <2>8. DOMAIN <<>> = {} /\ Len(<<>>) = 0 /\ Len(Batch') \in Nat /\ 0 < Len(Batch')
    <3>1. \A q \in Seq(Target) : q # <<>> => Len(q) \in Nat /\ 0 < Len(q)
      OBVIOUS
    <3>2. Len(Batch') \in Nat /\ 0 < Len(Batch')
      BY <2>7, <3>1, Zenon
    <3>3. DOMAIN <<>> = {} /\ Len(<<>>) = 0
      OBVIOUS
    <3>4. QED
      BY <3>2, <3>3
  <2>9. ProgressInv'
    BY <2>4, <2>8 DEF ProgressInv
  <2>10. PlannedInv'
    BY <2>4, <2>8 DEF PlannedInv
  <2>11. PendingInv'
    <3>1. SUFFICES ASSUME NEW j \in DOMAIN Tail(b), NEW k \in DOMAIN Tail(b)[j]
                   PROVE  OwnIn(file[Tail(b)[j][k]]) = OwnIn(before[Tail(b)[j][k]])
      BY <2>4 DEF PendingInv, hookVars
    <3>2. j + 1 \in DOMAIN b /\ j + 1 # 1 /\ Tail(b)[j] = b[j + 1]
      BY <2>3
    <3>3. QED
      BY <3>2 DEF PendingInv, b
  <2>12. QED
    BY <2>5, <2>6, <2>9, <2>10, <2>11 DEF InstallerInv
<1>4. QED
  BY <1>1, <1>2, <1>3

LEMMA FilesStand ==
    ASSUME FileInv, UNCHANGED <<file, theirs, raced>>
    PROVE  FileInv'
  BY DEF FileInv, ForeignKept

-----------------------------------------------------------------------------
\* Discovery and the beginning of a command.

LEMMA TargetFacts ==
    /\ Global \in Target /\ Claude \in Target /\ Items(Codex) \subseteq Target
    /\ Codex \in Seq(Items(Codex)) /\ Distinct(Codex)
    /\ Global \in Items(Codex) /\ Claude \notin Items(Codex) /\ Global # Claude
<1>1. Codex \in Seq(STRING)
  BY IntegrationsAssumption
<1>2. Codex \in Seq(Items(Codex))
  <2>1. DOMAIN Codex = 1..Len(Codex) /\ Len(Codex) \in Nat
    BY <1>1
  <2>2. QED
    BY <1>1, <2>1 DEF Items
<1>3. Distinct(Codex) /\ Global \in Items(Codex) /\ Claude \notin Items(Codex)
  BY IntegrationsAssumption DEF Distinct, Items
<1>4. QED
  BY <1>2, <1>3 DEF Target, Items

LEMMA DiscoveredFacts ==
    ASSUME NEW enabled
    PROVE  /\ Discovered(enabled) \in Seq(Target) /\ Discovered(enabled) # <<>>
           /\ Distinct(Discovered(enabled)) /\ Claude \notin Items(Discovered(enabled))
<1> DEFINE found == Discovered(enabled)
           chosen == {Global} \cup {t \in registered : Selected(t, enabled)}
<1>1. found = Keep(Codex, chosen)
  BY DEF Discovered
<1>2. /\ found \in Seq(Items(Codex)) /\ Items(found) = Items(Codex) \cap chosen
      /\ Distinct(found)
  <2>1. Codex \in Seq(Items(Codex)) /\ Distinct(Codex)
    BY TargetFacts
  <2>2. Keep(Codex, chosen) \in Seq(Items(Codex))
    BY <2>1, KeepItems
  <2>3. /\ Items(Keep(Codex, chosen)) = Items(Codex) \cap chosen
        /\ Distinct(Keep(Codex, chosen))
    BY <2>1, KeepDistinct
  <2>4. QED
    BY <1>1, <2>2, <2>3
<1> HIDE DEF found, chosen
<1>3. found \in Seq(Target)
  BY <1>2, TargetFacts
<1>4. found # <<>>
  <2>1. Global \in Items(found)
    BY <1>2, TargetFacts DEF chosen
  <2>2. Items(<<>>) = {}
    BY DEF Items
  <2>3. QED
    BY <2>1, <2>2
<1>5. Claude \notin Items(found)
  BY <1>2, TargetFacts
<1>6. QED
  BY <1>2, <1>3, <1>4, <1>5 DEF found

\* The batches of a command: all files of Codex and then that of Claude Code,
\* or one file at a time.
LEMMA StartingBatches ==
    ASSUME NEW found \in Seq(Target), found # <<>>, Distinct(found), Claude \notin Items(found)
    PROVE  LET together == <<found, <<Claude>>>>
               apart == [i \in 1..Len(found) + 1 |-> IF i <= Len(found) THEN <<found[i]>> ELSE <<Claude>>]
           IN  \A batches \in {together, apart} :
                  /\ batches \in Seq(Seq(Target)) /\ batches # <<>>
                  /\ \A i \in DOMAIN batches : batches[i] # <<>>
                  /\ Disjoint(batches)
<1> DEFINE together == <<found, <<Claude>>>>
           apart == [i \in 1..Len(found) + 1 |-> IF i <= Len(found) THEN <<found[i]>> ELSE <<Claude>>]
<1>1. Claude \in Target /\ \A i \in DOMAIN found : found[i] \in Target /\ found[i] # Claude
  BY TargetFacts DEF Items
<1>2. DOMAIN found = 1..Len(found) /\ Len(found) \in Nat
  OBVIOUS
<1>3. \A t \in Target : <<t>> \in Seq(Target) /\ <<t>> # <<>> /\ DOMAIN <<t>> = {1} /\ <<t>>[1] = t
  OBVIOUS
<1>4. /\ together \in Seq(Seq(Target)) /\ together # <<>>
      /\ \A i \in DOMAIN together : together[i] # <<>>
  <2>1. <<Claude>> \in Seq(Target) /\ <<Claude>> # <<>>
    BY <1>1, <1>3
  <2>2. \A p, q \in Seq(Target) : <<p, q>> \in Seq(Seq(Target))
    OBVIOUS
  <2>3. \A i \in DOMAIN together : together[i] \in {found, <<Claude>>}
    OBVIOUS
  <2>4. together \in Seq(Seq(Target))
    BY <2>1, <2>2
  <2>5. together # <<>>
    OBVIOUS
  <2> HIDE DEF together
  <2>6. QED
    BY <2>1, <2>3, <2>4, <2>5
<1>5. Disjoint(together)
  <2>1. DOMAIN together = {1, 2} /\ together[1] = found /\ together[2] = <<Claude>>
    OBVIOUS
  <2> HIDE DEF together
  <2>2. \A i, j \in DOMAIN found : found[i] = found[j] => i = j
    BY DEF Distinct
  <2>3. QED
    BY <1>1, <1>3, <2>1, <2>2 DEF Disjoint
<1>6. /\ DOMAIN apart = 1..Len(found) + 1
      /\ \A i \in 1..Len(found) : apart[i] = <<found[i]>>
      /\ apart[Len(found) + 1] = <<Claude>>
      /\ \A i \in 1..Len(found) + 1 : i \in 1..Len(found) \/ i = Len(found) + 1
  BY <1>2
<1>7. apart \in Seq(Seq(Target))
  <2>1. \A i \in 1..Len(found) + 1 : apart[i] \in Seq(Target)
    BY <1>1, <1>2, <1>3, <1>6
  <2>2. QED
    BY <1>2, <2>1
<1> HIDE DEF apart
<1>8. apart # <<>> /\ \A i \in DOMAIN apart : apart[i] # <<>>
  BY <1>1, <1>2, <1>3, <1>6
<1>9. Disjoint(apart)
  <2>1. \A i, j \in DOMAIN found : found[i] = found[j] => i = j
    BY DEF Distinct
  <2>2. \A i \in DOMAIN apart : \A k \in DOMAIN apart[i] :
            k = 1 /\ apart[i][k] = IF i \in 1..Len(found) THEN found[i] ELSE Claude
    BY <1>1, <1>2, <1>3, <1>6
  <2>3. QED
    BY <1>1, <1>2, <1>6, <2>1, <2>2 DEF Disjoint
<1>10. QED
  BY <1>4, <1>5, <1>7, <1>8, <1>9 DEF apart

LEMMA InitShared == SharedInit => SharedInv
<1>1. SUFFICES ASSUME SharedInit PROVE SharedInv
  OBVIOUS
<1>2. installer = NoCommand /\ writer = [p \in {"install", "library"} |-> Absent]
  BY <1>1 DEF SharedInit
<1>3. DOMAIN <<>> = {} /\ Len(<<>>) = 0
  OBVIOUS
<1>4. InstallerTypes
  BY <1>2, NoCommandFields DEF InstallerTypes
<1>5. BatchInv
  BY <1>2, <1>3, NoCommandFields DEF BatchInv, Disjoint
<1>6. ProgressInv /\ WriterDomain
  BY <1>2, <1>3, NoCommandFields DEF ProgressInv, WriterDomain
<1>7. PlannedInv /\ PendingInv
  BY <1>2, <1>3, NoCommandFields DEF PlannedInv, PendingInv
<1>8. file \in [Target -> Readable \cup {Broken}]
  <2>1. \A t \in Target : InitialFile[t] \subseteq Readable \cup {Broken}
    BY IntegrationsAssumption DEF Readable, Contents
  <2>2. \A t \in Target : file[t] \in InitialFile[t]
    BY <1>1 DEF SharedInit
  <2>3. file = [t \in Target |-> file[t]]
    BY <1>1 DEF SharedInit
  <2>4. QED
    BY <2>1, <2>2, <2>3
<1>9. FileInv
  BY <1>1, <1>8 DEF FileInv, ForeignKept, SharedInit
<1>10. QED
  BY <1>4, <1>5, <1>6, <1>7, <1>9 DEF SharedInv, InstallerInv

LEMMA StartKeeps ==
    ASSUME SharedInv, NEW command \in {"install", "uninstall"}, Start(command)
    PROVE  SharedInv'
<1> DEFINE found == Discovered(command = "install")
           together == <<found, <<Claude>>>>
           apart == [i \in 1..Len(found) + 1 |-> IF i <= Len(found) THEN <<found[i]>> ELSE <<Claude>>]
<1>1. /\ installer = NoCommand /\ writer' = writer /\ before' = file
      /\ UNCHANGED <<file, theirs, raced>>
  BY DEF Start, permissionVars
<1>2. FileInv'
  BY <1>1, FilesStand DEF SharedInv
<1>3. writer'["install"] = Absent /\ WriterDomain'
  BY <1>1, NoCommandFields DEF SharedInv, InstallerInv, ProgressInv, WriterDomain
<1>4. CASE installer' = NoCommand
  BY <1>2, <1>3, <1>4, AtRest DEF SharedInv
<1>5. CASE \E batches \in {together, apart} :
              installer' = [NoCommand EXCEPT !.command = command, !.at = "plan", !.batches = batches]
  <2>1. PICK batches \in {together, apart} :
              installer' = [NoCommand EXCEPT !.command = command, !.at = "plan", !.batches = batches]
    BY <1>5
  <2>2. /\ found \in Seq(Target) /\ found # <<>>
        /\ Distinct(found) /\ Claude \notin Items(found)
    BY DiscoveredFacts
  <2> HIDE DEF found
  <2>3. /\ batches \in Seq(Seq(Target)) /\ batches # <<>>
        /\ \A i \in DOMAIN batches : batches[i] # <<>>
        /\ Disjoint(batches)
    BY <2>2, StartingBatches
  <2> HIDE DEF together, apart
  <2>4. /\ installer'.command = command /\ installer'.batches = batches /\ installer'.at = "plan"
        /\ installer'.planned = <<>> /\ installer'.written = 0
    BY <2>1 DEF NoCommand
  <2>5. InstallerTypes'
    <3>1. installer' = [command |-> command, batches |-> batches, at |-> "plan", planned |-> <<>>, written |-> 0]
      BY <2>1 DEF NoCommand
    <3>2. <<>> \in Seq(Mutation) /\ 0 \in Nat /\ "plan" \in Stage
      BY DEF Stage
    <3>3. QED
      BY <2>3, <3>1, <3>2 DEF InstallerTypes
  <2>6. BatchInv'
    BY <2>3, <2>4 DEF BatchInv
  <2>7. Len(Batch') \in Nat /\ 0 < Len(Batch')
    <3>1. \A q \in Seq(Seq(Target)) : q # <<>> => 1 \in DOMAIN q /\ Head(q) = q[1] /\ q[1] \in Seq(Target)
      OBVIOUS
    <3>2. Batch' = batches[1] /\ batches[1] # <<>> /\ batches[1] \in Seq(Target)
      BY <2>3, <2>4, <3>1 DEF Batch
    <3>3. \A q \in Seq(Target) : q # <<>> => Len(q) \in Nat /\ 0 < Len(q)
      OBVIOUS
    <3>4. QED
      BY <3>2, <3>3, Zenon
  <2>8. DOMAIN <<>> = {} /\ Len(<<>>) = 0
    OBVIOUS
  <2>9. ProgressInv'
    BY <1>3, <2>4, <2>7, <2>8 DEF ProgressInv
  <2>10. PlannedInv' /\ PendingInv'
    BY <1>1, <2>4, <2>8 DEF PlannedInv, PendingInv
  <2>11. QED
    BY <1>2, <1>3, <2>5, <2>6, <2>9, <2>10 DEF SharedInv, InstallerInv
<1>6. \/ installer' = NoCommand
      \/ installer' = [NoCommand EXCEPT !.command = command, !.at = "plan",
                          !.batches = IF command = "install" THEN together ELSE apart]
  BY DEF Start
<1>7. QED
  <2> HIDE DEF together, apart
  <2>1. QED
    BY <1>4, <1>5, <1>6

-----------------------------------------------------------------------------
\* The steps of a batch.

LEMMA PlanKeeps == ASSUME SharedInv, Plan PROVE SharedInv'
<1> DEFINE n == Len(installer.planned)
           t == Batch[n + 1]
           m == [target |-> t, original |-> file[t], desired |-> Desired(file[t], Enabling)]
<1>1. /\ installer.at = "plan" /\ UNCHANGED hookVars /\ UNCHANGED writer
      /\ UNCHANGED <<file, theirs, raced, before>>
  BY DEF Plan, SaysIdle, permissionVars, hookVars
<1>2. FileInv'
  BY <1>1, FilesStand DEF SharedInv
<1>3. WriterDomain' /\ (writer'["install"] = Absent)
  BY <1>1 DEF SharedInv, InstallerInv, ProgressInv, WriterDomain
<1>4. InstallerInv /\ PlannedInv /\ PendingInv
  BY DEF SharedInv
<1>5. CASE file[t] = Broken \/ HasAmbiguous(file[t])
  <2>1. installer' = [installer EXCEPT !.at = "failed"]
    BY <1>5 DEF Plan
  <2>2. installer.written = 0
    BY <1>1, <1>4 DEF InstallerInv, ProgressInv
  <2>3. InstallerInv' /\ PlannedInv' /\ PendingInv'
    BY <1>1, <1>3, <1>4, <2>1, <2>2, StageMoves DEF Stage
  <2>4. QED
    BY <1>2, <2>3 DEF SharedInv
<1>6. CASE ~(file[t] = Broken \/ HasAmbiguous(file[t]))
  <2>1. installer' = [installer EXCEPT !.planned = Append(@, m),
                                       !.at = IF n + 1 = Len(Batch) THEN "write" ELSE "plan"]
    BY <1>6 DEF Plan
  <2>2. /\ Batch = installer.batches[1] /\ 1 \in DOMAIN installer.batches
        /\ Batch \in Seq(Target) /\ Len(Batch) \in Nat /\ n \in Nat
        /\ installer.written = 0 /\ n < Len(Batch)
    BY <1>1, <1>4, BatchFacts DEF InstallerInv, ProgressInv
  <2>3. t \in Target /\ n + 1 \in DOMAIN Batch
    BY <2>2
  <2>4. file[t] \in Readable /\ Enabling \in BOOLEAN
    BY <1>6, <2>3 DEF SharedInv, FileInv, Enabling
  <2>5. m \in Mutation
    BY <2>3, <2>4, DesiredLaws DEF Mutation
  <2>6. m.target = t /\ m.original = file[t] /\ m.desired = Desired(file[t], Enabling)
    OBVIOUS
  <2>7. installer.planned \in Seq(Mutation)
    BY <1>4 DEF InstallerInv, InstallerTypes
  <2> HIDE DEF m
  <2> DEFINE p == Append(installer.planned, m)
  <2>8. /\ p \in Seq(Mutation) /\ Len(p) = n + 1 /\ DOMAIN p = 1..n + 1 /\ p[n + 1] = m
        /\ DOMAIN installer.planned = 1..n /\ \A i \in 1..n : p[i] = installer.planned[i]
    BY <2>5, <2>7
  <2> HIDE DEF p
  <2>9. /\ installer'.command = installer.command /\ installer'.batches = installer.batches
        /\ installer'.at = (IF n + 1 = Len(Batch) THEN "write" ELSE "plan")
        /\ installer'.planned = p /\ installer'.written = 0
    BY <1>4, <2>1, <2>2 DEF InstallerInv, InstallerTypes, p
  <2>10. installer'.at \in {"plan", "write"} /\ {"plan", "write"} \subseteq Stage
    BY <2>9 DEF Stage
  <2>11. InstallerTypes'
    BY <1>4, <2>1, <2>8, <2>9, <2>10 DEF InstallerInv, InstallerTypes, p
  <2>12. BatchInv'
    BY <1>1, <1>4, <2>9, <2>10 DEF InstallerInv, BatchInv
  <2>13. Batch' = Batch /\ Enabling' = Enabling
    BY <2>9 DEF Batch, Enabling
  <2> HIDE DEF n
  <2>14. \A i \in 1..n + 1 : i \in 1..n \/ i = n + 1
    BY <2>2
  <2>15. ProgressInv'
    <3>1. \A i \in DOMAIN p : p[i].target = Batch[i]
      <4>1. \A i \in 1..n : installer.planned[i].target = Batch[i]
        BY <1>4, <2>8 DEF InstallerInv, ProgressInv
      <4>2. QED
        BY <2>6, <2>8, <2>14, <4>1
    <3>2. Len(p) <= Len(Batch) /\ 0 <= Len(p) /\ (n + 1 # Len(Batch) => Len(p) < Len(Batch))
      BY <2>2, <2>8
    <3>3. QED
      BY <1>3, <2>9, <2>10, <2>13, <2>8, <3>1, <3>2 DEF ProgressInv
  <2>16. PlannedInv'
    <3>1. SUFFICES ASSUME NEW i \in 1..n + 1
                   PROVE  /\ ~HasAmbiguous(p[i].original) /\ p[i].desired = Desired(p[i].original, Enabling)
                          /\ p[i].target \notin raced =>
                                /\ file[p[i].target] = p[i].original
                                /\ OwnIn(p[i].original) = OwnIn(before[p[i].target])
      <4>1. \A i \in 1..n + 1 : ~(i <= 0)
        BY <2>2
      <4>2. QED
        BY <1>1, <2>8, <2>9, <2>13, <4>1 DEF PlannedInv
    <3>2. CASE i \in 1..n
      <4>1. ~(i <= installer.written)
        BY <2>2, <3>2
      <4>2. QED
        BY <1>4, <2>8, <3>2, <4>1 DEF PlannedInv
    <3>3. CASE i = n + 1
      <4>1. n + 1 > Len(installer.planned)
        BY <2>2 DEF n
      <4>2. OwnIn(file[t]) = OwnIn(before[t])
        BY <1>4, <2>2, <2>3, <4>1 DEF PendingInv
      <4>3. QED
        BY <1>6, <2>6, <2>8, <3>3, <4>2
    <3>4. QED
      BY <2>14, <3>2, <3>3
  <2>17. PendingInv'
    <3>1. \A j \in DOMAIN installer.batches : \A k \in DOMAIN installer.batches[j] :
              k > n + 1 => k > Len(installer.planned)
      <4>1. \A q \in Seq(Seq(Target)) : \A j \in DOMAIN q : \A k \in DOMAIN q[j] : k \in Nat
        OBVIOUS
      <4>2. installer.batches \in Seq(Seq(Target))
        BY <1>4 DEF InstallerInv, InstallerTypes
      <4>3. \A k \in Nat : k > n + 1 => k > n
        BY <2>2
      <4>4. QED
        BY <4>1, <4>2, <4>3 DEF n
    <3>2. QED
      BY <1>1, <1>4, <2>8, <2>9, <3>1 DEF PendingInv
  <2>18. QED
    BY <1>2, <1>3, <2>11, <2>12, <2>15, <2>16, <2>17 DEF SharedInv, InstallerInv
<1>7. QED
  BY <1>5, <1>6

\* A target is written, or put back; the others stay as they are.
LEMMA TurnKeeps ==
    ASSUME SharedInv, installer.at \in {"write", "rollback"},
           NEW w \in Nat, w <= Len(installer.planned), NEW i \in DOMAIN installer.planned,
           i <= w <=> ~(i <= installer.written),
           \A k \in DOMAIN installer.planned \ {i} : k <= w <=> k <= installer.written,
           installer' = [installer EXCEPT !.written = w],
           LET m == installer.planned[i]
           IN  file' = IF Changes(m)
                       THEN [file EXCEPT ![m.target] = IF i <= w THEN m.desired ELSE m.original]
                       ELSE file,
           UNCHANGED <<theirs, raced, before, writer>>
    PROVE  SharedInv'
<1> DEFINE m == installer.planned[i]
           t == m.target
           next == IF i <= w THEN Outcome(m) ELSE m.original
<1>1. /\ InstallerInv /\ PlannedInv /\ PendingInv /\ FileInv /\ installer.at # "idle"
      /\ installer.at \in {"write", "rollback"}
  BY DEF SharedInv
<1>2. /\ Batch = installer.batches[1] /\ 1 \in DOMAIN installer.batches /\ Batch \in Seq(Target)
      /\ \A k \in DOMAIN installer.planned : k \in 1..Len(Batch) /\ installer.planned[k] \in Mutation
      /\ \A k, l \in DOMAIN Batch : Batch[k] = Batch[l] => k = l
      /\ Len(installer.planned) \in Nat
  BY <1>1, BatchFacts
<1>3. \A k \in DOMAIN installer.planned : k \in DOMAIN Batch /\ installer.planned[k].target = Batch[k]
  BY <1>1, <1>2 DEF InstallerInv, ProgressInv
<1>4. \A k \in DOMAIN installer.planned : installer.planned[k].target = t => k = i
  BY <1>2, <1>3
<1>5. m \in Mutation /\ m.original \in Readable /\ m.desired \in Contents /\ t \in Target
  BY <1>2 DEF Mutation
<1>6. ~HasAmbiguous(m.original) /\ m.desired = Desired(m.original, Enabling) /\ Enabling \in BOOLEAN
  BY <1>1 DEF PlannedInv, Enabling
<1>7. /\ Outcome(m) \in Readable /\ Theirs(Outcome(m)) = Theirs(m.original)
  BY <1>5, <1>6, OutcomeLaws
<1>8. file' = IF Changes(m) THEN [file EXCEPT ![t] = next] ELSE file
  BY DEF Outcome
<1>9. t \notin raced => file[t] = IF i <= installer.written THEN Outcome(m) ELSE m.original
  BY <1>1 DEF PlannedInv
<1>10. file = [u \in Target |-> file[u]] /\ \A u \in Target : file[u] \in Readable \cup {Broken}
  BY <1>1 DEF FileInv
<1>11. ~Changes(m) => Outcome(m) = m.original
  BY DEF Outcome
<1> HIDE DEF m
<1>12. next \in Readable /\ Theirs(next) = Theirs(m.original)
  BY <1>5, <1>7
<1>13. t \notin raced => file'[t] = next
  <2> HIDE DEF t
  <2>1. QED
    BY <1>5, <1>8, <1>9, <1>10, <1>11
<1> HIDE DEF t, next
<1>14. /\ \A u \in Target \ {t} : file'[u] = file[u]
       /\ file'[t] \in Readable \cup {Broken}
       /\ file' = [u \in Target |-> file'[u]]
  BY <1>5, <1>8, <1>10, <1>12
<1>15. FileInv'
  <2>1. file' \in [Target -> Readable \cup {Broken}]
    BY <1>10, <1>14
  <2>2. theirs' = [u \in Target |-> theirs'[u]]
    BY <1>1 DEF FileInv
  <2>3. ASSUME NEW u \in Target \ raced, file'[u] # Broken PROVE Theirs(file'[u]) = theirs[u]
    <3>1. CASE u = t
      <4>1. file[t] \in {Outcome(m), m.original}
        BY <1>9, <2>3, <3>1
      <4>2. file[t] # Broken /\ Theirs(file[t]) = Theirs(m.original)
        BY <1>5, <1>7, <4>1, OwnIsOwn
      <4>3. Theirs(file[t]) = theirs[t]
        BY <1>1, <2>3, <3>1, <4>2 DEF FileInv, ForeignKept
      <4>4. QED
        BY <1>12, <1>13, <2>3, <3>1, <4>2, <4>3
    <3>2. CASE u # t
      BY <1>1, <1>14, <2>3, <3>2 DEF FileInv, ForeignKept
    <3>3. QED
      BY <3>1, <3>2
  <2>4. QED
    BY <2>1, <2>2, <2>3 DEF FileInv, ForeignKept
<1>16. /\ installer'.command = installer.command /\ installer'.batches = installer.batches
       /\ installer'.at = installer.at
       /\ installer'.planned = installer.planned /\ installer'.written = w
  BY <1>1 DEF InstallerInv, InstallerTypes
<1>17. Batch' = Batch /\ Enabling' = Enabling
  BY <1>16 DEF Batch, Enabling
<1>18. InstallerInv'
  <2>1. InstallerTypes'
    BY <1>1 DEF InstallerInv, InstallerTypes
  <2>2. BatchInv'
    BY <1>1, <1>16 DEF InstallerInv, BatchInv
  <2>3. ProgressInv'
    BY <1>1, <1>16, <1>17 DEF InstallerInv, ProgressInv
  <2>4. QED
    BY <1>1, <2>1, <2>2, <2>3 DEF InstallerInv, WriterDomain
<1>19. PlannedInv'
  <2>1. SUFFICES ASSUME NEW k \in DOMAIN installer.planned
                 PROVE  LET p == installer.planned[k]
                        IN  /\ ~HasAmbiguous(p.original) /\ p.desired = Desired(p.original, Enabling)
                            /\ p.target \notin raced =>
                                  /\ file'[p.target] = IF k <= w THEN Outcome(p) ELSE p.original
                                  /\ OwnIn(p.original) = OwnIn(before[p.target])
    BY <1>16, <1>17 DEF PlannedInv
  <2>2. CASE k = i
    BY <1>1, <1>13, <2>2 DEF PlannedInv, m, t, next
  <2>3. CASE k # i
    <3>1. installer.planned[k].target \in Target \ {t}
      BY <1>2, <1>4, <2>3 DEF Mutation
    <3>2. k <= w <=> k <= installer.written
      BY <2>3
    <3>3. QED
      BY <1>1, <1>14, <3>1, <3>2 DEF PlannedInv
  <2>4. QED
    BY <2>2, <2>3
<1>20. PendingInv'
  <2>1. SUFFICES ASSUME NEW j \in DOMAIN installer.batches, NEW k \in DOMAIN installer.batches[j],
                        j = 1 => k > Len(installer.planned)
                 PROVE  OwnIn(file'[installer.batches[j][k]]) = OwnIn(before[installer.batches[j][k]])
    BY <1>16 DEF PendingInv
  <2>2. installer.batches[j][k] \in Target
    <3>1. \A q \in Seq(Seq(Target)) : \A a \in DOMAIN q : \A b \in DOMAIN q[a] : q[a][b] \in Target
      OBVIOUS
    <3>2. QED
      BY <1>1, <3>1 DEF InstallerInv, InstallerTypes
  <2>3. installer.batches[j][k] # t
    <3>1. ASSUME installer.batches[j][k] = t PROVE FALSE
      <4>1. t = installer.batches[1][i] /\ i \in DOMAIN installer.batches[1]
        BY <1>2, <1>3 DEF m, t
      <4>2. j = 1 /\ k = i
        BY <1>1, <1>2, <3>1, <4>1 DEF InstallerInv, BatchInv, Disjoint
      <4>3. i \in 1..Len(installer.planned)
        BY <1>1 DEF InstallerInv, InstallerTypes
      <4>4. QED
        BY <1>2, <2>1, <4>2, <4>3
    <3>2. QED
      BY <3>1
  <2>4. QED
    BY <1>1, <1>14, <2>1, <2>2, <2>3 DEF PendingInv
<1>21. QED
  BY <1>15, <1>18, <1>19, <1>20 DEF SharedInv

LEMMA WriteKeeps == ASSUME SharedInv, Write PROVE SharedInv'
<1>1. /\ installer.at = "write" /\ UNCHANGED <<registered, theirs, raced, before, writer>>
      /\ InstallerInv /\ PlannedInv /\ PendingInv /\ FileInv
  BY DEF Write, SaysIdle, permissionVars, SharedInv
<1>2. writer'["install"] = Absent /\ WriterDomain'
  BY <1>1 DEF InstallerInv, ProgressInv, WriterDomain
<1>3. Len(installer.planned) \in Nat /\ installer.written \in Nat /\ Len(installer.planned) = Len(Batch)
  BY <1>1, BatchFacts DEF InstallerInv, ProgressInv
<1>4. CASE installer.written = Len(installer.planned)
  <2>1. installer' = [installer EXCEPT !.at = "done"] /\ file' = file
    BY <1>4 DEF Write
  <2>2. UNCHANGED hookVars
    BY <1>1, <2>1 DEF hookVars
  <2>3. InstallerInv' /\ PlannedInv' /\ PendingInv'
    BY <1>1, <1>2, <1>3, <1>4, <2>1, <2>2, StageMoves DEF Stage
  <2>4. FileInv'
    BY <1>1, <2>1, FilesStand
  <2>5. QED
    BY <2>3, <2>4 DEF SharedInv
<1>5. CASE installer.written # Len(installer.planned)
  <2> DEFINE i == installer.written + 1
             m == installer.planned[i]
  <2>1. /\ installer' = [installer EXCEPT !.written = installer.written + 1]
        /\ file' = IF Changes(m) THEN [file EXCEPT ![m.target] = m.desired] ELSE file
    BY <1>5 DEF Write
  <2>2. installer.planned \in Seq(Mutation) /\ installer.written <= Len(installer.planned)
    BY <1>1 DEF InstallerInv, InstallerTypes, ProgressInv
  <2>3. /\ i \in DOMAIN installer.planned /\ i \in Nat /\ i <= Len(installer.planned)
        /\ i <= i /\ ~(i <= installer.written)
    BY <1>3, <1>5, <2>2
  <2>4. \A k \in DOMAIN installer.planned \ {i} : k <= i <=> k <= installer.written
    BY <1>3, <2>2
  <2>5. file' = IF Changes(m) THEN [file EXCEPT ![m.target] = IF i <= i THEN m.desired ELSE m.original] ELSE file
    BY <2>1, <2>3
  <2>6. installer' = [installer EXCEPT !.written = i]
    BY <2>1
  <2> HIDE DEF i
  <2>7. QED
    BY <1>1, <2>3, <2>4, <2>5, <2>6, TurnKeeps
<1>6. QED
  BY <1>4, <1>5

LEMMA RollBackKeeps == ASSUME SharedInv, RollBack PROVE SharedInv'
<1>1. /\ installer.at = "rollback" /\ UNCHANGED <<registered, theirs, raced, before, writer>>
      /\ InstallerInv /\ PlannedInv /\ PendingInv /\ FileInv
  BY DEF RollBack, SaysIdle, permissionVars, SharedInv
<1>2. writer'["install"] = Absent /\ WriterDomain'
  BY <1>1 DEF InstallerInv, ProgressInv, WriterDomain
<1>3. Len(installer.planned) \in Nat /\ installer.written \in Nat
  BY <1>1, BatchFacts
<1>4. CASE installer.written = 0
  <2>1. installer' = [installer EXCEPT !.at = "failed"] /\ file' = file
    BY <1>4 DEF RollBack
  <2>2. UNCHANGED hookVars
    BY <1>1, <2>1 DEF hookVars
  <2>3. InstallerInv' /\ PlannedInv' /\ PendingInv'
    BY <1>1, <1>2, <1>4, <2>1, <2>2, StageMoves DEF Stage
  <2>4. FileInv'
    BY <1>1, <2>1, FilesStand
  <2>5. QED
    BY <2>3, <2>4 DEF SharedInv
<1>5. CASE installer.written # 0
  <2> DEFINE i == installer.written
             w == installer.written - 1
             m == installer.planned[i]
  <2>1. /\ installer' = [installer EXCEPT !.written = installer.written - 1]
        /\ file' = IF Changes(m) THEN [file EXCEPT ![m.target] = m.original] ELSE file
    BY <1>5 DEF RollBack, Restored
  <2>2. installer.planned \in Seq(Mutation) /\ installer.written <= Len(installer.planned)
    BY <1>1 DEF InstallerInv, InstallerTypes, ProgressInv
  <2>3. /\ i \in DOMAIN installer.planned /\ w \in Nat /\ w <= Len(installer.planned)
        /\ ~(i <= w) /\ i <= installer.written
    BY <1>3, <1>5, <2>2
  <2>4. \A k \in DOMAIN installer.planned \ {i} : k <= w <=> k <= installer.written
    BY <1>3, <2>2
  <2>5. file' = IF Changes(m) THEN [file EXCEPT ![m.target] = IF i <= w THEN m.desired ELSE m.original] ELSE file
    BY <2>1, <2>3
  <2>6. installer' = [installer EXCEPT !.written = w]
    BY <2>1
  <2> HIDE DEF w
  <2>7. QED
    BY <1>1, <2>3, <2>4, <2>5, <2>6, TurnKeeps
<1>6. QED
  BY <1>4, <1>5

\* The steps that touch no file.
LEMMA OtherStepsKeep ==
    ASSUME SharedInv, WriteFails \/ FailBatch \/ EndBatch
    PROVE  SharedInv'
<1>1. /\ InstallerInv /\ PlannedInv /\ PendingInv /\ FileInv
      /\ installer.at \in {"write", "failed", "done"} /\ installer.at # "idle"
      /\ UNCHANGED hookVars /\ UNCHANGED writer
  BY DEF WriteFails, FailBatch, EndBatch, SaysIdle, permissionVars, SharedInv
<1>2. writer'["install"] = Absent /\ WriterDomain'
  BY <1>1 DEF InstallerInv, ProgressInv, WriterDomain
<1>3. FileInv'
  BY <1>1, FilesStand DEF hookVars
<1>4. InstallerInv' /\ PlannedInv' /\ PendingInv'
  <2>1. CASE WriteFails
    <3>1. installer' = [installer EXCEPT !.at = "rollback"] /\ Len(installer.planned) = Len(Batch)
      BY <1>1, <2>1 DEF WriteFails, InstallerInv, ProgressInv
    <3>2. QED
      BY <1>1, <1>2, <3>1, StageMoves DEF Stage
  <2>2. CASE FailBatch
    <3>1. installer' = NoCommand \/ NextBatch
      BY <2>2 DEF FailBatch
    <3>2. QED
      BY <1>1, <1>2, <3>1, AtRest, NextBatchKeeps
  <2>3. CASE EndBatch
    <3>1. CASE Enabling
      <4>1. /\ installer' = [installer EXCEPT !.at = "installed"] /\ Len(installer.planned) = Len(Batch)
            /\ installer.written = Len(installer.planned)
        BY <1>1, <2>3, <3>1 DEF EndBatch, InstallerInv, ProgressInv
      <4>2. QED
        BY <1>1, <1>2, <3>1, <4>1, StageMoves DEF Stage
    <3>2. CASE ~Enabling
      BY <1>1, <1>2, <2>3, <3>2, NextBatchKeeps DEF EndBatch
    <3>3. QED
      BY <3>1, <3>2
  <2>4. QED
    BY <2>1, <2>2, <2>3
<1>5. QED
  BY <1>3, <1>4 DEF SharedInv

-----------------------------------------------------------------------------
\* Permissions, crashes and the edits of others.

LEMMA SameInstaller ==
    ASSUME SharedInv, UNCHANGED <<hookVars, installer>>, WriterDomain',
           writer'["install"] # Absent => installer.at \in {"installed", "enabled"}
    PROVE  SharedInv'
<1>1. InstallerInv /\ PlannedInv /\ PendingInv /\ FileInv
  BY DEF SharedInv
<1>2. Batch' = Batch /\ Enabling' = Enabling
  BY DEF Batch, Enabling
<1>3. InstallerTypes' /\ BatchInv'
  BY <1>1 DEF InstallerInv, InstallerTypes, BatchInv
<1>4. ProgressInv'
  BY <1>1, <1>2 DEF InstallerInv, ProgressInv
<1>5. PlannedInv' /\ PendingInv'
  BY <1>1, <1>2 DEF PlannedInv, PendingInv, hookVars
<1>6. FileInv'
  BY <1>1, FilesStand DEF hookVars
<1>7. QED
  BY <1>3, <1>4, <1>5, <1>6 DEF SharedInv, InstallerInv

LEMMA PermissionStepsKeep ==
    ASSUME SharedInv,
           \/ InstallRecords \/ \E h \in Hosts, value \in BOOLEAN : LibraryToggles(h, value)
           \/ \E p \in {"install", "library"} : WriteTemporary(p)
    PROVE  SharedInv'
<1>1. /\ DOMAIN writer = {"install", "library"}
      /\ writer["install"] # Absent => installer.at \in {"installed", "enabled"}
  BY DEF SharedInv, InstallerInv, ProgressInv, WriterDomain
<1>2. UNCHANGED <<hookVars, installer>>
  BY DEF InstallRecords, LibraryToggles, WriteTemporary, installVars
<1>3. WriterDomain' /\ (writer'["install"] # Absent => installer.at \in {"installed", "enabled"})
  <2>1. CASE InstallRecords
    <3>1. /\ installer.at \in {"installed", "enabled"}
          /\ \E new : writer' = [writer EXCEPT !["install"] = new]
      BY <2>1 DEF InstallRecords, ReadFor
    <3>2. QED
      BY <1>1, <3>1 DEF WriterDomain
  <2>2. CASE \E h \in Hosts, value \in BOOLEAN : LibraryToggles(h, value)
    <3>1. \E new : writer' = [writer EXCEPT !["library"] = new]
      BY <2>2 DEF LibraryToggles, ReadFor
    <3>2. QED
      BY <1>1, <3>1 DEF WriterDomain
  <2>3. CASE \E p \in {"install", "library"} : WriteTemporary(p)
    <3>1. PICK p \in {"install", "library"} : WriteTemporary(p)
      BY <2>3
    <3>2. writer[p] # Absent /\ \E new : writer' = [writer EXCEPT ![p] = new]
      BY <3>1 DEF WriteTemporary
    <3>3. QED
      BY <1>1, <3>2 DEF WriterDomain
  <2>4. QED
    BY <2>1, <2>2, <2>3
<1>4. QED
  BY <1>2, <1>3, SameInstaller

LEMMA ReplaceKeeps ==
    ASSUME SharedInv, NEW p \in {"install", "library"}, Replace(p)
    PROVE  SharedInv'
<1>1. /\ InstallerInv /\ PlannedInv /\ PendingInv /\ FileInv /\ UNCHANGED hookVars
      /\ writer[p] # Absent /\ writer' = [writer EXCEPT ![p] = Absent]
      /\ DOMAIN writer = {"install", "library"}
      /\ writer["install"] # Absent => installer.at \in {"installed", "enabled"}
  BY DEF Replace, SharedInv, InstallerInv, ProgressInv, WriterDomain
<1>2. WriterDomain'
  BY <1>1 DEF WriterDomain
<1>3. CASE p = "library"
  <2>1. UNCHANGED <<hookVars, installer>> /\ writer'["install"] = writer["install"]
    BY <1>1, <1>3 DEF Replace, installVars
  <2>2. QED
    BY <1>1, <1>2, <2>1, SameInstaller
<1>4. CASE p = "install"
  <2>1. writer'["install"] = Absent /\ Recorded /\ installer.at \in {"installed", "enabled"} /\ installer.at # "idle"
    BY <1>1, <1>4 DEF Replace
  <2>2. InstallerInv' /\ PlannedInv' /\ PendingInv'
    <3>1. CASE installer' = NoCommand
      BY <1>2, <2>1, <3>1, AtRest
    <3>2. CASE installer' = [installer EXCEPT !.at = "enabled"]
      <4>1. /\ Len(installer.planned) = Len(Batch) /\ installer.written = Len(installer.planned) /\ Enabling
        BY <1>1, <2>1 DEF InstallerInv, ProgressInv
      <4>2. QED
        BY <1>1, <1>2, <2>1, <3>2, <4>1, StageMoves DEF Stage
    <3>3. CASE NextBatch
      BY <1>1, <1>2, <2>1, <3>3, NextBatchKeeps
    <3>4. QED
      BY <2>1, <3>1, <3>2, <3>3 DEF Recorded
  <2>3. QED
    BY <1>1, <2>2, FilesStand DEF SharedInv, hookVars
<1>5. QED
  BY <1>3, <1>4

LEMMA EndsKeep == ASSUME SharedInv, Unlink \/ InstallerCrashes PROVE SharedInv'
<1>1. /\ installer' = NoCommand /\ UNCHANGED hookVars /\ FileInv
      /\ DOMAIN writer = {"install", "library"}
  BY DEF Unlink, InstallerCrashes, SharedInv, InstallerInv, WriterDomain
<1>2. WriterDomain' /\ (writer'["install"] = Absent)
  <2>1. CASE Unlink
    BY <1>1, <2>1 DEF Unlink, SharedInv, InstallerInv, ProgressInv, WriterDomain
  <2>2. CASE InstallerCrashes
    BY <1>1, <2>2 DEF InstallerCrashes, WriterDomain
  <2>3. QED
    BY <2>1, <2>2
<1>3. QED
  BY <1>1, <1>2, AtRest, FilesStand DEF SharedInv, hookVars

\* What an edit makes of a file and of what others have in it.
LEMMA EditedFile ==
    ASSUME SharedInv, NEW t \in Target, NEW e \in Event, NEW foreign \in Foreign, Edit(t, e, foreign)
    PROVE  /\ file[t] \in Readable /\ file'[t] \in Contents
           /\ file' = [file EXCEPT ![t] = file'[t]]
           /\ OwnIn(file'[t]) = OwnIn(file[t])
           /\ theirs' = [u \in Target |-> theirs'[u]] /\ \A u \in Target \ {t} : theirs'[u] = theirs[u]
           /\ theirs[t] = Theirs(file[t]) => theirs'[t] = Theirs(file'[t])
<1>1. /\ file \in [Target -> Readable \cup {Broken}] /\ theirs = [u \in Target |-> theirs[u]]
      /\ file[t] # Broken
  BY DEF SharedInv, FileInv, Edit
<1>2. file[t] \in Readable
  BY <1>1
<1> DEFINE c == file[t]
<1>3. CASE HasHook(c, foreign)
  <2> DEFINE r == [f \in Event |-> Keep(c[f], AnyHook \ {foreign})]
  <2>1. /\ file' = [file EXCEPT ![t] = r]
        /\ theirs' = [theirs EXCEPT ![t] = [f \in Event |-> Keep(theirs[t][f], AnyHook \ {foreign})]]
    BY <1>3 DEF Edit
  <2>2. c \in Contents
    <3>1. CASE c = Absent
      <4>1. Loaded(c) = Empty
        BY <3>1 DEF Loaded
      <4>2. \A f \in Event : DOMAIN Empty[f] = {}
        BY EmptyContents
      <4>3. QED
        BY <1>3, <4>1, <4>2 DEF HasHook
    <3>2. QED
      BY <1>2, <3>1 DEF Readable
  <2>3. /\ r \in Contents /\ OwnIn(r) = OwnIn(c)
        /\ Theirs(r) = [f \in Event |-> Keep(Theirs(c)[f], AnyHook \ {foreign})]
    BY <2>2, RemovalLaws
  <2>4. file'[t] = r /\ theirs'[t] = [f \in Event |-> Keep(theirs[t][f], AnyHook \ {foreign})]
    BY <1>1, <2>1
  <2> HIDE DEF r
  <2>5. QED
    BY <1>1, <1>2, <2>1, <2>3, <2>4
<1>4. CASE ~HasHook(c, foreign)
  <2> DEFINE r == [Loaded(c) EXCEPT ![e] = Append(@, foreign)]
  <2>1. /\ file' = [file EXCEPT ![t] = r]
        /\ theirs' = [theirs EXCEPT ![t] = [theirs[t] EXCEPT ![e] = Append(@, foreign)]]
    BY <1>4 DEF Edit
  <2>2. /\ r \in Contents /\ OwnIn(r) = OwnIn(c)
        /\ Theirs(r) = [Theirs(c) EXCEPT ![e] = Append(@, foreign)]
    <3>1. c \in Readable
      BY <1>2
    <3> HIDE DEF c
    <3>2. QED
      BY <3>1, AdditionLaws
  <2>3. file'[t] = r /\ theirs'[t] = [theirs[t] EXCEPT ![e] = Append(@, foreign)]
    BY <1>1, <2>1
  <2> HIDE DEF r
  <2>4. QED
    BY <1>1, <1>2, <2>1, <2>2, <2>3
<1>5. QED
  BY <1>3, <1>4

LEMMA EditKeeps ==
    ASSUME SharedInv, NEW t \in Target, NEW e \in Event, NEW foreign \in Foreign, Edit(t, e, foreign)
    PROVE  SharedInv'
<1>1. /\ InstallerInv /\ PlannedInv /\ PendingInv /\ FileInv
      /\ UNCHANGED <<before, installer, writer>>
      /\ raced' = IF \E i \in DOMAIN installer.planned : installer.planned[i].target = t
                  THEN raced \cup {t} ELSE raced
  BY DEF Edit, SharedInv, installVars, permissionVars
<1>2. /\ file[t] \in Readable /\ file'[t] \in Contents
      /\ file' = [file EXCEPT ![t] = file'[t]]
      /\ OwnIn(file'[t]) = OwnIn(file[t])
      /\ theirs' = [u \in Target |-> theirs'[u]] /\ \A u \in Target \ {t} : theirs'[u] = theirs[u]
      /\ theirs[t] = Theirs(file[t]) => theirs'[t] = Theirs(file'[t])
  BY EditedFile
<1>3. /\ file \in [Target -> Readable \cup {Broken}] /\ \A u \in Target \ {t} : file'[u] = file[u]
  <2>1. file \in [Target -> Readable \cup {Broken}]
    BY <1>1 DEF FileInv
  <2>2. QED
    BY <1>2, <2>1
<1>4. Batch' = Batch /\ Enabling' = Enabling
  BY <1>1 DEF Batch, Enabling
<1>5. InstallerInv'
  <2>1. InstallerTypes' /\ BatchInv'
    BY <1>1 DEF InstallerInv, InstallerTypes, BatchInv
  <2>2. ProgressInv' /\ WriterDomain'
    BY <1>1, <1>4 DEF InstallerInv, ProgressInv, WriterDomain
  <2>3. QED
    BY <2>1, <2>2 DEF InstallerInv
<1>6. PlannedInv'
  <2>1. SUFFICES ASSUME NEW i \in DOMAIN installer.planned
                 PROVE  LET m == installer.planned[i]
                        IN  /\ ~HasAmbiguous(m.original) /\ m.desired = Desired(m.original, Enabling)
                            /\ m.target \notin raced' =>
                                  /\ file'[m.target] = IF i <= installer.written THEN Outcome(m) ELSE m.original
                                  /\ OwnIn(m.original) = OwnIn(before[m.target])
    BY <1>1, <1>4 DEF PlannedInv
  <2>2. installer.planned[i].target \in Target
    <3>1. installer.planned \in Seq(Mutation)
      BY <1>1 DEF InstallerInv, InstallerTypes
    <3>2. installer.planned[i] \in Mutation
      BY <3>1
    <3>3. QED
      BY <3>2 DEF Mutation
  <2>3. installer.planned[i].target = t => t \in raced'
    BY <1>1
  <2>4. raced \subseteq raced'
    BY <1>1
  <2>5. QED
    BY <1>1, <1>3, <2>2, <2>3, <2>4 DEF PlannedInv
<1>7. PendingInv'
  <2>1. \A q \in Seq(Seq(Target)) : \A a \in DOMAIN q : \A b \in DOMAIN q[a] : q[a][b] \in Target
    OBVIOUS
  <2>2. \A j \in DOMAIN installer.batches : \A k \in DOMAIN installer.batches[j] : installer.batches[j][k] \in Target
    BY <1>1, <2>1 DEF InstallerInv, InstallerTypes
  <2>3. \A u \in Target : OwnIn(file'[u]) = OwnIn(file[u])
    BY <1>2, <1>3
  <2>4. QED
    BY <1>1, <2>2, <2>3 DEF PendingInv
<1>8. FileInv'
  <2>1. file' \in [Target -> Readable \cup {Broken}]
    BY <1>2, <1>3 DEF Readable
  <2>2. ASSUME NEW u \in Target \ raced', file'[u] # Broken PROVE Theirs(file'[u]) = theirs'[u]
    <3>1. u \notin raced
      BY <1>1
    <3>2. u # t => file'[u] = file[u] /\ theirs'[u] = theirs[u]
      BY <1>2, <1>3
    <3>3. u = t => Theirs(file[t]) = theirs[t]
      BY <1>1, <1>2, <3>1, OwnIsOwn DEF FileInv, ForeignKept
    <3>4. QED
      BY <1>1, <1>2, <2>2, <3>1, <3>2, <3>3 DEF FileInv, ForeignKept
  <2>3. QED
    BY <1>2, <2>1, <2>2 DEF FileInv, ForeignKept
<1>9. QED
  BY <1>5, <1>6, <1>7, <1>8 DEF SharedInv

-----------------------------------------------------------------------------
\* The permission file: whatever is in it, beside it or in a process's memory
\* enables only what was asked for.

OnlyAsked(content, requests) ==
    content \in Permissions /\ \A h \in Hosts : content[h].enabled => requests[h] # "never"

\* Content that enables, but for some hosts, only those whose last request was to
\* switch them on.
UpToDate(content, requests, some) ==
    \A h \in Hosts \ some : content[h].enabled => requests[h] = "on"

Processes == {"install", "library"}

PermissionInv ==
    /\ asked \in [Hosts -> {"never", "on", "off"}]
    /\ permission # Absent => OnlyAsked(permission, asked)
    /\ temporary # Absent => OnlyAsked(temporary, asked)
    /\ WriterDomain
    /\ \A p \in Processes : writer[p] # Absent =>
          writer[p] \in Writing /\ OnlyAsked(writer[p].payload, asked)

\* As long as no two changes overlapped after the last request for some host, one
\* process at a time has read the file, what it writes answers the last requests
\* for these hosts, and so does the file itself, but for the one that the Library
\* is about to answer.
AloneInv ==
    overlapped # Hosts =>
        /\ \A p, q \in Processes : writer[p] # Absent /\ writer[q] # Absent => p = q
        /\ \A p \in Processes : writer[p] # Absent =>
              /\ UpToDate(writer[p].payload, asked, overlapped)
              /\ writer[p].at = "written" => temporary = writer[p].payload
        /\ writer["library"] = Absent /\ permission # Absent => UpToDate(permission, asked, overlapped)

CounterInv ==
    /\ disturbances \in Nat
    /\ result \in {"none", "installed", "removed", "failed", "crashed"}

LEMMA ChangeIsAsked ==
    ASSUME PermissionInv, NEW host \in Hosts, NEW field \in {"enabled", "installed"}, NEW value \in BOOLEAN,
           NEW requests, requests = IF field = "enabled" THEN Requested(host, value) ELSE asked,
           NEW some
    PROVE  /\ OnlyAsked([ReadPermissions(permission) EXCEPT ![host][field] = value], requests)
           /\ requests \in [Hosts -> {"never", "on", "off"}]
           /\ \A content : OnlyAsked(content, asked) => OnlyAsked(content, requests)
           /\ (permission # Absent => UpToDate(permission, asked, some)) =>
                 UpToDate([ReadPermissions(permission) EXCEPT ![host][field] = value], requests,
                          IF field = "enabled" THEN some \ {host} ELSE some)
<1> DEFINE current == ReadPermissions(permission)
           changed == [current EXCEPT ![host][field] = value]
<1>1. OnlyAsked(current, asked)
  BY DEF PermissionInv, ReadPermissions, Defaults, OnlyAsked, Permissions
<1>u. (permission # Absent => UpToDate(permission, asked, some)) => UpToDate(current, asked, some)
  BY DEF ReadPermissions, Defaults, UpToDate
<1> HIDE DEF current
<1>2. /\ requests \in [Hosts -> {"never", "on", "off"}]
      /\ \A h \in Hosts : asked[h] # "never" => requests[h] # "never"
      /\ \A h \in Hosts : h # host \/ field = "installed" => requests[h] = asked[h]
      /\ field = "enabled" /\ value => requests[host] = "on"
  BY DEF PermissionInv, Requested
<1>3. \A content : OnlyAsked(content, asked) => OnlyAsked(content, requests)
  BY <1>2 DEF OnlyAsked
<1>4. changed \in Permissions
  <2>1. current \in Permissions
    BY <1>1 DEF OnlyAsked
  <2>2. [current[host] EXCEPT ![field] = value] \in [enabled : BOOLEAN, installed : BOOLEAN]
    BY <2>1 DEF Permissions
  <2>3. QED
    BY <2>1, <2>2 DEF Permissions
<1>c. \A h \in Hosts : changed[h].enabled =>
          \/ h = host /\ requests[h] = "on"
          \/ (h # host \/ field = "installed") /\ current[h].enabled /\ requests[h] = asked[h]
  <2>1. \A h \in Hosts : current[h] \in [enabled : BOOLEAN, installed : BOOLEAN] /\ current \in Permissions
    BY <1>1 DEF OnlyAsked, Permissions
  <2>2. \A h \in Hosts : h # host => changed[h] = current[h]
    BY <2>1 DEF Permissions
  <2>3. field = "installed" => changed[host].enabled = current[host].enabled
    BY <2>1 DEF Permissions
  <2>4. field = "enabled" => changed[host].enabled = value
    BY <2>1 DEF Permissions
  <2>5. QED
    BY <1>2, <2>2, <2>3, <2>4
<1> HIDE DEF changed
<1>5. \A h \in Hosts : changed[h].enabled => requests[h] # "never"
  BY <1>1, <1>c DEF OnlyAsked
<1>6. UpToDate(current, asked, some) =>
          UpToDate(changed, requests, IF field = "enabled" THEN some \ {host} ELSE some)
  BY <1>c DEF UpToDate
<1>7. QED
  BY <1>2, <1>3, <1>4, <1>5, <1>6, <1>u DEF OnlyAsked, current, changed

LEMMA ReadForKeeps ==
    ASSUME PermissionInv, AloneInv, NEW p \in Processes, NEW host \in Hosts,
           NEW field \in {"enabled", "installed"}, NEW value \in BOOLEAN, ReadFor(p, host, field, value),
           p = "install" => value
    PROVE  PermissionInv' /\ AloneInv'
<1> DEFINE payload == [ReadPermissions(permission) EXCEPT ![host][field] = value]
           reading == [at |-> "read", payload |-> payload]
<1>1. /\ writer' = [writer EXCEPT ![p] = reading]
      /\ asked' = IF field = "enabled" THEN Requested(host, value) ELSE asked
      /\ UNCHANGED <<permission, temporary>>
  BY DEF ReadFor
<1>2. /\ OnlyAsked(payload, asked') /\ asked' \in [Hosts -> {"never", "on", "off"}]
      /\ \A content : OnlyAsked(content, asked) => OnlyAsked(content, asked')
      /\ (permission # Absent => UpToDate(permission, asked, overlapped)) =>
            UpToDate(payload, asked', IF field = "enabled" THEN overlapped \ {host} ELSE overlapped)
  BY <1>1, ChangeIsAsked
<1> HIDE DEF payload
<1>r. reading \in Writing /\ reading.at = "read" /\ reading.payload = payload /\ reading # Absent
  BY <1>2, IntegrationsAssumption DEF OnlyAsked, Writing
<1> HIDE DEF reading
<1>3. WriterDomain' /\ \A q \in Processes : writer'[q] = IF q = p THEN reading ELSE writer[q]
  BY <1>1 DEF PermissionInv, WriterDomain, Processes
<1>4. ASSUME NEW q \in Processes, writer'[q] # Absent
      PROVE  writer'[q] \in Writing /\ OnlyAsked(writer'[q].payload, asked')
  <2>1. CASE q = p
    BY <1>2, <1>3, <1>r, <2>1
  <2>2. CASE q # p
    BY <1>2, <1>3, <1>4, <2>2 DEF PermissionInv
  <2>3. QED
    BY <2>1, <2>2
<1>5. PermissionInv'
  BY <1>1, <1>2, <1>3, <1>4 DEF PermissionInv
<1>6. ASSUME (overlapped # Hosts)' PROVE AloneInv'
  <2>1. /\ \A q \in Processes : writer[q] = Absent
        /\ overlapped' = IF field = "enabled" THEN overlapped \ {host} ELSE overlapped
    BY <1>6 DEF ReadFor, PermissionInv, WriterDomain, Processes, Hosts
  <2>2. permission # Absent => UpToDate(permission, asked, overlapped)
    <3>1. CASE overlapped = Hosts
      BY <3>1 DEF UpToDate
    <3>2. CASE overlapped # Hosts
      BY <2>1, <3>2 DEF AloneInv, Processes
    <3>3. QED
      BY <3>1, <3>2
  <2>3. UpToDate(payload, asked', overlapped')
    BY <1>2, <2>1, <2>2
  <2>4. writer'["library"] = Absent /\ permission' # Absent => UpToDate(permission', asked', overlapped')
    <3>1. SUFFICES ASSUME writer'["library"] = Absent, permission # Absent
                   PROVE  UpToDate(permission, asked', overlapped')
      BY <1>1
    <3>2. p = "install"
      BY <1>3, <1>r, <3>1 DEF Processes
    <3>3. \A h \in Hosts : \/ asked'[h] = "on"
                           \/ asked'[h] = asked[h] /\ (h \in overlapped => h \in overlapped')
      <4>1. CASE field = "enabled"
        <5>1. asked' = [asked EXCEPT ![host] = "on"]
          BY <1>1, <3>2, <4>1 DEF Requested
        <5>2. \A h \in Hosts : asked'[h] = IF h = host THEN "on" ELSE asked[h]
          BY <5>1 DEF PermissionInv
        <5>3. QED
          BY <2>1, <4>1, <5>2
      <4>2. CASE field # "enabled"
        BY <1>1, <2>1, <4>2
      <4>3. QED
        BY <4>1, <4>2
    <3>4. QED
      BY <2>2, <3>1, <3>3 DEF UpToDate
  <2>5. QED
    BY <1>3, <1>r, <2>1, <2>3, <2>4 DEF AloneInv
<1>7. QED
  BY <1>5, <1>6 DEF AloneInv

LEMMA PermissionSteps ==
    ASSUME PermissionInv, AloneInv, [SharedNext]_sharedVars
    PROVE  PermissionInv' /\ AloneInv'
<1>1. ASSUME UNCHANGED permissionVars PROVE PermissionInv' /\ AloneInv'
  BY <1>1 DEF permissionVars, PermissionInv, AloneInv, WriterDomain
<1>2. CASE InstallRecords
  <2>1. ReadFor("install", Host, installer.at, TRUE) /\ installer.at \in {"installed", "enabled"}
    BY <1>2 DEF InstallRecords
  <2>2. Host \in Hosts
    BY DEF Host, Hosts
  <2>3. QED
    BY <2>1, <2>2, ReadForKeeps DEF Processes
<1>3. CASE \E h \in Hosts, value \in BOOLEAN : LibraryToggles(h, value)
  BY <1>3, ReadForKeeps DEF LibraryToggles, Processes
<1>4. CASE \E p \in Processes : WriteTemporary(p)
  <2>1. PICK p \in Processes : WriteTemporary(p)
    BY <1>4
  <2> DEFINE wrote == [writer[p] EXCEPT !.at = "written"]
  <2>2. /\ writer[p] # Absent /\ temporary' = writer[p].payload
        /\ writer' = [writer EXCEPT ![p] = wrote]
        /\ UNCHANGED <<permission, asked, overlapped>>
    BY <2>1 DEF WriteTemporary
  <2>3. WriterDomain' /\ \A q \in Processes : writer'[q] = IF q = p THEN wrote ELSE writer[q]
    BY <2>2 DEF PermissionInv, WriterDomain, Processes
  <2>4. writer[p] \in Writing /\ OnlyAsked(writer[p].payload, asked)
    BY <2>2 DEF PermissionInv
  <2>5. wrote \in Writing /\ wrote.payload = writer[p].payload
    BY <2>4 DEF Writing
  <2> HIDE DEF wrote
  <2>6. PermissionInv'
    BY <2>2, <2>3, <2>4, <2>5 DEF PermissionInv
  <2>7. wrote # Absent
    BY <2>5, IntegrationsAssumption
  <2>8. ASSUME overlapped # Hosts PROVE AloneInv'
    <3>1. \A q \in Processes : writer'[q] # Absent => q = p
      BY <2>2, <2>3, <2>8 DEF AloneInv
    <3>2. UpToDate(wrote.payload, asked, overlapped) /\ temporary' = wrote.payload
      BY <2>2, <2>5, <2>8 DEF AloneInv
    <3>3. \A q \in Processes : writer'[q] # Absent =>
             UpToDate(writer'[q].payload, asked, overlapped) /\ temporary' = writer'[q].payload
      BY <2>3, <3>1, <3>2
    <3>4. writer'["library"] = Absent => writer["library"] = Absent
      BY <2>3, <2>7 DEF Processes
    <3>5. writer["library"] = Absent /\ permission # Absent => UpToDate(permission, asked, overlapped)
      BY <2>8 DEF AloneInv
    <3>6. QED
      BY <2>2, <3>1, <3>3, <3>4, <3>5 DEF AloneInv
  <2>9. AloneInv'
    BY <2>2, <2>8 DEF AloneInv
  <2>10. QED
    BY <2>6, <2>9
<1>5. CASE \E p \in Processes : Replace(p)
  <2>1. PICK p \in Processes : Replace(p)
    BY <1>5
  <2>2. /\ permission' = IF temporary = Absent THEN permission ELSE temporary
        /\ temporary' = Absent /\ writer' = [writer EXCEPT ![p] = Absent]
        /\ UNCHANGED <<asked, overlapped>>
        /\ writer[p] # Absent /\ writer[p].at = "written"
    BY <2>1 DEF Replace
  <2>3. WriterDomain' /\ \A q \in Processes : writer'[q] = IF q = p THEN Absent ELSE writer[q]
    BY <2>2 DEF PermissionInv, WriterDomain, Processes
  <2>4. PermissionInv'
    BY <2>2, <2>3 DEF PermissionInv
  <2>5. ASSUME overlapped # Hosts PROVE AloneInv'
    <3>1. temporary = writer[p].payload /\ UpToDate(writer[p].payload, asked, overlapped)
      BY <2>2, <2>5 DEF AloneInv
    <3>2. writer[p].payload \in Permissions
      BY <2>2 DEF PermissionInv, OnlyAsked
    <3>3. permission' = writer[p].payload
      BY <2>2, <3>1, <3>2, IntegrationsAssumption
    <3>4. \A q \in Processes : writer'[q] = Absent
      BY <2>2, <2>3, <2>5 DEF AloneInv
    <3>5. QED
      BY <2>2, <3>1, <3>3, <3>4 DEF AloneInv
  <2>6. QED
    BY <2>2, <2>4, <2>5 DEF AloneInv
<1>6. CASE Unlink
  <2>1. permission' = Absent /\ UNCHANGED <<temporary, writer, asked, overlapped>>
    BY <1>6 DEF Unlink
  <2>2. QED
    BY <2>1 DEF PermissionInv, AloneInv, WriterDomain
<1>7. CASE InstallerCrashes
  <2>1. /\ writer' = [writer EXCEPT !["install"] = Absent]
        /\ UNCHANGED <<permission, temporary, asked, overlapped>>
    BY <1>7 DEF InstallerCrashes
  <2>2. WriterDomain' /\ \A q \in Processes : writer'[q] = IF q = "install" THEN Absent ELSE writer[q]
    BY <2>1 DEF PermissionInv, WriterDomain, Processes
  <2>3. PermissionInv'
    BY <2>1, <2>2 DEF PermissionInv
  <2>4. AloneInv'
    BY <2>1, <2>2 DEF AloneInv, Processes
  <2>5. QED
    BY <2>3, <2>4
<1>8. CASE \/ Start("install") \/ Start("uninstall")
           \/ Plan \/ Write \/ WriteFails \/ RollBack \/ FailBatch \/ EndBatch
           \/ \E t \in Target, e \in Event, foreign \in Foreign : Edit(t, e, foreign)
  <2>1. UNCHANGED permissionVars
    BY <1>8 DEF Start, Plan, Write, WriteFails, RollBack, FailBatch, EndBatch, Edit, SaysIdle
  <2>2. QED
    BY <2>1, <1>1
<1>9. CASE UNCHANGED sharedVars
  BY <1>1, <1>9 DEF sharedVars
<1>10. QED
  BY <1>2, <1>3, <1>4, <1>5, <1>6, <1>7, <1>8, <1>9 DEF SharedNext, Processes

LEMMA CounterSteps ==
    ASSUME CounterInv, [SharedNext]_sharedVars
    PROVE  CounterInv'
<1>1. NextBatch => result' \in {result, "installed"}
  BY DEF NextBatch
<1>2. CASE Start("install") \/ Start("uninstall")
  BY <1>2 DEF Start, CounterInv
<1>3. CASE Plan \/ Write \/ RollBack
  BY <1>3 DEF Plan, Write, RollBack, CounterInv, SaysIdle, counterVars
<1>4. CASE FailBatch \/ EndBatch
  BY <1>1, <1>4 DEF FailBatch, EndBatch, CounterInv, SaysIdle, counterVars
<1>5. CASE WriteFails \/ \E t \in Target, e \in Event, foreign \in Foreign : Edit(t, e, foreign)
  <2>1. disturbances' = disturbances + 1 /\ result' = result
    BY <1>5 DEF WriteFails, Edit, installVars
  <2>2. QED
    BY <2>1 DEF CounterInv
<1>6. CASE \E h \in Hosts, value \in BOOLEAN : LibraryToggles(h, value)
  BY <1>6 DEF LibraryToggles, CounterInv, installVars
<1>7. CASE InstallRecords \/ \E p \in {"install", "library"} : WriteTemporary(p)
  BY <1>7 DEF InstallRecords, WriteTemporary, CounterInv, installVars, counterVars
<1>8. CASE \E p \in {"install", "library"} : Replace(p)
  <2>1. UNCHANGED counterVars /\ (Recorded \/ UNCHANGED installVars)
    BY <1>8 DEF Replace
  <2>2. Recorded => result' \in {result, "installed", "failed"}
    BY <1>1 DEF Recorded
  <2>3. QED
    BY <2>1, <2>2 DEF CounterInv, counterVars, installVars
<1>9. CASE Unlink \/ InstallerCrashes
  BY <1>9 DEF Unlink, InstallerCrashes, CounterInv, counterVars
<1>10. CASE UNCHANGED sharedVars
  BY <1>10 DEF sharedVars, CounterInv, counterVars, installVars
<1>11. QED
  BY <1>2, <1>3, <1>4, <1>5, <1>6, <1>7, <1>8, <1>9, <1>10 DEF SharedNext

-----------------------------------------------------------------------------
LEMMA SharedSteps == ASSUME SharedInv, [SharedNext]_sharedVars PROVE SharedInv'
<1>1. CASE Start("install") \/ Start("uninstall")
  BY <1>1, StartKeeps
<1>2. CASE Plan
  BY <1>2, PlanKeeps
<1>3. CASE Write
  BY <1>3, WriteKeeps
<1>4. CASE RollBack
  BY <1>4, RollBackKeeps
<1>5. CASE WriteFails \/ FailBatch \/ EndBatch
  BY <1>5, OtherStepsKeep
<1>6. CASE \/ InstallRecords \/ \E h \in Hosts, value \in BOOLEAN : LibraryToggles(h, value)
           \/ \E p \in {"install", "library"} : WriteTemporary(p)
  BY <1>6, PermissionStepsKeep
<1>7. CASE \E p \in {"install", "library"} : Replace(p)
  BY <1>7, ReplaceKeeps
<1>8. CASE Unlink \/ InstallerCrashes
  BY <1>8, EndsKeep
<1>9. CASE \E t \in Target, e \in Event, foreign \in Foreign : Edit(t, e, foreign)
  BY <1>9, EditKeeps
<1>10. CASE UNCHANGED sharedVars
  <2>1. UNCHANGED <<hookVars, installer>> /\ writer' = writer
    BY <1>10 DEF sharedVars, installVars, permissionVars
  <2>2. WriterDomain' /\ (writer'["install"] # Absent => installer.at \in {"installed", "enabled"})
    BY <2>1 DEF SharedInv, InstallerInv, ProgressInv, WriterDomain
  <2>3. QED
    BY <2>1, <2>2, SameInstaller
<1>11. QED
  BY <1>1, <1>2, <1>3, <1>4, <1>5, <1>6, <1>7, <1>8, <1>9, <1>10 DEF SharedNext

\* What holds in every state of the shared files: each batch is planned from
\* what the files were, the files that it has written are as planned, the
\* others as they were, and the hooks of others are where their owners put them
\* (reconcile_codex_hook_targets, reconcile_claude_hooks).
THEOREM SharedInvariant == SharedSpec => []SharedInv
<1>1. SharedInv /\ [SharedNext]_sharedVars => SharedInv'
  BY SharedSteps
<1>2. QED
  BY InitShared, <1>1, PTL DEF SharedSpec

\* Capture of a host is enabled only when somebody has asked for it, although
\* the installer and the Library change the permission file without a common
\* lock and take away each other's temporary file; and the last request for a host
\* stands unless their changes overlapped at it or after it (PermissionStore).
THEOREM NothingEnabledUnasked == SharedSpec => [](PermissionInv /\ NeverEnabledUnasked)
<1>1. SharedInit => PermissionInv /\ AloneInv
  <2>1. SharedInit => \A p \in Processes : writer[p] = Absent
    BY DEF SharedInit, Processes
  <2>2. SharedInit => PermissionInv
    BY <2>1 DEF SharedInit, PermissionInv, WriterDomain
  <2>3. SharedInit => AloneInv
    BY <2>1 DEF SharedInit, AloneInv
  <2>4. QED
    BY <2>2, <2>3
<1>2. PermissionInv /\ AloneInv /\ [SharedNext]_sharedVars => (PermissionInv /\ AloneInv)'
  BY PermissionSteps
<1>3. PermissionInv /\ AloneInv => NeverEnabledUnasked
  BY DEF PermissionInv, AloneInv, OnlyAsked, UpToDate, NeverEnabledUnasked, NobodyWrites,
         WriterDomain, Processes
<1>4. QED
  BY <1>1, <1>2, <1>3, PTL DEF SharedSpec

LEMMA CountersHold == SharedSpec => []CounterInv
<1>1. SharedInit => CounterInv
  BY DEF SharedInit, CounterInv
<1>2. CounterInv /\ [SharedNext]_sharedVars => CounterInv'
  BY CounterSteps
<1>3. QED
  BY <1>1, <1>2, PTL DEF SharedSpec

\* Every hook file stays one that its users can read, and has their hooks in
\* their order, whatever is installed, rolled back, removed or interrupted
\* (_plan_codex_hooks, _save, _restore).
THEOREM SharedFilesAreKept == SharedSpec => []FilesKept
<1>1. ASSUME SharedInv, PermissionInv, CounterInv PROVE FilesKept
  <2>1. ASSUME NEW t \in Target, IsFile(file[t]), NEW e \in Event PROVE file[t][e] \in Seq(AnyHook)
    <3>1. file[t] \in Readable \cup {Broken}
      BY <1>1 DEF SharedInv, FileInv
    <3>2. file[t] \in Contents
      BY <2>1, <3>1 DEF Readable, IsFile
    <3>3. QED
      BY <3>2 DEF Contents
  <2>2. /\ installer.command \in {"none", "install", "uninstall"} /\ installer.at \in Stage
        /\ installer.written \in Nat /\ installer.planned \in Seq(Mutation)
    BY <1>1 DEF SharedInv, InstallerInv, InstallerTypes
  <2>3. /\ installer.written <= Len(installer.planned)
        /\ \A i \in DOMAIN installer.planned : installer.planned[i].target = Batch[i]
    BY <1>1 DEF SharedInv, InstallerInv, ProgressInv
  <2>4. Len(installer.planned) \in Nat
    BY <2>2
  <2>5. installer.written \in 0..Len(installer.planned)
    BY <2>2, <2>3, <2>4
  <2>6. permission = Absent \/ permission \in Permissions
    BY <1>1 DEF PermissionInv, OnlyAsked
  <2>7. IntegrationsTypeOK
    BY <1>1, <2>1, <2>2, <2>3, <2>5, <2>6 DEF IntegrationsTypeOK, CounterInv, Stage
  <2>8. QED
    BY <1>1, <2>7 DEF SharedInv, FileInv, FilesKept
<1>2. QED
  BY SharedInvariant, NothingEnabledUnasked, CountersHold, <1>1, PTL

\* A batch that has failed leaves every file registered as it was; one that has
\* succeeded leaves the hook once for each event, or not at all
\* (reconcile_codex_hook_targets).
THEOREM BatchesEndAsAWhole == SharedSpec => []BatchesAreWhole
<1>1. ASSUME SharedInv PROVE BatchesAreWhole
  <2>1. InstallerInv /\ PlannedInv /\ PendingInv
    BY <1>1 DEF SharedInv
  <2>2. ASSUME installer.at = "failed", NEW i \in DOMAIN Batch, Batch[i] \notin raced
        PROVE  OwnIn(file[Batch[i]]) = OwnIn(before[Batch[i]])
    <3>1. /\ Batch = installer.batches[1] /\ 1 \in DOMAIN installer.batches /\ Batch \in Seq(Target)
          /\ Len(installer.planned) \in Nat
      BY <2>1, <2>2, BatchFacts
    <3>2. i \in Nat /\ i > 0 /\ installer.written = 0 /\ ~(i <= 0)
      BY <2>1, <2>2, <3>1 DEF InstallerInv, ProgressInv
    <3>3. CASE i > Len(installer.planned)
      BY <2>1, <3>1, <3>3 DEF PendingInv
    <3>4. CASE ~(i > Len(installer.planned))
      <4>1. i \in DOMAIN installer.planned
        <5>1. installer.planned \in Seq(Mutation)
          BY <2>1 DEF InstallerInv, InstallerTypes
        <5>2. QED
          BY <3>1, <3>2, <3>4, <5>1
      <4>2. installer.planned[i].target = Batch[i]
        BY <2>1, <4>1 DEF InstallerInv, ProgressInv
      <4>3. QED
        BY <2>1, <2>2, <3>2, <4>1, <4>2 DEF PlannedInv
    <3>5. QED
      BY <3>3, <3>4
  <2>3. ASSUME installer.at \in {"done", "installed", "enabled"}, NEW i \in DOMAIN Batch, NEW e \in Event,
               Batch[i] \notin raced
        PROVE  OwnIn(file[Batch[i]])[e] = IF Enabling THEN 1 ELSE 0
    <3>1. /\ Batch \in Seq(Target) /\ Len(installer.planned) = Len(Batch)
          /\ installer.written = Len(installer.planned) /\ installer.planned \in Seq(Mutation)
      BY <2>1, <2>3, BatchFacts DEF InstallerInv, InstallerTypes, ProgressInv
    <3>2. i \in DOMAIN installer.planned /\ i <= installer.written
      BY <3>1
    <3>3. installer.planned[i] \in Mutation /\ installer.planned[i].target = Batch[i]
      BY <2>1, <3>1, <3>2 DEF InstallerInv, ProgressInv
    <3>4. /\ file[Batch[i]] = Outcome(installer.planned[i])
          /\ ~HasAmbiguous(installer.planned[i].original)
          /\ installer.planned[i].desired = Desired(installer.planned[i].original, Enabling)
      BY <2>1, <2>3, <3>2, <3>3 DEF PlannedInv
    <3>5. Enabling \in BOOLEAN
      BY DEF Enabling
    <3>6. OwnIn(Outcome(installer.planned[i])) = [f \in Event |-> IF Enabling THEN 1 ELSE 0]
      BY <3>3, <3>4, <3>5, OutcomeLaws
    <3>7. QED
      BY <3>4, <3>6
  <2>4. QED
    BY <2>2, <2>3 DEF BatchesAreWhole, AllOrNothing, OnceInstalled
<1>2. QED
  BY SharedInvariant, <1>1, PTL

\* A file with a hook that cannot be told apart from the own one is not
\* written, neither when it is reconciled nor when a batch is rolled back
\* (_find_ambiguous_events).
THEOREM AmbiguousFilesAreLeft == SharedSpec => AmbiguousUntouched
<1>1. ASSUME SharedInv, CounterInv, [SharedNext]_sharedVars
      PROVE  [\A t \in Target \ raced :
                 file'[t] # file[t] /\ disturbances' = disturbances => ~HasHook(file[t], Ambiguous)]_sharedVars
  <2>1. SUFFICES ASSUME NEW t \in Target \ raced, file'[t] # file[t], disturbances' = disturbances
                 PROVE  ~HasHook(file[t], Ambiguous)
    OBVIOUS
  <2>2. InstallerInv /\ PlannedInv /\ file \in [Target -> Readable \cup {Broken}]
    BY <1>1 DEF SharedInv, FileInv
  <2>3. \E i \in DOMAIN installer.planned : installer.planned[i].target = t
    <3>1. CASE Write
      <4>1. /\ installer.at = "write" /\ installer.written # Len(installer.planned)
            /\ file' = IF Changes(installer.planned[installer.written + 1])
                       THEN [file EXCEPT ![installer.planned[installer.written + 1].target] =
                                installer.planned[installer.written + 1].desired]
                       ELSE file
        BY <2>1, <3>1 DEF Write
      <4>2. /\ installer.planned \in Seq(Mutation) /\ installer.written \in Nat
            /\ installer.written <= Len(installer.planned)
        BY <2>2 DEF InstallerInv, InstallerTypes, ProgressInv
      <4>3. installer.written + 1 \in DOMAIN installer.planned
        BY <4>1, <4>2
      <4>4. QED
        BY <2>1, <2>2, <4>1, <4>3
    <3>2. CASE RollBack
      <4>1. /\ installer.written # 0
            /\ file' = IF Changes(installer.planned[installer.written])
                       THEN [file EXCEPT ![installer.planned[installer.written].target] =
                                installer.planned[installer.written].original]
                       ELSE file
        BY <2>1, <3>2 DEF RollBack, Restored
      <4>2. /\ installer.planned \in Seq(Mutation) /\ installer.written \in Nat
            /\ installer.written <= Len(installer.planned)
        BY <2>2 DEF InstallerInv, InstallerTypes, ProgressInv
      <4>3. installer.written \in DOMAIN installer.planned
        BY <4>1, <4>2
      <4>4. QED
        BY <2>1, <2>2, <4>1, <4>3
    <3>3. CASE \E u \in Target, e \in Event, foreign \in Foreign : Edit(u, e, foreign)
      <4>1. disturbances' = disturbances + 1 /\ disturbances \in Nat
        BY <1>1, <3>3 DEF Edit, CounterInv
      <4>2. QED
        BY <2>1, <4>1
    <3>4. CASE ~Write /\ ~RollBack /\ ~\E u \in Target, e \in Event, foreign \in Foreign : Edit(u, e, foreign)
      <4>1. file' = file
        BY <1>1, <3>4 DEF SharedNext, Start, Plan, WriteFails, FailBatch, EndBatch, InstallRecords, Unlink,
              InstallerCrashes, WriteTemporary, Replace, LibraryToggles, hookVars, sharedVars
      <4>2. QED
        BY <2>1, <4>1
    <3>5. QED
      BY <3>1, <3>2, <3>3, <3>4
  <2>4. PICK i \in DOMAIN installer.planned : installer.planned[i].target = t
    BY <2>3
  <2> DEFINE m == installer.planned[i]
  <2>5. m \in Mutation
    <3>1. installer.planned \in Seq(Mutation)
      BY <2>2 DEF InstallerInv, InstallerTypes
    <3>2. QED
      BY <3>1
  <2>6. /\ ~HasAmbiguous(m.original) /\ m.desired = Desired(m.original, Enabling)
        /\ file[t] \in {Outcome(m), m.original}
    BY <2>1, <2>2, <2>4 DEF PlannedInv
  <2>7. Enabling \in BOOLEAN
    BY DEF Enabling
  <2>8. ~HasAmbiguous(file[t])
    BY <2>5, <2>6, <2>7, OutcomeLaws
  <2>9. QED
    BY <2>8 DEF HasAmbiguous
<1>2. QED
  BY SharedInvariant, CountersHold, <1>1, PTL DEF SharedSpec, AmbiguousUntouched
=============================================================================
