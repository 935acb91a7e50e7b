------------------------------ MODULE Lifecycle ------------------------------
(***************************************************************************)
(* The processes of the runtime and the commands that manage them: install,*)
(* start, stop, restart, update, rotate, open and uninstall.  They share   *)
(* the instance lock, the state file, the credential, the port of the      *)
(* bridge and the database with its migrations; hooks open that database   *)
(* as well.                                                                *)
(*                                                                         *)
(* The variable mode says who is there: one user who waits for each command*)
(* to settle ("quiet"), several managers at any time ("crowd"), or the     *)
(* first start over a database without schema, beside hooks ("fresh").     *)
(***************************************************************************)
EXTENDS Naturals, FiniteSets

CONSTANTS
    Pid,              \* processes of the runtime, in the order of their launch
    Manager, Hook,    \* processes of the command line and of the host
    Migrations,       \* number of registered migrations
    UnlinksOpenFiles, \* the operating system removes a file that is open
    MaxFailures       \* bound of the model: crashes, failed starts, interruptions

ASSUME LifecycleAssumption ==
    /\ Pid \subseteq Nat \ {0} /\ IsFiniteSet(Pid)
    /\ Migrations \in Nat /\ MaxFailures \in Nat /\ UnlinksOpenFiles \in BOOLEAN

VARIABLES
    mode,
    proc,                     \* runtime processes
    manager, hook,            \* what they do next
    state, token, config, startup,   \* runtime.json, credential, configuration, login
    schema, ran,              \* applied migrations; history: how often each script ran
    reused,                   \* numbers of dead processes that others have now
    issued, minted, failures, \* counters of the model
    outcome                   \* history: how the last command of a quiet user ended

fileVars == <<state, token, config, startup>>
vars == <<mode, proc, manager, hook, fileVars, schema, ran, reused, issued, minted, failures, outcome>>

None == 0
Unborn == [at |-> "none", token |-> None, stop |-> FALSE, unlinked |-> FALSE, script |-> 0]
Idle == [command |-> "none", step |-> "none", pid |-> None]

Owning == {"locked", "keyed", "opened", "bound", "serving", "closed", "cleared"}

Alive(p) == proc[p].at \in Owning \cup {"launched"}
Answers(p) == proc[p].at \in {"bound", "serving"}

\* Mutant: the lock is released before the state file is removed.
HoldsUntilClosed(p) == proc[p].at \in Owning \ {"closed", "cleared"} /\ ~proc[p].unlinked

\* Mutant: a lock file that a crash leaves behind still counts.
HoldsAfterCrash(p) == proc[p].at \in Owning \cup {"dead"}

\* The operating system releases the lock of a process that dies.
Holds(p) == proc[p].at \in Owning /\ ~proc[p].unlinked

LockIsFree == \A p \in Pid : ~Holds(p)

\* What a request with the stored credential reaches; the port is a fixed one.
Healthy(p) == Answers(p) /\ token # None /\ proc[p].token = token

IsRunning(p) == p \in reused \/ (p # None /\ Alive(p))

Settled == \A p \in Pid : Alive(p) => proc[p].at = "serving" /\ ~proc[p].stop

\* Mutant: the credential is rotated under a runtime that was not stopped.
FirstUnstopped(command) ==
    CASE command = "install" -> "configure"
      [] command \in {"start", "open"} -> "look"
      [] command = "rotate" -> "rotate"
      [] OTHER -> "read"

\* The first step of each command; stop() begins with "read", start() with "look".
First(command) ==
    CASE command = "install" -> "configure"
      [] command \in {"start", "open"} -> "look"
      [] OTHER -> "read"

AfterStop(command) ==
    CASE command = "restart"   -> "look"
      [] command = "update"    -> "register"
      [] command = "rotate"    -> "rotate"
      [] command = "uninstall" -> "erase"
      [] OTHER                 -> "end"

\* What a command does when a step has succeeded.
After(command, step) ==
    CASE step \in {"read", "clear"} -> AfterStop(command)
      [] step \in {"configure", "register", "rotate"} -> "look"
      [] step \in {"look", "wait"} -> IF command = "open" THEN "open" ELSE "end"
      [] OTHER -> "end"

Command == {"install", "start", "stop", "restart", "update", "rotate", "open", "uninstall"}

Init ==
    /\ mode \in {"quiet", "crowd", "fresh"}
    /\ proc = [p \in Pid |-> Unborn]
    /\ manager = [m \in Manager |-> Idle]
    /\ hook = [h \in Hook |-> [at |-> "none", script |-> 0]]
    /\ state = None /\ token = None
    /\ config \in {TRUE, mode # "quiet"} /\ startup = config
    /\ schema = IF mode = "fresh" THEN 0 ELSE Migrations
    /\ ran = [v \in 1..Migrations |-> IF mode = "fresh" THEN 0 ELSE 1]
    /\ reused = {} /\ issued = 0 /\ minted = 0 /\ failures = 0
    /\ outcome = "none"

Spawn ==
    \E p \in Pid :
        /\ proc[p].at = "none"
        /\ \A q \in Pid : q < p => proc[q].at # "none"
        /\ proc' = [proc EXCEPT ![p].at = "launched"]

---------------------------------------------------------------------------
\* A runtime process: start, wait and stop.

Reach(p, phase) == proc' = [proc EXCEPT ![p].at = phase]

Same == UNCHANGED <<mode, manager, hook, config, startup, reused, issued, failures, outcome>>

\* A process that finds the lock taken ends without a trace.
Acquire(p) ==
    /\ proc[p].at = "launched"
    /\ IF config /\ LockIsFree THEN Reach(p, "locked") ELSE Reach(p, "dead")
    /\ Same /\ UNCHANGED <<state, token, schema, ran, minted>>

Keyed == IF token = None THEN minted + 1 ELSE token

LoadToken(p) ==
    /\ proc[p].at = "locked"
    /\ proc' = [proc EXCEPT ![p].at = "keyed", ![p].token = Keyed]
    /\ token' = Keyed
    /\ minted' = IF token = None THEN minted + 1 ELSE minted
    /\ Same /\ UNCHANGED <<state, schema, ran>>

\* apply_migrations looks for a version and runs its script, which another
\* process may have run by then.
FindMissing(p) ==
    /\ proc[p].at = "keyed" /\ proc[p].script = 0
    /\ IF schema = Migrations THEN Reach(p, "opened")
       ELSE proc' = [proc EXCEPT ![p].script = schema + 1]
    /\ Same /\ UNCHANGED <<state, token, schema, ran, minted>>

\* Mutant: scripts and their registration accept what is there already.
ClashesNever(v) == FALSE

Clashes(v) == schema >= v

\* Script and registration are one transaction.
Script(v) ==
    IF Clashes(v) THEN UNCHANGED <<schema, ran>>
    ELSE schema' = v /\ ran' = [ran EXCEPT ![v] = @ + 1]

ApplyMissing(p) ==
    /\ proc[p].at = "keyed" /\ proc[p].script # 0
    /\ Script(proc[p].script)
    /\ proc' = [proc EXCEPT ![p].script = 0, ![p].at = IF Clashes(proc[p].script) THEN "closed" ELSE @]
    /\ Same /\ UNCHANGED <<state, token, minted>>

Bind(p) ==
    /\ proc[p].at = "opened"
    /\ Reach(p, IF \E q \in Pid : Answers(q) THEN "closed" ELSE "bound")
    /\ Same /\ UNCHANGED <<state, token, schema, ran, minted>>

WriteState(p) ==
    /\ proc[p].at = "bound"
    /\ Reach(p, "serving") /\ state' = p
    /\ Same /\ UNCHANGED <<token, schema, ran, minted>>

Close(p) ==
    /\ proc[p].at = "serving" /\ proc[p].stop
    /\ Reach(p, "closed")
    /\ Same /\ UNCHANGED <<state, token, schema, ran, minted>>

RemoveState(p) ==
    /\ proc[p].at = "closed"
    /\ Reach(p, "cleared") /\ state' = None
    /\ Same /\ UNCHANGED <<token, schema, ran, minted>>

Exit(p) ==
    /\ proc[p].at = "cleared"
    /\ Reach(p, "dead")
    /\ Same /\ UNCHANGED <<state, token, schema, ran, minted>>

Runtime(p) ==
    \/ Acquire(p) \/ LoadToken(p) \/ FindMissing(p) \/ ApplyMissing(p) \/ Bind(p)
    \/ WriteState(p) \/ Close(p) \/ RemoveState(p) \/ Exit(p)

\* A port is taken or the disk fails: start() cleans up and raises.
StartFails(p) ==
    /\ proc[p].at \in {"locked", "keyed", "opened", "bound"}
    /\ proc' = [proc EXCEPT ![p].at = "closed", ![p].script = 0]

Crash(p) == Alive(p) /\ proc' = [proc EXCEPT ![p].at = "dead", ![p].script = 0]

Fault(p) ==
    /\ failures < MaxFailures
    /\ StartFails(p) \/ Crash(p)
    /\ failures' = failures + 1
    /\ outcome' = "none"
    /\ UNCHANGED <<mode, manager, hook, fileVars, schema, ran, reused, issued, minted>>

\* Another program gets the number that the state file names, at most once in
\* a behaviour: a bound of its own, since a crash or a kill comes before it.
Reuse ==
    /\ state # None /\ ~IsRunning(state)
    /\ reused = {}
    /\ reused' = {state}
    /\ UNCHANGED <<mode, proc, manager, hook, fileVars, schema, ran, issued, minted, failures, outcome>>

---------------------------------------------------------------------------
\* Hooks of the host open the database in processes of their own.

HookStart(h) ==
    /\ mode = "fresh" /\ hook[h].at = "none"
    /\ hook' = [hook EXCEPT ![h].at = "opening"]
    /\ UNCHANGED <<schema, ran>>

HookFindMissing(h) ==
    /\ hook[h].at = "opening" /\ hook[h].script = 0
    /\ hook' = [hook EXCEPT ![h] =
          IF schema = Migrations THEN [at |-> "done", script |-> 0] ELSE [@ EXCEPT !.script = schema + 1]]
    /\ UNCHANGED <<schema, ran>>

HookApplyMissing(h) ==
    /\ hook[h].script # 0
    /\ Script(hook[h].script)
    /\ hook' = [hook EXCEPT ![h] =
          [at |-> IF Clashes(hook[h].script) THEN "done" ELSE "opening", script |-> 0]]

HookStep(h) ==
    /\ HookStart(h) \/ HookFindMissing(h) \/ HookApplyMissing(h)
    /\ UNCHANGED <<mode, proc, manager, fileVars, reused, issued, minted, failures, outcome>>

---------------------------------------------------------------------------
\* The commands of LifecycleManager.

At(m, step) == manager[m].step = step

Free(m) == At(m, "none")

Continue(m, step) ==
    /\ manager' = [manager EXCEPT ![m].step = step]
    /\ outcome' = outcome

End(m, result) ==
    /\ manager' = [manager EXCEPT ![m] = Idle]
    /\ outcome' = IF mode = "quiet" THEN result ELSE "none"

\* The next step of the command, or its end.
Proceed(m) ==
    LET next == After(manager[m].command, manager[m].step) IN
        IF next = "end" THEN End(m, manager[m].command) ELSE Continue(m, next)

\* At most one launch for each command and each login.
Begins ==
    /\ issued < Cardinality(Pid)
    /\ mode = "quiet" => Settled /\ \A m \in Manager : Free(m)
    /\ issued' = issued + 1
    /\ outcome' = "none"
    /\ UNCHANGED <<mode, hook, fileVars, schema, ran, reused, minted, failures>>

Issue(m, command) ==
    /\ Free(m)
    /\ mode # "crowd" => m = CHOOSE n \in Manager : TRUE
    /\ mode = "fresh" => command = "start"
    /\ manager' = [manager EXCEPT ![m] = [Idle EXCEPT !.command = command, !.step = First(command)]]
    /\ proc' = proc
    /\ Begins

\* The command registered for the login of the user.
Login ==
    /\ startup /\ Begins
    /\ Spawn
    /\ manager' = manager

\* status() finds the runtime running.
Found == state # None /\ \E p \in Pid : Healthy(p)

Look(m) ==
    /\ At(m, "look")
    /\ IF Found THEN Proceed(m)
       ELSE IF config THEN Continue(m, "launch") ELSE End(m, "error")
    /\ UNCHANGED <<proc, fileVars, minted>>

Launch(m) ==
    /\ At(m, "launch")
    /\ Spawn
    /\ Continue(m, "wait")
    /\ UNCHANGED <<fileVars, minted>>

WaitForRunning(m) ==
    /\ At(m, "wait") /\ Found
    /\ Proceed(m)
    /\ UNCHANGED <<proc, fileVars, minted>>

ReadState(m) ==
    /\ At(m, "read")
    /\ IF state = None THEN Proceed(m)
       ELSE /\ manager' = [manager EXCEPT ![m].pid = state, ![m].step = "request"]
            /\ outcome' = outcome
    /\ UNCHANGED <<proc, fileVars, minted>>

\* Whoever listens at the port is asked, whatever process the file named.
RequestStop(m) ==
    /\ At(m, "request")
    /\ IF \E p \in Pid : Healthy(p)
       THEN /\ proc' = [p \in Pid |-> IF Healthy(p) THEN [proc[p] EXCEPT !.stop = TRUE] ELSE proc[p]]
            /\ Continue(m, "await")
       ELSE /\ proc' = proc
            /\ IF token = None \/ IsRunning(manager[m].pid) THEN End(m, "error") ELSE Continue(m, "clear")
    /\ UNCHANGED <<fileVars, minted>>

Gone(m) == ~IsRunning(manager[m].pid)

AwaitExit(m) ==
    /\ At(m, "await") /\ Gone(m)
    /\ Continue(m, "clear")
    /\ UNCHANGED <<proc, fileVars, minted>>

ClearState(m) ==
    /\ At(m, "clear")
    /\ state' = None
    /\ Proceed(m)
    /\ UNCHANGED <<proc, token, config, startup, minted>>

\* A quiet user's command times out only when nothing is under way any more.
Timeout(m) ==
    /\ \/ At(m, "wait")  /\ (mode = "quiet" => Settled /\ ~Found)
       \/ At(m, "await") /\ (mode = "quiet" => Settled /\ ~Gone(m))
    /\ End(m, "error")
    /\ UNCHANGED <<proc, fileVars, minted>>

RotateCredential(m) ==
    /\ At(m, "rotate")
    /\ token' = minted + 1 /\ minted' = minted + 1
    /\ Proceed(m)
    /\ UNCHANGED <<proc, state, config, startup>>

Register(m) ==
    /\ At(m, "register")
    /\ startup' = TRUE
    /\ Proceed(m)
    /\ UNCHANGED <<proc, state, token, config, minted>>

Configure(m) ==
    /\ At(m, "configure")
    /\ config' = TRUE /\ startup' = TRUE
    /\ token' = Keyed
    /\ minted' = IF token = None THEN minted + 1 ELSE minted
    /\ Proceed(m)
    /\ UNCHANGED <<proc, state>>

OpenLibrary(m) ==
    /\ At(m, "open")
    /\ IF \E p \in Pid : Healthy(p) THEN Proceed(m) ELSE End(m, "error")
    /\ UNCHANGED <<proc, fileVars, minted>>

\* The lock file goes last, and cannot go where a process has it open.
Erase(m) ==
    /\ At(m, "erase")
    /\ startup' = FALSE /\ token' = None /\ config' = FALSE /\ state' = None
    /\ IF UnlinksOpenFiles \/ \A p \in Pid : proc[p].at \notin Owning
       THEN /\ proc' = [p \in Pid |-> [proc[p] EXCEPT !.unlinked = @ \/ proc[p].at \in Owning]]
            /\ Proceed(m)
       ELSE proc' = proc /\ End(m, "error")
    /\ UNCHANGED minted

Step(m) ==
    /\ \/ Look(m) \/ Launch(m) \/ WaitForRunning(m) \/ ReadState(m) \/ RequestStop(m)
       \/ AwaitExit(m) \/ ClearState(m) \/ Timeout(m) \/ RotateCredential(m) \/ Register(m)
       \/ Configure(m) \/ OpenLibrary(m) \/ Erase(m)
    /\ UNCHANGED <<mode, hook, schema, ran, reused, issued, failures>>

\* A command is interrupted.
Interrupt(m) ==
    /\ ~Free(m)
    /\ failures < MaxFailures
    /\ failures' = failures + 1
    /\ End(m, "error")
    /\ UNCHANGED <<mode, proc, hook, fileVars, schema, ran, reused, issued, minted>>

Next ==
    \/ \E p \in Pid : Runtime(p) \/ Fault(p)
    \/ \E h \in Hook : HookStep(h)
    \/ \E m \in Manager : Step(m) \/ Interrupt(m) \/ \E c \in Command : Issue(m, c)
    \/ Login \/ Reuse

\* Processes run, and managers poll, unless they die.
Spec ==
    /\ Init /\ [][Next]_vars
    /\ \A p \in Pid : WF_vars(Runtime(p))
    /\ \A m \in Manager : WF_vars(Step(m))
=============================================================================
