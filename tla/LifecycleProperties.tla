------------------------ MODULE LifecycleProperties ------------------------
(***************************************************************************)
(* What the lock, the state file and the commands promise together.        *)
(***************************************************************************)
EXTENDS Lifecycle

Running == {"start", "install", "restart", "update", "rotate", "open"}

\* Types, and: whoever answers has a credential, and the state file names a
\* process that served.
LifecycleTypeOK ==
    /\ mode \in {"quiet", "crowd", "fresh"}
    /\ proc \in [Pid -> [at : Owning \cup {"none", "launched", "dead"}, token : Nat, stop : BOOLEAN,
                         unlinked : BOOLEAN, script : 0..Migrations]]
    /\ \A p \in Pid : Answers(p) => proc[p].token # None
    /\ state \in Pid \cup {None}
    /\ state # None => proc[state].at \in {"serving", "closed", "cleared", "dead"}
    /\ {token, minted, issued, failures} \subseteq Nat
    /\ schema \in 0..Migrations

\* However many processes open a new database at once, no script runs twice.
ScriptsOnce == \A v \in 1..Migrations : ran[v] <= 1 /\ (ran[v] = 1 <=> v <= schema)

\* For a user who lets each command settle: a runtime that serves is the one
\* the state file names, and has the credential that the commands will use.
\* No crash, failed start or interrupted command leaves one that serves but
\* can be neither seen nor stopped.
Reachable ==
    mode = "quiet" /\ Settled /\ (\A m \in Manager : Free(m)) =>
        \A p \in Pid : Alive(p) => state = p /\ proc[p].token = token

\* And a command that reports success has had its effect, unless something
\* failed or began since.
Accomplished ==
    mode = "quiet" =>
        /\ outcome \in Running => \E p \in Pid : Healthy(p) /\ ~proc[p].stop
        /\ outcome \in {"stop", "uninstall"} => \A p \in Pid : ~Alive(p)
        /\ outcome = "uninstall" => state = None /\ token = None /\ ~config /\ ~startup

\* A runtime that stops removes no other living runtime's state file, although
\* it removes whatever file is there.
OwnState ==
    [][\A p \in Pid : proc[p].at = "closed" /\ proc'[p].at = "cleared" =>
          state \in {None, p} \/ ~Alive(state)]_vars

\* When nothing fails any more, start and install bring the runtime up from
\* whatever crashes, interruptions and reused process numbers have left.
Starting(m) ==
    /\ mode = "quiet" /\ failures = MaxFailures
    /\ manager[m].command \in {"start", "install"}
    /\ At(m, First(manager[m].command))
    /\ config \/ manager[m].command = "install"

Succeeds == (\E m \in Manager : Starting(m)) ~> outcome \in {"start", "install"}

\* The schema grows one script at a time, and processes, state file, credential
\* and migrations fit each other.
SchemaGrowsOnce == LifecycleTypeOK /\ ScriptsOnce

\* The user can rely on what commands report and find what is running.
CommandsTellTheTruth == Reachable /\ Accomplished
=============================================================================
