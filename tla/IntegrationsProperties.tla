----------------------- MODULE IntegrationsProperties -----------------------
(***************************************************************************)
(* What the shared files promise to those who share them.  theirs has the  *)
(* hooks that users and their programs have put into each file, raced the  *)
(* files they changed between a command's reading and its writing, before  *)
(* the files as the command found them, asked the last request for each    *)
(* host's capture, and overlapped the hosts for which, at their last       *)
(* request or later, one process read the permissions while another was    *)
(* about to replace them.                                                  *)
(***************************************************************************)
EXTENDS Integrations

IntegrationsTypeOK ==
    /\ \A t \in Target : IsFile(file[t]) => \A e \in Event : file[t][e] \in Seq(AnyHook)
    /\ installer.command \in {"none", "install", "uninstall"}
    /\ installer.at \in {"idle", "plan", "write", "rollback", "failed", "done", "installed", "enabled", "unlink"}
    /\ installer.written \in 0..Len(installer.planned)
    /\ \A i \in DOMAIN installer.planned : installer.planned[i].target = Batch[i]
    /\ permission = Absent \/ permission \in Permissions
    /\ result \in {"none", "installed", "removed", "failed", "crashed"}

\* Whatever is installed, rolled back, removed or interrupted, the hooks of
\* others stay and keep their order, unless somebody edits the file between the
\* reading and the writing.
ForeignKept ==
    \A t \in Target \ raced : file[t] # Broken => Theirs(file[t]) = theirs[t]

OwnIn(content) ==
    [e \in Event |-> IF IsFile(content) THEN Len(content[e]) - Len(Others(content[e])) ELSE 0]

\* A batch that fails, at its reading or at any of its writings, leaves no
\* target with another registration than it had.
AllOrNothing ==
    installer.at = "failed" =>
        \A i \in DOMAIN Batch : Batch[i] \in raced \/ OwnIn(file[Batch[i]]) = OwnIn(before[Batch[i]])

\* A batch that succeeds has registered the hook exactly once for each event,
\* or not at all, however often commands ran, failed and crashed before.
OnceInstalled ==
    installer.at \in {"done", "installed", "enabled"} =>
        \A i \in DOMAIN Batch, e \in Event :
            Batch[i] \in raced \/ OwnIn(file[Batch[i]])[e] = IF Enabling THEN 1 ELSE 0

\* A file with a hook that cannot be told apart is not written.
AmbiguousUntouched ==
    [][\A t \in Target \ raced : file'[t] # file[t] /\ disturbances' = disturbances => ~HasHook(file[t], Ambiguous)]_sharedVars

NobodyWrites == \A p \in DOMAIN writer : writer[p] = Absent

\* Capture of a host is enabled only when somebody has asked for it to be on,
\* although changes of two processes overtake, overwrite and take away each
\* other's files; and unless two changes overlapped at the last request for the
\* host or after it, only when that request was to switch it on, whatever was
\* installed, removed, interrupted or lost before and since.
NeverEnabledUnasked ==
    permission # Absent =>
        \A h \in Hosts : permission[h].enabled =>
            /\ asked[h] # "never"
            /\ NobodyWrites /\ h \notin overlapped => asked[h] = "on"

\* Every file stays one that its users can read, with all that is theirs.
FilesKept == IntegrationsTypeOK /\ ForeignKept

\* A batch ends as a whole: all of its targets are as they were, or all are as
\* they were to become.
BatchesAreWhole == AllOrNothing /\ OnceInstalled
=============================================================================
