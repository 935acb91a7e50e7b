---------------------------- MODULE Integrations ----------------------------
(***************************************************************************)
(* Files that the client shares with other programs: the hook files of     *)
(* Codex, one for the user and one for each registered workspace, the      *)
(* settings of Claude Code, and the permission file of its own processes.  *)
(* An installation reconciles the files of Codex as one transaction and    *)
(* then those of Claude Code; an uninstallation takes them one by one.     *)
(* Users and their programs edit the same files meanwhile, and the Library *)
(* switches capture on and off.                                            *)
(*                                                                         *)
(* A file is what each event runs, in order.  How hooks are grouped is     *)
(* left out.                                                               *)
(***************************************************************************)
EXTENDS Naturals, Sequences, FiniteSets

CONSTANTS
    Codex,                        \* hook files of the user and of workspaces, in path order
    Global, Claude,               \* that of the user, and the settings of Claude Code
    Event, Foreign,               \* hooks of other programs
    Own, Ambiguous,               \* the current hook, and one that only resembles it
    Absent, Broken,               \* no file, and one that cannot be parsed
    InitialFile,                  \* for each target, contents that users may begin with
    MaxCommands, MaxDisturbances     \* bounds of the model

Target == {Codex[i] : i \in DOMAIN Codex} \cup {Claude}
Workspaces == Target \ {Global, Claude}

AnyHook == Foreign \cup {Own, Ambiguous}

\* What permissions.json says of each host, and what a process that changes it
\* has read.
Hosts == {"codex", "claude_code"}
Permissions == [Hosts -> [enabled : BOOLEAN, installed : BOOLEAN]]
Writing == [at : {"read", "written"}, payload : Permissions]

\* Each file has one name; the settings of Claude Code are another file.
ASSUME IntegrationsAssumption ==
    /\ Codex \in Seq(STRING) /\ {Global, Claude} \subseteq STRING
    /\ \E i \in DOMAIN Codex : Codex[i] = Global
    /\ \A i, j \in DOMAIN Codex : Codex[i] = Codex[j] => i = j
    /\ \A i \in DOMAIN Codex : Codex[i] # Claude
    /\ Own \notin Foreign /\ Own # Ambiguous
    /\ Absent \notin Permissions \cup Writing
    /\ Absent # Broken /\ \A none \in {Absent, Broken} : none \notin [Event -> Seq(AnyHook)]
    /\ \A t \in Target : InitialFile[t] \subseteq [Event -> Seq(AnyHook)] \cup {Absent, Broken}
    /\ {MaxCommands, MaxDisturbances} \subseteq Nat

NoCommand == [command |-> "none", batches |-> <<>>, at |-> "idle", planned |-> <<>>, written |-> 0]

VARIABLES
    file, registered,         \* contents, and workspaces that Codex knows
    installer, result,        \* the command that runs; its outcome
    permission, temporary,    \* permissions.json and permissions.json.tmp
    writer,                   \* processes that change it: what they have read
    commands, disturbances,   \* counters of the model; edits, requests and faults
    theirs, raced, before, asked, overlapped    \* history: see IntegrationsProperties

hookVars == <<file, registered, theirs, raced, before>>
installVars == <<installer, result>>
permissionVars == <<permission, temporary, writer, asked, overlapped>>
counterVars == <<commands, disturbances>>
sharedVars == <<hookVars, installVars, permissionVars, counterVars>>

---------------------------------------------------------------------------
\* Contents of a target.

IsFile(content) == content \notin {Absent, Broken}
Empty == [e \in Event |-> <<>>]

\* A file that is not there has no hooks.
Loaded(content) == IF content = Absent THEN Empty ELSE content

\* Those of the items of s that are in kinds, in their order.
Keep(s, kinds) ==
    LET kept[n \in 0..Len(s)] ==
            IF n = 0 THEN <<>>
            ELSE IF s[n] \in kinds THEN Append(kept[n - 1], s[n]) ELSE kept[n - 1]
    IN  kept[Len(s)]

Others(hooks) == Keep(hooks, AnyHook \ {Own})

Theirs(content) == IF IsFile(content) THEN [e \in Event |-> Others(content[e])] ELSE Empty

\* Mutant: only the last event is searched.
HasAmbiguousLast(content) ==
    Ambiguous \in {Loaded(content)["Stop"][i] : i \in DOMAIN Loaded(content)["Stop"]}

HasHook(content, hook) ==
    \E e \in Event : hook \in {Loaded(content)[e][i] : i \in DOMAIN Loaded(content)[e]}

HasAmbiguous(content) == HasHook(content, Ambiguous)

\* Mutant: the hook of the client replaces what the event ran.
DesiredAlone(content, enabled) ==
    [e \in Event |-> IF enabled THEN <<Own>> ELSE Others(Loaded(content)[e])]

\* The hooks of others keep their order; the own one is the last.
Desired(content, enabled) ==
    [e \in Event |-> Others(Loaded(content)[e]) \o (IF enabled THEN <<Own>> ELSE <<>>)]

---------------------------------------------------------------------------

SharedInit ==
    /\ file \in {contents \in [Target -> UNION {InitialFile[t] : t \in Target}] :
                    \A t \in Target : contents[t] \in InitialFile[t]}
    /\ registered \in SUBSET Workspaces
    /\ installer = NoCommand /\ result = "none"
    /\ permission = Absent /\ temporary = Absent
    /\ writer = [p \in {"install", "library"} |-> Absent]
    /\ commands = 0 /\ disturbances = 0
    /\ theirs = [t \in Target |-> Theirs(file[t])]
    /\ raced = {} /\ before = file
    /\ asked = [h \in Hosts |-> "never"] /\ overlapped = {}

---------------------------------------------------------------------------
\* reconcile_codex_hook_targets and reconcile_claude_hooks.

Enabling == installer.command = "install"
Batch == Head(installer.batches)

SaysIdle == UNCHANGED <<permissionVars, counterVars>>

\* Workspaces that are registered, and have hooks of ours or, for an
\* installation, no hooks at all.
Selected(t, enabled) ==
    /\ IsFile(file[t])
    /\ \/ HasHook(file[t], Own) \/ HasAmbiguous(file[t])
       \/ enabled /\ file[t] = Empty

\* Discovery reads the files of the workspaces: one that cannot be parsed stops
\* an installation, and is passed over by an uninstallation.  The targets are
\* reconciled in the order of their paths.
Discovered(enabled) == Keep(Codex, {Global} \cup {t \in registered : Selected(t, enabled)})

Unreadable == \E t \in registered : file[t] = Broken

Start(command) ==
    /\ installer = NoCommand /\ commands < MaxCommands
    /\ commands' = commands + 1
    /\ before' = file
    /\ LET found == Discovered(command = "install")
           one(t) == <<t>>
       IN  IF command = "install" /\ Unreadable
           THEN installer' = NoCommand /\ result' = "failed"
           ELSE /\ result' = "none"
                /\ installer' = [NoCommand EXCEPT !.command = command, !.at = "plan",
                       !.batches = IF command = "install" THEN <<found, <<Claude>>>>
                                   ELSE [i \in 1..Len(found) + 1 |->
                                           IF i <= Len(found) THEN one(found[i]) ELSE <<Claude>>]]
    /\ UNCHANGED <<file, registered, theirs, raced, permissionVars, disturbances>>

\* The next target is read and what it shall be is settled, before any is
\* written; one that is broken or ambiguous ends the batch.
Plan ==
    LET t == Batch[Len(installer.planned) + 1]
    IN  /\ installer.at = "plan"
        /\ IF file[t] = Broken \/ HasAmbiguous(file[t])
           THEN installer' = [installer EXCEPT !.at = "failed"]
           ELSE installer' = [installer EXCEPT
                  !.planned = Append(@, [target |-> t, original |-> file[t],
                                         desired |-> Desired(file[t], Enabling)]),
                  !.at = IF Len(installer.planned) + 1 = Len(Batch) THEN "write" ELSE "plan"]
        /\ UNCHANGED <<hookVars, result>>
        /\ SaysIdle

Changes(mutation) == mutation.desired # Loaded(mutation.original)

Write ==
    /\ installer.at = "write"
    /\ IF installer.written = Len(installer.planned)
       THEN installer' = [installer EXCEPT !.at = "done"] /\ file' = file
       ELSE LET mutation == installer.planned[installer.written + 1]
            IN  /\ installer' = [installer EXCEPT !.written = @ + 1]
                /\ file' = IF Changes(mutation) THEN [file EXCEPT ![mutation.target] = mutation.desired] ELSE file
    /\ UNCHANGED <<registered, theirs, raced, before, result>>
    /\ SaysIdle

\* A target cannot be replaced: those that were are put back, the last one first.
WriteFails ==
    /\ installer.at = "write" /\ installer.written < Len(installer.planned)
    /\ Changes(installer.planned[installer.written + 1])
    /\ disturbances < MaxDisturbances
    /\ disturbances' = disturbances + 1
    /\ installer' = [installer EXCEPT !.at = "rollback"]
    /\ UNCHANGED <<hookVars, result, permissionVars, commands>>

\* Mutant: the targets that were written stay.
RestoredNone(mutation) == file

Restored(mutation) ==
    IF Changes(mutation) THEN [file EXCEPT ![mutation.target] = mutation.original] ELSE file

RollBack ==
    /\ installer.at = "rollback"
    /\ IF installer.written = 0
       THEN installer' = [installer EXCEPT !.at = "failed"] /\ file' = file
       ELSE /\ installer' = [installer EXCEPT !.written = @ - 1]
            /\ file' = Restored(installer.planned[installer.written])
    /\ UNCHANGED <<registered, theirs, raced, before, result>>
    /\ SaysIdle

\* A failed batch ends an installation; an uninstallation warns and goes on.
NextBatch ==
    IF Len(installer.batches) = 1
    THEN IF Enabling THEN installer' = NoCommand /\ result' = "installed"
         ELSE installer' = [installer EXCEPT !.at = "unlink"] /\ result' = result
    ELSE /\ installer' = [installer EXCEPT !.batches = Tail(@), !.at = "plan", !.planned = <<>>, !.written = 0]
         /\ result' = result

FailBatch ==
    /\ installer.at = "failed"
    /\ IF Enabling THEN installer' = NoCommand /\ result' = "failed" ELSE NextBatch
    /\ UNCHANGED hookVars
    /\ SaysIdle

\* The end of a batch: an installation records its permission, in two changes.
EndBatch ==
    /\ installer.at = "done"
    /\ IF Enabling THEN installer' = [installer EXCEPT !.at = "installed"] /\ result' = result
       ELSE NextBatch
    /\ UNCHANGED hookVars
    /\ SaysIdle

---------------------------------------------------------------------------
\* PermissionStore: each change reads the file, writes another beside it and
\* replaces it.  Its lock is that of one process.

Defaults == [h \in Hosts |-> [enabled |-> FALSE, installed |-> FALSE]]

\* Mutant: what is not there is not refused.
ReadPermissionsOpen(content) ==
    IF content = Absent THEN [h \in Hosts |-> [enabled |-> TRUE, installed |-> FALSE]] ELSE content

ReadPermissions(content) == IF content = Absent THEN Defaults ELSE content

Host == IF Batch = <<Claude>> THEN "claude_code" ELSE "codex"

\* What the last request for a host was; to switch off what was never on asks
\* for nothing.
Requested(host, value) ==
    [asked EXCEPT ![host] = IF value THEN "on" ELSE IF @ = "never" THEN "never" ELSE "off"]

ReadFor(process, host, field, value) ==
    /\ writer[process] = Absent
    /\ writer' = [writer EXCEPT ![process] =
          [at |-> "read", payload |-> [ReadPermissions(permission) EXCEPT ![host][field] = value]]]
    /\ asked' = IF field = "enabled" THEN Requested(host, value) ELSE asked
    /\ overlapped' = IF \E other \in DOMAIN writer : writer[other] # Absent THEN Hosts
                     ELSE IF field = "enabled" THEN overlapped \ {host}
                     ELSE overlapped
    /\ UNCHANGED <<permission, temporary>>

InstallRecords ==
    /\ installer.at \in {"installed", "enabled"}
    /\ ReadFor("install", Host, installer.at, TRUE)
    /\ UNCHANGED <<hookVars, installVars, counterVars>>

LibraryToggles(host, value) ==
    /\ disturbances < MaxDisturbances
    /\ disturbances' = disturbances + 1
    /\ ReadFor("library", host, "enabled", value)
    /\ UNCHANGED <<hookVars, installVars, commands>>

WriteTemporary(process) ==
    /\ writer[process] # Absent /\ writer[process].at = "read"
    /\ temporary' = writer[process].payload
    /\ writer' = [writer EXCEPT ![process].at = "written"]
    /\ UNCHANGED <<permission, asked, overlapped, hookVars, installVars, counterVars>>

\* What comes of a change of the installer: its next step, or its end when the
\* file beside was taken away.
Recorded ==
    IF temporary = Absent THEN installer' = NoCommand /\ result' = "failed"
    ELSE IF installer.at = "installed" THEN installer' = [installer EXCEPT !.at = "enabled"] /\ result' = result
    ELSE NextBatch

Replace(process) ==
    /\ writer[process] # Absent /\ writer[process].at = "written"
    /\ permission' = IF temporary = Absent THEN permission ELSE temporary
    /\ temporary' = Absent
    /\ writer' = [writer EXCEPT ![process] = Absent]
    /\ IF process = "install" THEN Recorded ELSE UNCHANGED installVars
    /\ UNCHANGED <<asked, overlapped, hookVars, counterVars>>

\* The last step of an uninstallation, once no hook is left to clean up.
Unlink ==
    /\ installer.at = "unlink"
    /\ permission' = Absent
    /\ installer' = NoCommand /\ result' = "removed"
    /\ UNCHANGED <<temporary, writer, asked, overlapped, hookVars, counterVars>>

---------------------------------------------------------------------------
\* Users, their programs, and a crash.

\* Hooks of others are added at the end or taken out; a raced file is one that
\* the command has read and may yet write.
Edit(t, e, hook) ==
    /\ disturbances < MaxDisturbances /\ file[t] # Broken
    /\ disturbances' = disturbances + 1
    /\ IF HasHook(file[t], hook)
       THEN /\ file' = [file EXCEPT ![t] = [f \in Event |-> Keep(@[f], AnyHook \ {hook})]]
            /\ theirs' = [theirs EXCEPT ![t] = [f \in Event |-> Keep(@[f], AnyHook \ {hook})]]
       ELSE /\ file' = [file EXCEPT ![t] = [Loaded(file[t]) EXCEPT ![e] = Append(@, hook)]]
            /\ theirs' = [theirs EXCEPT ![t] = [theirs[t] EXCEPT ![e] = Append(@, hook)]]
    /\ raced' = IF \E i \in DOMAIN installer.planned : installer.planned[i].target = t
                THEN raced \cup {t} ELSE raced
    /\ UNCHANGED <<registered, before, installVars, permissionVars, commands>>

InstallerCrashes ==
    /\ installer # NoCommand
    /\ disturbances < MaxDisturbances
    /\ disturbances' = disturbances + 1
    /\ installer' = NoCommand /\ result' = "crashed"
    /\ writer' = [writer EXCEPT !["install"] = Absent]
    /\ UNCHANGED <<hookVars, permission, temporary, asked, overlapped, commands>>

SharedNext ==
    \/ Start("install") \/ Start("uninstall")
    \/ Plan \/ Write \/ WriteFails \/ RollBack \/ FailBatch \/ EndBatch
    \/ InstallRecords \/ Unlink \/ InstallerCrashes
    \/ \E p \in {"install", "library"} : WriteTemporary(p) \/ Replace(p)
    \/ \E h \in Hosts, value \in BOOLEAN : LibraryToggles(h, value)
    \/ \E t \in Target, e \in Event, hook \in Foreign : Edit(t, e, hook)

SharedSpec == SharedInit /\ [][SharedNext]_sharedVars
=============================================================================
