--------------------------- MODULE MCIntegrations ---------------------------
(***************************************************************************)
(* Instances of Integrations for TLC.                                      *)
(***************************************************************************)
EXTENDS IntegrationsProperties

CONSTANTS f, own, ambiguous, absent, broken

Hooks(prompt, stop) == [e \in {"UserPromptSubmit", "Stop"} |-> IF e = "Stop" THEN stop ELSE prompt]

\* The workspace comes first in the order of paths.
CodexFiles == <<"workspace", "global">>

\* Files that are not there, cannot be parsed, have no hooks, hooks of others,
\* hooks of both, or one that only resembles ours.
None == Hooks(<<>>, <<>>)
Both == Hooks(<<f, own>>, <<own>>)
Resembling == Hooks(<<ambiguous>>, <<>>)

Files ==
    [t \in {"global", "workspace", "settings"} |->
        CASE t = "global" -> {absent, Hooks(<<f>>, <<>>), Both, Resembling}
          [] t = "workspace" -> {broken, None, Both, Resembling}
          [] OTHER -> {broken, Both}]
=============================================================================
