CONSTANTS
    f = f
    own = own
    ambiguous = ambiguous
    absent = absent
    broken = broken
    Global = "global"
    Codex <- CodexFiles
    Claude = "settings"
    Event = {"UserPromptSubmit", "Stop"}
    Foreign = {f}
    Own = own
    Ambiguous = ambiguous
    Absent = absent
    Broken = broken
    InitialFile <- Files
    MaxCommands = 2
    MaxDisturbances = 2
SPECIFICATION SharedSpec
INVARIANTS FilesKept BatchesAreWhole NeverEnabledUnasked
PROPERTIES AmbiguousUntouched
CHECK_DEADLOCK FALSE
