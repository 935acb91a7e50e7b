CONSTANTS
    t1 = t1  t2 = t2  q1 = q1
    Pages = {t1, t2}
    Projects = {q1}
    Unassigned = Unassigned
    None = None
    First = 1
    MaxSubmissions = 1
    MaxRounds = 1
    Allowed = {"lose", "reload", "leave", "hurry", "fast", "linger", "move"}
SPECIFICATION Spec
INVARIANTS PromptStoredOnce DeliveriesInOrder IndexFollowsProject
CHECK_DEADLOCK FALSE
SYMMETRY Tabs
