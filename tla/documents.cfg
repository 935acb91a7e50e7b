CONSTANTS
    Path = {1, 2}
    Source = {1, 2}
    Covers <- Overlapping
    FileId = {1, 2}
    Text = {"a", "b"}
    Bad = "bad"
    MaxHistorical = 1
    MaxChanges = 3
    MaxRestarts = 1
SPECIFICATION Spec
INVARIANTS TablesAgree
PROPERTIES SharedSurvives NeverGoesBack FollowedOrReported
CHECK_DEADLOCK FALSE
