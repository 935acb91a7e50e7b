CONSTANTS
    a = a
    b = b
    Message = {1, 2}
    Document = {3}
    Project = {a, b}
    Text = {1, 2, 3}
    Matching = {1, 3}
    Absent = absent
    LaunchMode <- Launches
    Limit = {0, 1, 3}
    MaxLexical = 3
    MaxVector = 4
    MaxCandidates = 3
    MaxResults = 2
    RankConstant = 60
    MaxChanges = 2
SPECIFICATION Spec
INVARIANTS AnswersKeepScope AnsweredUnderMode RankedByBoth QuietReadsAreComplete
SYMMETRY Projects
CHECK_DEADLOCK FALSE
