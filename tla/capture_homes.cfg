CONSTANTS
    t1 = t1  t2 = t2  q1 = q1
    Pages = {t1}
    Projects = {q1}
    Unassigned = Unassigned
    None = None
    First = 1
    MaxSubmissions = 2
    MaxRounds = 2
    Allowed = {"lose"}
SPECIFICATION FairSpec
INVARIANTS FiledUnderItsConversation AnswerStoredOnce
PROPERTY SubmissionReachesItsChat
CHECK_DEADLOCK FALSE
