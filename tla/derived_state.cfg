CONSTANTS
    Message = {1, 2}
    Chat = {c1, c2}
    Project = {"p", "q"}
    Document = {d}
    Text = {"yes", "Yes", "aye", "no", ""}
    Empty = ""
    NoForm = "none"
    FormOf <- Forms
    EntitiesOf <- Entities
    Similar <- Similarities
    Opposed <- Opposites
    MaxVariables = 2
    MaxChanges = 3
    MaxFailures = 1
SPECIFICATION Spec
INVARIANTS ProjectionsAgree VerdictsFollowThePresent ConvergedIsTrue
PROPERTIES Converges
CHECK_DEADLOCK FALSE
