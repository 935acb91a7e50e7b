CONSTANTS
    new = new   stable = stable  other = other
    prompt = prompt  answer = answer  q1 = q1
    References = {new, stable, other}
    Provisionals = {new}
    Targets = {stable, other}
    Observations = {prompt, answer}
    Prompts = {prompt}
    Projects = {q1}
    Unassigned = Unassigned
    None = None
SPECIFICATION HistorySpec
INVARIANTS HistoryTypeOK OneChatPerReference IndexMatchesHistory
SYMMETRY Twins
