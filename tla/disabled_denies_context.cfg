CONSTANTS
    l1 = l1  l2 = l2  m1 = m1  m2 = m2  s1 = s1  t1 = t1  t2 = t2
    p1 = p1  p2 = p2  h1 = h1  h2 = h2  c1 = c1  c2 = c2
    Lease = {l1}
    Grant <- OneLease
    Manager = {m1}
    HostSession = {s1}
    HostTurn = {t1}
    Scope = {p1}
    AnyScope = AnyScope
    NoLease = NoLease
    DisconnectTimeout = 0
    MaxReplayEntries = 2
    MaxActivations = 1
    Hook = {h1}
    Ask <- OnePrompt
    NoManager = NoManager
    NoAnswer = NoAnswer
    Call = {c1, c2}
    Selectable = {"MANAGED_EXCLUSIVE", "DISABLED"}
    MaxPairings = 1
    MaxRestarts = 0
SPECIFICATION Spec
PROPERTIES DisabledDeniesContext
