CONSTANTS
    l1 = l1  l2 = l2  m1 = m1  m2 = m2  s1 = s1  t1 = t1  t2 = t2
    p1 = p1  p2 = p2  h1 = h1  h2 = h2  c1 = c1  c2 = c2
    Lease = {l1, l2}
    Grant <- TwoScopes
    Manager = {m1}
    HostSession = {s1}
    HostTurn = {t1}
    Scope = {p1, p2}
    AnyScope = AnyScope
    NoLease = NoLease
    DisconnectTimeout = 1
    MaxReplayEntries = 2
    MaxActivations = 2
    Hook = {}
    Ask <- NoPrompts
    NoManager = NoManager
    NoAnswer = NoAnswer
    Call = {c1, c2}
    Selectable = {"MANAGED_EXCLUSIVE", "DISABLED"}
    MaxPairings = 2
    MaxRestarts = 1
SPECIFICATION Spec
INVARIANTS LeaseActivatedOnce
PROPERTIES DeadCapabilityStaysDead
SYMMETRY Threads
