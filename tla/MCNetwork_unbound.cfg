SPECIFICATION Spec
CONSTANTS
    Proc = {p1, p2}
    Port = {q1}
    Host = {h1}
    Loop = loop
    Self = self
    RetryAfter = 1
    MsRange = 3
    MaxIds = 3
INVARIANTS
    DispatchSurvives
CHECK_DEADLOCK FALSE
