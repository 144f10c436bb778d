SPECIFICATION FairSpec
CONSTANTS
    Proc = {p1}
    Port = {q1}
    Host = {h1}
    Loop = loop
    Self = self
    RetryAfter = 1
    MsRange = 3
    MaxIds = 2
PROPERTIES
    KnownHostsAlwaysServed
CHECK_DEADLOCK FALSE
