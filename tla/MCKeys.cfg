SPECIFICATION KeysFairSpec
CONSTANTS
    MaxKeys = 4
    Manager = Manager
    Program = Program
INVARIANTS
    KeysExact
PROPERTIES
    KeysArrive
CHECK_DEADLOCK FALSE
