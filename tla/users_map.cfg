\* Two request threads and files that are replaced underneath.
CONSTANTS
    u1 = u1  u2 = u2  k1 = k1  t1 = t1  t2 = t2
    Users = {u1, u2}
    Operator = Operator
    KeyFiles = {k1}
    UsersFile = UsersFile
    Documents <- SmallDocuments
    Broken = Broken
    NoKey = NoKey  Inline = Inline
    Fallback = TRUE
    Threads = {t1, t2}
    Server = Server  Nobody = Nobody  NoRegistry = NoRegistry
    Interval = 1
    MaxClock = 2
    MaxPublish = 3
SYMMETRY ThreadSymmetry
SPECIFICATION Spec
INVARIANT RegistryCurrent
PROPERTIES ChecksSpaced RemovedGetsNothing
CHECK_DEADLOCK FALSE
