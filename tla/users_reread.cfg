\* README.md: a change of the files is re-read.  One user with a key file is removed.
CONSTANTS
    u1 = u1  u2 = u2  k1 = k1  t1 = t1  t2 = t2
    Users = {u1}
    Operator = Operator
    KeyFiles = {k1}
    UsersFile = UsersFile
    Documents <- KeyFileDocuments
    Broken = Broken
    NoKey = NoKey  Inline = Inline
    Fallback = TRUE
    Threads = {t1}
    Server = Server  Nobody = Nobody  NoRegistry = NoRegistry
    Interval = 1
    MaxClock = 2
    MaxPublish = 2
SPECIFICATION Spec
PROPERTY ChangeIsReread
CHECK_DEADLOCK FALSE
