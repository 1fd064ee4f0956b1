\* Receiving, the check of the sender, replying: all three to the end.
SPECIFICATION MailSpec
CONSTANTS
    Count = 3
    WithId <- MCWithId
    a1 = a1
    a2 = a2
    Adapters <- MCAdapters
    NoAdapter = NoAdapter
    NoSnapshot = NoSnapshot
    Backlog = 2
    SeenMax = 2
    MaxFaults = 2
    Letters = {1, 2, 3}
    Author <- MCAuthor
    MsgId <- MCMsgId
    NoId = "none"
    NoLetter = 0
    t1 = t1  t2 = t2
    Threads = {t1, t2}
    LookupMax = 1
    MaxSends = 3
    Clauses <- MCClauses
    MaxClauses = 2
INVARIANTS MailTypeOK AtMostOnce MailsAccounted QuotesHold AuthAgrees
SYMMETRY MailSymmetry
CHECK_DEADLOCK FALSE
