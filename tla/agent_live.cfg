\* One volume, a prompt of another service, bad sources before the good key; the
\* time limit may end the agent.
CONSTANTS
    d1 = d1  d2 = d2
    a1 = a1  b1 = b1  x1 = x1
    k1 = k1  k2 = k2
    NoDev = NoDev  NoAnswer = NoAnswer  Absent = Absent
    Devs = {d1}
    Asks = {a1, x1}
    Keys = {k1, k2}
    AskDev <- OneAskDev
    Unlocks <- OneUnlocks
    Media <- OneMedia
    Enabled = {"boot", "usb"}
    IdleRounds = 0
    TimeLimited = TRUE
    MaxSwaps = 1
SPECIFICATION FairSpec
PROPERTY GoodKeyUnlocks
CHECK_DEADLOCK FALSE
