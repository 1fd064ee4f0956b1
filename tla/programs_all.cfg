\* The keyfile loop with one volume: it keeps its promises.  The in-place
\* encryption with two preparations and any interruption.  Two ports and two request
\* threads of the KVM front ends, a group of two alerts, three lives of the gateway.
CONSTANTS
    d1 = d1  a1 = a1  a2 = a2
    k1 = k1  k2 = k2
    NoDev = NoDev  NoAnswer = NoAnswer  Absent = Absent
    Devs = {d1}
    Asks = {a1, a2}
    Keys = {k1, k2}
    AskDev <- OneAskDev
    Unlocks <- OneUnlocks
    Media <- OneMedia
    Enabled = {"boot", "usb"}
    MaxPlugs = 2
    planA = planA  planB = planB  system = system  cache = cache
    None = None  Trunc = Trunc
    Choices = {planA, planB}
    Items = {system, cache}
    Fallback = {planA}
    Drops <- MCDrops
    Ports = {1, 2}
    NoPort = 0
    Foreign = 99
    Handlers = {11, 12}
    WireMax = 2
    BufMax = 2
    BufKeep = 1
    MaxEvents = 3
    Alerts = {1, 2}
    MaxChanges = 4
    MaxFaultsB = 2
    MaxUpdates = 1
    Threshold = 4
    MaxLives = 3
    MaxRounds = 6
SPECIFICATION ProgramsSpec
INVARIANTS BootTypeOK PromptsSpared DataSafe ArmedWhole MigratedWhole BootsUnlessCut
           ServicesTypeOK ToldIsShown ShownIsTrue
PROPERTIES LoopUnlocks PortIsTrue BridgesSettle
CHECK_DEADLOCK FALSE
