\* One host of each generator, all runs.
CONSTANTS
    s1 = s1  s2 = s2  k1 = k1  k2 = k2
    Pass = Pass  Orphan = Orphan  Free = Free  Absent = Absent
    Slots = {0, 1, 2}
    Servers = {s1, s2}
    Keys = {k1}
    Glitches = 0
    Wants <- MCWants
    Opts <- MCOpts
    Hosts <- MCHosts
SPECIFICATION Spec
INVARIANTS TypeOK KeysRemain RunsRepair
PROPERTY RetiredAfterProof
