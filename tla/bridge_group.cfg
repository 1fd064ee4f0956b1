\* The docstring of do_POST: the priority of a message is that of its alert.  One of
\* two alerts ends while the other fires.
CONSTANTS
    Alerts = {1, 2}
    MaxChanges = 3
    MaxFaultsB = 0
    MaxUpdates = 0
SPECIFICATION BridgeSpec
INVARIANT PriorityPerAlert
CHECK_DEADLOCK FALSE
