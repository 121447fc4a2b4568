\* Two runs, dry or not, over short files; a write of the proxy and a failure.
CONSTANTS
    Sources <- MCSources
    InitialStores <- MCStores
    LiveRows <- MCLiveRows
    Lower <- MCLower
    MaxRuns = 2
    MaxLive = 1
    MaxFaults = 1
SPECIFICATION Spec
INVARIANTS CleanRunLoadsTheSource DryRunForetells
PROPERTIES ExistingRowsAreKept
CHECK_DEADLOCK FALSE
