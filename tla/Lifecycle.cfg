\* Three starts and two edits; store calls, listeners and the process fail.
CONSTANTS
    AuthorisedList <- ConfiguredUrls
    Urls <- AllUrls
    HostOf <- Hosts
    HttpServers = {"mgmt", "git"}
    Schemes = {"http", "https"}
    Ssh = TRUE
    Failing = {"store", "bind", "listener"}
    MaxStarts = 3
    MaxEdits = 1
SPECIFICATION FairSpec
INVARIANTS ServesWhatItSeeded FailuresAreReported
PROPERTIES RestartKeepsRights SignalStopsTheProcess
CHECK_DEADLOCK FALSE
