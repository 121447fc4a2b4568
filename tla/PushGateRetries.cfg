\* No crash, no failing RemoveAll, no early check that fails: checkouts are reclaimed and retries answered.
CONSTANTS
    a1 = a1
    a2 = a2
    r1 = r1
    Attempts = {a1, a2}
    Reviews = {r1}
    Ids = {"p1"}
    System = System
    Nobody = Nobody
    NoPush = NoPush
    Missing = Missing
    HookResults = {"absent", "approve"}
    Failing = {"scanDiff", "pullRemote", "audit"}
    MaxCrashes = 0
SPECIFICATION FairSpec
INVARIANTS FolderHasAnOwner
PROPERTIES EveryAttemptIsAnswered CheckoutsAreReclaimed CleanRetryIsForwarded
CHECK_DEADLOCK FALSE
