\* Two attempts at one push, two reviewers' calls, every kind of failure, a crash.
CONSTANTS
    a1 = a1
    a2 = a2
    r1 = r1
    r2 = r2
    Attempts = {a1, a2}
    Reviews = {r1, r2}
    Ids = {"p1"}
    System = System
    Nobody = Nobody
    NoPush = NoPush
    Missing = Missing
    HookResults = {"absent", "approve", "reject", "manual", "broken"}
    Failing = {"parsePush", "checkIfWaitingAuth", "pullRemote", "removeAll", "scanDiff", "audit", "autoVerdict", "review"}
    MaxCrashes = 1
SPECIFICATION Spec
INVARIANTS TypeOK NoUnreviewedForward AtMostOneVerdict AuthorisedIsAttested
PROPERTIES ImplementsLedger
SYMMETRY Symmetry
CHECK_DEADLOCK FALSE
