\* Every history of two new commits, every pack of it, one flaw, and short diffs.
CONSTANTS
    Pushes <- AllPushes
    Branches <- MCBranches
    MaxCommit = 4
    MessageRules <- Blocked
    EmailRules <- BlockedAddress
    PrivateOrganizations = {"private"}
    DiffRulesCompile = TRUE
    Gitleaks = {"disabled", "enabled", "unreadable"}
    Users <- MCUsers
    Context = 1
    Hits <- MCHits
SPECIFICATION Spec
INVARIANTS HeldPushWasExamined ReviewStartsAtUpstream 
PROPERTIES OrdinaryPushIsHeld
CHECK_DEADLOCK FALSE
