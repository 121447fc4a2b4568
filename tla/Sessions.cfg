\* Two browsers, two users, four requests, two of them under way at once; one failure.
CONSTANTS
    b1 = b1
    b2 = b2
    r1 = r1
    r2 = r2
    Browsers <- MCBrowsers
    Requests <- MCRequests
    Users = {"alice", "bob"}
    MaxRequests = 4
    MaxFaults = 1
    CSRFProtection = TRUE
SPECIFICATION Spec
SYMMETRY Symmetry
INVARIANTS SessionsAreOwnLogins LogoutLasts LatestStartIsAccepted
CHECK_DEADLOCK FALSE
