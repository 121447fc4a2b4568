\* Two sessions on one connection, one pushing and one pulling, and everything may fail.
CONSTANTS
    s1 = s1
    s2 = s2
    c1 = c1
    Sessions = {s1, s2}
    Conns = {c1}
    ConnOf <- OneConn
    OpOf <- PushAndPull
    Failing = {"key", "command", "agent", "dial", "advertisement", "upstream", "window"}
SPECIFICATION FairSpec
INVARIANTS TypeOK UpstreamGetsInspectedPack ZeroMeansDone AskedForwardingIsHonoured NothingHeldAtTheEnd
 
CHECK_DEADLOCK FALSE
