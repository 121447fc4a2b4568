\* Two concurrent attempts at one push, nothing fails.
CONSTANTS
    a1 = a1
    a2 = a2
    r1 = r1
    Attempts = {a1, a2}
    Reviews = {r1}
    Ids = {"p1"}
    System = System
    Nobody = Nobody
    NoPush = NoPush
    Missing = Missing
    HookResults = {"absent"}
    Failing = {}
    MaxCrashes = 0
SPECIFICATION Spec
INVARIANTS CheckoutIntact
CHECK_DEADLOCK FALSE
