\* One request: requests share the repositories only, which none of them changes.
\* Four changes of the repositories, two failures or restarts.
CONSTANTS
    Requests = {r1}
    Names = {"github.com", "gitea", "team", "tool"}
    Urls <- MCUrls
    MaxPackBody = 2
    MaxRequests = 1
    MaxChanges = 4
    MaxFaults = 2
SPECIFICATION Spec
INVARIANTS ReachesWhatWasAccepted RegisteredIsServed ForwardsWhatWasExamined
CHECK_DEADLOCK FALSE
