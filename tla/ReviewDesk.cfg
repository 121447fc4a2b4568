\* An administrator's token and a browser; alice's and another bob's first logins.
CONSTANTS
    b1 = b1
    b2 = b2
    Names = {"admin", "alice", "bob"}
    Emails = {"admin@x", "alice@x", "bob@x", "bob@y"}
    Subjects = {"alice_sub", "bob_sub"}
    ProfileOf <- OidcProfile
    EmailOf <- OidcEmail
    LocalAccounts <- FirstAccounts
    AtFirst <- FirstLists
    Urls = {"u1"}
    Ids = {"p1"}
    UrlsOf <- OneUrl
    CommitterOf <- ByAlice
    Browsers = {b1, b2}
    TokenOf <- AdminToken
    PostedLists <- Lists
    MaxRequests = 5
SPECIFICATION Spec
INVARIANTS  ReviewersWereListed SessionNamesItsAccount
CHECK_DEADLOCK FALSE
