\* One browser with two tabs, which wait for each other; a login holds for one
\* tick and the clock has three.
CONSTANTS
    Browsers = {b1}
    Workers = {w1, w2}
    Nobody = Nobody
    SiteRequests <- MCSiteRequests
    MaxRequests = 3
    MaxSid = 9
    MaxClock = 2
    MaxElapsed = 1
SPECIFICATION FairSpec
INVARIANTS
    LogoutHolds
    LoginHolds
PROPERTIES
    NoLostUpdate
    EveryRequestAnswered
