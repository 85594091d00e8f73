\* Two browsers, two scripts; a login holds for one tick and the clock has three.
CONSTANTS
    Browsers = {b1, b2}
    Workers = {w1, w2}
    Nobody = Nobody
    SiteRequests <- MCSiteRequests
    MaxRequests = 3
    MaxSid = 9
    MaxClock = 2
    MaxElapsed = 1
SPECIFICATION CsrfSpec
SYMMETRY Symmetry
INVARIANTS
    SessionsOwned
    TokensOwned
    LatestFormMatches
PROPERTIES
    GrantFollowsLogin
    NoTokenRevived
