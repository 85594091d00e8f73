\* One browser with two tabs, every request with either method.
CONSTANTS
    Browsers = {b1}
    Workers = {w1, w2}
    Nobody = Nobody
    SiteRequests <- MCAllRequests
    MaxRequests = 3
    MaxSid = 9
    MaxClock = 1
    MaxElapsed = 0
    Categories = {k1}
    FirstCategory = k1
    Contents = {c1}
    Owners = {shop}
    ShopOwner = shop
    InitialIds = 1
    MaxId = 3
SPECIFICATION ShopSpec
SYMMETRY BrowserSymmetry
PROPERTIES
    ChangesFollowLogins
    GetChangesNothing
    LoggedOutChangesNothing
