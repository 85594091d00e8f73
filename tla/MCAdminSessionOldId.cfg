\* The claim of after_successful_login about the old id.
CONSTANTS
    Browsers = {b1}
    Workers = {w1}
    Nobody = Nobody
    SiteRequests <- MCSiteRequests
    MaxRequests = 1
    MaxSid = 3
    MaxClock = 0
    MaxElapsed = 0
SPECIFICATION Spec
PROPERTIES
    OldIdInvalidated
