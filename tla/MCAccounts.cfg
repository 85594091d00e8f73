\* Two scripts and three requests, with and without a unique address.
CONSTANTS
    Workers = {w1, w2}
    Requests <- MCRequests
    Emails <- MCEmails
    ValidEmails <- MCValidEmails
    Address <- MCAddress
    Texts <- MCTexts
    NoText = ""
    Trim <- MCTrim
    Escape <- MCEscape
    Long <- MCLong
    TenDigits = {"5035550123"}
    Keys <- MCKeys
    Key <- MCKey
    MaxRequests = 3
SPECIFICATION Spec
SYMMETRY Symmetry
INVARIANTS
    LoginFollowsRegistration
    RegisteredGetsIn
    ChangedPasswordLocksOut
