\* The length of the passwords that users have typed.
CONSTANTS
    Workers = {w1}
    Requests <- MCRequests
    Emails <- MCEmails
    ValidEmails <- MCValidEmails
    Address <- MCAddress
    Texts <- MCTexts
    NoText = ""
    Trim <- MCTrim
    Escape <- MCEscape
    Long <- MCLong
    TenDigits = {"5035550123"}
    Keys <- MCKeys
    Key <- MCKey
    MaxRequests = 1
SPECIFICATION Spec
INVARIANTS
    PasswordsAreLong
