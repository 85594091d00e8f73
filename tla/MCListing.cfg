\* Two pages of two products, two uploads.
CONSTANTS
    Tabs = {t1, t2}
    CleanNames <- MCCleanNames
    RawNames <- MCRawNames
    Sanitize <- MCSanitize
    MaxChoices = 2
    MaxUploads = 2
    Products = {p1, p2}
    Texts <- MCTexts
    Printed <- MCPrinted
    Literal <- MCLiteral
SPECIFICATION MCSpec
SYMMETRY Symmetry
INVARIANTS
    ButtonFollowsAnswer
    MissingImagesExplained
    ListedImageIsOwn
PROPERTIES
    KeptFromLaterUploads
    UntouchedTextRoundTrips
    ImageFollowsChoice
