\* Two uploads of one name at the same time.
CONSTANTS
    Tabs = {t1, t2}
    RawNames <- MCRawNames
    CleanNames <- MCCleanNames
    Sanitize <- MCSanitize
    MaxChoices = 1
    MaxUploads = 2
SPECIFICATION Spec
SYMMETRY Symmetry
PROPERTIES
    NeverOverwritten
