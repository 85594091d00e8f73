\* Every parameter value that the site's links and forms send, the internal method
\* names, a missing parameter and an unknown one; every text of up to six tokens,
\* two words among them; every picture of up to 310 by 310 pixels in the pages' box
\* of 150, a missing file and one that is no picture.  The visitor may stop
\* clicking, and the resizes of the panel's page are bounded.
CONSTANTS
    Methods <- MCMethods
    Ctlrs <- MCCtlrs
    Actions <- MCActions
    Words = {"guitar", "strings"}
    MaxTokens = 6
    MaxSide = 310
    MaxDim = 150
    Panels <- MCPanels
    MaxQueue = 2
    MaxResizes = 3
    Items <- MCItems
    MaxBound = 3
SPECIFICATION MCSpec
INVARIANTS
    RoutedAsDefined
    GetRunsListedFormHandler
    WordsKept
    LinesKept
    WellNested
    ClosestProportions
    SlideTogether
    PanelsFollowIcons
    WideClosed
    OpenedFollowsHover
    OnlyPointedOpen
PROPERTIES
    MenuReturns
CHECK_DEADLOCK FALSE
