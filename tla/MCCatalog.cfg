\* Two scripts, and one product there may be from the start.
CONSTANTS
    Workers = {w1, w2}
    Categories = {k1, k2}
    FirstCategory = k1
    Contents = {c1}
    Owners = {shop, other}
    ShopOwner = shop
    InitialIds = 1
    MaxId = 4
    MaxSubmissions = 3
SPECIFICATION Spec
SYMMETRY Symmetry
INVARIANTS
    WriterSeesWrite
    DeleterSeesGone
    PageAgrees
PROPERTIES
    NeverResurrected
    ImplementsStore
