\* A single script; pages of a product may be open from the start.
CONSTANTS
    Workers = {w1}
    Categories = {k1}
    FirstCategory = k1
    Contents = {c1}
    Owners = {shop}
    ShopOwner = shop
    InitialIds = 1
    MaxId = 2
    MaxSubmissions = 1
SPECIFICATION Spec
PROPERTIES
    MissingIsAdded
