SPECIFICATION Spec
CONSTANTS
    sint = sint
    dint = dint
    str = str
    int = int
    Tags <- MCTags
    Address <- MCAddress
    TypeOf <- MCTypeOf
    Contents <- MCContents
    Listings <- MCListings
    Devices = {"modern", "legacyLayout", "legacyCommand"}
    MaxGroup = 2
INVARIANTS
    TypeOK
    RequestsUnderstood
    RepliesUnderstood
    ReadsTheValue
