SPECIFICATION FairSpec
CONSTANTS
    Symbols <- MCSymbols
    PageSize = 2
PROPERTIES
    AllTagsReturns
