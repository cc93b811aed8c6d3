SPECIFICATION FairSpec
CONSTANTS
    Users = {u1}
    Tags = {t1, t2}
    InstanceIDs <- ByName
    Groups = {g1}
    Locks = {l1}
    LockOf <- OwnLock
    Atomic = {g1}
    Values = {v1, v2}
    NoValue = nil
    Junk = junk
    None = none
    RacingSetters = FALSE
    MaxCalls = 2
PROPERTY ChangesUnderLock
