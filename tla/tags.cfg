SPECIFICATION FairSpec
CONSTANTS
    Users = {u1, u2}
    Tags = {t1, t2}
    InstanceIDs <- Listed
    Groups = {g1, g2}
    Locks = {l1, l2}
    LockOf <- OwnLock
    Atomic = {g1}
    Values = {v1}
    NoValue = nil
    Junk = junk
    None = none
    RacingSetters = FALSE
    MaxCalls = 3
INVARIANTS TypeOK NoLostUpdate
PROPERTIES CommitsAccepted WritesAgree EveryCallReturns
