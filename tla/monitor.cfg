SPECIFICATION FairSpec
CONSTANTS
    Goroutines = {g1, g2}
    Listeners = {l1, l2}
    CodeOf <- OwnCode
    Made <- ConnectAndClose
    Nobody = nobody
    ResetAlone = TRUE
    MaxReports = 2
    MaxResets = 1
    MaxChanges = 2
INVARIANTS TypeOK NoLostCount StatsOfOwnReport OncePerSubscription
PROPERTIES ListenersAreTold
