SPECIFICATION FairSpec
CONSTANTS
    MaxReconnect = 2
    MaxSockets = 5
    MaxFaults = 4
    MaxCalls = 4
    NoBody = none
    Bodies = {none}
INVARIANTS TypeOK UsesLiveSocket SessionOfSocket InStep CountsAreDialled
PROPERTIES OnlyConnectOrphans OnlyFailuresUncounted OwnReply CallsReturn
