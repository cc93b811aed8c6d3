SPECIFICATION FairSpecAPI
CONSTANTS
    MaxReconnect = 2
    MaxSockets = 3
    MaxFaults = 1
    MaxCalls = 3
    Clients = {c1, c2}
    None = none
    Ops = {"Connect", "Close", "RegisterSession", "ListIdentity", "Send", "ForwardOpen", "ForwardClose"}
    Solo = {"Connect"}
    SeqMod = 3
    NoBody <- EmptyBody
    Bodies <- ServiceBodies
INVARIANTS InStep
PROPERTIES EveryCallReturns ServesRequests
