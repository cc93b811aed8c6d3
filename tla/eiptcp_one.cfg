SPECIFICATION SpecAPI
CONSTANTS
    MaxReconnect = 2
    MaxSockets = 3
    MaxFaults = 2
    MaxCalls = 7
    Clients = {c1}
    None = none
    Ops = {"Connect", "Close", "RegisterSession", "ListIdentity", "Send", "ForwardOpen", "ForwardClose"}
    Solo = {}
    SeqMod = 4
    NoBody <- EmptyBody
    Bodies <- ServiceBodies
INVARIANTS TypeOKAPI ConnectionOfSocket FreshSequence SessionOfCleanSocket
