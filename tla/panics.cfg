SPECIFICATION Spec
CONSTANTS
    MaxReconnect = 3
    MaxSockets = 3
    MaxFaults = 3
    MaxCalls = 3
    NoBody = none
    Bodies = {none}
INVARIANT NeverPanics
