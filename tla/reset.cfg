SPECIFICATION Spec
CONSTANTS
    Goroutines = {g1, g2}
    Listeners = {l1, l2}
    CodeOf <- OwnCode
    Made <- ConnectAndClose
    Nobody = nobody
    ResetAlone = FALSE
    MaxReports = 2
    MaxResets = 1
    MaxChanges = 2
INVARIANT NeverFatal
