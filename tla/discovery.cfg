SPECIFICATION FairSpec
CONSTANTS
    Senders = {a, b}
    Identities <- TwoIdentities
    Timeout = 2
    MaxAnswers = 3
INVARIANTS TypeOK FindsAnswers SearchesToTheDeadline
PROPERTIES Returns
