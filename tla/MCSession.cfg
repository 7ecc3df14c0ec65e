\* Two requests at once, one account, three pairs.
SPECIFICATION Spec
CONSTANTS
    Accounts = {ann}
    Slots = {s1, s2}
    MaxPairs = 3
    None = None
INVARIANTS
    ExecutedAtMostOnce
    ReplayedChainIsDead
SYMMETRY Symmetric
