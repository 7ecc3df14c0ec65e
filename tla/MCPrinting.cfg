CONSTANTS
    Conns = {c1, c2}
    Jobs = {receipt, ticket}
    AutoReceipts = {receipt}
    HandReceipts = {receipt}
    Kot = {ticket}
    Burst = 1
    Printer = "bluetooth"
    MaxCrashes = 1
    Modes = {"agent"}
    MaxEdits = 1
    None = None

SPECIFICATION Spec
INVARIANTS NeverASecondPrint DoneIsOnPaper
PROPERTY EveryPrintEnds
CHECK_DEADLOCK FALSE
