SPECIFICATION Spec
CONSTANTS
    ws1 = ws1
    ws2 = ws2
    Conn <- TwoConns
    MaxTurns = 2
    MaxUses = 2
    MaxRounds = 2
INVARIANTS
    SessionInv
PROPERTIES
    TurnsAreDialogues
    TurnsEnd
CHECK_DEADLOCK FALSE
