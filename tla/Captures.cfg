SPECIFICATION Spec
CONSTANTS
    Regs = {r1, r2}
    Passports = {runner1, runner2}
    PassportOf <- SameRunner
    Sessions = {s1, s2}
    Captures = {p1, p2}
    Workers = {w1, w2}
    Capacity = 1
    LateCapture = TRUE
    None = None
    runner1 = runner1
    runner2 = runner2
    first = r1
SYMMETRY Symmetry
CONSTRAINT Scenarios
CHECK_DEADLOCK FALSE
INVARIANTS
    TypeOK
    SettledIsLedger
    OneCaptureFulfils
    TicketHasCapture
    ReleasedIsUnchargeable
    OneChargeableSession
PROPERTIES
    CapturePinsEntry
