SPECIFICATION PlacesSpec
CONSTANTS
    Regs = {r1, r2}
    Passports = {runner1}
    PassportOf <- SameRunner
    Sessions = {s1, s2}
    Captures = {p1, p2}
    Workers = {w1}
    Capacity = 1
    LateCapture = TRUE
    None = None
    runner1 = runner1
SYMMETRY Symmetry
CONSTRAINT OneSessionEach
CHECK_DEADLOCK FALSE
INVARIANTS
    OneTicketPerRunner
    PaidWithinCapacity
