SPECIFICATION Spec
CONSTANTS
    Regs = {r1}
    Passports = {runner1, runner2}
    PassportOf <- SameRunner
    Sessions = {s1}
    Captures = {p1}
    Workers = {w1}
    Capacity = 1
    LateCapture = FALSE
    None = None
    runner1 = runner1
    runner2 = runner2
    first = r1
SYMMETRY Symmetry
CHECK_DEADLOCK FALSE
INVARIANTS
    ReservationHeldWhileChargeable
