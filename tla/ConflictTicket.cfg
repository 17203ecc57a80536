SPECIFICATION Spec
CONSTANTS
    Regs = {r1, r2}
    Passports = {runner1, runner2}
    PassportOf <- SameRunner
    Sessions = {s1}
    Captures = {p1}
    Workers = {w1, w2}
    Capacity = 2
    LateCapture = FALSE
    None = None
    runner1 = runner1
    runner2 = runner2
    first = r1
SYMMETRY Symmetry
CHECK_DEADLOCK FALSE
INVARIANTS
    ConflictHasNoTicket
