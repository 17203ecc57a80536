CONSTANTS
    pair = pair rival = rival other = other screened = screened
    e1 = e1 e2 = e2 e3 = e3 e4 = e4 e5 = e5
    r1 = r1 r2 = r2 r3 = r3 r4 = r4 p1 = p1 p2 = p2 wrong = wrong
    Orders = {pair, screened}
    Entries = {e1, e2, e4, e5} OrderOf <- TwoOrders
    Passports = {r1, r2, r3, r4} PassportOf <- FourRunners
    Attempts = {a1, a2} Captures = {p1, p2} Sound = {p1, p2}
    Screened = {screened} Prices <- AllPrices Workers = {w1, w2} Checkouts = {}
    Capacity = 4 LateCapture = TRUE None = None
SPECIFICATION Spec
SYMMETRY Symmetry
CONSTRAINT OrderScenarios
INVARIANTS PaidOnce OneChargeableAttempt ChargeableIsCurrent
PROPERTIES EvidencePins
CHECK_DEADLOCK FALSE
