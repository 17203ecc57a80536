CONSTANTS
    pair = pair rival = rival other = other screened = screened
    e1 = e1 e2 = e2 e3 = e3 e4 = e4 e5 = e5
    r1 = r1 r2 = r2 r3 = r3 r4 = r4 p1 = p1 p2 = p2 wrong = wrong
    Orders = {pair, rival, other}
    Entries = {e1, e2, e3, e4, e5} OrderOf <- PartyOrders
    Passports = {r1, r2, r3, r4} PassportOf <- PartyRunners
    Attempts = {a1, a2} Captures = {p1, p2, wrong} Sound = {p1, p2}
    Screened = {} Prices <- FullOnly Workers = {w1} Checkouts = {k1}
    Capacity = 3 LateCapture = FALSE None = None
SPECIFICATION Spec
SYMMETRY Symmetry
CONSTRAINT PartyScenarios
INVARIANTS TypeOK AllOrNone PlacesFit PaidWithinCapacity
PROPERTIES AdmitsParties
CHECK_DEADLOCK FALSE
