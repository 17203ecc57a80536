CONSTANTS
    pair = pair rival = rival other = other screened = screened
    e1 = e1 e2 = e2 e3 = e3 e4 = e4 e5 = e5
    r1 = r1 r2 = r2 r3 = r3 r4 = r4 p1 = p1 p2 = p2 wrong = wrong
    Orders = {screened}
    Entries = {e4, e5} OrderOf <- ScreenedOrders PassportOf <- ScreenedRunners
    Passports = {r3, r4} 
    Attempts = {a1, a2} Captures = {p1} Sound = {p1}
    Screened = {screened} Prices <- FullOnly Workers = {w1} Checkouts = {}
    Capacity = 2 LateCapture = FALSE None = None
SPECIFICATION FairSpec
PROPERTIES PaymentIsAnswered ScreeningEnds
CHECK_DEADLOCK FALSE
