SPECIFICATION MCSpec
CONSTANTS
    Payments = {p1, g1}
    Grouped = {g1}
    Statements = {s1, s2}
    Operators = {o1}
    Net = 3
    Fee = 1
    MaxRevision = 1
    None = None
    Entries = {"e1"} GroupEntries = {}
    Desks = {"d1", "d2"} Admins = {"d1"}
    Requests = {kit1, kit2}
    Sizes = {"S", "L"} Names = {"A", "B"}
    Tries = 2
    Reservations = {res1, res2}
    Slots = 1
    MaxGeneration = 1
    Checkouts = {call1, call2} Expirers = {"w1"} Hooks = {"h1"}
    LateCapture = TRUE
    Notices = {"n1"} Screenings = {"s1"} Receipts = {} Tickets = {"t1"}
    LifecycleWorkers = {"l1"} ComingWorkers = {"w1"} TicketWorkers = {"k1", "k2"}
    MaxAttempts = 2
    MaxClaims = 3
    MaxResends = 1
    Lines = {1, 2, 3}
    Bases = {0, 3, 7, 10}
    Commissions <- SomeCommissions
    Rates <- SomeRates
    Charged = {3, 10, 14}
    MinCharge = 4
    Members = {"e1", "e2"}
    Nets <- SomeNets
    CaptureAmount = 9
    RefundFees = {0, 2}
    MinRefund = 2
    GroupRequests = {kit1, kit2}
    GroupCalls = {call1, call2}
    LateSuccess = TRUE
    res1 = res1
    res2 = res2
    call1 = call1
    call2 = call2
    kit1 = kit1
    kit2 = kit2
    s1 = s1
    s2 = s2
SYMMETRY Symmetry
CONSTRAINTS SecondBooker OneOutbox
CHECK_DEADLOCK FALSE
INVARIANTS
    DeskTypeOK
    KitsMatch
    SettledIsUnpayable
    CapturesAreKept
    OneSender
    OneCopy
    TicketsAreSent
    LedgerAddsUp
    ManagedIsFulfilled
    EntriesRefundedOnce
    TransfersMatchStamps
PROPERTY
    SettlesEverything
