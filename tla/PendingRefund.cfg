SPECIFICATION Spec
CONSTANTS
    Entries = {e1}
    Grouped = {e1}
    Desks = {d1}
    Admins = {d1}
    Requests = {q1}
    Sizes = {S, L}
    Names = {A, B}
    Tries = 1
    None = None
CHECK_DEADLOCK FALSE
PROPERTY
    PendingRefundBlocksPickup
