SPECIFICATION Spec
CONSTANTS
    Reqs = {q1, q2}
    Refunds = {f1, f2}
    Legacy = f1
    Workers = {w1, w2}
    LateSuccess = TRUE
    KeyRotates = TRUE
    None = None
SYMMETRY Symmetry
CONSTRAINT Scenarios
CHECK_DEADLOCK FALSE
INVARIANTS
    TypeOK
    OneRefundPerRequest
    OneRefundMoves
    LedgerIsDebited
    ParkedIsCurrent
PROPERTIES
    BooksOneDebit
