SPECIFICATION FairSpec
CONSTANTS
    None = None
    Sessions = {s1}
    Captures = {p1}
    Workers = {w1}
    late = late
    successor = successor
    rival = rival
    runner1 = runner1
    runner2 = runner2
    request1 = request1
    request2 = request2
    refund1 = refund1
    refund2 = refund2
PROPERTIES
    
    EveryDebitNoticed
CHECK_DEADLOCK FALSE
