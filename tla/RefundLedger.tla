----------------------------- MODULE RefundLedger -----------------------------
(***************************************************************************)
(* What a single-entry refund promises about money.  A debit is a provider *)
(* refund that succeeded: it takes money from the organizer's balance and  *)
(* cannot be taken back.  The ledger books one debit as the refund of the  *)
(* entry; every other debit is put before an operator.                     *)
(***************************************************************************)
CONSTANTS
    Refunds, \* provider refunds (ref_)
    None     \* SQL null

VARIABLES
    debits, \* the provider refunds that succeeded
    booked, \* the debit the ledger row was settled with
    flagged \* the debits an operator was told about

ledgerVars == <<debits, booked, flagged>>

Init == debits = {} /\ booked = None /\ flagged = {}

\* The provider moves the money.
Debit(f) ==
    /\ f \notin debits
    /\ debits' = debits \cup {f}
    /\ UNCHANGED <<booked, flagged>>

\* The debit becomes the refund of the entry.
Book(f) ==
    /\ f \in debits
    /\ booked = None
    /\ booked' = f
    /\ UNCHANGED <<debits, flagged>>

\* The entry is refunded already: the debit is a discrepancy.
Flag(f) ==
    /\ f \in debits
    /\ booked \notin {None, f}
    /\ flagged' = flagged \cup {f}
    /\ UNCHANGED <<debits, booked>>

Next == \E f \in Refunds : Debit(f) \/ Book(f) \/ Flag(f)

Spec == Init /\ [][Next]_ledgerVars

\* No debit stays unnoticed.
EveryDebitNoticed == \A f \in Refunds : f \in debits ~> (booked = f \/ f \in flagged)
=============================================================================
