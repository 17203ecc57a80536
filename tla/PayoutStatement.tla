--------------------------- MODULE PayoutStatement ---------------------------
(***************************************************************************)
(* The payout of one event: its payments with their settlement stamps, the *)
(* capture inbox and the refunds that hold a payout up, the statements     *)
(* cut for it, and the operators who review one and record the transfer.   *)
(* Every SQL function is one action: it holds the payout lock and locks    *)
(* the registrations and payments tables.  A statement keeps what it owes  *)
(* payment by payment; the program stores the sums.  A group entry stands  *)
(* for an order of one entry: its capture and its refunds are its own.     *)
(***************************************************************************)
EXTENDS Integers, FiniteSets, Functions

CONSTANTS
    Payments,   \* the payments rows of the event, and the allocations of its group orders
    Grouped,    \* the allocations among them
    Statements, \* payout_statements rows
    Operators,  \* super admins with the payouts page open
    Net,        \* net_to_org of a payment at its capture
    Fee,        \* organizations.refund_fee_cents under the flat-fee policy
    MaxRevision,
    None

ASSUME PayoutAssumption ==
    /\ Grouped \subseteq Payments
    /\ Net \in Nat /\ Fee \in 1..(Net - 1)
    /\ MaxRevision \in Nat
    /\ None \notin Statements

VARIABLES
    finished,  \* the event is completed or its last day is over
    inbox,     \* the capture of each payment: single_payment_captures, booking_payment_captures
    payment,   \* payments, admin_group_financial_lines
    refund,    \* payments.raw.refund and booking_refund_requests: status and what is retained
    statement, \* payout_statements
    dialog     \* the row each operator's Settle dialog was opened with

vars == <<finished, inbox, payment, refund, statement, dialog>>

Captured == {"paid", "partially_refunded", "refunded"}
Stmt == Statements \cup {None}
Amounts == [Payments -> Int]

Unpaid == [status |-> "pending", net |-> 0, refunded |-> 0, stmt |-> None, claw |-> None]
NoRefund == [status |-> "none", retained |-> 0]
Nothing == [p \in Payments |-> 0]

\* What payout_payment_snapshot records of each payment; of the captures, the group's only.
Snapshot == [p \in Payments |->
    [row |-> payment[p], refund |-> refund[p].status,
     inbox |-> IF p \in Grouped THEN inbox[p] ELSE "none"]]

\* The columns of a payment a payout reads and writes.
Row == [status : {"pending"} \cup Captured, net : Nat, refunded : Nat, stmt : Stmt, claw : Stmt]
InboxState == {"none", "received", "settled", "review"}
RefundState == {"none", "open", "failed", "review", "succeeded"}
Snapshots == [Payments -> [row : Row, refund : RefundState, inbox : InboxState]]

NoStatement == [status |-> "none", owed |-> Nothing, snapshot |-> None, revision |-> 0,
                sent |-> Nothing]
NoDialog == [stmt |-> None, revision |-> 0, owed |-> Nothing]

TypeOK ==
    /\ finished \in BOOLEAN
    /\ inbox \in [Payments -> InboxState]
    /\ payment \in [Payments -> Row]
    /\ refund \in [Payments -> [status : RefundState, retained : {0, Fee}]]
    /\ statement \in [Statements -> [status : {"none", "open", "paid"}, owed : Amounts,
                                     snapshot : Snapshots \cup {None}, revision : 0..MaxRevision,
                                     sent : Amounts]]
    /\ dialog \in [Operators -> [stmt : Stmt, revision : 0..MaxRevision, owed : Amounts]]
----------------------------------------------------------------------------
(* Arithmetic of a statement. *)

\* Earnings of a payment no statement has settled.
Earned(row) ==
    IF row.status \in {"paid", "partially_refunded"} /\ row.stmt = None THEN row.net ELSE 0

\* Money a settled payment has refunded since: a refund in full leaves net_to_org in place, a
\* partial one has overwritten it.
Clawback(row) ==
    IF row.stmt = None \/ row.claw # None THEN 0
    ELSE IF row.status = "refunded" THEN row.net
    ELSE IF row.status = "partially_refunded" THEN row.refunded
    ELSE 0

Owed == [p \in Payments |-> Earned(payment[p]) - Clawback(payment[p])]

\* net_owed_cents
NetOwed(amounts) == FoldFunction(+, 0, amounts)

\* Captures nobody has settled, single payments without a settled capture, open group refunds.
Blockers ==
    {p \in Payments :
        \/ inbox[p] \in {"received", "review"}
        \/ p \notin Grouped /\ payment[p].status \in Captured /\ inbox[p] # "settled"
        \/ p \in Grouped /\ refund[p].status \in {"open", "review"}}
----------------------------------------------------------------------------
(* Payments and refunds, as far as a payout sees them. *)

\* Provider evidence is stored: single_capture_observe, booking_capture_observe.
Observe(p) ==
    /\ inbox[p] = "none"
    /\ inbox' = [inbox EXCEPT ![p] = "received"]
    /\ UNCHANGED <<finished, payment, refund, statement, dialog>>

\* confirm_payment_tx; booking_payment_confirm, which settles the capture with it.
Confirm(p) ==
    /\ inbox[p] = "received" /\ payment[p].status = "pending"
    /\ payment' = [payment EXCEPT ![p].status = "paid", ![p].net = Net]
    /\ inbox' = [inbox EXCEPT ![p] = IF p \in Grouped THEN "settled" ELSE @]
    /\ UNCHANGED <<finished, refund, statement, dialog>>

\* single_capture_settle
Settle(p) ==
    /\ p \notin Grouped /\ inbox[p] = "received" /\ payment[p].status \in Captured
    /\ inbox' = [inbox EXCEPT ![p] = "settled"]
    /\ UNCHANGED <<finished, payment, refund, statement, dialog>>

\* The confirmation is refused, and the capture waits for staff.
Refuse(p) ==
    /\ inbox[p] = "received" /\ payment[p].status = "pending"
    /\ inbox' = [inbox EXCEPT ![p] = "review"]
    /\ UNCHANGED <<finished, payment, refund, statement, dialog>>

\* refund_request_claim, booking_refund_claim: the policy of the moment fixes what is retained.
ClaimRefund(p) ==
    /\ payment[p].status = "paid" /\ refund[p].status \in {"none", "failed"}
    /\ \E retained \in {0, Fee} :
           refund' = [refund EXCEPT ![p] = [status |-> "open", retained |-> retained]]
    /\ UNCHANGED <<finished, inbox, payment, statement, dialog>>

\* refund_registration_tx rewrites a partial refund's net_to_org; a group's line is computed from
\* the refund whatever its size.
RefundedRow(row, p) ==
    IF p \in Grouped \/ refund[p].retained > 0
    THEN [row EXCEPT !.status = "partially_refunded",
                     !.net = refund[p].retained, !.refunded = row.net - refund[p].retained]
    ELSE [row EXCEPT !.status = "refunded", !.refunded = row.net]

\* The provider answers: refund_request_apply_event, booking_refund_apply.
AnswerRefund(p) ==
    /\ refund[p].status = "open"
    /\ \/ /\ refund' = [refund EXCEPT ![p].status = "succeeded"]
          /\ payment' = [payment EXCEPT ![p] = RefundedRow(@, p)]
       \/ /\ \E st \in IF p \in Grouped THEN {"failed", "review"} ELSE {"failed"} :
                 refund' = [refund EXCEPT ![p].status = st]
          /\ UNCHANGED payment
    /\ UNCHANGED <<finished, inbox, statement, dialog>>

\* booking_refund_apply: a group refund filed as failed succeeds after all; staff must resolve it.
LateRefund(p) ==
    /\ p \in Grouped /\ refund[p].status = "failed"
    /\ refund' = [refund EXCEPT ![p].status = "review"]
    /\ UNCHANGED <<finished, inbox, payment, statement, dialog>>

\* The last day of the event is over, or it is marked completed.
Finish ==
    /\ ~finished
    /\ finished' = TRUE
    /\ UNCHANGED <<inbox, payment, refund, statement, dialog>>
----------------------------------------------------------------------------
(* The statement. *)

\* payout_open_statement; payout_statements_one_open_per_event allows one at a time.
OpenStatement(s) ==
    /\ statement[s].status = "none"
    /\ \A t \in Statements : statement[t].status # "open"
    /\ Blockers = {}
    /\ statement' = [statement EXCEPT ![s].status = "open", ![s].owed = Owed,
                                         ![s].snapshot = Snapshot]
    /\ UNCHANGED <<finished, inbox, payment, refund, dialog>>

\* payout_refresh_statement
RefreshStatement(s) ==
    /\ statement[s].status = "open" /\ statement[s].revision < MaxRevision
    /\ Blockers = {}
    /\ statement' = [statement EXCEPT ![s].owed = Owed, ![s].snapshot = Snapshot,
                                         ![s].revision = @ + 1]
    /\ UNCHANGED <<finished, inbox, payment, refund, dialog>>

\* payoutRowState: the page offers the dialog for a payout of a finished event, or a recovery.
Offered(s) ==
    statement[s].status = "open" /\ (NetOwed(statement[s].owed) < 0 \/ finished)

\* SettleStatementButton keeps the row it was rendered with.
OpenDialog(o, s) ==
    /\ Offered(s)
    /\ dialog' = [dialog EXCEPT ![o] = [stmt |-> s, revision |-> statement[s].revision,
                                        owed |-> statement[s].owed]]
    /\ UNCHANGED <<finished, inbox, payment, refund, statement>>

\* Rows whose earnings are settled now; rows settled earlier that were refunded since.
Earns(row) == row.status \in {"paid", "partially_refunded"} /\ row.stmt = None
IsClawedBack(row) ==
    row.status \in {"refunded", "partially_refunded"} /\ row.stmt # None /\ row.claw = None

\* Faulty: a refund netted out of the earnings is left to be clawed back (20260811095800 header).
StampedEarnings(row, s) ==
    [row EXCEPT !.stmt = IF Earns(row) THEN s ELSE @,
                !.claw = IF IsClawedBack(row) THEN s ELSE @]

\* Everything the statement covers is stamped: earnings, with the refunds netted out of them, and
\* the clawbacks of earlier statements.
StampedRow(row, s) ==
    [row EXCEPT !.stmt = IF Earns(row) THEN s ELSE @,
                !.claw = IF \/ Earns(row) /\ row.status = "partially_refunded"
                            \/ IsClawedBack(row)
                         THEN s ELSE @]

\* Faulty: the statement must be current, whatever the dialog shows.
ReviewedByNobody(d) == statement[d.stmt].snapshot = Snapshot

\* What the operator reviewed is what the statement still says, of payments that are still so.
Reviewed(d) ==
    /\ d.revision = statement[d.stmt].revision
    /\ statement[d.stmt].snapshot = Snapshot

\* payout_mark_paid: the operator sent what the dialog shows.
MarkPaid(o) ==
    LET d == dialog[o]
        s == d.stmt
    IN  /\ s # None
        /\ Blockers = {}
        /\ statement[s].status = "open"
        /\ NetOwed(statement[s].owed) < 0 \/ finished
        /\ Reviewed(d)
        /\ payment' = [p \in Payments |-> StampedRow(payment[p], s)]
        /\ statement' = [statement EXCEPT ![s].status = "paid", ![s].sent = d.owed]
        /\ dialog' = [dialog EXCEPT ![o] = NoDialog]
        /\ UNCHANGED <<finished, inbox, refund>>

CloseDialog(o) ==
    /\ dialog[o] # NoDialog
    /\ dialog' = [dialog EXCEPT ![o] = NoDialog]
    /\ UNCHANGED <<finished, inbox, payment, refund, statement>>
----------------------------------------------------------------------------
Init ==
    /\ finished = FALSE
    /\ inbox = [p \in Payments |-> "none"]
    /\ payment = [p \in Payments |-> Unpaid]
    /\ refund = [p \in Payments |-> NoRefund]
    /\ statement = [s \in Statements |-> NoStatement]
    /\ dialog = [o \in Operators |-> NoDialog]

PaymentStep ==
    \E p \in Payments :
        \/ Observe(p) \/ Confirm(p) \/ Settle(p) \/ Refuse(p)
        \/ ClaimRefund(p) \/ AnswerRefund(p) \/ LateRefund(p)

StatementStep == \E s \in Statements : OpenStatement(s) \/ RefreshStatement(s)

OperatorStep ==
    \E o \in Operators :
        MarkPaid(o) \/ CloseDialog(o) \/ \E s \in Statements : OpenDialog(o, s)

Next == Finish \/ PaymentStep \/ StatementStep \/ OperatorStep

Spec == Init /\ [][Next]_vars
----------------------------------------------------------------------------
(* Properties. *)

\* What a payment was worth to the organizer before any refund, and what it is worth now.
Gross(row) == IF row.status = "refunded" THEN row.net ELSE row.net + row.refunded
Kept(row) == IF row.status = "refunded" THEN 0 ELSE row.net

\* What settled statement s must have sent for a payment, by the stamps it left.
SentByStamps(row, s) ==
    IF row.stmt = s THEN (IF row.claw = s THEN Kept(row) ELSE Gross(row))
    ELSE IF row.claw = s THEN Kept(row) - Gross(row)
    ELSE 0

\* The transfers agree with the stamps: what operators sent for every payment, statement by
\* statement, is its worth when it was settled and minus its refund when that was clawed back, so
\* that no money is paid twice, recovered twice or lost (20260915123631, 20260811095700).
TransfersMatchStamps ==
    \A s \in Statements : statement[s].status = "paid" =>
        \A p \in Payments : statement[s].sent[p] = SentByStamps(payment[p], s)

\* A statement that is marked paid leaves nothing behind: from then on each payment of the event
\* has been settled for what the organizer keeps of it, refunds included.
SettlesEverything ==
    [][\A s \in Statements : statement[s].status = "open" /\ statement'[s].status = "paid" =>
           \A p \in Payments :
               LET row == payment'[p]
               IN  /\ row.stmt = None => Kept(row) = 0
                   /\ row.stmt # None /\ row.claw = None => Kept(row) = Gross(row)]_vars
=============================================================================
