---------------------------- MODULE Desk_proofs -----------------------------
(***************************************************************************)
(* The proofs about Desk, for every value of the constants: of payout      *)
(* statements, whose transfers agree with the stamps on the payments; of   *)
(* the e-mail outboxes; of race-kit pickup; and, with the theorems of the  *)
(* components that bring their own, of the safety properties of the whole. *)
(***************************************************************************)
EXTENDS Desk, FiniteSetTheorems, TLAPS

(* Payout statements. *)

\* What a payment's columns say of each other.
RowOK(row) ==
    /\ row.status = "pending" => row.net = 0 /\ row.stmt = None
    /\ row.status \in {"pending", "paid"} => row.refunded = 0 /\ row.claw = None
    /\ row.status = "refunded" => row.refunded = row.net
    /\ row.stmt = None => row.claw = None

RowsOK == \A p \in Payments : RowOK(payment[p])

\* The refund in flight is of a payment that was not refunded before.
RefundsOK ==
    \A p \in Payments : refund[p].status = "open" => payment[p].status = "paid" /\ payment[p].net = Net

\* A paid payment is worth what was captured.
NetOK == \A p \in Payments : payment[p].status = "paid" => payment[p].net = Net

\* Only paid statements have left stamps.
StampsOK ==
    \A p \in Payments, s \in Statements :
        payment[p].stmt = s \/ payment[p].claw = s => statement[s].status = "paid"

\* An open statement owes what its snapshot says.
TotalsOK ==
    \A s \in Statements : statement[s].status = "open" =>
        /\ statement[s].snapshot \in Snapshots
        /\ \A p \in Payments :
               statement[s].owed[p] = Earned(statement[s].snapshot[p].row)
                                      - Clawback(statement[s].snapshot[p].row)

\* A dialog is of the statement's present revision, with its totals, or of an older one.
DialogsOK ==
    \A o \in Operators : dialog[o].stmt # None =>
        LET s == dialog[o].stmt
        IN  /\ statement[s].status # "none"
            /\ dialog[o].revision <= statement[s].revision
            /\ dialog[o].revision = statement[s].revision => dialog[o].owed = statement[s].owed

IInv ==
    /\ TypeOK /\ RowsOK /\ RefundsOK /\ NetOK /\ StampsOK
    /\ TotalsOK /\ DialogsOK /\ TransfersMatchStamps
-----------------------------------------------------------------------------
(* Lemmas about the arithmetic. *)

LEMMA OwedType == ASSUME TypeOK PROVE Owed \in Amounts /\ Snapshot \in Snapshots
<1>1. ASSUME NEW p \in Payments PROVE Earned(payment[p]) - Clawback(payment[p]) \in Int
  <2>1. payment[p] \in Row
    BY DEF TypeOK
  <2> QED BY <2>1 DEF Row, Earned, Clawback
<1>2. ASSUME NEW p \in Payments
      PROVE [row |-> payment[p], refund |-> refund[p].status,
             inbox |-> IF p \in Grouped THEN inbox[p] ELSE "none"]
                \in [row : Row, refund : RefundState, inbox : InboxState]
  BY DEF TypeOK, InboxState
<1> QED BY <1>1, <1>2 DEF Owed, Amounts, Snapshot, Snapshots

LEMMA NothingType == Nothing \in Amounts
BY DEF Nothing, Amounts

\* Stamping a row by a statement that left no stamp before pays it what it owes, changes nothing
\* of what other statements paid, and leaves nothing to settle.
LEMMA Stamping ==
    ASSUME NEW row \in Row, RowOK(row), NEW s \in Statements, row.stmt # s, row.claw # s
    PROVE  LET new == StampedRow(row, s)
           IN  /\ new \in Row /\ RowOK(new)
               /\ new.status = row.status /\ new.net = row.net /\ new.refunded = row.refunded
               /\ new.stmt \in {row.stmt, s} /\ new.claw \in {row.claw, s}
               /\ SentByStamps(new, s) = Earned(row) - Clawback(row)
               /\ \A t \in Statements \ {s} : SentByStamps(new, t) = SentByStamps(row, t)
               /\ new.stmt = None => Kept(new) = 0
               /\ new.stmt # None /\ new.claw = None => Kept(new) = Gross(new)
<1> DEFINE new == StampedRow(row, s)
<1> USE PayoutAssumption DEF Row, Stmt, Captured
<1>1. CASE ~Earns(row) /\ ~IsClawedBack(row)
  <2>1. new = row
    BY <1>1 DEF StampedRow
  <2> QED BY <1>1, <2>1 DEF RowOK, SentByStamps, Kept, Gross, Earned, Clawback, Earns, IsClawedBack
<1>2. CASE Earns(row) /\ row.status = "paid"
  <2>1. new = [row EXCEPT !.stmt = s]
    BY <1>2 DEF StampedRow, Earns, IsClawedBack
  <2> QED BY <1>2, <2>1 DEF RowOK, SentByStamps, Kept, Gross, Earned, Clawback, Earns
<1>3. CASE Earns(row) /\ row.status = "partially_refunded"
  <2>1. new = [row EXCEPT !.stmt = s, !.claw = s]
    BY <1>3 DEF StampedRow
  <2>2. row.stmt = None /\ row.claw = None
    BY <1>3 DEF Earns, RowOK
  <2>3. /\ new \in Row /\ RowOK(new) /\ new.stmt = s /\ new.claw = s
        /\ new.status = "partially_refunded" /\ new.net = row.net /\ new.refunded = row.refunded
    BY <1>3, <2>1, <2>2 DEF RowOK
  <2>4. SentByStamps(new, s) = Earned(row) - Clawback(row)
    BY <1>3, <2>2, <2>3 DEF SentByStamps, Kept, Earned, Clawback
  <2>5. ASSUME NEW t \in Statements \ {s} PROVE SentByStamps(new, t) = SentByStamps(row, t)
    BY <2>2, <2>3 DEF SentByStamps
  <2> QED BY <1>3, <2>2, <2>3, <2>4, <2>5
<1>4. CASE IsClawedBack(row)
  <2>1. new = [row EXCEPT !.claw = s]
    BY <1>4 DEF StampedRow, Earns, IsClawedBack
  <2> QED BY <1>4, <2>1 DEF RowOK, SentByStamps, Kept, Gross, Earned, Clawback, IsClawedBack
<1> QED BY <1>1, <1>2, <1>3, <1>4 DEF Earns

-----------------------------------------------------------------------------
(* The invariant is inductive. *)

LEMMA InitInv == Init => IInv
<1> SUFFICES ASSUME Init PROVE IInv
  OBVIOUS
<1> USE PayoutAssumption DEF Init
<1>1. TypeOK
  <2>1. Unpaid \in Row
    BY DEF Unpaid, Row, Stmt
  <2>2. NoRefund \in [status : RefundState, retained : {0, Fee}]
    BY DEF NoRefund, RefundState
  <2>3. NoStatement \in [status : {"none", "open", "paid"}, owed : Amounts,
                          snapshot : Snapshots \cup {None}, revision : 0..MaxRevision, sent : Amounts]
    BY NothingType DEF NoStatement
  <2>4. NoDialog \in [stmt : Stmt, revision : 0..MaxRevision, owed : Amounts]
    BY NothingType DEF NoDialog, Stmt
  <2> QED BY <2>1, <2>2, <2>3, <2>4 DEF TypeOK, InboxState
<1>2. RowsOK /\ RefundsOK /\ NetOK
  BY DEF RowsOK, RowOK, RefundsOK, NetOK, Unpaid, NoRefund
<1>3. StampsOK /\ TotalsOK /\ TransfersMatchStamps
  BY DEF StampsOK, TotalsOK, TransfersMatchStamps, Unpaid, NoStatement
<1>4. DialogsOK
  BY DEF DialogsOK, NoDialog
<1> QED BY <1>1, <1>2, <1>3, <1>4 DEF IInv

\* Steps that only move captures, refunds or the calendar.
LEMMA OutsideStep ==
    ASSUME IInv, UNCHANGED <<payment, statement, dialog>>, finished' \in BOOLEAN,
           inbox' \in [Payments -> InboxState],
           refund' \in [Payments -> [status : RefundState, retained : {0, Fee}]],
           \A p \in Payments : refund'[p].status = "open" =>
               refund[p].status = "open" \/ payment[p].status = "paid"
    PROVE  IInv'
<1> USE DEF IInv
<1>1. TypeOK'
  BY DEF TypeOK
<1>2. RefundsOK'
  BY DEF RefundsOK, NetOK
<1>3. RowsOK' /\ NetOK' /\ StampsOK' /\ TotalsOK' /\ DialogsOK' /\ TransfersMatchStamps'
  BY DEF RowsOK, NetOK, StampsOK, TotalsOK, DialogsOK, TransfersMatchStamps
<1> QED BY <1>1, <1>2, <1>3

LEMMA ConfirmInv == ASSUME IInv, NEW p \in Payments, Confirm(p) PROVE IInv'
<1> DEFINE row == payment[p]
           new == [row EXCEPT !.status = "paid", !.net = Net]
<1>1. /\ TypeOK /\ RowsOK /\ RefundsOK /\ NetOK /\ StampsOK
      /\ TotalsOK /\ DialogsOK /\ TransfersMatchStamps
  BY DEF IInv
<1>2. /\ row.status = "pending" /\ row \in Row
      /\ payment' = [payment EXCEPT ![p] = new]
      /\ inbox' = [inbox EXCEPT ![p] = IF p \in Grouped THEN "settled" ELSE @]
      /\ UNCHANGED <<finished, refund, statement, dialog>>
  BY <1>1 DEF Confirm, TypeOK
<1>3. row.stmt = None /\ row.claw = None /\ row.refunded = 0
  BY <1>1, <1>2 DEF RowsOK, RowOK
<1>4. /\ new.status = "paid" /\ new.net = Net /\ new.refunded = 0
      /\ new.stmt = None /\ new.claw = None /\ new \in Row
  BY <1>2, <1>3, PayoutAssumption DEF Row, Captured
<1>5. payment'[p] = new /\ \A q \in Payments \ {p} : payment'[q] = payment[q]
  BY <1>1, <1>2 DEF TypeOK
<1> HIDE DEF row, new
<1>6. TypeOK'
  <2>1. payment' \in [Payments -> Row]
    BY <1>1, <1>2, <1>4 DEF TypeOK
  <2>2. inbox' \in [Payments -> InboxState]
    BY <1>1, <1>2 DEF TypeOK, InboxState
  <2> QED BY <1>1, <1>2, <2>1, <2>2 DEF TypeOK
<1>7. RowOK(new)
  BY <1>4 DEF RowOK
<1>8. RowsOK' /\ NetOK' /\ RefundsOK'
  BY <1>1, <1>2, <1>4, <1>5, <1>7 DEF RowsOK, NetOK, RefundsOK
<1>9. StampsOK'
  BY <1>1, <1>2, <1>4, <1>5, PayoutAssumption DEF StampsOK
<1>10. \A s \in Statements : SentByStamps(new, s) = SentByStamps(row, s)
  BY <1>3, <1>4, PayoutAssumption DEF SentByStamps
<1>11. TransfersMatchStamps'
  BY <1>1, <1>2, <1>5, <1>10 DEF TransfersMatchStamps, row
<1>12. TotalsOK' /\ DialogsOK'
  BY <1>1, <1>2 DEF TotalsOK, DialogsOK
<1> QED BY <1>6, <1>8, <1>9, <1>11, <1>12 DEF IInv

\* A refund changes what a row is worth now, not what it was worth before.
LEMMA Refunding ==
    ASSUME NEW p \in Payments, NEW row \in Row, RowOK(row), row.status = "paid", row.net = Net,
           refund[p].retained \in {0, Fee}
    PROVE  LET new == RefundedRow(row, p)
           IN  /\ new \in Row /\ RowOK(new) /\ new.status # "paid"
               /\ new.stmt = row.stmt /\ new.claw = row.claw
               /\ Gross(new) = Gross(row)
<1> DEFINE new == RefundedRow(row, p)
<1> USE PayoutAssumption
<1>1. CASE p \in Grouped \/ refund[p].retained > 0
  <2>1. new = [row EXCEPT !.status = "partially_refunded",
                          !.net = refund[p].retained, !.refunded = row.net - refund[p].retained]
    BY <1>1 DEF RefundedRow
  <2>2. refund[p].retained \in Nat /\ Net - refund[p].retained \in Nat
    OBVIOUS
  <2>3. new \in Row /\ new.status = "partially_refunded" /\ new.net = refund[p].retained
        /\ new.refunded = Net - refund[p].retained /\ new.stmt = row.stmt /\ new.claw = row.claw
    BY <2>1, <2>2 DEF Row, Captured
  <2>4. RowOK(new)
    BY <2>3 DEF RowOK
  <2>5. Gross(new) = Gross(row)
    BY <2>2, <2>3 DEF Gross, RowOK
  <2> QED BY <2>3, <2>4, <2>5
<1>2. CASE ~(p \in Grouped \/ refund[p].retained > 0)
  <2>1. new = [row EXCEPT !.status = "refunded", !.refunded = row.net]
    BY <1>2 DEF RefundedRow
  <2>2. new \in Row /\ new.status = "refunded" /\ new.net = Net
        /\ new.refunded = Net /\ new.stmt = row.stmt /\ new.claw = row.claw
    BY <2>1 DEF Row, Captured
  <2>3. RowOK(new)
    BY <2>2 DEF RowOK
  <2>4. Gross(new) = Gross(row)
    BY <2>2 DEF Gross, RowOK
  <2> QED BY <2>2, <2>3, <2>4
<1> QED BY <1>1, <1>2

LEMMA AnswerRefundInv == ASSUME IInv, NEW p \in Payments, AnswerRefund(p) PROVE IInv'
<1> USE PayoutAssumption DEF IInv
<1>1. CASE UNCHANGED payment
  <2>1. /\ UNCHANGED <<statement, dialog, finished, inbox>>
        /\ \E st \in {"failed", "review", "succeeded"} : refund' = [refund EXCEPT ![p].status = st]
    BY DEF AnswerRefund
  <2>2. refund' \in [Payments -> [status : RefundState, retained : {0, Fee}]]
    BY <2>1 DEF TypeOK, RefundState
  <2>3. \A q \in Payments : refund'[q].status = "open" => refund[q].status = "open"
    BY <2>1 DEF TypeOK
  <2> QED BY <1>1, <2>1, <2>2, <2>3, OutsideStep DEF TypeOK
<1>2. CASE /\ refund' = [refund EXCEPT ![p].status = "succeeded"]
           /\ payment' = [payment EXCEPT ![p] = RefundedRow(@, p)]
  <2>1. /\ refund[p].status = "open" /\ refund[p].retained \in {0, Fee}
        /\ UNCHANGED <<finished, inbox, statement, dialog>>
    BY DEF AnswerRefund, TypeOK
  <2>2. /\ payment[p] \in Row /\ RowOK(payment[p])
        /\ payment[p].status = "paid" /\ payment[p].net = Net
    BY <2>1 DEF TypeOK, RowsOK, RefundsOK
  <2>3. payment'[p] = RefundedRow(payment[p], p)
        /\ \A q \in Payments \ {p} : payment'[q] = payment[q]
    BY <1>2 DEF TypeOK
  <2>4. /\ payment'[p] \in Row /\ RowOK(payment'[p]) /\ payment'[p].status # "paid"
        /\ payment'[p].stmt = payment[p].stmt /\ payment'[p].claw = payment[p].claw
        /\ Gross(payment'[p]) = Gross(payment[p])
    BY <2>1, <2>2, <2>3, Refunding
  <2>5. TypeOK'
    <3>1. payment' \in [Payments -> Row]
      BY <1>2, <2>3, <2>4 DEF TypeOK
    <3>2. refund' \in [Payments -> [status : RefundState, retained : {0, Fee}]]
      BY <1>2 DEF TypeOK, RefundState
    <3> QED BY <2>1, <3>1, <3>2 DEF TypeOK
  <2>6. RowsOK' /\ NetOK'
    BY <2>3, <2>4 DEF RowsOK, NetOK
  <2>7. RefundsOK'
    <3>1. \A q \in Payments : refund'[q].status = "open" => q # p /\ refund[q].status = "open"
      BY <1>2 DEF TypeOK
    <3> QED BY <3>1, <2>3 DEF RefundsOK
  <2>8. StampsOK'
    BY <2>1, <2>3, <2>4 DEF StampsOK
  <2>9. TransfersMatchStamps'
    <3> SUFFICES ASSUME NEW s \in Statements, statement[s].status = "paid", NEW q \in Payments
                 PROVE  statement[s].sent[q] = SentByStamps(payment'[q], s)
      BY <2>1 DEF TransfersMatchStamps
    <3>1. statement[s].sent[q] = SentByStamps(payment[q], s)
      BY DEF TransfersMatchStamps
    <3>2. CASE q # p
      BY <3>1, <3>2, <2>3
    <3>3. CASE q = p
      <4>1. payment[p].claw = None
        BY <2>2 DEF RowOK
      <4> QED BY <3>1, <3>3, <2>4, <4>1 DEF SentByStamps
    <3> QED BY <3>2, <3>3
  <2>10. TotalsOK' /\ DialogsOK'
    BY <2>1 DEF TotalsOK, DialogsOK
  <2> QED BY <2>5, <2>6, <2>7, <2>8, <2>9, <2>10
<1> QED BY <1>1, <1>2 DEF AnswerRefund

\* Cutting a statement, or cutting it again: revision grows when it was open before.
LEMMA CutInv ==
    ASSUME IInv, NEW s \in Statements, statement[s].status \in {"none", "open"},
           NEW revision \in 0..MaxRevision,
           statement[s].status = "none" \/ revision > statement[s].revision,
           statement' = [statement EXCEPT ![s] = [@ EXCEPT !.status = "open", !.owed = Owed,
                                                           !.snapshot = Snapshot,
                                                           !.revision = revision]],
           UNCHANGED <<finished, inbox, payment, refund, dialog>>
    PROVE  IInv'
<1> DEFINE new == [statement[s] EXCEPT !.status = "open", !.owed = Owed, !.snapshot = Snapshot,
                                       !.revision = revision]
<1>1. /\ TypeOK /\ RowsOK /\ RefundsOK /\ NetOK /\ StampsOK
      /\ TotalsOK /\ DialogsOK /\ TransfersMatchStamps
  BY DEF IInv
<1>2. Owed \in Amounts /\ Snapshot \in Snapshots
  BY <1>1, OwedType
<1>3. statement'[s] = new /\ \A t \in Statements \ {s} : statement'[t] = statement[t]
  BY <1>1 DEF TypeOK
<1>4. /\ new.status = "open" /\ new.owed = Owed /\ new.snapshot = Snapshot
      /\ new.revision = revision
  BY <1>1 DEF TypeOK
<1>5. TypeOK'
  <2>1. new \in [status : {"none", "open", "paid"}, owed : Amounts,
                 snapshot : Snapshots \cup {None}, revision : 0..MaxRevision, sent : Amounts]
    BY <1>1, <1>2 DEF TypeOK
  <2>2. statement' = [statement EXCEPT ![s] = new]
    OBVIOUS
  <2> HIDE DEF new
  <2>3. statement' \in [Statements -> [status : {"none", "open", "paid"}, owed : Amounts,
                 snapshot : Snapshots \cup {None}, revision : 0..MaxRevision, sent : Amounts]]
    BY <1>1, <2>1, <2>2 DEF TypeOK
  <2> QED BY <1>1, <2>3 DEF TypeOK
<1> HIDE DEF new
<1>6. RowsOK' /\ RefundsOK' /\ NetOK'
  BY <1>1 DEF RowsOK, RefundsOK, NetOK
<1>7. StampsOK'
  BY <1>1, <1>3 DEF StampsOK
<1>8. TotalsOK'
  <2>1. \A p \in Payments :
            Owed[p] = Earned(Snapshot[p].row) - Clawback(Snapshot[p].row)
    BY DEF Owed, Snapshot
  <2> QED BY <1>1, <1>2, <1>3, <1>4, <2>1 DEF TotalsOK
<1>9. DialogsOK'
  <2> SUFFICES ASSUME NEW o \in Operators, dialog[o].stmt # None
               PROVE  LET t == dialog[o].stmt
                      IN  /\ statement'[t].status # "none"
                          /\ dialog[o].revision <= statement'[t].revision
                          /\ dialog[o].revision = statement'[t].revision =>
                                 dialog[o].owed = statement'[t].owed
    BY DEF DialogsOK
  <2>1. dialog[o].stmt \in Statements /\ dialog[o].revision \in Int
    BY <1>1 DEF TypeOK, Stmt
  <2>2. CASE dialog[o].stmt # s
    BY <1>1, <1>3, <2>1, <2>2 DEF DialogsOK
  <2>3. CASE dialog[o].stmt = s
    <3>1. statement[s].status # "none" /\ dialog[o].revision <= statement[s].revision
      BY <1>1, <2>3 DEF DialogsOK
    <3>2. revision > statement[s].revision /\ statement[s].revision \in Int /\ revision \in Int
      BY <1>1, <3>1 DEF TypeOK
    <3> QED BY <1>3, <1>4, <2>1, <2>3, <3>1, <3>2
  <2> QED BY <2>2, <2>3
<1>10. TransfersMatchStamps'
  BY <1>1, <1>3, <1>4 DEF TransfersMatchStamps
<1> QED BY <1>5, <1>6, <1>7, <1>8, <1>9, <1>10 DEF IInv

LEMMA OpenStatementInv == ASSUME IInv, NEW s \in Statements, OpenStatement(s) PROVE IInv'
<1>1. TypeOK
  BY DEF IInv
<1>2. /\ statement' = [statement EXCEPT ![s] = [@ EXCEPT !.status = "open", !.owed = Owed,
              !.snapshot = Snapshot, !.revision = statement[s].revision]]
      /\ statement[s].revision \in 0..MaxRevision
  BY <1>1 DEF TypeOK, OpenStatement
<1> QED BY <1>2, CutInv DEF OpenStatement

LEMMA RefreshStatementInv == ASSUME IInv, NEW s \in Statements, RefreshStatement(s) PROVE IInv'
<1>1. TypeOK
  BY DEF IInv
<1>2. /\ statement[s].revision + 1 \in 0..MaxRevision
      /\ statement[s].revision + 1 > statement[s].revision
  BY <1>1, PayoutAssumption DEF TypeOK, RefreshStatement
<1>3. statement' = [statement EXCEPT ![s] = [@ EXCEPT !.status = "open", !.owed = Owed,
              !.snapshot = Snapshot, !.revision = statement[s].revision + 1]]
  BY <1>1 DEF TypeOK, RefreshStatement
<1> QED BY <1>2, <1>3, CutInv DEF RefreshStatement

LEMMA DialogInv ==
    ASSUME IInv, NEW o \in Operators, UNCHANGED <<finished, inbox, payment, refund, statement>>,
           \/ dialog' = [dialog EXCEPT ![o] = NoDialog]
           \/ \E s \in Statements :
                  /\ statement[s].status = "open"
                  /\ dialog' = [dialog EXCEPT ![o] = [stmt |-> s, revision |-> statement[s].revision,
                                                      owed |-> statement[s].owed]]
    PROVE  IInv'
<1>1. /\ TypeOK /\ RowsOK /\ RefundsOK /\ NetOK /\ StampsOK
      /\ TotalsOK /\ DialogsOK /\ TransfersMatchStamps
  BY DEF IInv
<1>2. RowsOK' /\ RefundsOK' /\ NetOK' /\ StampsOK' /\ TotalsOK' /\ TransfersMatchStamps'
  BY <1>1 DEF RowsOK, RefundsOK, NetOK, StampsOK, TotalsOK, TransfersMatchStamps
<1>3. CASE dialog' = [dialog EXCEPT ![o] = NoDialog]
  <2>1. NoDialog \in [stmt : Stmt, revision : 0..MaxRevision, owed : Amounts]
    BY NothingType, PayoutAssumption DEF NoDialog, Stmt
  <2>2. TypeOK'
    BY <1>1, <1>3, <2>1 DEF TypeOK
  <2>3. DialogsOK'
    BY <1>1, <1>3 DEF DialogsOK, NoDialog, TypeOK
  <2> QED BY <1>2, <2>2, <2>3 DEF IInv
<1>4. ASSUME NEW s \in Statements, statement[s].status = "open",
             dialog' = [dialog EXCEPT ![o] = [stmt |-> s, revision |-> statement[s].revision,
                                              owed |-> statement[s].owed]]
      PROVE  IInv'
  <2> DEFINE d == [stmt |-> s, revision |-> statement[s].revision, owed |-> statement[s].owed]
  <2>1. d \in [stmt : Stmt, revision : 0..MaxRevision, owed : Amounts]
    BY <1>1 DEF TypeOK, Stmt
  <2>2. TypeOK'
    BY <1>1, <1>4, <2>1 DEF TypeOK
  <2>3. DialogsOK'
    BY <1>1, <1>4 DEF DialogsOK, TypeOK
  <2> QED BY <1>2, <2>2, <2>3 DEF IInv
<1> QED BY <1>3, <1>4

\* What a settlement step does, row by row.
LEMMA MarkPaidFacts ==
    ASSUME IInv, NEW o \in Operators, MarkPaid(o)
    PROVE  /\ dialog[o].stmt \in Statements
           /\ statement[dialog[o].stmt].status = "open"
           /\ \A p \in Payments :
                  /\ payment'[p] = StampedRow(payment[p], dialog[o].stmt)
                  /\ payment[p] \in Row /\ RowOK(payment[p])
                  /\ payment[p].stmt # dialog[o].stmt /\ payment[p].claw # dialog[o].stmt
                  /\ dialog[o].owed[p] = Earned(payment[p]) - Clawback(payment[p])
<1> DEFINE s == dialog[o].stmt
<1>1. TypeOK /\ RowsOK /\ StampsOK /\ TotalsOK /\ DialogsOK
  BY DEF IInv
<1>2. /\ s \in Statements /\ statement[s].status = "open"
      /\ dialog[o].revision = statement[s].revision /\ statement[s].snapshot = Snapshot
      /\ payment' = [p \in Payments |-> StampedRow(payment[p], s)]
  BY <1>1 DEF MarkPaid, Reviewed, TypeOK, Stmt
<1>3. dialog[o].owed = statement[s].owed
  BY <1>1, <1>2, PayoutAssumption DEF DialogsOK
<1>4. ASSUME NEW p \in Payments
      PROVE  dialog[o].owed[p] = Earned(payment[p]) - Clawback(payment[p])
  <2>1. Snapshot[p].row = payment[p]
    BY DEF Snapshot
  <2> QED BY <1>1, <1>2, <1>3, <2>1 DEF TotalsOK
<1>5. ASSUME NEW p \in Payments
      PROVE  payment[p].stmt # s /\ payment[p].claw # s
  BY <1>1, <1>2 DEF StampsOK
<1> QED BY <1>1, <1>2, <1>4, <1>5 DEF TypeOK, RowsOK

LEMMA MarkPaidInv == ASSUME IInv, NEW o \in Operators, MarkPaid(o) PROVE IInv'
<1> DEFINE s == dialog[o].stmt
<1>1. /\ TypeOK /\ RowsOK /\ RefundsOK /\ NetOK /\ StampsOK
      /\ TotalsOK /\ DialogsOK /\ TransfersMatchStamps
  BY DEF IInv
<1>2. /\ s \in Statements /\ statement[s].status = "open"
      /\ \A p \in Payments :
             /\ payment'[p] = StampedRow(payment[p], s)
             /\ payment[p] \in Row /\ RowOK(payment[p])
             /\ payment[p].stmt # s /\ payment[p].claw # s
             /\ dialog[o].owed[p] = Earned(payment[p]) - Clawback(payment[p])
  BY MarkPaidFacts
<1>3. /\ statement' = [statement EXCEPT ![s].status = "paid", ![s].sent = dialog[o].owed]
      /\ dialog' = [dialog EXCEPT ![o] = NoDialog]
      /\ payment' = [p \in Payments |-> StampedRow(payment[p], s)]
      /\ UNCHANGED <<finished, inbox, refund>>
  BY DEF MarkPaid
<1>4. \A p \in Payments :
          /\ payment'[p] \in Row /\ RowOK(payment'[p])
          /\ payment'[p].status = payment[p].status /\ payment'[p].net = payment[p].net
          /\ payment'[p].stmt \in {payment[p].stmt, s} /\ payment'[p].claw \in {payment[p].claw, s}
          /\ SentByStamps(payment'[p], s) = dialog[o].owed[p]
          /\ \A t \in Statements \ {s} : SentByStamps(payment'[p], t) = SentByStamps(payment[p], t)
  BY <1>2, Stamping
<1>5. /\ statement'[s].status = "paid" /\ statement'[s].sent = dialog[o].owed
      /\ statement'[s].revision = statement[s].revision /\ statement'[s].owed = statement[s].owed
      /\ \A t \in Statements \ {s} : statement'[t] = statement[t]
  BY <1>1, <1>2, <1>3 DEF TypeOK
<1>6. TypeOK'
  <2>1. payment' \in [Payments -> Row]
    BY <1>3, <1>4
  <2>2. dialog[o].owed \in Amounts
    BY <1>1 DEF TypeOK
  <2>3. statement' \in [Statements -> [status : {"none", "open", "paid"}, owed : Amounts,
                 snapshot : Snapshots \cup {None}, revision : 0..MaxRevision, sent : Amounts]]
    <3> DEFINE settled == [statement[s] EXCEPT !.status = "paid", !.sent = dialog[o].owed]
    <3>1. settled \in [status : {"none", "open", "paid"}, owed : Amounts,
                       snapshot : Snapshots \cup {None}, revision : 0..MaxRevision, sent : Amounts]
      <4>1. statement[s] \in [status : {"none", "open", "paid"}, owed : Amounts,
                 snapshot : Snapshots \cup {None}, revision : 0..MaxRevision, sent : Amounts]
        BY <1>1, <1>2 DEF TypeOK
      <4> HIDE DEF Amounts, Snapshots
      <4> QED BY <2>2, <4>1
    <3>2. statement' = [statement EXCEPT ![s] = settled]
      BY <1>3
    <3> HIDE DEF settled
    <3> QED BY <1>1, <3>1, <3>2 DEF TypeOK
  <2>4. NoDialog \in [stmt : Stmt, revision : 0..MaxRevision, owed : Amounts]
    BY NothingType, PayoutAssumption DEF NoDialog, Stmt
  <2>5. dialog' \in [Operators -> [stmt : Stmt, revision : 0..MaxRevision, owed : Amounts]]
    BY <1>1, <1>3, <2>4 DEF TypeOK
  <2> QED BY <1>1, <1>3, <2>1, <2>3, <2>5 DEF TypeOK
<1>7. RowsOK' /\ RefundsOK' /\ NetOK'
  BY <1>1, <1>3, <1>4 DEF RowsOK, RefundsOK, NetOK
<1>8. StampsOK'
  BY <1>1, <1>4, <1>5 DEF StampsOK
<1>9. TotalsOK'
  BY <1>1, <1>5 DEF TotalsOK
<1>10. DialogsOK'
  <2> SUFFICES ASSUME NEW v \in Operators, dialog'[v].stmt # None
               PROVE  LET t == dialog'[v].stmt
                      IN  /\ statement'[t].status # "none"
                          /\ dialog'[v].revision <= statement'[t].revision
                          /\ dialog'[v].revision = statement'[t].revision =>
                                 dialog'[v].owed = statement'[t].owed
    BY DEF DialogsOK
  <2>1. v # o /\ dialog'[v] = dialog[v]
    BY <1>1, <1>3 DEF NoDialog, TypeOK
  <2>2. dialog[v].stmt \in Statements
    BY <1>1, <2>1 DEF TypeOK, Stmt
  <2> QED BY <1>1, <1>5, <2>1, <2>2 DEF DialogsOK
<1>11. TransfersMatchStamps'
  BY <1>1, <1>4, <1>5 DEF TransfersMatchStamps
<1> QED BY <1>6, <1>7, <1>8, <1>9, <1>10, <1>11 DEF IInv

-----------------------------------------------------------------------------
(* Every step, and the theorems. *)

LEMMA PaymentStepInv == ASSUME IInv, PaymentStep PROVE IInv'
<1>1. TypeOK
  BY DEF IInv
<1> SUFFICES ASSUME NEW p \in Payments,
                    \/ Observe(p) \/ Confirm(p) \/ Settle(p) \/ Refuse(p)
                    \/ ClaimRefund(p) \/ AnswerRefund(p) \/ LateRefund(p)
             PROVE  IInv'
  BY DEF PaymentStep
<1>2. CASE Observe(p) \/ Settle(p) \/ Refuse(p)
  <2>1. inbox' \in [Payments -> InboxState] /\ UNCHANGED <<finished, payment, refund, statement, dialog>>
    BY <1>1, <1>2 DEF TypeOK, InboxState, Observe, Settle, Refuse
  <2> QED BY <1>1, <2>1, OutsideStep DEF TypeOK
<1>3. CASE Confirm(p)
  BY <1>3, ConfirmInv
<1>4. CASE ClaimRefund(p)
  <2>1. PICK retained \in {0, Fee} :
            refund' = [refund EXCEPT ![p] = [status |-> "open", retained |-> retained]]
    BY <1>4 DEF ClaimRefund
  <2>2. payment[p].status = "paid" /\ UNCHANGED <<finished, inbox, payment, statement, dialog>>
    BY <1>4 DEF ClaimRefund
  <2>3. refund' \in [Payments -> [status : RefundState, retained : {0, Fee}]]
    BY <1>1, <2>1 DEF TypeOK, RefundState
  <2>4. \A q \in Payments : refund'[q].status = "open" =>
            refund[q].status = "open" \/ payment[q].status = "paid"
    BY <1>1, <2>1, <2>2 DEF TypeOK
  <2> QED BY <1>1, <2>2, <2>3, <2>4, OutsideStep DEF TypeOK
<1>5. CASE AnswerRefund(p)
  BY <1>5, AnswerRefundInv
<1>6. CASE LateRefund(p)
  <2>1. /\ refund' = [refund EXCEPT ![p].status = "review"]
        /\ UNCHANGED <<finished, inbox, payment, statement, dialog>>
    BY <1>6 DEF LateRefund
  <2>2. refund' \in [Payments -> [status : RefundState, retained : {0, Fee}]]
    BY <1>1, <2>1 DEF TypeOK, RefundState
  <2>3. \A q \in Payments : refund'[q].status = "open" => refund[q].status = "open"
    BY <1>1, <2>1 DEF TypeOK
  <2> QED BY <1>1, <2>1, <2>2, <2>3, OutsideStep DEF TypeOK
<1> QED BY <1>2, <1>3, <1>4, <1>5, <1>6

LEMMA NextInv == ASSUME IInv, [Next]_vars PROVE IInv'
<1>1. CASE Finish
  BY <1>1, OutsideStep DEF Finish, IInv, TypeOK
<1>2. CASE PaymentStep
  BY <1>2, PaymentStepInv
<1>3. CASE StatementStep
  BY <1>3, OpenStatementInv, RefreshStatementInv DEF StatementStep
<1>4. CASE OperatorStep
  <2> SUFFICES ASSUME NEW o \in Operators,
                      MarkPaid(o) \/ CloseDialog(o) \/ \E s \in Statements : OpenDialog(o, s)
               PROVE  IInv'
    BY <1>4 DEF OperatorStep
  <2>1. CASE MarkPaid(o)
    BY <2>1, MarkPaidInv
  <2>2. CASE CloseDialog(o)
    BY <2>2, DialogInv DEF CloseDialog
  <2>3. CASE \E s \in Statements : OpenDialog(o, s)
    BY <2>3, DialogInv DEF OpenDialog, Offered
  <2> QED BY <2>1, <2>2, <2>3
<1>5. CASE UNCHANGED vars
  BY <1>5, OutsideStep DEF vars, IInv, TypeOK
<1> QED BY <1>1, <1>2, <1>3, <1>4, <1>5 DEF Next

\* Payments, refunds, statements, stamps and dialogs agree in every state of the payout statements
\* (payout_open_statement, payout_refresh_statement, payout_mark_paid).
THEOREM IInvAlways == Spec => []IInv
BY InitInv, NextInv, PTL DEF Spec

\* The columns of the payments, the statements and the dialogs keep their types.
THEOREM PayoutTypeCorrect == Spec => []TypeOK
<1>1. IInv => TypeOK
  BY DEF IInv
<1> QED BY <1>1, IInvAlways, PTL

\* Whatever arrives between the opening of a statement, its review and its settlement, what was
\* sent to the organizer agrees with the stamps the settlement left on every payment.
THEOREM PayoutBalanced == Spec => []TransfersMatchStamps
<1>1. IInv => TransfersMatchStamps
  BY DEF IInv
<1> QED BY <1>1, IInvAlways, PTL

\* A settlement covers every payment and every refund of the event there is at that moment.
THEOREM PayoutSettles == Spec => SettlesEverything
<1> DEFINE Settled ==
        \A s \in Statements : statement[s].status = "open" /\ statement'[s].status = "paid" =>
           \A p \in Payments :
               LET row == payment'[p]
               IN  /\ row.stmt = None => Kept(row) = 0
                   /\ row.stmt # None /\ row.claw = None => Kept(row) = Gross(row)
<1>1. ASSUME IInv, [Next]_vars PROVE [Settled]_vars
  <2>1. TypeOK
    BY <1>1 DEF IInv
  <2> SUFFICES ASSUME Next PROVE Settled
    BY <1>1
  <2>2. CASE \E o \in Operators : MarkPaid(o)
    <3> PICK o \in Operators : MarkPaid(o)
      BY <2>2
    <3>1. \A p \in Payments :
              /\ payment'[p].stmt = None => Kept(payment'[p]) = 0
              /\ payment'[p].stmt # None /\ payment'[p].claw = None =>
                     Kept(payment'[p]) = Gross(payment'[p])
      BY <1>1, MarkPaidFacts, Stamping
    <3> QED BY <3>1
  <2>3. CASE ~\E o \in Operators : MarkPaid(o)
    <3>1. UNCHANGED statement \/ \E s \in Statements : OpenStatement(s) \/ RefreshStatement(s)
      BY <2>3 DEF Next, Finish, PaymentStep, Observe, Confirm, Settle, Refuse, ClaimRefund,
           AnswerRefund, LateRefund, StatementStep, OperatorStep, CloseDialog, OpenDialog
    <3>2. ASSUME NEW s \in Statements, OpenStatement(s) \/ RefreshStatement(s)
          PROVE  statement'[s].status = "open"
                 /\ \A t \in Statements \ {s} : statement'[t] = statement[t]
      <4>1. statement \in [Statements -> [status : {"none", "open", "paid"}, owed : Amounts,
                 snapshot : Snapshots \cup {None}, revision : 0..MaxRevision, sent : Amounts]]
        BY <2>1 DEF TypeOK
      <4>2. CASE OpenStatement(s)
        BY <4>1, <4>2 DEF OpenStatement
      <4>3. CASE RefreshStatement(s)
        BY <4>1, <4>3 DEF RefreshStatement
      <4> QED BY <3>2, <4>2, <4>3
    <3>3. \A s \in Statements : statement[s].status = "open" => statement'[s].status = "open"
      BY <3>1, <3>2
    <3> QED BY <3>3
  <2> QED BY <2>2, <2>3
<1> QED BY <1>1, IInvAlways, PTL DEF Spec, SettlesEverything
----------------------------------------------------------------------------
(* The e-mail outboxes. *)

JobRow == [attempts : 0..MaxClaims, claims : 0..MaxClaims, token : 0..MaxClaims,
           leased : BOOLEAN, due : BOOLEAN, sent : BOOLEAN, delivery : Mail!Deliveries]
WorkerRow == [held : [Mail!Jobs -> Mail!Lease \cup {None}], fresh : SUBSET Mail!Jobs,
              at : Mail!Jobs \cup {None}, pc : {"idle", "read", "send", "finish"}, failed : BOOLEAN]

\* TypeOK, and that the workers are a function.
Types ==
    /\ job \in [Mail!Jobs -> JobRow]
    /\ moot \in [Mail!Jobs -> BOOLEAN]
    /\ mail \in [Mail!Jobs -> [Mail!Deliveries -> 0..2]]
    /\ worker \in [Mail!Workers -> WorkerRow]

\* A job is attempted once per claim at most.
Attempted == \A j \in Mail!Jobs : job[j].attempts <= job[j].claims

\* A worker's lease of j is older than the next claim, no two workers hold the same, and it is
\* the row's as long as it lasts.
LeaseOK(w, j) ==
    /\ worker[w].held[j] # None => worker[w].held[j].token <= job[j].claims
    /\ j \in worker[w].fresh =>
           /\ worker[w].held[j] # None /\ worker[w].held[j].token = job[j].token
           /\ job[j].leased

Leases == \A w \in Mail!Workers, j \in Mail!Jobs : LeaseOK(w, j)

Tokens ==
    \A j \in Mail!Jobs, w, v \in Mail!Workers :
        v # w /\ worker[w].held[j] # None /\ worker[v].held[j] # None =>
            worker[w].held[j].token # worker[v].held[j].token

\* A worker works on a job it holds.
AtHeld == \A w \in Mail!Workers : worker[w].pc # "idle" => worker[w].at \in Mail!Held(w)

\* A ticket delivery has one identity, is never the lifecycle worker's, and a worker about to
\* mark it sent knows that its mail was accepted or that there is nothing to send.
TicketOK(w, j) ==
    /\ worker[w].held[j] # None => w \notin LifecycleWorkers /\ worker[w].held[j].delivery = 0
    /\ worker[w].pc = "finish" /\ worker[w].at = j /\ ~worker[w].failed => mail[j][0] > 0 \/ moot[j]

TicketsOK ==
    \A j \in Tickets : job[j].delivery = 0 /\ \A w \in Mail!Workers : TicketOK(w, j)

\* The inductive invariant.
OutboxInv ==
    Types /\ Attempted /\ Leases /\ Tokens /\ AtHeld /\ TicketsOK /\ Mail!OneCopy /\ Mail!TicketsAreSent
----------------------------------------------------------------------------
(* Time and the rest of the system. *)

\* A row that changes in its due time, or in what a resend resets, touches no lease.
LEMMA DueKeeps ==
  ASSUME OutboxSetting, OutboxInv, NEW j \in Mail!Jobs, Mail!Due(j)
  PROVE  OutboxInv'
<1> USE DEF OutboxInv
<1>1. job[j] \in JobRow /\ job' = [job EXCEPT ![j].due = TRUE] /\ UNCHANGED <<moot, mail, worker>>
  BY DEF Mail!Due, Types
<1>2. /\ job' \in [Mail!Jobs -> JobRow]
      /\ \A k \in Mail!Jobs : /\ job'[k].attempts = job[k].attempts /\ job'[k].claims = job[k].claims
                              /\ job'[k].token = job[k].token /\ job'[k].leased = job[k].leased
                              /\ job'[k].sent = job[k].sent /\ job'[k].delivery = job[k].delivery
  BY <1>1 DEF Types, JobRow
<1>3. Types' /\ Attempted' /\ Leases' /\ Tokens' /\ AtHeld'
  BY <1>1, <1>2 DEF Types, Attempted, Leases, LeaseOK, Tokens, AtHeld, Mail!Held
<1>4. TicketsOK' /\ Mail!OneCopy' /\ Mail!TicketsAreSent'
  BY <1>1, <1>2 DEF TicketsOK, TicketOK, Mail!OneCopy, Mail!TicketsAreSent, Mail!Jobs
<1> QED BY <1>3, <1>4

\* A lease that runs out is fresh with nobody any more.
LEMMA LeaseKeeps ==
  ASSUME OutboxSetting, OutboxInv, NEW j \in Mail!Jobs, Mail!LeaseRunsOut(j)
  PROVE  OutboxInv'
<1> USE DEF OutboxInv
<1>1. job[j] \in JobRow /\ job' = [job EXCEPT ![j].leased = FALSE] /\ UNCHANGED <<moot, mail>>
  BY DEF Mail!LeaseRunsOut, Types
<1>2. /\ job' \in [Mail!Jobs -> JobRow]
      /\ \A k \in Mail!Jobs : /\ job'[k].attempts = job[k].attempts /\ job'[k].claims = job[k].claims
                              /\ job'[k].token = job[k].token
                              /\ k # j => job'[k].leased = job[k].leased
                              /\ job'[k].sent = job[k].sent /\ job'[k].delivery = job[k].delivery
  BY <1>1 DEF Types, JobRow
<1>3. ASSUME NEW w \in Mail!Workers
      PROVE  /\ worker'[w] \in WorkerRow
             /\ worker'[w].held = worker[w].held /\ worker'[w].at = worker[w].at
             /\ worker'[w].pc = worker[w].pc /\ worker'[w].failed = worker[w].failed
             /\ worker'[w].fresh \subseteq worker[w].fresh
             /\ j \notin worker'[w].fresh
  <2>1. worker[w] \in WorkerRow /\ LeaseOK(w, j)
    BY DEF Types, Leases
  <2>2. PICK f : f = IF worker[w].held[j] # None /\ worker[w].held[j].token = job[j].token
                     THEN worker[w].fresh \ {j} ELSE worker[w].fresh
    OBVIOUS
  <2>3. worker'[w] = [worker[w] EXCEPT !.fresh = f]
    BY <2>2 DEF Mail!LeaseRunsOut
  <2>4. f \subseteq worker[w].fresh /\ j \notin f /\ f \in SUBSET Mail!Jobs
    BY <2>1, <2>2 DEF LeaseOK, WorkerRow
  <2> QED BY <2>1, <2>3, <2>4 DEF WorkerRow
<1>4. worker' \in [Mail!Workers -> WorkerRow]
  <2>1. worker' = [w \in Mail!Workers |-> worker'[w]]
    BY DEF Mail!LeaseRunsOut
  <2> QED BY <1>3, <2>1
<1>5. Types' /\ Attempted' /\ Tokens' /\ AtHeld'
  <2>1. Types' /\ Attempted'
    BY <1>1, <1>2, <1>4 DEF Types, Attempted
  <2>2. Tokens'
    BY <1>3 DEF Tokens
  <2>3. \A w \in Mail!Workers : Mail!Held(w)' = Mail!Held(w)
    BY <1>3 DEF Mail!Held
  <2>4. AtHeld'
    BY <1>3, <2>3 DEF AtHeld
  <2> QED BY <2>1, <2>2, <2>4
<1>6. Leases'
  <2>1. ASSUME NEW w \in Mail!Workers, NEW k \in Mail!Jobs PROVE LeaseOK(w, k)'
    <3>1. LeaseOK(w, k)
      BY DEF Leases
    <3>2. k \in worker'[w].fresh => k # j /\ k \in worker[w].fresh
      BY <1>3
    <3> QED BY <1>2, <1>3, <3>1, <3>2 DEF LeaseOK
  <2> QED BY <2>1 DEF Leases
<1>7. TicketsOK' /\ Mail!OneCopy' /\ Mail!TicketsAreSent'
  BY <1>1, <1>2, <1>3 DEF TicketsOK, TicketOK, Mail!OneCopy, Mail!TicketsAreSent, Mail!Jobs
<1> QED BY <1>5, <1>6, <1>7

\* What is overtaken stays overtaken.
LEMMA OvertakenKeeps ==
  ASSUME OutboxSetting, OutboxInv, NEW j \in Mail!Jobs, Mail!Overtaken(j)
  PROVE  OutboxInv'
<1> USE DEF OutboxInv
<1>1. moot' = [moot EXCEPT ![j] = TRUE] /\ UNCHANGED <<job, mail, worker>>
  BY DEF Mail!Overtaken
<1>2. moot' \in [Mail!Jobs -> BOOLEAN] /\ \A k \in Mail!Jobs : moot[k] => moot'[k]
  BY <1>1 DEF Types
<1>3. Types' /\ Attempted' /\ Leases' /\ Tokens' /\ AtHeld'
  BY <1>1, <1>2 DEF Types, Attempted, Leases, LeaseOK, Tokens, AtHeld, Mail!Held
<1>4. TicketsOK' /\ Mail!OneCopy' /\ Mail!TicketsAreSent'
  BY <1>1, <1>2 DEF TicketsOK, TicketOK, Mail!OneCopy, Mail!TicketsAreSent, Mail!Jobs
<1> QED BY <1>3, <1>4

\* A resend is of a screening mail nobody has a lease of.
LEMMA ResendKeeps ==
  ASSUME OutboxSetting, OutboxInv, NEW j \in Mail!Jobs, Mail!Resend(j)
  PROVE  OutboxInv'
<1> USE DEF OutboxInv
<1>1. /\ job[j] \in JobRow /\ j \notin Tickets /\ job[j].delivery < MaxResends
      /\ job' = [job EXCEPT ![j].sent = FALSE, ![j].attempts = 0, ![j].delivery = @ + 1]
      /\ UNCHANGED <<moot, mail, worker>>
  BY DEF Mail!Resend, Types, OutboxSetting
<1>2. PICK row : row = [job[j] EXCEPT !.sent = FALSE, !.attempts = 0, !.delivery = job[j].delivery + 1]
  OBVIOUS
<1>3. job[j].delivery + 1 \in Mail!Deliveries /\ 0 \in 0..MaxClaims
  BY <1>1 DEF JobRow, Mail!Deliveries, OutboxSetting
<1>4. /\ row \in JobRow /\ row.attempts = 0 /\ row.claims = job[j].claims
      /\ row.token = job[j].token /\ row.leased = job[j].leased
  BY <1>1, <1>2, <1>3 DEF JobRow
<1>5. job' = [job EXCEPT ![j] = row]
  BY <1>1, <1>2 DEF Types
<1>6. /\ job' \in [Mail!Jobs -> JobRow] /\ job'[j] = row
      /\ \A k \in Mail!Jobs \ {j} : job'[k] = job[k]
  BY <1>4, <1>5 DEF Types
<1>7. \A k \in Mail!Jobs : /\ job'[k].attempts <= job'[k].claims /\ job'[k].claims = job[k].claims
                           /\ job'[k].token = job[k].token /\ job'[k].leased = job[k].leased
                           /\ k \in Tickets => job'[k] = job[k]
  BY <1>1, <1>4, <1>6 DEF Attempted, JobRow, OutboxSetting
<1>8. Types' /\ Attempted' /\ Leases' /\ Tokens' /\ AtHeld'
  <2>1. UNCHANGED <<moot, mail, worker>>
    BY DEF Mail!Resend
  <2>2. Types' /\ Attempted'
    BY <1>6, <1>7, <2>1 DEF Types, Attempted
  <2>3. Leases' /\ Tokens' /\ AtHeld'
    BY <1>7, <2>1 DEF Leases, LeaseOK, Tokens, AtHeld, Mail!Held
  <2> QED BY <2>2, <2>3
<1>9. TicketsOK' /\ Mail!OneCopy' /\ Mail!TicketsAreSent'
  BY <1>1, <1>7 DEF TicketsOK, TicketOK, Mail!OneCopy, Mail!TicketsAreSent, Mail!Jobs
<1> QED BY <1>8, <1>9
----------------------------------------------------------------------------
(* The workers. *)

\* A claim takes jobs nobody has a lease of, under tokens nobody holds.
LEMMA ClaimKeeps ==
  ASSUME OutboxSetting, OutboxInv, NEW w \in Mail!Workers, Mail!Claim(w)
  PROVE  OutboxInv'
<1> USE DEF OutboxInv
<1>1. PICK batch \in Mail!Batches(w) \ {{}} :
        /\ worker[w] = Mail!Nobody
        /\ job' = [j \in Mail!Jobs |-> IF j \notin batch THEN job[j] ELSE
                      [job[j] EXCEPT !.attempts = IF j \in Tickets THEN 0 ELSE @ + 1, !.claims = @ + 1,
                                     !.token = job[j].claims + 1, !.leased = TRUE]]
        /\ worker' = [worker EXCEPT
               ![w].held = [j \in Mail!Jobs |-> IF j \in batch THEN [token |-> job'[j].token,
                                                               delivery |-> job[j].delivery] ELSE None],
               ![w].fresh = batch]
        /\ UNCHANGED <<moot, mail>>
  BY DEF Mail!Claim
<1>2. \A j \in batch : /\ j \in Mail!Jobs /\ ~job[j].leased /\ job[j].claims < MaxClaims /\ ~job[j].sent
                       /\ w \in LifecycleWorkers => j \notin Tickets
  BY DEF Mail!Batches, Mail!Claimable, Mail!Jobs
<1>3. ASSUME NEW j \in Mail!Jobs
      PROVE  /\ job'[j] \in JobRow
             /\ job'[j].attempts <= job'[j].claims /\ job[j].claims <= job'[j].claims
             /\ job'[j].delivery = job[j].delivery /\ job'[j].sent = job[j].sent
             /\ j \notin batch => job'[j] = job[j]
             /\ j \in batch => /\ job'[j].claims = job[j].claims + 1
                               /\ job'[j].token = job[j].claims + 1 /\ job'[j].leased
  <2>1. job[j] \in JobRow /\ job[j].attempts <= job[j].claims
    BY DEF Types, Attempted
  <2>2. CASE j \notin batch
    <3>1. job'[j] = job[j]
      BY <1>1, <2>2
    <3> QED BY <2>1, <2>2, <3>1 DEF JobRow, OutboxSetting
  <2>3. CASE j \in batch
    <3>1. PICK a, n : a = (IF j \in Tickets THEN 0 ELSE job[j].attempts + 1) /\ n = job[j].claims + 1
      OBVIOUS
    <3>2. job'[j] = [job[j] EXCEPT !.attempts = a, !.claims = n, !.token = n, !.leased = TRUE]
      BY <1>1, <2>3, <3>1
    <3>3. n \in 0..MaxClaims /\ a \in 0..MaxClaims /\ a <= n /\ job[j].claims <= n
      BY <1>2, <2>1, <2>3, <3>1 DEF JobRow, OutboxSetting
    <3> QED BY <2>1, <2>3, <3>1, <3>2, <3>3 DEF JobRow
  <2> QED BY <2>2, <2>3
<1>4. /\ job' \in [Mail!Jobs -> JobRow]
  <2>1. job' = [j \in Mail!Jobs |-> job'[j]]
    BY <1>1
  <2> QED BY <1>3, <2>1
<1>5. PICK held : held = [j \in Mail!Jobs |-> IF j \in batch THEN [token |-> job'[j].token,
                                                               delivery |-> job[j].delivery] ELSE None]
  OBVIOUS
<1>6. held \in [Mail!Jobs -> Mail!Lease \cup {None}]
  <2>1. ASSUME NEW j \in Mail!Jobs, j \in batch PROVE held[j] \in Mail!Lease
    <3>1. job'[j].token \in 1..MaxClaims /\ job[j].delivery \in Mail!Deliveries
      BY <1>2, <1>3, <2>1 DEF JobRow, Types, OutboxSetting
    <3> QED BY <1>5, <2>1, <3>1 DEF Mail!Lease
  <2> QED BY <1>5, <2>1
<1>7. \A j \in Mail!Jobs : /\ held[j] # None => j \in batch
                           /\ j \in batch => /\ held[j] # None /\ held[j].token = job[j].claims + 1
                                             /\ held[j].token = job'[j].token
                                             /\ held[j].delivery = job[j].delivery
  <2>1. ASSUME NEW j \in Mail!Jobs, j \in batch PROVE held[j] # None
    <3>1. held[j] \in Mail!Lease
      <4>1. job'[j].token \in 1..MaxClaims /\ job[j].delivery \in Mail!Deliveries
        BY <1>2, <1>3, <2>1 DEF JobRow, Types, OutboxSetting
      <4> QED BY <1>5, <2>1, <4>1 DEF Mail!Lease
    <3> QED BY <3>1 DEF OutboxSetting
  <2> QED BY <1>3, <1>5, <2>1
<1>8. /\ worker' \in [Mail!Workers -> WorkerRow]
      /\ worker'[w].held = held /\ worker'[w].fresh = batch /\ worker'[w].pc = "idle"
      /\ \A v \in Mail!Workers \ {w} : worker'[v] = worker[v]
  <2>1. worker[w] \in WorkerRow /\ worker[w].pc = "idle"
    <3>1. PICK n : n = Mail!Nobody
      OBVIOUS
    <3>2. n.pc = "idle"
      BY <3>1 DEF Mail!Nobody
    <3>3. worker[w] = n
      BY <1>1, <3>1
    <3> QED BY <3>2, <3>3 DEF Types
  <2>2. worker' = [worker EXCEPT ![w].held = held, ![w].fresh = batch]
    BY <1>1, <1>5
  <2>3. PICK row : row = [worker[w] EXCEPT !.held = held, !.fresh = batch]
    OBVIOUS
  <2>4. row \in WorkerRow /\ row.held = held /\ row.fresh = batch /\ row.pc = "idle"
    BY <1>2, <1>6, <2>1, <2>3 DEF WorkerRow
  <2>5. worker' = [worker EXCEPT ![w] = row]
    BY <2>2, <2>3 DEF Types
  <2> QED BY <2>4, <2>5 DEF Types
<1>9. Types' /\ Attempted'
  BY <1>1, <1>3, <1>4, <1>8 DEF Types, Attempted
<1>10. Leases'
  <2>1. ASSUME NEW v \in Mail!Workers, NEW j \in Mail!Jobs PROVE LeaseOK(v, j)'
    <3>1. LeaseOK(v, j) /\ job[j] \in JobRow /\ job'[j] \in JobRow
      BY <1>3 DEF Leases, Types
    <3>2. CASE v = w
      <4>1. job[j].claims + 1 <= job[j].claims + 1 /\ job[j].claims \in Nat
        BY <3>1 DEF JobRow, OutboxSetting
      <4> QED BY <1>3, <1>7, <1>8, <3>2, <4>1 DEF LeaseOK
    <3>3. CASE v # w
      <4>1. worker'[v] = worker[v]
        BY <1>8, <3>3
      <4>2. j \in worker[v].fresh => j \notin batch
        BY <1>2, <3>1 DEF LeaseOK
      <4>3. worker[v].held[j] # None => worker[v].held[j].token \in Nat
        BY DEF Types, WorkerRow, Mail!Lease
      <4>4. job[j].claims \in Nat /\ job'[j].claims \in Nat /\ job[j].claims <= job'[j].claims
        BY <1>3, <3>1 DEF JobRow
      <4> QED BY <1>3, <3>1, <4>1, <4>2, <4>3, <4>4 DEF LeaseOK
    <3> QED BY <3>2, <3>3
  <2> QED BY <2>1 DEF Leases
<1>11. Tokens'
  <2>1. ASSUME NEW j \in Mail!Jobs, NEW v \in Mail!Workers, v # w, worker[v].held[j] # None, held[j] # None
        PROVE  worker[v].held[j].token # held[j].token
    <3>1. worker[v].held[j].token <= job[j].claims /\ held[j].token = job[j].claims + 1
      BY <1>7, <2>1 DEF Leases, LeaseOK
    <3>2. job[j].claims \in Nat /\ worker[v].held[j].token \in Nat
      BY <2>1 DEF Types, JobRow, WorkerRow, Mail!Lease
    <3> QED BY <3>1, <3>2
  <2> QED BY <1>8, <2>1 DEF Tokens
<1>12. AtHeld'
  BY <1>8 DEF AtHeld, Mail!Held
<1>13. TicketsOK'
  <2>1. ASSUME NEW j \in Tickets, NEW v \in Mail!Workers PROVE TicketOK(v, j)'
    <3>1. TicketOK(v, j) /\ j \in Mail!Jobs /\ job[j].delivery = 0
      BY DEF TicketsOK, Mail!Jobs
    <3>2. CASE v = w
      <4>1. worker'[v].held[j] # None => j \in batch
        BY <1>7, <1>8, <3>1, <3>2
      <4>2. j \in batch => w \notin LifecycleWorkers /\ held[j].delivery = 0
        BY <1>2, <1>7, <3>1
      <4>3. worker'[v].held = held /\ worker'[v].pc = "idle"
        BY <1>8, <3>2
      <4> QED BY <3>2, <4>1, <4>2, <4>3 DEF TicketOK
    <3>3. CASE v # w
      <4>1. worker'[v] = worker[v] /\ UNCHANGED <<moot, mail>>
        BY <1>1, <1>8, <3>3
      <4> QED BY <3>1, <4>1 DEF TicketOK
    <3> QED BY <3>2, <3>3
  <2> QED BY <1>3, <2>1 DEF TicketsOK, Mail!Jobs
<1>14. Mail!OneCopy' /\ Mail!TicketsAreSent'
  BY <1>1, <1>3 DEF Mail!OneCopy, Mail!TicketsAreSent, Mail!Jobs
<1> QED BY <1>9, <1>10, <1>11, <1>12, <1>13, <1>14

\* The mailbox only grows, by no second copy of a keyed delivery.
MailGrows ==
    /\ mail' \in [Mail!Jobs -> [Mail!Deliveries -> 0..2]] /\ Mail!OneCopy'
    /\ \A j \in Tickets : mail[j][0] > 0 => mail'[j][0] > 0

\* The worker keeps its leases or gives some up, and is about to mark a ticket delivery sent only
\* with reason.
RowMayBe(w, x) ==
    /\ \A j \in Mail!Jobs : x.held[j] \in {None, worker[w].held[j]}
    /\ \A j \in x.fresh : j \in worker[w].fresh /\ x.held[j] # None
    /\ x.pc # "idle" => x.at \in Mail!Jobs /\ x.held[x.at] # None
    /\ \A j \in Tickets : x.pc = "finish" /\ x.at = j /\ ~x.failed => mail'[j][0] > 0 \/ moot[j]

\* A step of a worker on its own row and the mailbox.
LEMMA StepKeeps ==
  ASSUME OutboxSetting, OutboxInv, NEW w \in Mail!Workers, NEW x \in WorkerRow,
         worker' = [worker EXCEPT ![w] = x], UNCHANGED <<job, moot>>, MailGrows, RowMayBe(w, x)
  PROVE  OutboxInv'
<1> USE DEF OutboxInv, MailGrows, RowMayBe
<1>1. worker'[w] = x /\ \A v \in Mail!Workers \ {w} : worker'[v] = worker[v]
  BY DEF Types
<1>2. Types' /\ Attempted'
  BY DEF Types, Attempted
<1>3. Leases'
  <2>1. ASSUME NEW v \in Mail!Workers, NEW j \in Mail!Jobs PROVE LeaseOK(v, j)'
    <3>1. LeaseOK(v, j)
      BY DEF Leases
    <3> QED BY <1>1, <3>1 DEF LeaseOK
  <2> QED BY <2>1 DEF Leases
<1>4. Tokens'
  <2>1. \A v \in Mail!Workers, j \in Mail!Jobs : worker'[v].held[j] \in {None, worker[v].held[j]}
    BY <1>1
  <2> QED BY <2>1 DEF Tokens
<1>5. AtHeld'
  BY <1>1 DEF AtHeld, Mail!Held
<1>6. TicketsOK'
  <2>1. ASSUME NEW j \in Tickets, NEW v \in Mail!Workers PROVE TicketOK(v, j)'
    <3>1. TicketOK(v, j) /\ j \in Mail!Jobs
      BY DEF TicketsOK, Mail!Jobs
    <3>2. CASE v = w
      BY <1>1, <3>1, <3>2 DEF TicketOK
    <3>3. CASE v # w
      BY <1>1, <3>1, <3>3 DEF TicketOK
    <3> QED BY <3>2, <3>3
  <2> QED BY <2>1 DEF TicketsOK
<1>7. Mail!TicketsAreSent'
  BY DEF Mail!TicketsAreSent
<1> QED BY <1>2, <1>3, <1>4, <1>5, <1>6, <1>7

\* A worker at work has a job, and a lease of it.
LEMMA Working ==
  ASSUME OutboxInv, NEW w \in Mail!Workers, worker[w].pc # "idle"
  PROVE  /\ worker[w] \in WorkerRow /\ worker[w].at \in Mail!Jobs
         /\ worker[w].held[worker[w].at] # None /\ worker[w].held[worker[w].at] \in Mail!Lease
<1>1. worker[w] \in WorkerRow /\ worker[w].at \in Mail!Held(w)
  BY DEF OutboxInv, Types, AtHeld
<1> QED BY <1>1 DEF Mail!Held, WorkerRow

\* What a worker of the invariant holds fresh it holds.
LEMMA FreshHeld ==
  ASSUME OutboxInv, NEW w \in Mail!Workers
  PROVE  worker[w] \in WorkerRow /\ \A j \in worker[w].fresh : j \in Mail!Jobs /\ worker[w].held[j] # None
<1>1. worker[w] \in WorkerRow /\ \A j \in Mail!Jobs : LeaseOK(w, j)
  BY DEF OutboxInv, Types, Leases
<1> QED BY <1>1 DEF LeaseOK, WorkerRow

\* Going on to another step with the same leases.
LEMMA PutKeeps ==
  ASSUME OutboxSetting, OutboxInv, NEW w \in Mail!Workers, worker[w].pc # "idle",
         NEW pc \in {"send", "finish"}, NEW failed \in BOOLEAN, Mail!Put(w, pc, failed),
         UNCHANGED <<job, moot>>, MailGrows,
         worker[w].at \in Tickets /\ pc = "finish" /\ ~failed =>
             mail'[worker[w].at][0] > 0 \/ moot[worker[w].at]
  PROVE  OutboxInv'
<1>1. PICK x : x = [worker[w] EXCEPT !.pc = pc, !.failed = failed]
  OBVIOUS
<1>2. /\ x \in WorkerRow /\ x.held = worker[w].held /\ x.fresh = worker[w].fresh
      /\ x.at = worker[w].at /\ x.pc = pc /\ x.failed = failed
  BY <1>1, FreshHeld DEF WorkerRow
<1>3. worker' = [worker EXCEPT ![w] = x]
  BY <1>1 DEF Mail!Put, OutboxInv, Types
<1>4. x.pc # "idle" => x.at \in Mail!Jobs /\ x.held[x.at] # None
  BY <1>2, Working
<1>5. \A j \in x.fresh : j \in worker[w].fresh /\ x.held[j] # None
  BY <1>2, FreshHeld
<1>6. \A j \in Mail!Jobs : x.held[j] \in {None, worker[w].held[j]}
  BY <1>2
<1>7. \A j \in Tickets : x.pc = "finish" /\ x.at = j /\ ~x.failed => mail'[j][0] > 0 \/ moot[j]
  BY <1>2
<1>8. x \in WorkerRow /\ RowMayBe(w, x)
  BY <1>2, <1>4, <1>5, <1>6, <1>7 DEF RowMayBe
<1> QED BY <1>3, <1>8, StepKeeps

\* A worker that gives its batch up, or dies.
LEMMA GivesUp ==
  ASSUME OutboxSetting, OutboxInv, NEW w \in Mail!Workers, worker' = [worker EXCEPT ![w] = Mail!Nobody],
         UNCHANGED <<job, moot, mail>>
  PROVE  OutboxInv'
<1>1. PICK x : x = Mail!Nobody
  OBVIOUS
<1>2. /\ x \in WorkerRow /\ x.fresh = {} /\ x.pc = "idle"
      /\ \A j \in Mail!Jobs : x.held[j] = None
  BY <1>1 DEF Mail!Nobody, WorkerRow
<1>3. MailGrows
  BY DEF OutboxInv, Types, Mail!OneCopy, MailGrows
<1>4. RowMayBe(w, x)
  BY <1>2 DEF RowMayBe
<1> QED BY <1>1, <1>2, <1>3, <1>4, StepKeeps

\* The next job of the batch, and what the worker reads of it.
LEMMA TurnReadKeep ==
  ASSUME OutboxSetting, OutboxInv, NEW w \in Mail!Workers, Mail!Turn(w) \/ Mail!Read(w)
  PROVE  OutboxInv'
<1>1. UNCHANGED <<job, moot, mail>>
  BY DEF Mail!Turn, Mail!Read
<1>2. MailGrows
  BY <1>1 DEF OutboxInv, Types, Mail!OneCopy, MailGrows
<1>3. CASE Mail!Turn(w)
  <2>1. PICK j \in Mail!Held(w) : worker' = [worker EXCEPT ![w].at = j, ![w].pc = "read", ![w].failed = FALSE]
    BY <1>3 DEF Mail!Turn
  <2>2. PICK x : x = [worker[w] EXCEPT !.at = j, !.pc = "read", !.failed = FALSE]
    OBVIOUS
  <2>3. /\ x \in WorkerRow /\ x.held = worker[w].held /\ x.fresh = worker[w].fresh
        /\ x.at = j /\ x.pc = "read"
    BY <2>2, FreshHeld DEF WorkerRow, Mail!Held
  <2>4. worker' = [worker EXCEPT ![w] = x]
    BY <2>1, <2>2 DEF OutboxInv, Types
  <2>5. \A k \in x.fresh : k \in worker[w].fresh /\ x.held[k] # None
    BY <2>3, FreshHeld
  <2>6. RowMayBe(w, x)
    BY <2>3, <2>5 DEF RowMayBe, Mail!Held
  <2> QED BY <1>1, <1>2, <2>3, <2>4, <2>6, StepKeeps
<1>4. CASE Mail!Read(w)
  <2>1. PICK read \in BOOLEAN :
          /\ worker[w].pc = "read"
          /\ IF Mail!Skips(w, worker[w].at, read) THEN Mail!Put(w, "finish", FALSE)
             ELSE IF read THEN Mail!Put(w, "send", FALSE) ELSE Mail!Put(w, "finish", TRUE)
    BY <1>4 DEF Mail!Read
  <2>2. worker[w].at \in Tickets => w \notin LifecycleWorkers
    <3>1. worker[w].held[worker[w].at] # None
      BY <2>1, Working
    <3> QED BY <3>1 DEF OutboxInv, TicketsOK, TicketOK
  <2>3. worker[w].at \in Tickets /\ Mail!Skips(w, worker[w].at, read) => moot[worker[w].at]
    BY <2>2 DEF Mail!Skips
  <2>4. CASE Mail!Put(w, "finish", FALSE) /\ Mail!Skips(w, worker[w].at, read)
    BY <1>1, <1>2, <2>1, <2>3, <2>4, PutKeeps
  <2>5. CASE Mail!Put(w, "send", FALSE)
    BY <1>1, <1>2, <2>1, <2>5, PutKeeps
  <2>6. CASE Mail!Put(w, "finish", TRUE)
    BY <1>1, <1>2, <2>1, <2>6, PutKeeps
  <2> QED BY <2>1, <2>4, <2>5, <2>6
<1> QED BY <1>3, <1>4

\* A keyed delivery is accepted once; a ticket delivery that was heard to be accepted was.
LEMMA SendKeeps ==
  ASSUME OutboxSetting, OutboxInv, NEW w \in Mail!Workers, Mail!Send(w)
  PROVE  OutboxInv'
<1>1. PICK j, d : j = worker[w].at /\ d = worker[w].held[worker[w].at].delivery
  OBVIOUS
<1>2. PICK accepted \in BOOLEAN, heard \in BOOLEAN :
        /\ worker[w].pc = "send"
        /\ mail' = IF ~accepted \/ d \in Mail!Keyed(j) \/ mail[j][d] = 2 THEN mail
                   ELSE [mail EXCEPT ![j][d] = @ + 1]
        /\ Mail!Put(w, "finish", ~(accepted /\ heard))
        /\ UNCHANGED <<job, moot>>
  BY <1>1 DEF Mail!Send
<1>3. j \in Mail!Jobs /\ d \in Mail!Deliveries /\ (j \in Tickets => d = 0)
  <2>1. j \in Mail!Jobs /\ worker[w].held[j] # None /\ worker[w].held[j] \in Mail!Lease
    BY <1>1, <1>2, Working
  <2> QED BY <1>1, <2>1 DEF Mail!Lease, OutboxInv, TicketsOK, TicketOK
<1>4. mail[j] \in [Mail!Deliveries -> 0..2] /\ mail[j][d] \in 0..2
  BY <1>3 DEF OutboxInv, Types
<1>5. \/ mail' = mail /\ (accepted => mail[j][d] > 0)
      \/ /\ mail' = [mail EXCEPT ![j][d] = mail[j][d] + 1] /\ mail[j][d] # 2
         /\ j \in Notices \cup Screenings => mail[j][d] = 0
  BY <1>2, <1>3, <1>4 DEF Mail!Keyed
<1>6. /\ mail' \in [Mail!Jobs -> [Mail!Deliveries -> 0..2]]
      /\ \A k \in Mail!Jobs, e \in Mail!Deliveries : mail[k][e] > 0 => mail'[k][e] > 0
      /\ accepted => mail'[j][d] > 0
      /\ \A k \in Mail!Jobs, e \in Mail!Deliveries :
             mail'[k][e] # mail[k][e] => k = j /\ e = d /\ mail'[k][e] = mail[k][e] + 1
      /\ j \in Notices \cup Screenings => mail'[j][d] = mail[j][d] \/ mail[j][d] = 0
  <2>1. CASE mail' = mail /\ (accepted => mail[j][d] > 0)
    BY <2>1 DEF OutboxInv, Types
  <2>2. CASE /\ mail' = [mail EXCEPT ![j][d] = mail[j][d] + 1] /\ mail[j][d] # 2
             /\ j \in Notices \cup Screenings => mail[j][d] = 0
    <3>1. PICK row : row = [mail[j] EXCEPT ![d] = mail[j][d] + 1]
      OBVIOUS
    <3>2. mail[j][d] + 1 \in 0..2 /\ mail[j][d] + 1 > 0
      BY <1>4, <2>2
    <3>3. /\ row \in [Mail!Deliveries -> 0..2] /\ row[d] = mail[j][d] + 1
          /\ \A e \in Mail!Deliveries \ {d} : row[e] = mail[j][e]
      BY <1>3, <1>4, <3>1, <3>2
    <3>4. mail' = [mail EXCEPT ![j] = row]
      BY <2>2, <3>1 DEF OutboxInv, Types
    <3>5. /\ mail' \in [Mail!Jobs -> [Mail!Deliveries -> 0..2]] /\ mail'[j] = row
          /\ \A k \in Mail!Jobs \ {j} : mail'[k] = mail[k]
      BY <1>3, <3>3, <3>4 DEF OutboxInv, Types
    <3> QED BY <1>3, <2>2, <3>2, <3>3, <3>5
  <2> QED BY <1>5, <2>1, <2>2
<1>7. Mail!OneCopy'
  <2>1. ASSUME NEW k \in Notices \cup Screenings, NEW e \in Mail!Deliveries PROVE mail'[k][e] <= 1
    <3>1. k \in Mail!Jobs /\ mail[k][e] <= 1
      BY DEF Mail!Jobs, OutboxInv, Mail!OneCopy
    <3>2. CASE mail'[k][e] = mail[k][e]
      BY <3>1, <3>2
    <3>3. CASE mail'[k][e] # mail[k][e]
      <4>1. k = j /\ e = d /\ mail'[k][e] = mail[k][e] + 1
        BY <1>6, <3>1, <3>3
      <4>2. mail[k][e] = 0
        BY <1>6, <3>3, <4>1
      <4> QED BY <4>1, <4>2
    <3> QED BY <3>2, <3>3
  <2> QED BY <2>1 DEF Mail!OneCopy
<1>8. 0 \in Mail!Deliveries /\ Tickets \subseteq Mail!Jobs
  BY DEF Mail!Deliveries, OutboxSetting, Mail!Jobs
<1>9. /\ \A k \in Tickets : mail[k][0] > 0 => mail'[k][0] > 0
      /\ j \in Tickets /\ accepted => mail'[j][0] > 0
  BY <1>3, <1>6, <1>8
<1>10. MailGrows
  BY <1>6, <1>7, <1>9 DEF MailGrows
<1> QED BY <1>1, <1>2, <1>9, <1>10, PutKeeps

\* A finish counts under the worker's own lease, which then is nobody's.
LEMMA FinishKeeps ==
  ASSUME OutboxSetting, OutboxInv, NEW w \in Mail!Workers, Mail!Finish(w)
  PROVE  OutboxInv'
<1> USE DEF OutboxInv
<1>1. PICK j : j = worker[w].at
  OBVIOUS
<1>2. CASE ~Mail!Finishes(w, j)
  BY <1>1, <1>2, GivesUp DEF Mail!Finish
<1>3. CASE Mail!Finishes(w, j)
  <2>1. PICK done : done = ~worker[w].failed
    OBVIOUS
  <2>2. /\ worker[w].pc = "finish" /\ job[j].token = worker[w].held[j].token
        /\ job' = [job EXCEPT ![j].sent = done, ![j].due = done, ![j].token = 0, ![j].leased = FALSE]
        /\ worker' = [worker EXCEPT ![w].held[j] = None, ![w].fresh = @ \ {j}, ![w].at = None,
                                    ![w].pc = "idle", ![w].failed = FALSE]
        /\ UNCHANGED <<moot, mail>>
    BY <1>1, <1>3, <2>1 DEF Mail!Finish, Mail!Finishes
  <2>3. /\ worker[w] \in WorkerRow /\ j \in Mail!Jobs /\ worker[w].held[j] # None /\ job[j] \in JobRow
        /\ done \in BOOLEAN
    BY <1>1, <2>1, <2>2, Working DEF Types, WorkerRow
  <2>4. PICK row : row = [job[j] EXCEPT !.sent = done, !.due = done, !.token = 0, !.leased = FALSE]
    OBVIOUS
  <2>5. /\ row \in JobRow /\ row.sent = done /\ row.leased = FALSE
        /\ row.attempts = job[j].attempts /\ row.claims = job[j].claims
        /\ row.delivery = job[j].delivery
    <3>1. 0 \in 0..MaxClaims
      BY DEF OutboxSetting
    <3>2. PICK old \in JobRow : old = job[j]
      BY <2>3
    <3>3. row = [old EXCEPT !.sent = done, !.due = done, !.token = 0, !.leased = FALSE]
      BY <2>4, <3>2
    <3> QED BY <2>3, <3>1, <3>2, <3>3 DEF JobRow
  <2>6. /\ job' \in [Mail!Jobs -> JobRow] /\ job'[j] = row
        /\ \A k \in Mail!Jobs \ {j} : job'[k] = job[k]
    <3>1. job' = [job EXCEPT ![j] = row]
      BY <2>2, <2>4 DEF Types
    <3> QED BY <2>3, <2>5, <3>1 DEF Types
  <2>7. PICK x : x = [worker[w] EXCEPT !.held = [@ EXCEPT ![j] = None], !.fresh = @ \ {j}, !.at = None,
                                       !.pc = "idle", !.failed = FALSE]
    OBVIOUS
  <2>8. /\ x \in WorkerRow /\ x.pc = "idle" /\ x.fresh = worker[w].fresh \ {j} /\ x.held[j] = None
        /\ \A k \in Mail!Jobs \ {j} : x.held[k] = worker[w].held[k]
    BY <2>3, <2>7 DEF WorkerRow
  <2>9. worker' = [worker EXCEPT ![w] = x]
    BY <2>2, <2>7 DEF Types
  <2>10. /\ worker' \in [Mail!Workers -> WorkerRow] /\ worker'[w] = x
         /\ \A v \in Mail!Workers \ {w} : worker'[v] = worker[v]
    BY <2>8, <2>9 DEF Types
  <2>11. \A k \in Mail!Jobs : /\ job'[k].attempts = job[k].attempts /\ job'[k].claims = job[k].claims
                              /\ job'[k].delivery = job[k].delivery
    BY <2>5, <2>6
  <2>12. \A v \in Mail!Workers, k \in Mail!Jobs : worker'[v].held[k] \in {None, worker[v].held[k]}
    BY <2>8, <2>10
  <2>13. Types' /\ Attempted' /\ Tokens'
    <3>1. Types' /\ Attempted'
      <4>1. UNCHANGED <<moot, mail>>
        BY <2>2
      <4> QED BY <2>6, <2>10, <2>11, <4>1 DEF Types, Attempted
    <3>2. Tokens'
      BY <2>12 DEF Tokens
    <3> QED BY <3>1, <3>2
  <2>14. Leases'
    <3>1. ASSUME NEW v \in Mail!Workers, NEW k \in Mail!Jobs PROVE LeaseOK(v, k)'
      <4>1. LeaseOK(v, k)
        BY DEF Leases
      <4>2. k \in worker'[v].fresh => k \in worker[v].fresh /\ k # j /\ worker'[v].held[k] = worker[v].held[k]
        <5>1. CASE v = w
          BY <2>8, <2>10, <5>1
        <5>2. CASE v # w
          <6>1. j \notin worker[v].fresh
            BY <2>2, <2>3, <5>2 DEF Leases, LeaseOK, Tokens
          <6> QED BY <2>10, <5>2, <6>1
        <5> QED BY <5>1, <5>2
      <4>3. k # j => job'[k] = job[k]
        BY <2>6
      <4> QED BY <2>11, <2>12, <4>1, <4>2, <4>3 DEF LeaseOK
    <3> QED BY <3>1 DEF Leases
  <2>15. AtHeld'
    BY <2>8, <2>10 DEF AtHeld, Mail!Held
  <2>16. TicketsOK'
    <3>1. ASSUME NEW k \in Tickets, NEW v \in Mail!Workers PROVE TicketOK(v, k)'
      <4>1. TicketOK(v, k) /\ k \in Mail!Jobs
        BY DEF TicketsOK, Mail!Jobs
      <4>2. v # w => worker'[v] = worker[v]
        BY <2>10
      <4>3. UNCHANGED <<moot, mail>>
        BY <2>2
      <4>4. CASE v = w
        <5>1. worker'[v].pc = "idle"
          BY <2>8, <2>10, <4>4
        <5>2. worker'[v].held[k] # None => worker'[v].held[k] = worker[v].held[k]
          BY <2>12, <4>1
        <5> QED BY <4>1, <5>1, <5>2 DEF TicketOK
      <4>5. CASE v # w
        BY <4>1, <4>2, <4>3, <4>5 DEF TicketOK
      <4> QED BY <4>4, <4>5
    <3> QED BY <2>11, <3>1 DEF TicketsOK, Mail!Jobs
  <2>17. Mail!OneCopy'
    BY <2>2 DEF Mail!OneCopy
  <2>18. Mail!TicketsAreSent'
    <3>1. j \in Tickets /\ done => mail[j][0] > 0 \/ moot[j]
      BY <1>1, <2>1, <2>2 DEF TicketsOK, TicketOK
    <3> QED BY <2>2, <2>5, <2>6, <3>1 DEF Mail!TicketsAreSent, Mail!Jobs
  <2> QED BY <2>13, <2>14, <2>15, <2>16, <2>17, <2>18
<1> QED BY <1>2, <1>3
----------------------------------------------------------------------------
(* The theorems about the outboxes. *)

\* The initial states satisfy the invariant.
LEMMA OutboxInitially ==
  ASSUME OutboxSetting, Mail!Init
  PROVE  OutboxInv
<1>1. 0 \in 0..MaxClaims /\ 0 \in Mail!Deliveries /\ 0 \in 0..2
  BY DEF OutboxSetting, Mail!Deliveries
<1>2. Types
  BY <1>1 DEF Mail!Init, Types, JobRow, WorkerRow, Mail!Nobody
<1>3. /\ \A w \in Mail!Workers : worker[w].pc = "idle" /\ worker[w].fresh = {}
      /\ \A w \in Mail!Workers, j \in Mail!Jobs : worker[w].held[j] = None
  BY DEF Mail!Init, Mail!Nobody
<1>4. /\ \A j \in Mail!Jobs : job[j].attempts = 0 /\ job[j].claims = 0 /\ ~job[j].sent /\ job[j].delivery = 0
      /\ \A j \in Mail!Jobs, d \in Mail!Deliveries : mail[j][d] = 0
  BY DEF Mail!Init
<1>5. Attempted /\ Leases /\ Tokens /\ AtHeld
  BY <1>3, <1>4 DEF Attempted, Leases, LeaseOK, Tokens, AtHeld
<1>6. TicketsOK /\ Mail!OneCopy /\ Mail!TicketsAreSent
  BY <1>3, <1>4 DEF TicketsOK, TicketOK, Mail!OneCopy, Mail!TicketsAreSent, Mail!Jobs
<1> QED BY <1>2, <1>5, <1>6 DEF OutboxInv

\* Every step of the outboxes keeps the invariant.
LEMMA OutboxInductive ==
  ASSUME OutboxSetting, OutboxInv, [Mail!Next]_Mail!vars
  PROVE  OutboxInv'
<1>1. CASE UNCHANGED Mail!vars
  BY <1>1 DEF Mail!vars, OutboxInv, Types, Attempted, Leases, LeaseOK, Tokens, AtHeld, Mail!Held,
              TicketsOK, TicketOK,
              Mail!OneCopy, Mail!TicketsAreSent
<1>2. CASE \E j \in Mail!Jobs : Mail!Due(j) \/ Mail!LeaseRunsOut(j) \/ Mail!Overtaken(j) \/ Mail!Resend(j)
  BY <1>2, DueKeeps, LeaseKeeps, OvertakenKeeps, ResendKeeps
<1>3. CASE \E w \in Mail!Workers :
             \/ Mail!Claim(w) \/ Mail!Turn(w) \/ Mail!Read(w)
             \/ Mail!Send(w) \/ Mail!Finish(w) \/ Mail!Crash(w)
  BY <1>3, ClaimKeeps, TurnReadKeep, SendKeeps, FinishKeeps, GivesUp DEF Mail!Crash
<1> QED BY <1>1, <1>2, <1>3 DEF Mail!Next

\* Rows, leases, the mailbox and the workers agree in every state of the three workers, however
\* leases run out, workers crash and mails are sent again.
THEOREM OutboxInvariance ==
  ASSUME OutboxSetting
  PROVE  Mail!Spec => []OutboxInv
<1>1. Mail!Init => OutboxInv
  BY OutboxInitially
<1>2. OutboxInv /\ [Mail!Next]_Mail!vars => OutboxInv'
  BY OutboxInductive
<1> QED BY <1>1, <1>2, PTL DEF Mail!Spec

\* The instance's Cardinality is that of FiniteSets.
LEMMA SameCardinality ==
  ASSUME NEW S
  PROVE  Mail!Cardinality(S) = Cardinality(S)
BY DEF Mail!Cardinality, Cardinality

\* Two fresh holders of a job would hold the row's token both.
LEMMA FreshHolders ==
  ASSUME OutboxInv
  PROVE  Mail!OneSender
<1>1. ASSUME NEW j \in Mail!Jobs, NEW S, S = {w \in Mail!Workers : j \in worker[w].fresh}
      PROVE  Cardinality(S) <= 1
  <2>1. \A w, v \in S : w = v
    BY <1>1 DEF OutboxInv, Leases, LeaseOK, Tokens
  <2>2. CASE S = {}
    BY <2>2, FS_EmptySet
  <2>3. CASE S # {}
    <3>1. PICK w \in S : TRUE
      BY <2>3
    <3>2. S = {w}
      BY <2>1, <3>1
    <3>3. Cardinality(S) = 1
      BY <3>2, FS_Singleton
    <3> QED BY <3>3
  <2> QED BY <2>2, <2>3
<1> QED BY <1>1, SameCardinality DEF Mail!OneSender
----------------------------------------------------------------------------
(* Race-kit pickup. *)

ReleaseRow == [entry : Entries, kit : Kit!Kits, reviewed : Kit!Kits, reversed : BOOLEAN]
ReviewRow == [entry : Entries, kit : Kit!Kits, release : Requests \cup {None},
              request : Requests, try : 0..Tries, busy : BOOLEAN]
EntryRow == [status : {"paid", "refunded"}, shirt : Sizes]

\* The inductive invariant: the property itself, with the types.
KitInv == Kit!TypeOK /\ Kit!KitsMatch

\* A release of the table is a row of it.
LEMMA ReleaseIsRow ==
  ASSUME KitSetting, Kit!TypeOK, NEW q \in Requests
  PROVE  /\ release[q] # Kit!NoRelease => release[q] \in ReleaseRow
         /\ \A row \in ReleaseRow : row # Kit!NoRelease
<1>1. Kit!NoRelease.entry = None
  BY DEF Kit!NoRelease
<1>2. \A row \in ReleaseRow : row.entry # None
  BY DEF ReleaseRow, KitSetting
<1> QED BY <1>1, <1>2 DEF Kit!TypeOK, ReleaseRow

\* The same of the review dialogs.
LEMMA ReviewIsRow ==
  ASSUME KitSetting, Kit!TypeOK, NEW d \in Desks
  PROVE  /\ desk[d] # Kit!NoReview => desk[d] \in ReviewRow
         /\ desk[d].busy => desk[d] # Kit!NoReview
  BY DEF Kit!TypeOK, ReviewRow, Kit!NoReview

\* Nothing happens to kits, releases and shirts.
LEMMA KitsStay ==
  ASSUME Kit!KitsMatch, UNCHANGED <<release, entry>>
  PROVE  Kit!KitsMatch'
BY DEF Kit!KitsMatch, Kit!Active, Kit!ActiveOf

\* An edited shirt is of an entry without a kit; a refund changes no shirt.
LEMMA EntryKeepsKits ==
  ASSUME KitSetting, KitInv, Kit!EntryStep
  PROVE  KitInv'
<1> USE DEF KitInv
<1>1. CASE Kit!RenameAddon
  BY <1>1, KitsStay DEF Kit!RenameAddon, Kit!TypeOK
<1>2. ASSUME NEW e \in Entries, Kit!EditShirt(e) PROVE KitInv'
  <2>1. PICK size \in Sizes : entry' = [entry EXCEPT ![e].shirt = size]
    BY <1>2 DEF Kit!EditShirt
  <2>2. Kit!ActiveOf(e) = {} /\ UNCHANGED <<addon, entryRefund, release, desk, calls>>
    BY <1>2 DEF Kit!EditShirt, Kit!Editable
  <2>3. entry' \in [Entries -> EntryRow] /\ \A f \in Entries \ {e} : entry'[f] = entry[f]
    BY <2>1 DEF Kit!TypeOK, EntryRow
  <2>4. Kit!TypeOK'
    BY <2>2, <2>3 DEF Kit!TypeOK, EntryRow
  <2>5. Kit!KitsMatch'
    <3>1. \A q \in Requests : Kit!Active(q) => release[q].entry # e /\ release[q].entry \in Entries
      BY <2>2, ReleaseIsRow DEF Kit!ActiveOf, Kit!Active, ReleaseRow
    <3>2. /\ \A q \in Requests : Kit!Active(q)' <=> Kit!Active(q)
          /\ \A f : Kit!ActiveOf(f)' = Kit!ActiveOf(f)
      BY <2>2 DEF Kit!Active, Kit!ActiveOf
    <3> QED BY <2>2, <2>3, <3>1, <3>2 DEF Kit!KitsMatch
  <2> QED BY <2>4, <2>5
<1>3. ASSUME NEW e \in Entries, Kit!ClaimRefund(e) PROVE KitInv'
  BY <1>3, KitsStay DEF Kit!ClaimRefund, Kit!TypeOK
<1>4. ASSUME NEW e \in Entries, Kit!AnswerRefund(e) PROVE KitInv'
  <2>1. PICK st \in {"succeeded", "failed", "review"} :
          /\ entryRefund' = [entryRefund EXCEPT ![e] = st]
          /\ entry' = [entry EXCEPT ![e].status = IF st = "succeeded" THEN "refunded" ELSE @]
    BY <1>4 DEF Kit!AnswerRefund
  <2>2. UNCHANGED <<addon, release, desk, calls>>
    BY <1>4 DEF Kit!AnswerRefund
  <2>3. entry' \in [Entries -> EntryRow] /\ \A f \in Entries : entry'[f].shirt = entry[f].shirt
    BY <2>1 DEF Kit!TypeOK, EntryRow
  <2>4. Kit!TypeOK'
    BY <2>1, <2>2, <2>3 DEF Kit!TypeOK, EntryRow
  <2>5. Kit!KitsMatch'
    <3>1. \A q \in Requests : Kit!Active(q) => release[q].entry \in Entries
      BY ReleaseIsRow DEF Kit!Active, ReleaseRow
    <3>2. /\ \A q \in Requests : Kit!Active(q)' <=> Kit!Active(q)
          /\ \A f : Kit!ActiveOf(f)' = Kit!ActiveOf(f)
      BY <2>2 DEF Kit!Active, Kit!ActiveOf
    <3> QED BY <2>2, <2>3, <3>1, <3>2 DEF Kit!KitsMatch
  <2> QED BY <2>4, <2>5
<1> QED BY <1>1, <1>2, <1>3, <1>4 DEF Kit!EntryStep

\* kit_release_tx gives out the reviewed kit of an entry that has none out.
LEMMA ReleaseKeepsKits ==
  ASSUME KitSetting, KitInv, NEW c \in Kit!Calls, Kit!ReleaseKit(c), UNCHANGED entry
  PROVE  /\ release' \in [Requests -> {Kit!NoRelease} \cup ReleaseRow]
         /\ Kit!KitsMatch'
<1> USE DEF KitInv
<1>1. PICK e, q, row : /\ e = c.entry /\ q = c.request
                       /\ row = [entry |-> e, kit |-> Kit!Snapshot(e), reviewed |-> c.kit, reversed |-> FALSE]
  OBVIOUS
<1>2. e \in Entries /\ q \in Requests /\ c.kit \in Kit!Kits
  BY <1>1 DEF Kit!Calls
<1>3. /\ Kit!ActiveOf(e) = {} /\ Kit!Snapshot(e) = c.kit
      /\ release' = [release EXCEPT ![q] = row]
  BY <1>1 DEF Kit!ReleaseKit, Kit!Released, Kit!Matches
<1>4. row \in ReleaseRow /\ row # Kit!NoRelease
  BY <1>1, <1>2, <1>3, ReleaseIsRow DEF ReleaseRow
<1>5. release'[q] = row /\ \A p \in Requests \ {q} : release'[p] = release[p]
  BY <1>2, <1>3 DEF Kit!TypeOK
<1>6. release' \in [Requests -> {Kit!NoRelease} \cup ReleaseRow]
  BY <1>3, <1>4 DEF Kit!TypeOK, ReleaseRow
<1>7. row.entry = e /\ row.kit = c.kit /\ row.reviewed = c.kit /\ ~row.reversed /\ row.kit.shirt = entry[e].shirt
  BY <1>1, <1>3 DEF Kit!Snapshot
<1>8. \A p \in Requests : Kit!Active(p)' <=> p = q \/ Kit!Active(p)
  BY <1>4, <1>5, <1>7 DEF Kit!Active
<1>9. \A p \in Requests : Kit!Active(p) => release[p].entry # e
  BY <1>3 DEF Kit!ActiveOf
<1>10. Kit!ActiveOf(e)' = {q}
  BY <1>2, <1>5, <1>7, <1>8, <1>9 DEF Kit!ActiveOf
<1>11. ASSUME NEW p \in Requests, Kit!Active(p), p # q
       PROVE  Kit!ActiveOf(release[p].entry)' = {p}
  <2>1. release[p].entry # e /\ Kit!ActiveOf(release[p].entry) = {p}
    BY <1>9, <1>11 DEF Kit!KitsMatch
  <2> QED BY <1>5, <1>7, <1>8, <1>11, <2>1 DEF Kit!ActiveOf
<1>12. Kit!KitsMatch'
  <2>1. ASSUME NEW p \in Requests, Kit!Active(p)'
        PROVE  /\ release'[p].kit = release'[p].reviewed
               /\ release'[p].kit.shirt = entry'[release'[p].entry].shirt
               /\ Kit!ActiveOf(release[p].entry)' = {p}
    <3>1. CASE p = q
      BY <1>5, <1>7, <1>10, <3>1 DEF Kit!ActiveOf
    <3>2. CASE p # q
      BY <1>5, <1>8, <1>11, <2>1, <3>2 DEF Kit!KitsMatch, Kit!ActiveOf
    <3> QED BY <3>1, <3>2
  <2> QED BY <2>1 DEF Kit!KitsMatch, Kit!ActiveOf
<1> QED BY <1>6, <1>12

\* kit_release_reverse_tx only takes a release from the active ones.
LEMMA ReverseKeepsKits ==
  ASSUME KitSetting, KitInv, NEW c \in Kit!Calls, c.release # None, Kit!ReverseRelease(c), UNCHANGED entry
  PROVE  /\ release' \in [Requests -> {Kit!NoRelease} \cup ReleaseRow]
         /\ Kit!KitsMatch'
<1> USE DEF KitInv
<1>1. PICK q : q = c.release
  OBVIOUS
<1>2. q \in Requests /\ Kit!Active(q) /\ release' = [release EXCEPT ![q].reversed = TRUE]
  BY <1>1 DEF Kit!Calls, Kit!ReverseRelease
<1>3. release[q] \in ReleaseRow
  BY <1>2, ReleaseIsRow DEF Kit!Active
<1>4. PICK row : row = [release[q] EXCEPT !.reversed = TRUE]
  OBVIOUS
<1>5. row \in ReleaseRow /\ row.reversed
  BY <1>3, <1>4 DEF ReleaseRow
<1>6. release' = [release EXCEPT ![q] = row]
  BY <1>2, <1>4 DEF Kit!TypeOK
<1>7. /\ release' \in [Requests -> {Kit!NoRelease} \cup ReleaseRow]
      /\ release'[q] = row /\ \A p \in Requests \ {q} : release'[p] = release[p]
  <2>1. release \in [Requests -> {Kit!NoRelease} \cup ReleaseRow]
    BY DEF Kit!TypeOK, ReleaseRow
  <2> QED BY <1>2, <1>5, <1>6, <2>1
<1>8. \A p \in Requests : Kit!Active(p)' <=> p # q /\ Kit!Active(p)
  BY <1>5, <1>7 DEF Kit!Active
<1>9. ASSUME NEW p \in Requests, Kit!Active(p), p # q
      PROVE  Kit!ActiveOf(release[p].entry)' = {p}
  <2>1. Kit!ActiveOf(release[p].entry) = {p}
    BY <1>9 DEF Kit!KitsMatch
  <2>2. release'[p] = release[p] /\ \A o \in Requests \ {q} : release'[o] = release[o]
    BY <1>7, <1>9
  <2> QED BY <1>8, <1>9, <2>1, <2>2 DEF Kit!ActiveOf
<1>10. Kit!KitsMatch'
  BY <1>7, <1>8, <1>9 DEF Kit!KitsMatch, Kit!ActiveOf
<1> QED BY <1>7, <1>10

\* A call that runs, its answer, and a call that is lost.
LEMMA CallKeepsKits ==
  ASSUME KitSetting, KitInv, Kit!CallStep
  PROVE  KitInv'
<1> USE DEF KitInv
<1>1. PICK c \in calls : Kit!Run(c) \/ Kit!Lose(c)
  BY DEF Kit!CallStep
<1>2. c \in Kit!Calls
  BY DEF Kit!TypeOK
<1>3. CASE Kit!Lose(c)
  BY <1>3, KitsStay DEF Kit!Lose, Kit!TypeOK
<1>4. CASE Kit!Run(c)
  <2>1. /\ calls' = calls \ {c} /\ UNCHANGED <<entry, addon, entryRefund>>
        /\ \/ c.release = None /\ Kit!ReleaseKit(c)
           \/ c.release # None /\ Kit!ReverseRelease(c)
           \/ UNCHANGED release
    BY <1>4 DEF Kit!Run, Kit!Refused
  <2>2. release' \in [Requests -> {Kit!NoRelease} \cup ReleaseRow] /\ Kit!KitsMatch'
    <3>1. CASE UNCHANGED release
      BY <2>1, <3>1, KitsStay DEF Kit!TypeOK, ReleaseRow
    <3> QED BY <1>2, <2>1, <3>1, ReleaseKeepsKits, ReverseKeepsKits
  <2>3. desk' \in [Desks -> {Kit!NoReview} \cup ReviewRow]
    <3>1. CASE UNCHANGED desk
      BY <3>1 DEF Kit!TypeOK, ReviewRow
    <3>2. CASE ~UNCHANGED desk
      <4>1. PICK d \in Desks :
              /\ desk[d].busy
              /\ desk' = [desk EXCEPT ![d] = IF Kit!Answered(c) THEN Kit!NoReview ELSE [@ EXCEPT !.busy = FALSE]]
        BY <1>4, <3>2 DEF Kit!Run
      <4>2. desk[d] \in ReviewRow
        BY <4>1, ReviewIsRow
      <4>3. PICK row : row = IF Kit!Answered(c) THEN Kit!NoReview ELSE [desk[d] EXCEPT !.busy = FALSE]
        OBVIOUS
      <4>4. row \in {Kit!NoReview} \cup ReviewRow
        BY <4>2, <4>3 DEF ReviewRow
      <4>5. desk' = [desk EXCEPT ![d] = row]
        BY <4>1, <4>3
      <4> QED BY <4>4, <4>5 DEF Kit!TypeOK, ReviewRow
    <3> QED BY <3>1, <3>2
  <2>4. Kit!TypeOK'
    BY <2>1, <2>2, <2>3 DEF Kit!TypeOK, ReleaseRow, ReviewRow
  <2> QED BY <2>2, <2>4
<1> QED BY <1>1, <1>3, <1>4

\* A dialog hands nothing out.
LEMMA DeskKeepsKits ==
  ASSUME KitSetting, KitInv, Kit!DeskStep
  PROVE  KitInv'
<1> USE DEF KitInv
<1>1. PICK d \in Desks :
        Kit!Submit(d) \/ Kit!GiveUp(d) \/ Kit!Close(d) \/ \E e \in Entries : Kit!Open(d, e)
  BY DEF Kit!DeskStep
<1>2. Kit!KitsMatch' /\ UNCHANGED <<entry, addon, entryRefund, release>>
  BY <1>1, KitsStay DEF Kit!Submit, Kit!GiveUp, Kit!Close, Kit!Open
<1>3. SUFFICES desk' \in [Desks -> {Kit!NoReview} \cup ReviewRow] /\ calls' \subseteq Kit!Calls
  BY <1>2 DEF Kit!TypeOK, ReviewRow
<1>4. ASSUME NEW row \in {Kit!NoReview} \cup ReviewRow, desk' = [desk EXCEPT ![d] = row]
      PROVE  desk' \in [Desks -> {Kit!NoReview} \cup ReviewRow]
  BY <1>4 DEF Kit!TypeOK, ReviewRow
<1>5. CASE Kit!Submit(d)
  <2>1. desk[d] \in ReviewRow /\ desk[d].try < Tries
    BY <1>5, ReviewIsRow DEF Kit!Submit
  <2>2. PICK old, n : old = desk[d] /\ n = desk[d].try + 1
    OBVIOUS
  <2>3. old \in ReviewRow /\ n \in 0..Tries /\ n \in 1..Tries
    BY <2>1, <2>2 DEF ReviewRow, KitSetting
  <2>4. PICK row : row = [old EXCEPT !.busy = TRUE, !.try = n]
    OBVIOUS
  <2>5. row \in ReviewRow
    BY <2>3, <2>4 DEF ReviewRow
  <2>6. desk' = [desk EXCEPT ![d] = row]
    BY <1>5, <2>2, <2>4 DEF Kit!Submit, Kit!TypeOK
  <2>7. calls' = calls \cup {[entry |-> old.entry, kit |-> old.kit, release |-> old.release,
                              request |-> old.request, try |-> n]}
    BY <1>5, <2>2 DEF Kit!Submit
  <2>8. calls' \subseteq Kit!Calls
    BY <2>3, <2>7 DEF Kit!TypeOK, Kit!Calls, ReviewRow
  <2> QED BY <1>4, <2>5, <2>6, <2>8
<1>6. CASE Kit!GiveUp(d)
  <2>1. desk[d] \in ReviewRow /\ UNCHANGED calls
    BY <1>6, ReviewIsRow DEF Kit!GiveUp
  <2>2. PICK row : row = [desk[d] EXCEPT !.busy = FALSE]
    OBVIOUS
  <2>3. row \in ReviewRow
    BY <2>1, <2>2 DEF ReviewRow
  <2>4. desk' = [desk EXCEPT ![d] = row]
    BY <1>6, <2>2 DEF Kit!GiveUp, Kit!TypeOK
  <2> QED BY <1>4, <2>1, <2>3, <2>4 DEF Kit!TypeOK
<1>7. CASE Kit!Close(d)
  BY <1>4, <1>7 DEF Kit!Close, Kit!TypeOK
<1>8. ASSUME NEW e \in Entries, Kit!Open(d, e)
      PROVE  desk' \in [Desks -> {Kit!NoReview} \cup ReviewRow] /\ calls' \subseteq Kit!Calls
  <2>1. PICK q \in Requests :
          \/ \E r \in Kit!ActiveOf(e) :
                 desk' = [desk EXCEPT ![d] = [entry |-> e, kit |-> release[r].kit,
                             release |-> r, request |-> q, try |-> 0, busy |-> FALSE]]
          \/ desk' = [desk EXCEPT ![d] = [entry |-> e, kit |-> Kit!Snapshot(e),
                         release |-> None, request |-> q, try |-> 0, busy |-> FALSE]]
    BY <1>8 DEF Kit!Open
  <2>2. 0 \in 0..Tries
    BY DEF KitSetting
  <2>3. UNCHANGED calls
    BY <1>8 DEF Kit!Open
  <2>4. CASE \E r \in Kit!ActiveOf(e) :
                 desk' = [desk EXCEPT ![d] = [entry |-> e, kit |-> release[r].kit,
                             release |-> r, request |-> q, try |-> 0, busy |-> FALSE]]
    <3>1. PICK r \in Kit!ActiveOf(e) :
                 desk' = [desk EXCEPT ![d] = [entry |-> e, kit |-> release[r].kit,
                             release |-> r, request |-> q, try |-> 0, busy |-> FALSE]]
      BY <2>4
    <3>2. r \in Requests /\ release[r].kit \in Kit!Kits
      BY ReleaseIsRow DEF Kit!ActiveOf, Kit!Active, ReleaseRow
    <3>3. [entry |-> e, kit |-> release[r].kit, release |-> r, request |-> q, try |-> 0, busy |-> FALSE]
            \in ReviewRow
      BY <2>2, <3>2 DEF ReviewRow
    <3> QED BY <1>4, <2>3, <3>1, <3>3 DEF Kit!TypeOK
  <2>5. CASE desk' = [desk EXCEPT ![d] = [entry |-> e, kit |-> Kit!Snapshot(e),
                         release |-> None, request |-> q, try |-> 0, busy |-> FALSE]]
    <3>1. Kit!Snapshot(e) \in Kit!Kits
      BY DEF Kit!Snapshot, Kit!Kits, Kit!TypeOK
    <3>2. [entry |-> e, kit |-> Kit!Snapshot(e), release |-> None, request |-> q, try |-> 0, busy |-> FALSE]
            \in ReviewRow
      BY <2>2, <3>1 DEF ReviewRow
    <3> QED BY <1>4, <2>3, <2>5, <3>2 DEF Kit!TypeOK
  <2> QED BY <2>1, <2>4, <2>5
<1> QED BY <1>1, <1>5, <1>6, <1>7, <1>8

\* A kit that is out is the kit its desk reviewed, the shirt its entry still has, and the only one
\* of the entry (kit_release_tx, kit_release_reverse_tx, update_registration_fields_tx).
THEOREM KitsOutMatch ==
  ASSUME KitSetting
  PROVE  Kit!Spec => [](Kit!TypeOK /\ Kit!KitsMatch)
<1>1. Kit!Init => KitInv
  <2> SUFFICES ASSUME Kit!Init PROVE KitInv
    OBVIOUS
  <2>1. Kit!TypeOK
    BY DEF Kit!Init, Kit!TypeOK
  <2>2. Kit!KitsMatch
    BY DEF Kit!Init, Kit!KitsMatch, Kit!Active
  <2> QED BY <2>1, <2>2 DEF KitInv
<1>2. KitInv /\ [Kit!Next]_Kit!vars => KitInv'
  <2> SUFFICES ASSUME KitInv, [Kit!Next]_Kit!vars PROVE KitInv'
    OBVIOUS
  <2>1. CASE UNCHANGED Kit!vars
    BY <2>1, KitsStay DEF Kit!vars, KitInv, Kit!TypeOK
  <2>2. CASE Kit!Next
    BY <2>2, EntryKeepsKits, CallKeepsKits, DeskKeepsKits DEF Kit!Next
  <2> QED BY <2>1, <2>2
<1>3. KitInv => Kit!TypeOK /\ Kit!KitsMatch
  BY DEF KitInv
<1> QED BY <1>1, <1>2, <1>3, PTL DEF Kit!Spec
----------------------------------------------------------------------------
(* The whole. *)

\* Every component runs as it would alone: its steps, and those of the others, which leave its
\* variables.
LEMMA Components ==
  DeskSpec => Spec /\ Kit!Spec /\ Coming!Spec /\ Mail!Spec /\ Fees!Spec /\ Back!Spec
<1>1. DeskInit => Init /\ Kit!Init /\ Coming!Init /\ Mail!Init /\ Fees!Init /\ Back!Init
  BY DEF DeskInit
<1>2. [DeskNext]_deskVars =>
        /\ [Next]_vars /\ [Kit!Next]_Kit!vars /\ [Coming!Next]_Coming!vars
        /\ [Mail!Next]_Mail!vars /\ [Fees!Next]_Fees!vars /\ [Back!Next]_Back!vars
  BY DEF DeskNext, Moves, deskVars, vars, kitVars, comingVars, mailVars, feesVars, backVars,
         Kit!vars, Coming!vars, Mail!vars, Fees!vars, Back!vars
<1> QED BY <1>1, <1>2, PTL DEF DeskSpec, Spec, Kit!Spec, Coming!Spec, Mail!Spec, Fees!Spec,
                               Back!Spec

\* Rows, calls, sessions, leases, charges and refunds keep their types, and no single entry is
\* settled at a loss.
THEOREM DeskTypeCorrect ==
  ASSUME DeskSetting
  PROVE  DeskSpec => []DeskTypeOK
<1> USE DEF DeskSetting
<1>1. OutboxInv => Mail!TypeOK
  BY DEF OutboxInv, Types, Mail!TypeOK, JobRow, WorkerRow
<1>2. Spec => []TypeOK
  BY PayoutTypeCorrect
<1>3. Kit!Spec => []Kit!TypeOK
  BY KitsOutMatch, PTL
<1>4. Coming!Spec => []Coming!TypeOK
  BY Coming!TypeCorrect
<1>5. Mail!Spec => []Mail!TypeOK
  BY <1>1, OutboxInvariance, PTL
<1>6. Fees!Spec => []Fees!TypeOK
  BY Fees!FeesInvariant, PTL
<1>7. Back!Spec => []Back!TypeOK
  BY Back!RefundTypeCorrect
<1>8. TypeOK /\ Kit!TypeOK /\ Coming!TypeOK /\ Mail!TypeOK /\ Fees!TypeOK /\ Back!TypeOK => DeskTypeOK
  BY DEF DeskTypeOK
<1> QED BY <1>2, <1>3, <1>4, <1>5, <1>6, <1>7, <1>8, Components, PTL

\* A kit that is out is the kit its desk reviewed, the shirt its entry still has, and the only one
\* of the entry (kit_release_tx, kit_release_reverse_tx, update_registration_fields_tx).
THEOREM DeskKitsMatch ==
  ASSUME KitSetting
  PROVE  DeskSpec => []KitsMatch
<1>1. Kit!KitsMatch => KitsMatch
  BY DEF KitsMatch
<1> QED BY <1>1, KitsOutMatch, Components, PTL

\* A place paid for or given back cannot be paid for again, by no session of any generation
\* (reservation-checkout, expire-coming-soon-reservations).
THEOREM DeskPlacesUnpayable ==
  ASSUME Coming!Setting
  PROVE  DeskSpec => []SettledIsUnpayable
<1>1. Coming!Spec => []Coming!SettledIsUnpayable
  BY Coming!SettledCannotBePaid
<1>2. Coming!SettledIsUnpayable => SettledIsUnpayable
  BY DEF SettledIsUnpayable
<1> QED BY <1>1, <1>2, Components, PTL

\* No capture of a reservation is lost, settles it twice or overdraws the event
\* (payments-webhook, reservation_verify_capture).
THEOREM DeskCapturesKept ==
  ASSUME Coming!Setting
  PROVE  DeskSpec => []CapturesAreKept
<1>1. Coming!Spec => []Coming!CapturesAreKept
  BY Coming!NoCaptureLost
<1>2. Coming!CapturesAreKept => CapturesAreKept
  BY DEF CapturesAreKept
<1> QED BY <1>1, <1>2, Components, PTL

\* One worker at a time holds a claim that lasts (transactional_email_claim and its like).
THEOREM DeskOneSender ==
  ASSUME OutboxSetting
  PROVE  DeskSpec => []OneSender
<1>1. OutboxInv => OneSender
  BY FreshHolders DEF OneSender
<1> QED BY <1>1, OutboxInvariance, Components, PTL

\* The idempotency key of a delivery outlives leases, crashes and workers (sendEmail).
THEOREM DeskOneCopy ==
  ASSUME OutboxSetting
  PROVE  DeskSpec => []OneCopy
<1>1. OutboxInv => OneCopy
  BY DEF OutboxInv, OneCopy
<1> QED BY <1>1, OutboxInvariance, Components, PTL

\* Only a worker that heard of the acceptance, or found no ticket left, marks a delivery sent
\* (booking_delivery_finish).
THEOREM DeskTicketsSent ==
  ASSUME OutboxSetting
  PROVE  DeskSpec => []TicketsAreSent
<1>1. OutboxInv => TicketsAreSent
  BY DEF OutboxInv, TicketsAreSent
<1> QED BY <1>1, OutboxInvariance, Components, PTL

\* The ledger rows of a capture add up to it, for any number of entries, prices and terms, and
\* each line bears its share of the fee to the centavo (allocateCents).
THEOREM DeskLedgerAddsUp ==
  ASSUME Fees!FeeSetting
  PROVE  DeskSpec => []LedgerAddsUp
<1>1. Fees!Spec => []Fees!LedgerAddsUp
  BY Fees!FeesInvariant, PTL
<1>2. Fees!LedgerAddsUp => LedgerAddsUp
  BY DEF LedgerAddsUp
<1> QED BY <1>1, <1>2, Components, PTL

\* A managed charge that leaves what it promised is never parked for one of its lines, and leaves
\* every line its price, for any number of entries (booking_payment_confirm).
THEOREM DeskManagedIsFulfilled ==
  ASSUME Fees!FeeSetting
  PROVE  DeskSpec => []ManagedIsFulfilled
<1>1. Fees!Spec => []Fees!ManagedIsFulfilled
  BY Fees!FeesInvariant, PTL
<1>2. Fees!ManagedIsFulfilled => ManagedIsFulfilled
  BY DEF ManagedIsFulfilled
<1> QED BY <1>1, <1>2, Components, PTL

\* However requests of a group order overlap, an entry's money is given back once, and never more
\* than the capture (admin-group-refund).
THEOREM DeskRefundedOnce ==
  ASSUME Back!RefundSetting
  PROVE  DeskSpec => []EntriesRefundedOnce
<1>1. Back!Spec => []Back!EntriesRefundedOnce
  BY Back!GroupRefundsOnce
<1>2. Back!EntriesRefundedOnce => EntriesRefundedOnce
  BY DEF EntriesRefundedOnce
<1> QED BY <1>1, <1>2, Components, PTL
============================================================================
