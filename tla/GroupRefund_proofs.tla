------------------------- MODULE GroupRefund_proofs -------------------------
(* However many requests, calls and reports there are, an entry of a group  *)
(* order is refunded once, its place is freed with it, and the refunds that *)
(* are paid out were in the capture.                                        *)
EXTENDS GroupRefund, SumTheorems

\* What a request can come to; that these sums are numbers is needed by Covered only.
Amounts == {0} \cup {Returned(fee, S) : fee \in RefundFees, S \in SUBSET Entries}

Row == [status : Status, lines : SUBSET Entries, amount : Amounts, bound : BOOLEAN]

Held == [pc : {"idle", "post", "unknown", "get", "apply"},
         req : Requests \cup {None}, report : Reports \cup {None}]

\* The columns keep their types.
Rows ==
    /\ reg \in [Entries -> {"paid", "refunded"}]
    /\ refund \in [Requests -> SUBSET Reports]
    /\ call \in [Calls -> Held]
    /\ request \in [Requests -> Row]

\* A row says of its refund what the provider has said; a new row says nothing.
RowsReported ==
    \A q \in Requests :
        /\ request[q].status = "none" => request[q].lines = {} /\ refund[q] = {}
        /\ request[q].status \in {"pending", "failed"} => request[q].status \in refund[q]
        /\ request[q].status = "succeeded" /\ request[q].amount > 0 => "succeeded" \in refund[q]

\* Of two requests for an entry the provider has called one failed.
OverlapsFailed ==
    \A p, q \in Requests :
        p # q /\ request[p].lines \cap request[q].lines # {} =>
            "failed" \in refund[p] \/ "failed" \in refund[q]

\* The refunded entries are those of a request that succeeded, and of no second one.
EntriesBooked ==
    /\ \A q \in Requests : request[q].status = "succeeded" =>
           \A e \in request[q].lines : reg[e] = "refunded"
    /\ \A e \in Entries : reg[e] = "refunded" =>
           \E q \in Requests : request[q].status = "succeeded" /\ e \in request[q].lines
    /\ \A p, q \in Requests :
           request[p].status = "succeeded" /\ request[q].status = "succeeded" /\ p # q =>
               request[p].lines \cap request[q].lines = {}

\* What a call holds: a request it is alone to submit, or a report of the request's refund.
CallOK(c) ==
    /\ call[c].pc # "idle" => call[c].req \in Requests
    /\ call[c].pc = "post" => refund[call[c].req] = {} /\ request[call[c].req].status # "none"
    /\ call[c].pc = "get" => "pending" \in refund[call[c].req]
    /\ call[c].pc = "apply" => call[c].report \in refund[call[c].req]

AloneToPost ==
    \A c, d \in Calls :
        call[c].pc = "post" /\ call[d].pc = "post" /\ call[c].req = call[d].req => c = d

CallsHold == (\A c \in Calls : CallOK(c)) /\ AloneToPost

Books == Rows /\ RowsReported /\ OverlapsFailed /\ EntriesBooked /\ PlacesFreed
IInv == Books /\ CallsHold
-----------------------------------------------------------------------------
\* TakeBack frees as many places as it takes tickets back, when all were paid.
LEMMA PlacesFollow ==
    ASSUME IsFiniteSet(Entries), Rows, PlacesFreed, NEW S \in SUBSET Entries,
           \A e \in S : reg[e] = "paid", TakeBack(S)
    PROVE  PlacesFreed' /\ reg' \in [Entries -> {"paid", "refunded"}]
<1> DEFINE Paid == {e \in Entries : reg[e] = "paid"}
<1>1. /\ reg' = [e \in Entries |-> IF e \in S THEN "refunded" ELSE reg[e]]
      /\ slots' = IF Cardinality(S) <= slots THEN slots - Cardinality(S) ELSE 0
  BY DEF TakeBack
<1>2. reg \in [Entries -> {"paid", "refunded"}]
  BY DEF Rows
<1>3. reg' \in [Entries -> {"paid", "refunded"}]
  BY <1>1, <1>2
<1>4. {e \in Entries : reg'[e] = "paid"} = Paid \ S
  BY <1>1, <1>2
<1>5. IsFiniteSet(Paid) /\ S \in SUBSET Paid /\ Paid \cap S = S
  BY FS_Subset
<1>6. /\ Cardinality(S) <= Cardinality(Paid) /\ Cardinality(S) \in Nat /\ Cardinality(Paid) \in Nat
      /\ Cardinality(Paid \ S) = Cardinality(Paid) - Cardinality(S)
  <2> HIDE DEF Paid
  <2>1. Cardinality(S) <= Cardinality(Paid) /\ IsFiniteSet(S)
    BY <1>5, FS_Subset
  <2>2. Cardinality(S) \in Nat /\ Cardinality(Paid) \in Nat
    BY <1>5, <2>1, FS_CardinalityType
  <2>3. Cardinality(Paid \ S) = Cardinality(Paid) - Cardinality(Paid \cap S)
    BY <1>5, FS_Difference
  <2> QED BY <1>5, <2>1, <2>2, <2>3
<1>7. slots = Cardinality(Paid)
  BY DEF PlacesFreed
<1>8. slots' = Cardinality(Paid \ S)
  <2> HIDE DEF Paid
  <2> QED BY <1>1, <1>6, <1>7
<1> QED BY <1>3, <1>4, <1>8 DEF PlacesFreed

\* No entry is refunded twice, its place is freed: what the invariant says of the money.
LEMMA BooksSettle == ASSUME Books PROVE OneRefundEach
<1> SUFFICES ASSUME NEW e \in Entries
             PROVE  LET of == {q \in Requests : e \in request[q].lines}
                        booked == {q \in of : request[q].status = "succeeded"}
                    IN  /\ Cardinality({q \in of : PaidOut(q)}) <= 1
                        /\ Cardinality(booked) = IF reg[e] = "refunded" THEN 1 ELSE 0
                        /\ \A q \in booked : request[q].amount > 0 => "succeeded" \in refund[q]
  BY DEF OneRefundEach
<1> DEFINE of == {q \in Requests : e \in request[q].lines}
           booked == {q \in of : request[q].status = "succeeded"}
           out == {q \in of : PaidOut(q)}
<1>1. \A p, q \in out : p = q
  BY DEF Books, OverlapsFailed, PaidOut
<1>2. out = {} \/ \E q : out = {q}
  BY <1>1
<1>3. Cardinality(out) <= 1
  <2> HIDE DEF out
  <2>1. Cardinality(out) = 0 \/ Cardinality(out) = 1
    BY <1>2, FS_EmptySet, FS_Singleton
  <2> QED BY <2>1
<1>4. reg[e] = "refunded" => \E q : booked = {q}
  <2>1. ASSUME reg[e] = "refunded" PROVE \E q \in booked : TRUE
    BY <2>1 DEF Books, EntriesBooked
  <2>2. \A p, q \in booked : p = q
    BY DEF Books, EntriesBooked
  <2> HIDE DEF booked
  <2> QED BY <2>1, <2>2
<1>5. reg[e] # "refunded" => booked = {}
  BY DEF Books, EntriesBooked
<1>6. Cardinality(booked) = IF reg[e] = "refunded" THEN 1 ELSE 0
  <2> HIDE DEF booked
  <2> QED BY <1>4, <1>5, FS_EmptySet, FS_Singleton
<1>7. \A q \in booked : request[q].amount > 0 => "succeeded" \in refund[q]
  BY DEF Books, RowsReported
<1> QED BY <1>3, <1>6, <1>7
-----------------------------------------------------------------------------
\* Request q has moved to another status; nothing else of the requests has, but what is known.
Moved(q, to) ==
    /\ request' \in [Requests -> Row]
    /\ request'[q].status = to
    /\ \A p \in Requests :
           /\ request'[p].lines = request[p].lines /\ request'[p].amount = request[p].amount
           /\ p # q => request'[p].status = request[p].status

\* Writing the status of a row, and that its refund is known, moves that row alone.
LEMMA StatusMoves ==
    ASSUME Rows, NEW q \in Requests, NEW to \in Status, NEW known \in BOOLEAN,
           \/ request' = [request EXCEPT ![q] = [request[q] EXCEPT !.status = to, !.bound = known]]
           \/ request' = [request EXCEPT ![q] = [request[q] EXCEPT !.status = to]]
    PROVE  Moved(q, to)
<1>1. request \in [Requests -> Row] /\ request[q] \in Row
  BY DEF Rows
<1>2. PICK row \in Row : /\ request' = [request EXCEPT ![q] = row] /\ row.status = to
                         /\ row.lines = request[q].lines /\ row.amount = request[q].amount
  <2>1. CASE request' = [request EXCEPT ![q] = [request[q] EXCEPT !.status = to, !.bound = known]]
    <3> DEFINE row == [request[q] EXCEPT !.status = to, !.bound = known]
    <3>1. row \in Row /\ row.status = to /\ row.lines = request[q].lines
          /\ row.amount = request[q].amount
      BY <1>1 DEF Row
    <3> QED BY <2>1, <3>1
  <2>2. CASE request' = [request EXCEPT ![q] = [request[q] EXCEPT !.status = to]]
    <3> DEFINE row == [request[q] EXCEPT !.status = to]
    <3>1. row \in Row /\ row.status = to /\ row.lines = request[q].lines
          /\ row.amount = request[q].amount
      BY <1>1 DEF Row
    <3> QED BY <2>2, <3>1
  <2> QED BY <2>1, <2>2
<1> QED BY <1>1, <1>2 DEF Moved

\* A row that moves between statuses that book nothing disturbs nothing.
LEMMA QuietMove ==
    ASSUME Books, NEW q \in Requests, NEW to \in Status, Moved(q, to),
           request[q].status \notin {"none", "succeeded"}, to \notin {"none", "succeeded"},
           to \in {"pending", "failed"} => to \in refund[q],
           UNCHANGED <<reg, slots, refund>>, Rows'
    PROVE  Books'
<1>1. RowsReported'
  BY DEF Moved, Books, RowsReported
<1>2. OverlapsFailed'
  BY DEF Moved, Books, OverlapsFailed
<1>3. EntriesBooked'
  BY DEF Moved, Books, EntriesBooked
<1>4. PlacesFreed'
  BY DEF Books, PlacesFreed
<1> QED BY <1>1, <1>2, <1>3, <1>4 DEF Books

\* A success that finds every entry paid books them all.
LEMMA SuccessBooks ==
    ASSUME IsFiniteSet(Entries), Books, NEW q \in Requests, Moved(q, "succeeded"),
           request[q].status \notin {"none", "succeeded"}, "succeeded" \in refund[q],
           \A e \in request[q].lines : reg[e] = "paid", TakeBack(request[q].lines),
           UNCHANGED refund, call' \in [Calls -> Held]
    PROVE  Books'
<1>1. request[q].lines \in SUBSET Entries
  BY DEF Books, Rows, Row
<1>2. PlacesFreed' /\ reg' \in [Entries -> {"paid", "refunded"}]
  BY <1>1, PlacesFollow DEF Books
<1>3. Rows'
  BY <1>2 DEF Moved, Books, Rows
<1>4. RowsReported'
  BY DEF Moved, Books, RowsReported
<1>5. OverlapsFailed'
  BY DEF Moved, Books, OverlapsFailed
<1>6. reg' = [e \in Entries |-> IF e \in request[q].lines THEN "refunded" ELSE reg[e]]
  BY DEF TakeBack
<1>7. EntriesBooked'
  <2>1. \A p \in Requests : request'[p].status = "succeeded" =>
           \A e \in request'[p].lines : reg'[e] = "refunded"
    BY <1>6 DEF Moved, Books, EntriesBooked, Rows, Row
  <2>2. \A e \in Entries : reg'[e] = "refunded" =>
           \E p \in Requests : request'[p].status = "succeeded" /\ e \in request'[p].lines
    <3> SUFFICES ASSUME NEW e \in Entries, reg'[e] = "refunded"
                 PROVE  \E p \in Requests : request'[p].status = "succeeded" /\ e \in request'[p].lines
      OBVIOUS
    <3>1. CASE e \in request[q].lines
      BY <3>1 DEF Moved
    <3>2. CASE e \notin request[q].lines
      <4>1. PICK p \in Requests : request[p].status = "succeeded" /\ e \in request[p].lines
        BY <1>6, <3>2 DEF Books, EntriesBooked
      <4> QED BY <4>1 DEF Moved
    <3> QED BY <3>1, <3>2
  <2>3. ASSUME NEW p \in Requests, p # q, request[p].status = "succeeded"
        PROVE  request[p].lines \cap request[q].lines = {}
    BY <2>3 DEF Books, EntriesBooked
  <2>4. \A p, t \in Requests :
           request'[p].status = "succeeded" /\ request'[t].status = "succeeded" /\ p # t =>
               request'[p].lines \cap request'[t].lines = {}
    BY <2>3 DEF Moved, Books, EntriesBooked
  <2> QED BY <2>1, <2>2, <2>4 DEF EntriesBooked
<1> QED BY <1>2, <1>3, <1>4, <1>5, <1>7 DEF Books

\* A report of its refund moves a request, books its entries, or parks it.
LEMMA ReportBooks ==
    ASSUME IsFiniteSet(Entries), Books, NEW q \in Requests, NEW report \in refund[q],
           ApplyReport(q, report), UNCHANGED refund, call' \in [Calls -> Held]
    PROVE  /\ Books'
           /\ \A p \in Requests : request[p].status # "none" => request'[p].status # "none"
<1> DEFINE booked == report = "succeeded" /\ \A e \in request[q].lines : reg[e] = "paid"
           Kept == \A p \in Requests : request[p].status # "none" => request'[p].status # "none"
<1>1. report \in Reports /\ report \in Status /\ request[q].bound \in BOOLEAN
      /\ request[q] \in Row /\ Rows
  BY DEF Books, Rows, Reports, Status, Row
<1>2. ASSUME NEW to \in Status, Moved(q, to), request[q].status \notin {"none", "succeeded"},
             to \notin {"none", "succeeded"}, to \in {"pending", "failed"} => to \in refund[q],
             UNCHANGED <<reg, slots>>
      PROVE  Books' /\ Kept
  <2>1. Rows'
    BY <1>2 DEF Books, Rows, Moved
  <2>2. Kept
    BY <1>2 DEF Moved
  <2> QED BY <1>2, <2>1, <2>2, QuietMove
<1>3. CASE request[q].status \in {"submitting", "pending", "unknown"} /\ booked
  <2>1. request' = [request EXCEPT ![q] = [request[q] EXCEPT !.status = "succeeded", !.bound = TRUE]]
        /\ TakeBack(request[q].lines)
    BY <1>3 DEF ApplyReport
  <2>2. Moved(q, "succeeded")
    BY <1>1, <2>1, StatusMoves DEF Status
  <2>3. Books'
    BY <1>3, <2>1, <2>2, SuccessBooks
  <2> QED BY <2>2, <2>3 DEF Moved
<1>4. CASE request[q].status \in {"submitting", "pending", "unknown"} /\ ~booked /\ report = "succeeded"
  <2>1. request' = [request EXCEPT ![q] = [request[q] EXCEPT !.status = "review_required"]]
        /\ UNCHANGED <<reg, slots>>
    BY <1>4 DEF ApplyReport
  <2>2. Moved(q, "review_required")
    BY <1>1, <2>1, StatusMoves DEF Status
  <2> QED BY <1>2, <1>4, <2>1, <2>2 DEF Status
<1>5. CASE request[q].status \in {"submitting", "pending", "unknown"} /\ report # "succeeded"
  <2>1. request' = [request EXCEPT ![q] = [request[q] EXCEPT !.status = report, !.bound = TRUE]]
        /\ UNCHANGED <<reg, slots>>
    BY <1>5 DEF ApplyReport
  <2>2. Moved(q, report)
    BY <1>1, <2>1, StatusMoves
  <2>3. report # "none"
    BY <1>1 DEF Reports
  <2> QED BY <1>1, <1>2, <1>5, <2>1, <2>2, <2>3
<1>6. CASE request[q].status = "failed" /\ ~UNCHANGED request
  <2>1. request' = [request EXCEPT ![q] = [request[q] EXCEPT !.status = "review_required"]]
        /\ UNCHANGED <<reg, slots>>
    BY <1>6 DEF ApplyReport
  <2>2. Moved(q, "review_required")
    BY <1>1, <2>1, StatusMoves DEF Status
  <2> QED BY <1>2, <1>6, <2>1, <2>2 DEF Status
<1>7. CASE UNCHANGED <<reg, slots, request>>
  BY <1>7 DEF Books, Rows, RowsReported, OverlapsFailed, EntriesBooked, PlacesFreed
<1>8. request[q].status \in {"failed", "succeeded", "review_required"} /\ UNCHANGED request
          => UNCHANGED <<reg, slots>>
  BY DEF ApplyReport
<1> QED BY <1>3, <1>4, <1>5, <1>6, <1>7, <1>8 DEF ApplyReport

-----------------------------------------------------------------------------
\* A new claim meets another request of its entries only where that one has failed.
LEMMA ClaimedMeetFailed ==
    ASSUME Books, NEW S \in SUBSET Entries, NEW p \in Requests,
           \A e \in S : reg[e] = "paid", Ended(p), request[p].lines \cap S # {}
    PROVE  "failed" \in refund[p] /\ request[p].status = "failed"
<1>1. PICK e \in S : e \in request[p].lines
  OBVIOUS
<1>2. request[p].status # "none"
  BY <1>1 DEF Books, RowsReported
<1>3. request[p].status # "succeeded"
  BY <1>1 DEF Books, EntriesBooked
<1>4. request[p].status = "failed"
  BY <1>2, <1>3 DEF Ended
<1> QED BY <1>4 DEF Books, RowsReported

\* A claim is of paid entries, alone, and its call is alone to submit it.
LEMMA ClaimBooks ==
    ASSUME IsFiniteSet(Entries), IInv, NEW c \in Calls, NEW q \in Requests,
           NEW S \in SUBSET Entries, Claim(c, q, S)
    PROVE  IInv'
<1>1. /\ call[c].pc = "idle" /\ request[q].status = "none" /\ UNCHANGED refund
      /\ \A p \in Requests : Ended(p)
      /\ \A e \in S : reg[e] = "paid"
  BY DEF Claim, NothingInProgress
<1>2. PICK fee \in RefundFees : LET amount == Returned(fee, S) IN
        /\ request' = [request EXCEPT ![q] =
               [status |-> IF amount = 0 THEN "succeeded" ELSE "submitting",
                lines |-> S, amount |-> amount, bound |-> FALSE]]
        /\ IF amount = 0 THEN TakeBack(S) /\ UNCHANGED call
           ELSE Go(c, "post", q, None) /\ UNCHANGED <<reg, slots>>
  BY DEF Claim
<1> DEFINE amount == Returned(fee, S)
           to == IF amount = 0 THEN "succeeded" ELSE "submitting"
           row == [status |-> to, lines |-> S, amount |-> amount, bound |-> FALSE]
<1>3. amount \in Amounts
  BY DEF Amounts
<1>4. row \in Row /\ row.status = to /\ row.lines = S /\ row.amount = amount
  <2> HIDE DEF amount
  <2> QED BY <1>3 DEF Row, Status
<1>5. Books /\ request \in [Requests -> Row]
  BY DEF IInv, Books, Rows
<1>6. /\ request' \in [Requests -> Row]
      /\ request'[q].status = to /\ request'[q].lines = S /\ request'[q].amount = amount
      /\ \A p \in Requests \ {q} : request'[p] = request[p]
  <2> HIDE DEF row
  <2>1. request' = [request EXCEPT ![q] = row]
    BY <1>2 DEF row
  <2> QED BY <1>4, <1>5, <2>1
<1>7. /\ amount = 0 => to = "succeeded" /\ TakeBack(S) /\ UNCHANGED call
      /\ amount # 0 => to = "submitting" /\ Go(c, "post", q, None) /\ UNCHANGED <<reg, slots>>
  BY <1>2
<1> HIDE DEF amount, to, row
<1>8. refund[q] = {} /\ request[q].lines = {}
  BY <1>1, <1>5 DEF Books, RowsReported
<1>9. PlacesFreed' /\ reg' \in [Entries -> {"paid", "refunded"}]
  <2>1. CASE amount = 0
    BY <1>1, <1>5, <1>7, <2>1, PlacesFollow DEF Books
  <2>2. CASE amount # 0
    BY <1>5, <1>7, <2>2 DEF Books, Rows, PlacesFreed
  <2> QED BY <2>1, <2>2
<1>10. call' = call \/ call' = [call EXCEPT ![c] = [pc |-> "post", req |-> q, report |-> None]]
  BY <1>7 DEF Go
<1>11. Rows'
  BY <1>1, <1>5, <1>6, <1>9, <1>10 DEF Books, Rows, Held
<1>12. RowsReported'
  <2>1. ASSUME NEW p \in Requests \ {q}
        PROVE  /\ request'[p].status = "none" => request'[p].lines = {} /\ refund'[p] = {}
               /\ request'[p].status \in {"pending", "failed"} => request'[p].status \in refund'[p]
               /\ request'[p].status = "succeeded" /\ request'[p].amount > 0
                    => "succeeded" \in refund'[p]
    BY <1>1, <1>5, <1>6 DEF Books, RowsReported
  <2>2. /\ to \notin {"none", "pending", "failed"}
        /\ to = "succeeded" => amount = 0
    BY <1>7
  <2>3. to = "succeeded" => ~(amount > 0)
    BY <2>2
  <2> QED BY <1>6, <2>1, <2>2, <2>3 DEF RowsReported
<1>13. \A p \in Requests \ {q} : request[p].lines \cap S # {} =>
           "failed" \in refund[p] /\ request[p].status = "failed"
  BY <1>1, <1>5, ClaimedMeetFailed
<1>14. OverlapsFailed'
  BY <1>1, <1>5, <1>6, <1>13 DEF Books, OverlapsFailed
<1>15. EntriesBooked'
  <2>1. CASE amount = 0
    <3>1. reg' = [e \in Entries |-> IF e \in S THEN "refunded" ELSE reg[e]] /\ to = "succeeded"
      BY <1>7, <2>1 DEF TakeBack
    <3>2. \A p \in Requests : request'[p].status = "succeeded" =>
               \A e \in request'[p].lines : reg'[e] = "refunded"
      BY <1>5, <1>6, <3>1 DEF Books, EntriesBooked, Row
    <3>3. \A e \in Entries : reg'[e] = "refunded" =>
               \E p \in Requests : request'[p].status = "succeeded" /\ e \in request'[p].lines
      <4> SUFFICES ASSUME NEW e \in Entries, reg'[e] = "refunded"
                   PROVE  \E p \in Requests : request'[p].status = "succeeded" /\ e \in request'[p].lines
        OBVIOUS
      <4>1. CASE e \in S
        BY <1>6, <3>1, <4>1
      <4>2. CASE e \notin S
        <5>1. PICK p \in Requests : request[p].status = "succeeded" /\ e \in request[p].lines
          BY <1>5, <3>1, <4>2 DEF Books, EntriesBooked
        <5> QED BY <1>1, <1>6, <5>1
      <4> QED BY <4>1, <4>2
    <3>4. \A p, t \in Requests :
               request'[p].status = "succeeded" /\ request'[t].status = "succeeded" /\ p # t =>
                   request'[p].lines \cap request'[t].lines = {}
      BY <1>5, <1>6, <1>13 DEF Books, EntriesBooked
    <3> QED BY <3>2, <3>3, <3>4 DEF EntriesBooked
  <2>2. CASE amount # 0
    BY <1>1, <1>5, <1>6, <1>7, <2>2 DEF Books, EntriesBooked
  <2> QED BY <2>1, <2>2
<1>16. CallsHold'
  <2>1. CallsHold /\ call \in [Calls -> Held]
    BY DEF IInv, Books, Rows
  <2>2. to # "none"
    BY <1>7
  <2>3. \A p \in Requests : request[p].status # "none" => request'[p].status # "none"
    BY <1>6, <2>2
  <2>4. CASE call' = call
    BY <1>1, <2>1, <2>3, <2>4 DEF CallsHold, CallOK, AloneToPost
  <2>5. CASE call' = [call EXCEPT ![c] = [pc |-> "post", req |-> q, report |-> None]]
    <3>1. \A d \in Calls \ {c} : call'[d] = call[d] /\ (call[d].pc = "post" => call[d].req # q)
      BY <1>1, <2>1, <2>5 DEF CallsHold, CallOK
    <3>2. call'[c].pc = "post" /\ call'[c].req = q
      BY <2>1, <2>5
    <3>3. ASSUME NEW d \in Calls \ {c} PROVE CallOK(d)'
      BY <1>1, <2>1, <2>3, <3>1 DEF CallsHold, CallOK
    <3>4. CallOK(c)'
      BY <1>1, <1>6, <1>8, <2>2, <3>2 DEF CallOK
    <3>5. AloneToPost'
      BY <2>1, <3>1, <3>2 DEF CallsHold, AloneToPost
    <3> QED BY <3>3, <3>4, <3>5 DEF CallsHold
  <2> QED BY <1>10, <2>4, <2>5
<1> QED BY <1>9, <1>11, <1>12, <1>14, <1>15, <1>16 DEF IInv, Books

\* A call that ends, and a step of no call, leave the others what they hold.
LEMMA CallsKeep ==
    ASSUME IInv, \A d \in Calls : call'[d] = call[d] \/ call'[d] = Idle,
           \A p \in Requests :
               /\ refund[p] \subseteq refund'[p] /\ (refund[p] = {} => refund'[p] = {})
               /\ request[p].status # "none" => request'[p].status # "none"
    PROVE  CallsHold'
<1>1. CallsHold /\ call \in [Calls -> Held]
  BY DEF IInv, Books, Rows
<1>2. \A d \in Calls : call'[d] = call[d] \/ call'[d].pc = "idle"
  BY <1>1 DEF Idle
<1>3. ASSUME NEW d \in Calls PROVE CallOK(d)'
  <2>1. CallOK(d)
    BY <1>1 DEF CallsHold
  <2>2. CASE call'[d].pc = "idle"
    BY <2>2 DEF CallOK
  <2>3. CASE call'[d] = call[d] /\ call[d].pc # "idle"
    <3>1. call[d].req \in Requests
      BY <2>1, <2>3 DEF CallOK
    <3> QED BY <2>1, <2>3, <3>1 DEF CallOK
  <2> QED BY <1>2, <2>2, <2>3
<1>4. AloneToPost'
  BY <1>1, <1>2 DEF CallsHold, AloneToPost
<1> QED BY <1>3, <1>4 DEF CallsHold

\* A call that is done holds nothing.
LEMMA IdleType == Idle \in Held
  BY DEF Idle, Held

\* A call moves on with what it was given; the rows do not move.
LEMMA CallMoves ==
    ASSUME IInv, NEW c \in Calls, NEW pc \in {"unknown", "get", "apply"}, NEW q \in Requests,
           NEW report \in Reports \cup {None}, Go(c, pc, q, report),
           UNCHANGED <<reg, slots, request, refund>>,
           pc = "get" => "pending" \in refund[q], pc = "apply" => report \in refund[q]
    PROVE  IInv'
<1>1. CallsHold /\ call \in [Calls -> Held]
  BY DEF IInv, Books, Rows
<1>2. call' = [call EXCEPT ![c] = [pc |-> pc, req |-> q, report |-> report]]
  BY DEF Go
<1>3. /\ call'[c] = [pc |-> pc, req |-> q, report |-> report]
      /\ \A d \in Calls \ {c} : call'[d] = call[d]
  BY <1>1, <1>2
<1>4. Books'
  BY <1>1, <1>2 DEF IInv, Books, Rows, Held, RowsReported, OverlapsFailed, EntriesBooked,
                    PlacesFreed
<1>5. ASSUME NEW d \in Calls \ {c} PROVE CallOK(d)'
  BY <1>1, <1>3 DEF CallsHold, CallOK
<1>6. CallOK(c)'
  BY <1>3 DEF CallOK
<1>7. AloneToPost'
  BY <1>1, <1>3 DEF CallsHold, AloneToPost
<1> QED BY <1>4, <1>5, <1>6, <1>7 DEF IInv, CallsHold
\* The call that has ended is idle, the others hold what they held.
LEMMA CallEnds ==
    ASSUME Rows, NEW c \in Calls, Done(c)
    PROVE  call' \in [Calls -> Held] /\ \A d \in Calls : call'[d] = call[d] \/ call'[d] = Idle
  BY IdleType DEF Rows, Done
-----------------------------------------------------------------------------
(* The steps. *)

\* The provider's first word on a refund comes to a request that no other call submits.
LEMMA PostSafe == ASSUME IInv, NEW c \in Calls, Post(c) PROVE IInv'
<1> DEFINE q == call[c].req
<1>1. /\ call[c].pc = "post" /\ UNCHANGED <<reg, slots, request>>
      /\ \/ /\ refund' = [refund EXCEPT ![q] = {"pending"}]
            /\ Go(c, "apply", q, "pending") \/ Go(c, "unknown", q, None)
         \/ Go(c, "unknown", q, None) /\ UNCHANGED refund
  BY DEF Post
<1>2. CallsHold /\ Books /\ call \in [Calls -> Held] /\ refund \in [Requests -> SUBSET Reports]
  BY DEF IInv, Books, Rows
<1>3. q \in Requests /\ refund[q] = {} /\ request[q].status # "none"
  BY <1>1, <1>2 DEF CallsHold, CallOK
<1>4. CASE Go(c, "unknown", q, None) /\ UNCHANGED refund
  BY <1>1, <1>3, <1>4, CallMoves
<1>5. CASE /\ refund' = [refund EXCEPT ![q] = {"pending"}]
           /\ Go(c, "apply", q, "pending") \/ Go(c, "unknown", q, None)
  <2>1. refund' \in [Requests -> SUBSET Reports] /\ refund'[q] = {"pending"}
        /\ \A p \in Requests \ {q} : refund'[p] = refund[p]
    BY <1>2, <1>3, <1>5 DEF Reports
  <2>2. PICK pc \in {"unknown", "apply"}, report \in {None, "pending"} :
            /\ call' = [call EXCEPT ![c] = [pc |-> pc, req |-> q, report |-> report]]
            /\ pc = "apply" => report = "pending"
    BY <1>5 DEF Go
  <2>3. [pc |-> pc, req |-> q, report |-> report] \in Held
    BY <1>3 DEF Held, Reports
  <2>4. /\ call' \in [Calls -> Held]
        /\ call'[c].pc = pc /\ call'[c].req = q /\ call'[c].report = report
        /\ \A d \in Calls \ {c} : call'[d] = call[d]
    BY <1>2, <2>2, <2>3
  <2>5. Rows'
    BY <1>1, <1>2, <2>1, <2>4 DEF Books, Rows
  <2>6. RowsReported' /\ OverlapsFailed'
    <3>1. \A p \in Requests : refund[p] \subseteq refund'[p] /\ (p # q => refund'[p] = refund[p])
      BY <1>3, <2>1
    <3> QED BY <1>1, <1>2, <1>3, <3>1 DEF Books, RowsReported, OverlapsFailed
  <2>7. EntriesBooked' /\ PlacesFreed'
    BY <1>1, <1>2 DEF Books, EntriesBooked, PlacesFreed
  <2>8. ASSUME NEW d \in Calls \ {c} PROVE CallOK(d)'
    <3>1. CallOK(d) /\ (call[d].pc = "post" => call[d].req # q)
      BY <1>1, <1>2 DEF CallsHold, AloneToPost
    <3>2. call'[d] = call[d] /\ request' = request
      BY <1>1, <2>4
    <3>3. CASE call[d].pc = "idle"
      BY <3>2, <3>3 DEF CallOK
    <3>4. CASE call[d].pc # "idle" /\ call[d].req = q
      BY <1>3, <3>1, <3>2, <3>4 DEF CallOK
    <3>5. CASE call[d].pc # "idle" /\ call[d].req # q
      <4>1. call[d].req \in Requests /\ refund'[call[d].req] = refund[call[d].req]
        BY <2>1, <3>1, <3>5 DEF CallOK
      <4> QED BY <3>1, <3>2, <3>5, <4>1 DEF CallOK
    <3> QED BY <3>3, <3>4, <3>5
  <2>9. CallOK(c)'
    BY <1>3, <2>1, <2>2, <2>4 DEF CallOK
  <2>10. AloneToPost'
    BY <1>2, <2>4 DEF CallsHold, AloneToPost
  <2> QED BY <2>5, <2>6, <2>7, <2>8, <2>9, <2>10 DEF IInv, Books, CallsHold
<1> QED BY <1>1, <1>4, <1>5

\* An unanswered submission is noted, which books nothing.
LEMMA MarkUnknownSafe == ASSUME IInv, NEW c \in Calls, MarkUnknown(c) PROVE IInv'
<1> DEFINE q == call[c].req
<1>1. call[c].pc = "unknown" /\ Done(c) /\ UNCHANGED <<reg, slots, refund>>
  BY DEF MarkUnknown
<1>2. CallsHold /\ Books /\ Rows
  BY DEF IInv, Books
<1>3. q \in Requests
  BY <1>1, <1>2 DEF CallsHold, CallOK
<1>4. call' \in [Calls -> Held] /\ \A d \in Calls : call'[d] = call[d] \/ call'[d] = Idle
  BY <1>1, <1>2, CallEnds
<1>5. CASE request[q].status = "submitting"
           /\ request' = [request EXCEPT ![q] = [request[q] EXCEPT !.status = "unknown"]]
  <2>1. Moved(q, "unknown")
    <3>1. "unknown" \in Status /\ TRUE \in BOOLEAN
      BY DEF Status
    <3> QED BY <1>2, <1>3, <1>5, <3>1, StatusMoves
  <2>2. Rows'
    BY <1>1, <1>2, <1>4, <2>1 DEF Rows, Moved
  <2>3. "unknown" \in Status
    BY DEF Status
  <2>4. Books'
    BY <1>1, <1>2, <1>3, <1>5, <2>1, <2>2, <2>3, QuietMove
  <2>5. CallsHold'
    BY <1>1, <1>4, <2>1, CallsKeep DEF Moved
  <2> QED BY <2>4, <2>5 DEF IInv
<1>6. CASE UNCHANGED request
  <2>1. Books'
    BY <1>1, <1>2, <1>4, <1>6 DEF Books, Rows, RowsReported, OverlapsFailed, EntriesBooked,
                                  PlacesFreed
  <2>2. CallsHold'
    BY <1>1, <1>4, <1>6, CallsKeep
  <2> QED BY <2>1, <2>2 DEF IInv
<1> QED BY <1>5, <1>6 DEF MarkUnknown

\* The call applies a state its refund has had.
LEMMA ApplySafe ==
    ASSUME IsFiniteSet(Entries), IInv, NEW c \in Calls, Apply(c) PROVE IInv'
<1> DEFINE q == call[c].req
           report == call[c].report
<1>1. call[c].pc = "apply" /\ ApplyReport(q, report) /\ Done(c) /\ UNCHANGED refund
  BY DEF Apply
<1>2. q \in Requests /\ report \in refund[q] /\ Books /\ Rows
  BY <1>1 DEF IInv, Books, CallsHold, CallOK
<1>3. call' \in [Calls -> Held] /\ \A d \in Calls : call'[d] = call[d] \/ call'[d] = Idle
  BY <1>1, <1>2, CallEnds
<1> HIDE DEF q, report
<1>4. Books' /\ \A p \in Requests : request[p].status # "none" => request'[p].status # "none"
  BY <1>1, <1>2, <1>3, ReportBooks
<1>5. CallsHold'
  BY <1>1, <1>3, <1>4, CallsKeep
<1> QED BY <1>4, <1>5 DEF IInv

\* So does a webhook, however late.
LEMMA WebhookSafe ==
    ASSUME IsFiniteSet(Entries), IInv, NEW q \in Requests, Webhook(q) PROVE IInv'
<1>1. PICK report \in refund[q] : ApplyReport(q, report)
  BY DEF Webhook
<1>2. UNCHANGED <<refund, call>> /\ Books /\ call \in [Calls -> Held]
  BY DEF Webhook, IInv, Books, Rows
<1>3. Books' /\ \A p \in Requests : request[p].status # "none" => request'[p].status # "none"
  BY <1>1, <1>2, ReportBooks
<1>4. CallsHold'
  BY <1>2, <1>3, CallsKeep
<1> QED BY <1>3, <1>4 DEF IInv

\* What the provider adds to its word takes nothing back.
LEMMA ConcludeSafe == ASSUME IInv, NEW q \in Requests, Conclude(q) PROVE IInv'
<1>1. UNCHANGED <<reg, slots, request, call>> /\ Books /\ Rows
  BY DEF Conclude, IInv, Books
<1>2. /\ refund' \in [Requests -> SUBSET Reports]
      /\ \A p \in Requests : refund[p] \subseteq refund'[p] /\ (refund[p] = {} => refund'[p] = {})
  BY <1>1 DEF Conclude, Rows, Reports
<1>3. Rows'
  BY <1>1, <1>2 DEF Rows
<1>4. RowsReported'
  BY <1>1, <1>2 DEF Books, RowsReported
<1>5. OverlapsFailed'
  BY <1>1, <1>2 DEF Books, OverlapsFailed
<1>6. EntriesBooked' /\ PlacesFreed'
  BY <1>1 DEF Books, EntriesBooked, PlacesFreed
<1>7. CallsHold'
  BY <1>1, <1>2, CallsKeep
<1> QED BY <1>3, <1>4, <1>5, <1>6, <1>7 DEF IInv, Books

\* The provider's present word is one it has given.
LEMMA GetSafe == ASSUME IInv, NEW c \in Calls, Get(c) PROVE IInv'
<1>1. call[c].pc = "get" /\ UNCHANGED <<reg, slots, request, refund>>
  BY DEF Get
<1>2. call[c].req \in Requests /\ "pending" \in refund[call[c].req]
  BY <1>1 DEF IInv, CallsHold, CallOK
<1>3. PICK now \in refund[call[c].req] : Go(c, "apply", call[c].req, now)
  BY <1>2 DEF Get
<1>4. now \in Reports
  BY <1>2, <1>3 DEF IInv, Books, Rows
<1> QED BY <1>1, <1>2, <1>3, <1>4, CallMoves

\* A known request is looked up when the provider has called it pending.
LEMMA ClaimKnownSafe ==
    ASSUME IInv, NEW c \in Calls, NEW q \in Requests, ClaimKnown(c, q) PROVE IInv'
<1>1. Go(c, "get", q, None) /\ UNCHANGED <<reg, slots, request, refund>> /\ "pending" \in refund[q]
  BY DEF ClaimKnown, IInv, Books, RowsReported
<1> QED BY <1>1, CallMoves

\* A call that dies holds nothing.
LEMMA DieSafe == ASSUME IInv, NEW c \in Calls, Die(c) PROVE IInv'
<1>1. Done(c) /\ UNCHANGED <<reg, slots, request, refund>> /\ Books /\ Rows
  BY DEF Die, IInv, Books
<1>2. call' \in [Calls -> Held] /\ \A d \in Calls : call'[d] = call[d] \/ call'[d] = Idle
  BY <1>1, CallEnds
<1>3. Books'
  BY <1>1, <1>2 DEF Books, Rows, RowsReported, OverlapsFailed, EntriesBooked, PlacesFreed
<1>4. CallsHold'
  BY <1>1, <1>2, CallsKeep
<1> QED BY <1>3, <1>4 DEF IInv

\* At first every entry is paid and nothing has been asked.
LEMMA InitBooks == ASSUME Init PROVE IInv
<1>1. Rows
  <2>1. 0 \in Amounts
    BY DEF Amounts
  <2>2. NoRequest \in Row
    BY <2>1 DEF NoRequest, Row, Status
  <2> QED BY <2>2, IdleType DEF Init, Rows
<1>2. RowsReported /\ OverlapsFailed /\ EntriesBooked
  BY DEF Init, NoRequest, RowsReported, OverlapsFailed, EntriesBooked
<1>3. PlacesFreed
  <2>1. {e \in Entries : reg[e] = "paid"} = Entries
    BY DEF Init
  <2> QED BY <2>1 DEF Init, PlacesFreed
<1>4. CallsHold
  BY DEF Init, Idle, CallsHold, CallOK, AloneToPost
<1> QED BY <1>1, <1>2, <1>3, <1>4 DEF IInv, Books

\* Every step keeps the books.
LEMMA StepBooks == ASSUME IsFiniteSet(Entries), IInv, [Next]_vars PROVE IInv'
<1>1. ASSUME NEW c \in Calls, NEW q \in Requests, ClaimKnown(c, q) PROVE IInv'
  BY <1>1, ClaimKnownSafe
<1>2. ASSUME NEW c \in Calls, NEW q \in Requests, NEW S \in SUBSET Entries, Claim(c, q, S)
      PROVE IInv'
  BY <1>2, ClaimBooks
<1>3. ASSUME NEW c \in Calls, Post(c) PROVE IInv'
  BY <1>3, PostSafe
<1>4. ASSUME NEW c \in Calls, MarkUnknown(c) PROVE IInv'
  BY <1>4, MarkUnknownSafe
<1>5. ASSUME NEW c \in Calls, Get(c) PROVE IInv'
  BY <1>5, GetSafe
<1>6. ASSUME NEW c \in Calls, Apply(c) PROVE IInv'
  BY <1>6, ApplySafe
<1>7. ASSUME NEW c \in Calls, Die(c) PROVE IInv'
  BY <1>7, DieSafe
<1>8. ASSUME NEW q \in Requests, Webhook(q) PROVE IInv'
  BY <1>8, WebhookSafe
<1>9. ASSUME NEW q \in Requests, Conclude(q) PROVE IInv'
  BY <1>9, ConcludeSafe
<1>10. CASE UNCHANGED vars
  <2>1. UNCHANGED <<reg, slots, request, refund, call>>
    BY <1>10 DEF vars
  <2> QED BY <2>1 DEF IInv, Books, Rows, RowsReported, OverlapsFailed, EntriesBooked, PlacesFreed,
                      CallsHold, CallOK, AloneToPost
<1> QED BY <1>1, <1>2, <1>3, <1>4, <1>5, <1>6, <1>7, <1>8, <1>9, <1>10
        DEF Next, CallStep, ProviderStep

-----------------------------------------------------------------------------
(* The money of the capture. *)

\* What is assumed of the order.
RefundSetting ==
    /\ IsFiniteSet(Entries) /\ IsFiniteSet(Requests)
    /\ Nets \in [Entries -> Nat] /\ RefundFees \subseteq Nat /\ Captured \in Nat

\* The requests whose refund the provider has not called failed fit the capture together.
Open == {q \in Requests : "failed" \notin refund[q]}
Covered ==
    /\ \A q \in Requests : /\ request[q].amount \in 0..Captured
                           /\ request[q].status = "none" => request[q].amount = 0
    /\ SumFunctionOnSet(AmountOf, Open) <= Captured

\* What a request comes to is a number of centavos.
LEMMA ReturnedIsNat ==
    ASSUME RefundSetting, NEW fee \in RefundFees, NEW S \in SUBSET Entries
    PROVE  Returned(fee, S) \in Nat
<1> DEFINE f == [e \in Entries |-> IF fee < Nets[e] THEN Nets[e] - fee ELSE 0]
<1>1. IsFiniteSet(S) /\ fee \in Nat /\ \A e \in Entries : Nets[e] \in Nat
  BY FS_Subset DEF RefundSetting
<1>2. \A e \in S : f[e] \in Nat
  BY <1>1
<1>3. SumFunctionOnSet(f, S) \in Nat
  <2> HIDE DEF f
  <2> QED BY <1>1, <1>2, SumNat
<1> QED BY <1>3 DEF Returned

\* A failed row's refund was called failed: what is open is among what the claim adds up.
LEMMA OpenIsUnfailed ==
    ASSUME Books
    PROVE  Open \subseteq {p \in Requests : request[p].status # "failed"}
BY DEF Open, Books, RowsReported

\* A claim is checked against all it may be paid out with.
LEMMA ClaimCovered ==
    ASSUME RefundSetting, Books, Covered, NEW c \in Calls, NEW q \in Requests,
           NEW S \in SUBSET Entries, Claim(c, q, S)
    PROVE  Covered'
<1> DEFINE unfailed == {p \in Requests : request[p].status # "failed"}
           claimed(amount) == [status |-> IF amount = 0 THEN "succeeded" ELSE "submitting",
                               lines |-> S, amount |-> amount, bound |-> FALSE]
<1>1. request[q].status = "none" /\ UNCHANGED refund
  BY DEF Claim
<1>2. PICK fee \in RefundFees :
        /\ Returned(fee, S) + SumFunctionOnSet(AmountOf, unfailed) <= Captured
        /\ request' = [request EXCEPT ![q] = claimed(Returned(fee, S))]
  BY DEF Claim
<1>3. PICK amount \in Nat : amount = Returned(fee, S)
  BY ReturnedIsNat
<1>4. PICK row : row = claimed(amount)
  OBVIOUS
<1>5. /\ request' = [request EXCEPT ![q] = row] /\ row.amount = amount
      /\ row.status \in {"succeeded", "submitting"}
  BY <1>2, <1>3, <1>4
<1> HIDE DEF unfailed, claimed
<1>6. /\ request'[q] = row
      /\ \A p \in Requests \ {q} : request'[p] = request[p]
  BY <1>5 DEF Books, Rows
<1>7. \A p \in Requests : AmountOf[p] \in Nat /\ AmountOf[p] = request[p].amount
  BY DEF Covered, AmountOf, RefundSetting
<1>8. IsFiniteSet(Requests) /\ IsFiniteSet(unfailed) /\ Open \in SUBSET unfailed /\ IsFiniteSet(Open)
  BY OpenIsUnfailed, FS_Subset DEF RefundSetting, unfailed
<1>9. PICK open, all \in Nat : /\ open = SumFunctionOnSet(AmountOf, Open)
                               /\ all = SumFunctionOnSet(AmountOf, unfailed) /\ open <= all
  <2>1. \A p \in unfailed : AmountOf[p] \in Nat
    BY <1>7 DEF unfailed
  <2>2. \A p \in Open : AmountOf[p] \in Nat
    BY <1>7 DEF Open
  <2>3. PICK f, U, T : f = AmountOf /\ U = unfailed /\ T = Open
    OBVIOUS
  <2>4. IsFiniteSet(U) /\ T \in SUBSET U /\ IsFiniteSet(T) /\ \A p \in U : f[p] \in Nat
    BY <1>8, <2>1, <2>3
  <2>5. SumFunctionOnSet(f, U) \in Nat
    BY <2>4, SumNat
  <2>6. SumFunctionOnSet(f, T) \in Nat
    <3>1. \A p \in T : f[p] \in Nat
      BY <2>4
    <3> QED BY <2>4, <3>1, SumNat
  <2>7. SumFunctionOnSet(f, T) <= SumFunctionOnSet(f, U)
    BY <2>4, SumPart
  <2> QED BY <2>3, <2>5, <2>6, <2>7
<1>10. amount + all <= Captured /\ Captured \in Nat
  BY <1>2, <1>3, <1>9 DEF RefundSetting
<1>11. q \in Open /\ Open' = Open
  BY <1>1 DEF Books, RowsReported, Open
<1>12. \A p \in Requests : AmountOf'[p] = request'[p].amount
  BY DEF AmountOf
<1>13. AmountOf[q] = 0 /\ AmountOf'[q] = amount /\ \A p \in Requests \ {q} : AmountOf'[p] = AmountOf[p]
  BY <1>1, <1>5, <1>6, <1>7, <1>12 DEF Covered
<1>14. SumFunctionOnSet(AmountOf', Open) = open + amount
  <2>1. PICK f, g, T : f = AmountOf /\ g = AmountOf' /\ T = Open
    OBVIOUS
  <2>2. IsFiniteSet(T) /\ q \in T /\ \A p \in T : p \in Requests
    BY <1>8, <1>11, <2>1 DEF Open
  <2>3. \A p \in T : f[p] \in Int /\ g[p] \in Int /\ (p # q => g[p] = f[p])
    BY <1>7, <1>13, <2>1, <2>2
  <2>4. SumFunctionOnSet(g, T) = SumFunctionOnSet(f, T) - f[q] + g[q]
    BY <2>2, <2>3, SumDiffer
  <2>5. f[q] = 0 /\ g[q] = amount /\ SumFunctionOnSet(f, T) = open
    BY <1>9, <1>13, <2>1
  <2>6. SumFunctionOnSet(g, T) = open + amount
    BY <2>4, <2>5
  <2> QED BY <2>1, <2>6
<1>15. SumFunctionOnSet(AmountOf, Open)' <= Captured
  <2>1. open + amount <= Captured
    BY <1>9, <1>10
  <2> QED BY <1>11, <1>14, <2>1
<1>16. ASSUME NEW p \in Requests
       PROVE  request'[p].amount \in 0..Captured /\ (request'[p].status = "none" => request'[p].amount = 0)
  <2>1. CASE p = q
    BY <1>5, <1>6, <1>9, <1>10, <2>1
  <2>2. CASE p # q
    BY <1>6, <2>2 DEF Covered
  <2> QED BY <2>1, <2>2
<1> QED BY <1>15, <1>16 DEF Covered

\* No other step changes an amount or takes the word failed back.
LEMMA AmountsStay ==
    ASSUME RefundSetting, Covered, refund' \in [Requests -> SUBSET Reports],
           \A p \in Requests : /\ request'[p].amount = request[p].amount
                               /\ request'[p].status = "none" => request[p].status = "none"
                               /\ "failed" \in refund[p] => "failed" \in refund'[p]
    PROVE  Covered'
<1>1. AmountOf' = AmountOf
  BY DEF AmountOf
<1>2. Open' \in SUBSET Open /\ IsFiniteSet(Open)
  BY FS_Subset DEF Open, RefundSetting
<1>3. \A p \in Open : AmountOf[p] \in Nat
  BY DEF Open, AmountOf, Covered, RefundSetting
<1>4. PICK f, T : f = AmountOf /\ T = Open'
  OBVIOUS
<1>5. SumFunctionOnSet(f, T) <= SumFunctionOnSet(f, Open)
  BY <1>2, <1>3, <1>4, SumPart
<1>6. SumFunctionOnSet(f, T) \in Nat /\ SumFunctionOnSet(f, Open) \in Nat
  <2>1. IsFiniteSet(T) /\ \A p \in T : f[p] \in Nat
    BY <1>2, <1>3, <1>4, FS_Subset
  <2> QED BY <1>2, <1>3, <1>4, <2>1, SumNat
<1>7. SumFunctionOnSet(f, T) <= Captured
  BY <1>4, <1>5, <1>6 DEF Covered, RefundSetting
<1>8. SumFunctionOnSet(AmountOf, Open)' <= Captured
  BY <1>1, <1>4, <1>7
<1> QED BY <1>8 DEF Covered

\* A report writes the status of its row.
LEMMA ReportKeepsAmounts ==
    ASSUME Rows, NEW q \in Requests, NEW report \in Reports, ApplyReport(q, report)
    PROVE  \A p \in Requests : /\ request'[p].amount = request[p].amount
                               /\ request'[p].status = "none" => request[p].status = "none"
<1>1. CASE UNCHANGED request
  BY <1>1
<1>2. ASSUME NEW to \in Status \ {"none"}, request' = [request EXCEPT ![q] = [request[q] EXCEPT !.status = to, !.bound = TRUE]]
      PROVE  \A p \in Requests : /\ request'[p].amount = request[p].amount
                                 /\ request'[p].status = "none" => request[p].status = "none"
  <2>1. Moved(q, to)
    BY <1>2, StatusMoves
  <2> QED BY <1>2, <2>1 DEF Moved
<1>3. ASSUME request' = [request EXCEPT ![q] = [request[q] EXCEPT !.status = "review_required"]]
      PROVE  \A p \in Requests : /\ request'[p].amount = request[p].amount
                                 /\ request'[p].status = "none" => request[p].status = "none"
  <2>1. Moved(q, "review_required")
    <3>1. "review_required" \in Status /\ TRUE \in BOOLEAN
      BY DEF Status
    <3> QED BY <1>3, <3>1, StatusMoves
  <2> QED BY <2>1 DEF Moved
<1>4. report \in Status \ {"none"}
  BY DEF Reports, Status
<1> QED BY <1>1, <1>2, <1>3, <1>4 DEF ApplyReport

\* The capture covers the refunds through every step.
LEMMA StepCovered ==
    ASSUME RefundSetting, IInv, Covered, [Next]_vars
    PROVE  Covered'
<1>1. Books /\ Rows /\ \A q \in Requests : refund[q] \subseteq Reports
  BY DEF IInv, Books, Rows
<1>2. CASE UNCHANGED <<request, refund>>
  BY <1>1, <1>2, AmountsStay DEF Rows
<1>3. ASSUME NEW c \in Calls, NEW q \in Requests, NEW S \in SUBSET Entries, Claim(c, q, S)
      PROVE  Covered'
  BY <1>1, <1>3, ClaimCovered
<1>4. ASSUME NEW c \in Calls, Post(c) PROVE Covered'
  <2>1. UNCHANGED request /\ call[c].req \in Requests /\ refund[call[c].req] = {}
    BY <1>4 DEF Post, IInv, CallsHold, CallOK
  <2>2. refund' = refund \/ refund' = [refund EXCEPT ![call[c].req] = {"pending"}]
    BY <1>4 DEF Post
  <2>3. /\ refund' \in [Requests -> SUBSET Reports]
        /\ \A p \in Requests : "failed" \in refund[p] => "failed" \in refund'[p]
    BY <1>1, <2>1, <2>2 DEF Rows, Reports
  <2> QED BY <2>1, <2>3, AmountsStay
<1>5. ASSUME NEW c \in Calls, MarkUnknown(c) PROVE Covered'
  <2>1. UNCHANGED refund /\ call[c].req \in Requests
    BY <1>5 DEF MarkUnknown, IInv, CallsHold, CallOK
  <2>2. CASE UNCHANGED request
    BY <1>2, <2>1, <2>2
  <2>3. CASE request' = [request EXCEPT ![call[c].req] = [request[call[c].req] EXCEPT !.status = "unknown"]]
    <3>1. "unknown" \in Status /\ TRUE \in BOOLEAN
      BY DEF Status
    <3>2. Moved(call[c].req, "unknown")
      BY <1>1, <2>1, <2>3, <3>1, StatusMoves
    <3>3. \A p \in Requests : /\ request'[p].amount = request[p].amount
                              /\ request'[p].status = "none" => request[p].status = "none"
      BY <3>2 DEF Moved
    <3> QED BY <1>1, <2>1, <3>3, AmountsStay DEF Rows
  <2> QED BY <1>5, <2>2, <2>3 DEF MarkUnknown
<1>6. ASSUME NEW q \in Requests, NEW report \in refund[q], ApplyReport(q, report), UNCHANGED refund
      PROVE  Covered'
  <2>1. \A p \in Requests : /\ request'[p].amount = request[p].amount
                            /\ request'[p].status = "none" => request[p].status = "none"
    BY <1>1, <1>6, ReportKeepsAmounts
  <2> QED BY <1>1, <1>6, <2>1, AmountsStay DEF Rows
<1>7. ASSUME NEW c \in Calls, Apply(c) PROVE Covered'
  <2>1. call[c].req \in Requests /\ call[c].report \in refund[call[c].req]
    BY <1>7 DEF Apply, IInv, CallsHold, CallOK
  <2> QED BY <1>6, <1>7, <2>1 DEF Apply
<1>8. ASSUME NEW q \in Requests, Webhook(q) PROVE Covered'
  BY <1>6, <1>8 DEF Webhook
<1>9. ASSUME NEW q \in Requests, Conclude(q) PROVE Covered'
  <2>1. /\ refund' \in [Requests -> SUBSET Reports]
        /\ \A p \in Requests : refund[p] \subseteq refund'[p]
    BY <1>1, <1>9 DEF Conclude, Rows, Reports
  <2>2. UNCHANGED request
    BY <1>9 DEF Conclude
  <2> QED BY <2>1, <2>2, AmountsStay
<1>10. ASSUME NEW c \in Calls, Get(c) \/ Die(c) \/ \E q \in Requests : ClaimKnown(c, q)
       PROVE  Covered'
  BY <1>2, <1>10 DEF Get, Die, ClaimKnown
<1>11. CASE UNCHANGED vars
  BY <1>2, <1>11 DEF vars
<1> QED BY <1>3, <1>4, <1>5, <1>7, <1>8, <1>9, <1>10, <1>11 DEF Next, CallStep, ProviderStep

\* Nothing is asked back at first.
LEMMA InitCovered == ASSUME RefundSetting, Init PROVE Covered
<1>1. \A q \in Requests : request[q].amount = 0
  BY DEF Init, NoRequest
<1>2. IsFiniteSet(Open) /\ \A q \in Open : AmountOf[q] = 0
  BY <1>1, FS_Subset DEF Open, AmountOf, RefundSetting
<1>3. SumFunctionOnSet(AmountOf, Open) = 0
  <2>1. PICK f, T : f = AmountOf /\ T = Open
    OBVIOUS
  <2>2. SumFunctionOnSet(f, T) = 0
    BY <1>2, <2>1, SumZero
  <2> QED BY <2>1, <2>2
<1> QED BY <1>1, <1>3 DEF Covered, RefundSetting

\* What is paid out is open.
LEMMA PaidOutCovered == ASSUME RefundSetting, Covered PROVE WithinCapture
<1>1. {q \in Requests : PaidOut(q)} \in SUBSET Open /\ IsFiniteSet(Open)
  BY FS_Subset DEF Open, PaidOut, RefundSetting
<1>2. \A q \in Open : AmountOf[q] \in Nat
  BY DEF Open, AmountOf, Covered, RefundSetting
<1>3. PICK T : T = {q \in Requests : PaidOut(q)}
  OBVIOUS
<1>4. SumFunctionOnSet(AmountOf, T) <= SumFunctionOnSet(AmountOf, Open)
  BY <1>1, <1>2, <1>3, SumPart
<1>5. SumFunctionOnSet(AmountOf, T) \in Nat /\ SumFunctionOnSet(AmountOf, Open) \in Nat
  <2>1. IsFiniteSet(T) /\ \A q \in T : AmountOf[q] \in Nat
    BY <1>1, <1>2, <1>3, FS_Subset
  <2> QED BY <1>1, <1>2, <2>1, SumNat
<1>6. SumFunctionOnSet(AmountOf, T) <= Captured
  BY <1>4, <1>5 DEF Covered, RefundSetting
<1> QED BY <1>3, <1>6 DEF WithinCapture

\* The rows, the provider's refunds and the calls keep their types, for any order.
LEMMA RefundTypes == ASSUME RefundSetting, IInv, Covered PROVE TypeOK
<1>1. Rows /\ PlacesFreed
  BY DEF IInv, Books
<1>2. slots \in Nat
  <2>1. IsFiniteSet({e \in Entries : reg[e] = "paid"})
    BY FS_Subset DEF RefundSetting
  <2> QED BY <1>1, <2>1, FS_CardinalityType DEF PlacesFreed
<1>3. request \in [Requests -> [status : Status, lines : SUBSET Entries, amount : 0..Captured,
                                bound : BOOLEAN]]
  BY <1>1 DEF Rows, Row, Covered
<1> QED BY <1>1, <1>2, <1>3 DEF TypeOK, Rows, Held
-----------------------------------------------------------------------------
RefundInv == IInv /\ Covered

LEMMA RefundInitially == ASSUME RefundSetting, Init PROVE RefundInv
  BY InitBooks, InitCovered DEF RefundInv

LEMMA RefundInductive == ASSUME RefundSetting, RefundInv, [Next]_vars PROVE RefundInv'
  BY StepBooks, StepCovered DEF RefundInv, RefundSetting

\* The columns, the provider's refunds and the calls keep their types; an amount is at most the
\* capture.
THEOREM RefundTypeCorrect ==
    ASSUME RefundSetting
    PROVE  Spec => []TypeOK
<1>1. Init => RefundInv
  BY RefundInitially
<1>2. RefundInv /\ [Next]_vars => RefundInv'
  BY RefundInductive
<1>3. RefundInv => TypeOK
  BY RefundTypes DEF RefundInv
<1> QED BY <1>1, <1>2, <1>3, PTL DEF Spec

\* However requests of a group order overlap, and however late or often the provider answers, an
\* entry's money is given back by one refund (but for one the provider had called failed), one
\* request books it, its place is freed with it, and all that is paid out was in the capture
\* (20260922002908:303-433).
THEOREM GroupRefundsOnce ==
    ASSUME RefundSetting
    PROVE  Spec => []EntriesRefundedOnce
<1>1. Init => RefundInv
  BY RefundInitially
<1>2. RefundInv /\ [Next]_vars => RefundInv'
  BY RefundInductive
<1>3. RefundInv => EntriesRefundedOnce
  BY BooksSettle, PaidOutCovered DEF RefundInv, IInv, Books, EntriesRefundedOnce
<1> QED BY <1>1, <1>2, <1>3, PTL DEF Spec
=============================================================================
