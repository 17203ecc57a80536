------------------------ MODULE RefundRequest_proofs ------------------------
(* However often the refund of an entry is claimed, submitted, reported and *)
(* applied, the provider makes one refund per request, one of them moves at *)
(* a time, and the ledger books one debit: RefundRequest implements         *)
(* RefundLedger.                                                            *)
EXTENDS RefundRequest, TLAPS

Row == [status : Active \cup {"none", "failed", "succeeded"}, ref : Ref,
        terms : Terms, key : BOOLEAN, aged : BOOLEAN, review : BOOLEAN]

Used(t, q) == t[q].status # "none"
Stands(t, q) == t[q].status \notin {"none", "failed"}
Made(f) == refund[f].status # "none"
Posting(w, q) == job[w].pc = "post" /\ job[w].req = q

\* The provider has declined the refund request q of table t is bound to.
Declined(t, q) == t[q].ref # None /\ "failed" \in refund[t[q].ref].had

\* A refund is nothing before it is made; reports say what the provider has said; only the parked
\* refund of an older release names no request.
RefundsOK ==
    \A f \in Refunds :
        /\ ~Made(f) => refund[f] = NoRefund
        /\ refund[f].status = "succeeded" <=> "succeeded" \in refund[f].had
        /\ Made(f) /\ refund[f].req = None => f = Legacy
        /\ event[f] # "none" => event[f] \in refund[f].had

\* A request is bound to its own refund, or to the parked one and then has no other.
RefsOwned(t) ==
    \A q \in Reqs : t[q].ref # None =>
        /\ Made(t[q].ref)
        /\ \/ refund[t[q].ref].req = q
           \/ (refund[t[q].ref].req = None /\ \A f \in Refunds : refund[f].req # q)

\* A row that is not in use says nothing, no refund is shared, and of two requests in use one
\* has been declined.
RowsOK(t) ==
    /\ t \in [Reqs -> Row]
    /\ \A q \in Reqs : ~Used(t, q) => t[q] = NoRequest /\ \A f \in Refunds : refund[f].req # q
    /\ RefsOwned(t)
    /\ \A p, q \in Reqs : t[p].ref # None /\ t[p].ref = t[q].ref => p = q
    /\ \A q \in Reqs : t[q].status = "failed" => Declined(t, q)
    /\ \A p, q \in Reqs : p # q /\ Used(t, p) /\ Used(t, q) => Declined(t, p) \/ Declined(t, q)

\* The ledger row is settled by one succeeded request; only a settled entry is under review.
Settlement(t, pay) ==
    /\ pay \in [status : {"paid", "refunded", "partially_refunded"}, by : Ref]
    /\ pay.status = "paid" <=> pay.by = None
    /\ pay.by # None => \E q \in Reqs : t[q].status = "succeeded" /\ t[q].ref = pay.by
    /\ \A q \in Reqs :
        /\ t[q].status = "succeeded" <=> pay.by # None /\ pay.by = t[q].ref
        /\ t[q].status = "succeeded" =>
              /\ refund[t[q].ref].status = "succeeded"
              /\ pay = SettledWith(t[q].ref, refund[t[q].ref].terms)
        /\ t[q].review => pay.by # None /\ t[q].ref # None

\* raw.refund names no request before there is one, and until the entry is settled it describes
\* the one that stands; a refund parked by an older release is there, or a request is bound to it.
Parking(t, pk, pay) ==
    /\ pk \in [req : Req, id : Ref, status : Active \cup State \cup {"none"}]
    /\ pk.req = None => \A q \in Reqs : ~Used(t, q)
    /\ pk.req = None /\ pk.status = "pending" => pk.id = Legacy /\ Made(Legacy) /\ refund[Legacy].req = None
    /\ Made(Legacy) /\ refund[Legacy].req = None =>
           (pk.req = None /\ pk.status = "pending") \/ \E q \in Reqs : t[q].ref = Legacy
    /\ pay.by = None =>
           /\ \A q \in Reqs : Stands(t, q) => pk.req = q /\ pk.status = t[q].status
           /\ pk.status \in Active => pk.req = None \/ \E q \in Reqs : Stands(t, q)

Books(t, pk, pay) == RowsOK(t) /\ Settlement(t, pay) /\ Parking(t, pk, pay)

\* The key of a request leads to its refund as long as anybody may submit it.
KeysOK ==
    /\ \A q \in Reqs, k \in BOOLEAN : keyed[q][k] # None => refund[keyed[q][k]].req = q
    /\ \A q \in Reqs, f \in Refunds : refund[f].req = q =>
           \/ keyed[q][req[q].key] = f
           \/ (req[q].aged /\ \A w \in Workers : ~Posting(w, q))
    /\ OneRefundPerRequest

\* What a call holds.
JobOK(w) ==
    LET q == job[w].req f == job[w].ref IN
    /\ job[w].pc \in {"consume", "look", "post", "uncertain", "bind"} => q \in Reqs /\ Used(req, q)
    /\ job[w].pc \in {"consume", "look"} => f # None /\ f = req[q].ref
    /\ job[w].pc = "post" => /\ job[w].key = req[q].key
                             /\ req[q].ref # None => refund[req[q].ref].req = q
    /\ job[w].pc = "bind" => f \in Refunds /\ Made(f) /\ (refund[f].req = q \/ req[q].ref = f)
    /\ job[w].pc \in {"store", "apply"} => f \in Refunds
    /\ job[w].pc = "apply" => event[f] # "none"

JobsOK == \A w \in Workers : JobOK(w)

IInv == TypeOK /\ RefundsOK /\ Books(req, parked, payment) /\ KeysOK /\ JobsOK
-----------------------------------------------------------------------------
(* Writing a row. *)

\* Table u is t with another row for q.
Writes(t, u, q) == u \in [Reqs -> Row] /\ \A o \in Reqs \ {q} : u[o] = t[o]

\* A row in use may be bound to its own refund, and fails when that was declined.
LEMMA RowsKept ==
    ASSUME NEW t, RowsOK(t), NEW q \in Reqs, NEW u, Writes(t, u, q), Used(t, q), Used(u, q),
           \/ u[q].ref = t[q].ref
           \/ /\ t[q].ref = None /\ u[q].ref \in Refunds /\ Made(u[q].ref)
              /\ refund[u[q].ref].req = q /\ \A o \in Reqs \ {q} : t[o].ref # u[q].ref,
           u[q].status = "failed" => Declined(u, q)
    PROVE  RowsOK(u)
<1>1. u \in [Reqs -> Row] /\ \A o \in Reqs \ {q} : u[o] = t[o]
  BY DEF Writes
<1>2. \A p \in Reqs : ~Used(u, p) => u[p] = NoRequest /\ \A f \in Refunds : refund[f].req # p
  BY <1>1 DEF RowsOK, Used
<1>3. RefsOwned(u)
  BY <1>1 DEF RowsOK, RefsOwned
<1>4. \A p, o \in Reqs : u[p].ref # None /\ u[p].ref = u[o].ref => p = o
  BY <1>1 DEF RowsOK
<1>5. \A p \in Reqs : u[p].status = "failed" => Declined(u, p)
  BY <1>1 DEF RowsOK, Declined
<1>6. \A p \in Reqs : Declined(t, p) => Declined(u, p)
  BY <1>1 DEF Declined
<1>7. \A p \in Reqs : Used(u, p) => Used(t, p)
  BY <1>1 DEF Used
<1>8. \A p, o \in Reqs : p # o /\ Used(u, p) /\ Used(u, o) => Declined(u, p) \/ Declined(u, o)
  BY <1>6, <1>7 DEF RowsOK
<1> QED BY <1>1, <1>2, <1>3, <1>4, <1>5, <1>8 DEF RowsOK

\* A new row is taken when every other has failed: unbound, or bound to the parked refund.
LEMMA RowsAdded ==
    ASSUME NEW t, RowsOK(t), NEW q \in Reqs, NEW u, Writes(t, u, q), ~Used(t, q),
           Stands(u, q), \A o \in Reqs : ~Stands(t, o),
           \/ u[q].ref = None
           \/ /\ u[q].ref = Legacy /\ Legacy # None /\ Made(Legacy) /\ refund[Legacy].req = None
              /\ \A o \in Reqs : t[o].ref # Legacy
    PROVE  RowsOK(u)
<1>1. u \in [Reqs -> Row] /\ \A o \in Reqs \ {q} : u[o] = t[o]
  BY DEF Writes
<1>2. \A f \in Refunds : refund[f].req # q
  BY DEF RowsOK
<1>3. \A p \in Reqs : ~Used(u, p) => u[p] = NoRequest /\ \A f \in Refunds : refund[f].req # p
  BY <1>1 DEF RowsOK, Used, Stands
<1>4. RefsOwned(u)
  BY <1>1, <1>2 DEF RowsOK, RefsOwned
<1>5. \A p, o \in Reqs : u[p].ref # None /\ u[p].ref = u[o].ref => p = o
  BY <1>1 DEF RowsOK
<1>6. \A p \in Reqs : u[p].status = "failed" => Declined(u, p)
  BY <1>1 DEF RowsOK, Declined, Stands
<1>7. \A p \in Reqs \ {q} : Used(u, p) => Declined(u, p)
  BY <1>1 DEF RowsOK, Used, Declined, Stands
<1> QED BY <1>1, <1>3, <1>4, <1>5, <1>6, <1>7 DEF RowsOK

\* While nothing settles a request, the settlement stays; a request under review is bound.
LEMMA SettlementKept ==
    ASSUME NEW t, NEW pay, Settlement(t, pay), NEW q \in Reqs, NEW u, Writes(t, u, q),
           t[q].status # "succeeded", u[q].status # "succeeded",
           pay.by = None \/ u[q].ref # pay.by,
           u[q].review => pay.by # None /\ u[q].ref # None
    PROVE  Settlement(u, pay)
<1>1. \A o \in Reqs \ {q} : u[o] = t[o]
  BY DEF Writes
<1>2. (pay.status = "paid" <=> pay.by = None)
      /\ pay \in [status : {"paid", "refunded", "partially_refunded"}, by : Ref]
  BY DEF Settlement
<1>3. pay.by # None => \E p \in Reqs : u[p].status = "succeeded" /\ u[p].ref = pay.by
  BY <1>1 DEF Settlement
<1>4. \A p \in Reqs :
        /\ u[p].status = "succeeded" <=> pay.by # None /\ pay.by = u[p].ref
        /\ u[p].status = "succeeded" =>
              /\ refund[u[p].ref].status = "succeeded"
              /\ pay = SettledWith(u[p].ref, refund[u[p].ref].terms)
        /\ u[p].review => pay.by # None /\ u[p].ref # None
  BY <1>1 DEF Settlement
<1> QED BY <1>2, <1>3, <1>4 DEF Settlement
\* Projection describes q once no other request of an unsettled entry stands.
LEMMA ParkingWritten ==
    ASSUME NEW t, NEW q \in Reqs, NEW u, Writes(t, u, q), NEW pay,
           t[q].ref \in {None, u[q].ref}, Used(u, q),
           Made(Legacy) /\ refund[Legacy].req = None =>
               u[q].ref = Legacy \/ \E p \in Reqs : t[p].ref = Legacy,
           pay.by = None => \A p \in Reqs \ {q} : ~Stands(t, p)
    PROVE  Parking(u, Projection(u, q), pay)
<1> DEFINE pk == Projection(u, q)
<1>1. u \in [Reqs -> Row] /\ \A o \in Reqs \ {q} : u[o] = t[o]
  BY DEF Writes
<1>2. pk = [req |-> q, id |-> u[q].ref, status |-> u[q].status]
  BY DEF Projection
<1>3. None \notin Reqs \cup Refunds /\ Legacy \in Refunds
  BY RefundAssumption
<1> HIDE DEF pk
<1>4. pk \in [req : Req, id : Ref, status : Active \cup State \cup {"none"}] /\ pk.req = q /\ q # None
  BY <1>1, <1>2, <1>3 DEF Row, Req, State
<1>5. Made(Legacy) /\ refund[Legacy].req = None => \E p \in Reqs : u[p].ref = Legacy
  BY <1>1, <1>3
<1>6. pay.by = None => \A p \in Reqs : Stands(u, p) => pk.req = p /\ pk.status = u[p].status
  BY <1>1, <1>2 DEF Stands
<1>7. pk.status \in Active => \E p \in Reqs : Stands(u, p)
  BY <1>1, <1>2 DEF Stands, Active
<1>8. Parking(u, pk, pay)
  BY <1>4, <1>5, <1>6, <1>7 DEF Parking
<1> QED BY <1>8 DEF pk
-----------------------------------------------------------------------------
(* What a step may not take back from the requests in use. *)

Grows(t) ==
    \A q \in Reqs : Used(req, q) =>
        /\ Used(t, q) /\ t[q].key = req[q].key /\ (req[q].aged => t[q].aged)
        /\ \/ t[q].ref = req[q].ref
           \/ req[q].ref = None /\ t[q].ref \in Refunds /\ refund[t[q].ref].req = q

\* While nobody begins to submit an aged request, its key leads where it led.
LEMMA KeysKept ==
    ASSUME IInv, Grows(req'), UNCHANGED provider,
           \A w \in Workers, q \in Reqs : Posting(w, q)' => Posting(w, q) \/ ~req[q].aged
    PROVE  KeysOK'
<1>1. KeysOK /\ RowsOK(req) /\ refund' = refund /\ keyed' = keyed
  BY DEF IInv, Books, provider
<1>2. \A q \in Reqs, f \in Refunds : refund[f].req = q => Used(req, q)
  BY <1>1 DEF RowsOK
<1>3. \A q \in Reqs, f \in Refunds : refund[f].req = q =>
           req'[q].key = req[q].key /\ (req[q].aged => req'[q].aged)
  BY <1>2 DEF Grows
<1> QED BY <1>1, <1>3 DEF KeysOK, OneRefundPerRequest

\* A call that does nothing, or ends, may rely on what it held.
LEMMA JobKept ==
    ASSUME IInv, Grows(req'), NEW w \in Workers, job'[w] = job[w] \/ job'[w] = NoJob,
           \A f \in Refunds : /\ Made(f) => Made(f)' /\ refund'[f].req = refund[f].req
                              /\ event[f] # "none" => event'[f] # "none"
    PROVE  JobOK(w)'
<1>1. JobOK(w) /\ RowsOK(req) /\ RefundsOK /\ None \notin Reqs \cup Refunds
  BY RefundAssumption DEF IInv, JobsOK, Books
<1>2. CASE job'[w] = NoJob
  BY <1>2 DEF NoJob, JobOK
<1>3. CASE job'[w] = job[w] /\ job[w].req \in Reqs /\ Used(req, job[w].req)
  <2> DEFINE q == job[w].req
             f == job[w].ref
  <2>1. Used(req, q)' /\ req'[q].key = req[q].key
        /\ \/ req'[q].ref = req[q].ref
           \/ req[q].ref = None /\ req'[q].ref \in Refunds /\ refund[req'[q].ref].req = q
    BY <1>3 DEF Grows, Used
  <2>2. req[q].ref # None => req[q].ref \in Refunds /\ Made(req[q].ref)
    BY <1>1, <1>3 DEF RowsOK, RefsOwned, Row, Ref
  <2>3. \A g \in Refunds : refund[g].req = q => Made(g)
    BY <1>1, <1>3 DEF RefundsOK, NoRefund
  <2>4. job[w].pc = "post" /\ req'[q].ref # None => refund'[req'[q].ref].req = q
    BY <1>1, <1>3, <2>1, <2>2, <2>3 DEF JobOK
  <2>5. job[w].pc = "bind" => f \in Refunds /\ Made(f)' /\ (refund'[f].req = q \/ req'[q].ref = f)
    BY <1>1, <1>3, <2>1 DEF JobOK
  <2> HIDE DEF q, f
  <2> QED BY <1>1, <1>3, <2>1, <2>4, <2>5 DEF JobOK, q, f
<1>4. CASE job'[w] = job[w] /\ ~(job[w].req \in Reqs /\ Used(req, job[w].req))
  BY <1>1, <1>4 DEF JobOK
<1> QED BY <1>2, <1>3, <1>4
-----------------------------------------------------------------------------
(* refund_request_apply_event. *)

\* The refunds put before an operator.
Flagged(t) == {f \in Refunds : \E q \in Reqs : t[q].review /\ t[q].ref = f}

\* A table in which a report of f may be applied: what is still open stands alone in it.
Ready(t) ==
    /\ RowsOK(t) /\ Settlement(t, payment) /\ Grows(t)
    /\ payment.by = None => \A p, q \in Reqs : Stands(t, p) /\ Stands(t, q) => p = q

\* Nothing stands and a refund is parked: it is the one of the older release, and no request was
\* ever claimed.
LEMMA ParkedIsLegacy ==
    ASSUME IInv, Claimable, Adoptable
    PROVE  /\ parked.req = None /\ parked.id = Legacy /\ Made(Legacy) /\ refund[Legacy].req = None
           /\ \A q \in Reqs : ~Used(req, q) /\ req[q] = NoRequest
           /\ payment.by = None
<1>1. Parking(req, parked, payment) /\ Settlement(req, payment) /\ RowsOK(req)
  BY DEF IInv, Books
<1>2. payment.by = None
  BY <1>1 DEF Claimable, Refunded, Settlement
<1>3. parked.status = "pending" /\ \A q \in Reqs : ~Stands(req, q)
  BY DEF Adoptable, Standing, Stands
<1>4. parked.req = None
  BY <1>1, <1>2, <1>3 DEF Parking, Active
<1>5. \A q \in Reqs : ~Used(req, q)
  BY <1>1, <1>4 DEF Parking
<1> QED BY <1>1, <1>2, <1>3, <1>4, <1>5 DEF Parking, RowsOK

\* Adopting the parked refund takes the first row for it.
LEMMA AdoptedReady ==
    ASSUME IInv, Claimable, Adoptable, NEW q \in Reqs, NEW k \in BOOLEAN,
           NEW t, t = Adopted(q, k)
    PROVE  /\ Writes(req, t, q) /\ t[q].status = "pending" /\ t[q].ref = Legacy
           /\ t[q].terms = refund[Legacy].terms /\ t[q].key = k /\ ~t[q].review
           /\ Ready(t)
<1>1. Legacy \in Refunds /\ Legacy # None /\ refund[Legacy].terms \in Terms
  BY RefundAssumption DEF IInv, TypeOK
<1>2. /\ parked.id = Legacy /\ Made(Legacy) /\ refund[Legacy].req = None /\ payment.by = None
      /\ \A p \in Reqs : ~Used(req, p) /\ req[p] = NoRequest
  BY ParkedIsLegacy
<1>3. RowsOK(req) /\ Settlement(req, payment) /\ req \in [Reqs -> Row]
  BY DEF IInv, Books, RowsOK
<1>4. /\ Writes(req, t, q) /\ t[q].status = "pending" /\ t[q].ref = Legacy
      /\ t[q].terms = refund[Legacy].terms /\ t[q].key = k /\ t[q].review = FALSE
  BY <1>1, <1>2, <1>3 DEF Adopted, NoRequest, Writes, Row, Active, Ref
<1>5. RowsOK(t)
  <2>1. \A p \in Reqs : ~Stands(req, p) /\ req[p].ref # Legacy
    BY <1>1, <1>2 DEF NoRequest, Stands
  <2>2. Stands(t, q)
    BY <1>4 DEF Stands
  <2> QED BY <1>1, <1>2, <1>3, <1>4, <2>1, <2>2, RowsAdded
<1>6. Settlement(t, payment)
  <2>1. req[q].status # "succeeded"
    BY <1>2 DEF NoRequest
  <2> QED BY <1>2, <1>3, <1>4, <2>1, SettlementKept
<1>7. Grows(t)
  BY <1>2 DEF Grows
<1>8. \A p \in Reqs : Stands(t, p) => p = q
  BY <1>2, <1>4 DEF Stands, NoRequest, Writes
<1> QED BY <1>4, <1>5, <1>6, <1>7, <1>8 DEF Ready

\* The table as it is will do.
LEMMA TableReady == ASSUME IInv PROVE Ready(req)
<1>1. RowsOK(req) /\ Settlement(req, payment) /\ Parking(req, parked, payment)
  BY DEF IInv, Books
<1>2. Grows(req)
  BY DEF Grows
<1>3. payment.by = None => \A p, q \in Reqs : Stands(req, p) /\ Stands(req, q) => p = q
  BY <1>1 DEF Parking
<1> QED BY <1>1, <1>2, <1>3 DEF Ready

\* The request a refund belongs to is in use, and bound to it or free to be.
LEMMA OwnerFacts ==
    ASSUME IInv, NEW t, RowsOK(t), NEW f \in Refunds, OwnerOf(t, f) # None
    PROVE  LET q == OwnerOf(t, f) IN
           /\ q \in Reqs /\ Used(t, q) /\ Made(f)
           /\ \/ t[q].ref = f
              \/ refund[f].req = q /\ \A o \in Reqs : t[o].ref # f
<1> DEFINE q == OwnerOf(t, f)
<1>1. f # None /\ refund[f].req \in Req /\ RefundsOK /\ None \notin Reqs
  BY RefundAssumption DEF IInv, TypeOK
<1>2. CASE \E p \in Reqs : t[p].ref = f
  <2>1. q \in Reqs /\ t[q].ref = f
    BY <1>2 DEF OwnerOf
  <2> HIDE DEF q
  <2>2. Made(f)
    BY <1>1, <2>1 DEF RowsOK, RefsOwned
  <2>3. Used(t, q)
    BY <1>1, <2>1 DEF RowsOK, NoRequest
  <2> QED BY <2>1, <2>2, <2>3 DEF q
<1>3. CASE \A p \in Reqs : t[p].ref # f
  <2>1. q = refund[f].req
    BY <1>3 DEF OwnerOf
  <2>2. q \in Reqs
    BY <1>1, <2>1 DEF Req
  <2> HIDE DEF q
  <2>3. Used(t, q)
    BY <2>1, <2>2 DEF RowsOK
  <2>4. Made(f)
    BY <1>1, <2>1, <2>2 DEF RefundsOK, NoRefund
  <2> QED BY <1>3, <2>1, <2>2, <2>3, <2>4 DEF q
<1> QED BY <1>2, <1>3

\* Binding and concluding write one row.
LEMMA BoundRow ==
    ASSUME NEW t, t \in [Reqs -> Row], NEW q \in Reqs, NEW f \in Refunds, NEW u, u = BoundTo(t, q, f)
    PROVE  /\ Writes(t, u, q) /\ u[q].ref = f /\ u[q].key = t[q].key /\ u[q].aged = t[q].aged
           /\ u[q].terms = t[q].terms /\ u[q].review = t[q].review
           /\ t[q].status \in {"succeeded", "failed"} => u[q].status = t[q].status
           /\ t[q].status \notin {"succeeded", "failed"} => u[q].status = "pending"
<1>1. t[q] \in Row
  OBVIOUS
<1> QED BY <1>1 DEF BoundTo, Row, Writes, Ref, Active

LEMMA ConcludedRow ==
    ASSUME NEW t, t \in [Reqs -> Row], NEW q \in Reqs, NEW f \in Refunds, event[f] \in State,
           NEW u, u = Concluded(t, q, f)
    PROVE  /\ Writes(t, u, q) /\ u[q].ref = f /\ u[q].key = t[q].key /\ u[q].aged = t[q].aged
           /\ u[q].review = t[q].review /\ u[q].status = event[f]
<1>1. PICK b : b = BoundTo(t, q, f)
  OBVIOUS
<1>2. Writes(t, b, q) /\ b \in [Reqs -> Row] /\ u = [b EXCEPT ![q].status = event[f]]
  BY <1>1, BoundRow DEF Concluded, Writes
<1>3. b[q] \in Row
  BY <1>2
<1>4. /\ Writes(b, u, q) /\ u[q].ref = b[q].ref /\ u[q].key = b[q].key /\ u[q].aged = b[q].aged
      /\ u[q].review = b[q].review /\ u[q].status = event[f]
  BY <1>2, <1>3 DEF Writes, Row, State, Active
<1>5. /\ b[q].ref = f /\ b[q].key = t[q].key /\ b[q].aged = t[q].aged /\ b[q].review = t[q].review
  BY <1>1, BoundRow
<1> QED BY <1>2, <1>4, <1>5 DEF Writes

Reviewed(t, q, f) == [t EXCEPT ![q].review = TRUE, ![q].ref = f]

LEMMA ReviewRow ==
    ASSUME NEW t, t \in [Reqs -> Row], NEW q \in Reqs, NEW f \in Refunds,
           NEW u, u = Reviewed(t, q, f)
    PROVE  /\ Writes(t, u, q) /\ u[q].ref = f /\ u[q].key = t[q].key /\ u[q].aged = t[q].aged
           /\ u[q].status = t[q].status /\ u[q].review
<1>1. t[q] \in Row
  OBVIOUS
<1> QED BY <1>1 DEF Reviewed, Row, Writes, Ref

LEMMA GrowsKept ==
    ASSUME NEW t, Grows(t), NEW q \in Reqs, NEW u, Writes(t, u, q),
           Used(u, q), u[q].key = t[q].key, t[q].aged => u[q].aged,
           \/ u[q].ref = t[q].ref
           \/ t[q].ref = None /\ u[q].ref \in Refunds /\ refund[u[q].ref].req = q
    PROVE  Grows(u)
<1>1. None \notin Refunds
  BY RefundAssumption
<1> QED BY <1>1 DEF Grows, Used, Writes

\* What the table holds when a report is applied.  An adopted refund is always applied at once.
LEMMA TableFacts ==
    ASSUME IInv, NEW f \in Refunds, NEW t \in Table(f),
           event[f] # "none" \/ \E p \in Reqs : req[p].ref = f
    PROVE  /\ Ready(t) /\ t \in [Reqs -> Row]
           /\ \/ t = req
              \/ /\ event[f] # "none" /\ Applicable(t, OwnerOf(t, f), f) /\ ~Refunded
                 /\ t[OwnerOf(t, f)].status # "failed"
           /\ \A q \in Reqs : Used(t, q) /\ Made(Legacy) /\ refund[Legacy].req = None =>
                 \E p \in Reqs : t[p].ref = Legacy
<1>1. CASE t = req
  <2>1. Ready(t)
    BY <1>1, TableReady
  <2>2. Parking(req, parked, payment)
    BY DEF IInv, Books
  <2> QED BY <1>1, <2>1, <2>2 DEF Ready, RowsOK, Parking
<1>2. CASE t # req
  <2>1. /\ \A q \in Reqs : req[q].ref # f
        /\ Adoptable /\ parked.id = f /\ Claimable
        /\ \E q \in Fresh : t = Adopted(q, FALSE)
    BY <1>2 DEF Table
  <2>2. PICK o \in Reqs : t = Adopted(o, FALSE)
    BY <2>1 DEF Fresh
  <2>3. f = Legacy
    BY <2>1, ParkedIsLegacy
  <2>4. /\ Ready(t) /\ Writes(req, t, o) /\ t[o].status = "pending" /\ t[o].ref = f
        /\ t[o].terms = refund[f].terms /\ ~t[o].review
    BY <2>1, <2>2, <2>3, AdoptedReady
  <2>5. OwnerOf(t, f) = o
    BY <2>4, RefundAssumption DEF OwnerOf, Ready, RowsOK
  <2>6. Applicable(t, o, f)
    BY <2>4, RefundAssumption DEF Applicable
  <2>7. event[f] # "none" /\ ~Refunded
    BY <2>1 DEF Claimable
  <2> QED BY <2>3, <2>4, <2>5, <2>6, <2>7 DEF Writes
<1> QED BY <1>1, <1>2

\* The owner of a refund is bound to it, whatever the report makes of its status.
LEMMA OwnerBound ==
    ASSUME IInv, NEW t, Ready(t), NEW f \in Refunds, NEW q, q = OwnerOf(t, f), Applicable(t, q, f),
           NEW u, Writes(t, u, q), u[q].ref = f, Used(u, q), u[q].key = t[q].key,
           u[q].aged = t[q].aged, u[q].status = "failed" => Declined(u, q)
    PROVE  /\ q \in Reqs /\ Used(t, q)
           /\ \A o \in Reqs \ {q} : t[o].ref # f
           /\ RowsOK(u) /\ Grows(u)
<1>1. t[q].ref \in {None, f} /\ q # None /\ f # None
  BY RefundAssumption DEF Applicable
<1>2. RowsOK(t) /\ t \in [Reqs -> Row] /\ Grows(t)
  BY DEF Ready, RowsOK
<1>3. /\ q \in Reqs /\ Used(t, q) /\ Made(f)
      /\ \/ t[q].ref = f
         \/ refund[f].req = q /\ \A o \in Reqs : t[o].ref # f
  BY <1>1, <1>2, OwnerFacts
<1>4. \A o \in Reqs \ {q} : t[o].ref # f
  BY <1>1, <1>2, <1>3 DEF RowsOK
<1>5. RowsOK(u)
  BY <1>1, <1>2, <1>3, <1>4, RowsKept
<1>6. Grows(u)
  BY <1>1, <1>2, <1>3, <1>4, GrowsKept
<1> QED BY <1>3, <1>4, <1>5, <1>6

\* A second debit is flagged on the request it belongs to.
LEMMA ReviewBooks ==
    ASSUME IInv, NEW f \in Refunds, NEW t \in Table(f), event[f] # "none",
           NEW q, q = OwnerOf(t, f), Applicable(t, q, f), Refunded,
           NEW u, Writes(t, u, q), u[q].ref = f, u[q].status = t[q].status, u[q].key = t[q].key,
           u[q].aged = t[q].aged, u[q].review
    PROVE  /\ RowsOK(u) /\ Settlement(u, payment) /\ Parking(u, parked, payment) /\ Grows(u)
           /\ payment.by # None /\ payment.by # f /\ Flagged(u) = Flagged(req) \cup {f}
<1>1. Ready(t) /\ t = req /\ RowsOK(t) /\ Settlement(t, payment) /\ Parking(t, parked, payment)
  BY TableFacts DEF IInv, Books
<1>2. t \in [Reqs -> Row] /\ f # None
  BY <1>1, RefundAssumption DEF RowsOK
<1>3. q \in Reqs /\ Used(t, q) /\ t[q].ref \in {None, f} /\ t[q].status # "succeeded" /\ ~t[q].review
  BY <1>1, OwnerFacts DEF Applicable
<1>4. u[q].status = "failed" => Declined(u, q)
  BY <1>1, <1>2, <1>3 DEF RowsOK, Declined
<1>5. Used(u, q)
  BY <1>3 DEF Used
<1>6. RowsOK(u) /\ Grows(u) /\ \A o \in Reqs \ {q} : t[o].ref # f
  BY <1>1, <1>4, <1>5, OwnerBound
<1>7. payment.by # None
  BY <1>1 DEF Settlement, Refunded
<1>8. f # payment.by
  BY <1>1, <1>3, <1>6, <1>7 DEF Settlement
<1>9. Settlement(u, payment)
  BY <1>1, <1>2, <1>3, <1>7, <1>8, SettlementKept
<1>10. Parking(u, parked, payment)
  <2>1. parked.req # None
    BY <1>1, <1>3 DEF Parking
  <2>2. \A p \in Reqs : t[p].ref # None => u[p].ref = t[p].ref
    BY <1>3 DEF Writes
  <2>3. Legacy # None
    BY RefundAssumption
  <2> QED BY <1>1, <1>7, <2>1, <2>2, <2>3 DEF Parking
<1>11. Flagged(u) = Flagged(req) \cup {f}
  BY <1>1, <1>3 DEF Flagged, Writes
<1> QED BY <1>6, <1>7, <1>8, <1>9, <1>10, <1>11

\* What concluding or binding request q leaves to show, while the entry is not settled.
LEMMA OpenBooks ==
    ASSUME IInv, NEW f \in Refunds, NEW t \in Table(f), event[f] \in State,
           NEW q, q = OwnerOf(t, f), Applicable(t, q, f), ~Refunded,
           t[q].status # "failed" \/ event[f] = "succeeded",
           NEW u, Writes(t, u, q), u[q].ref = f, u[q].status = event[f],
           u[q].key = t[q].key, u[q].aged = t[q].aged, u[q].review = t[q].review
    PROVE  /\ RowsOK(u) /\ Grows(u) /\ Flagged(u) = Flagged(req)
           /\ event[f] # "succeeded" => \A o \in Reqs \ {q} : ~Stands(u, o)
           /\ LET pay == IF event[f] = "succeeded" THEN SettledWith(f, t[q].terms) ELSE payment
              IN  Settlement(u, pay) /\ Parking(u, Projection(u, q), pay)
<1>1. /\ Ready(t) /\ RowsOK(t) /\ Settlement(t, payment) /\ t \in [Reqs -> Row] /\ RefundsOK
      /\ Settlement(req, payment)
  BY TableFacts DEF Ready, IInv, Books, State
<1>2. payment.by = None /\ f # None /\ event[f] \in refund[f].had
  BY <1>1, RefundAssumption DEF Settlement, Refunded, RefundsOK, State
<1>3. q \in Reqs /\ Used(t, q) /\ t[q].ref \in {None, f} /\ refund[f].terms = t[q].terms
  BY <1>1, OwnerFacts DEF Applicable
<1>4. Used(u, q) /\ (u[q].status = "failed" => Declined(u, q))
  BY <1>2 DEF Used, Declined, State
<1>5. RowsOK(u) /\ Grows(u) /\ \A o \in Reqs \ {q} : t[o].ref # f
  BY <1>1, <1>4, OwnerBound
<1>6. \A p \in Reqs : ~t[p].review /\ ~req[p].review /\ t[p].status # "succeeded"
  BY <1>1, <1>2 DEF Settlement
<1>7. \A p \in Reqs : ~u[p].review
  BY <1>3, <1>6 DEF Writes
<1>8. Flagged(u) = Flagged(req)
  BY <1>6, <1>7 DEF Flagged
<1>9. event[f] # "succeeded" => \A o \in Reqs \ {q} : ~Stands(t, o) /\ ~Stands(u, o)
  <2>1. t[q].status # "failed" => Stands(t, q)
    BY <1>3 DEF Stands, Used
  <2> QED BY <1>1, <1>2, <1>3, <2>1 DEF Ready, Stands, Writes
<1>10. \A pay : (pay.by = None => \A o \in Reqs \ {q} : ~Stands(t, o)) =>
          Parking(u, Projection(u, q), pay)
  <2>1. Made(Legacy) /\ refund[Legacy].req = None =>
           u[q].ref = Legacy \/ \E p \in Reqs : t[p].ref = Legacy
    BY <1>3, TableFacts DEF State
  <2> QED BY <1>3, <1>4, <2>1, ParkingWritten
<1>11. ASSUME event[f] = "succeeded"
       PROVE  /\ Settlement(u, SettledWith(f, t[q].terms))
              /\ Parking(u, Projection(u, q), SettledWith(f, t[q].terms))
  <2> DEFINE pay == SettledWith(f, t[q].terms)
  <2>1. pay.by = f /\ pay \in [status : {"paid", "refunded", "partially_refunded"}, by : Ref]
        /\ pay.status # "paid"
    BY DEF SettledWith, Ref
  <2>2. pay = SettledWith(f, refund[f].terms)
    BY <1>3
  <2>3. refund[f].status = "succeeded"
    BY <1>1, <1>2, <1>11 DEF RefundsOK
  <2> HIDE DEF pay
  <2>4. \A o \in Reqs \ {q} : u[o].status # "succeeded" /\ u[o].ref # f
    BY <1>5, <1>6 DEF Writes
  <2>5. Settlement(u, pay)
    BY <1>2, <1>3, <1>7, <1>11, <2>1, <2>2, <2>3, <2>4 DEF Settlement
  <2>6. Parking(u, Projection(u, q), pay)
    BY <1>2, <1>10, <2>1
  <2> QED BY <2>5, <2>6 DEF pay
<1>12. ASSUME event[f] # "succeeded"
       PROVE  Settlement(u, payment) /\ Parking(u, Projection(u, q), payment)
  <2>1. Settlement(u, payment)
    BY <1>1, <1>2, <1>3, <1>6, <1>7, <1>12, SettlementKept
  <2>2. Parking(u, Projection(u, q), payment)
    BY <1>9, <1>10, <1>12
  <2> QED BY <2>1, <2>2
<1> QED BY <1>5, <1>8, <1>9, <1>11, <1>12

\* What a report does to the books, and what it is to RefundLedger.
LEMMA ApplyBooks ==
    ASSUME IInv, NEW f \in Refunds, ApplyEvent(f), event[f] # "none" \/ \E p \in Reqs : req[p].ref = f
    PROVE  /\ RowsOK(req') /\ Settlement(req', payment') /\ Parking(req', parked', payment') /\ Grows(req')
           /\ \/ payment' = payment /\ Flagged(req') = Flagged(req)
              \/ /\ payment' = payment /\ payment.by # None /\ payment.by # f
                 /\ refund[f].status = "succeeded" /\ Flagged(req') = Flagged(req) \cup {f}
              \/ /\ payment.by = None /\ payment'.by = f
                 /\ refund[f].status = "succeeded" /\ Flagged(req') = Flagged(req)
<1>1. PICK t \in Table(f) :
       LET q == OwnerOf(t, f) IN
       \/ /\ event[f] # "none" /\ Applicable(t, q, f) /\ SecondDebit(t, q, f)
          /\ req' = Reviewed(t, q, f)
          /\ UNCHANGED <<payment, parked>>
       \/ /\ event[f] = "succeeded" /\ Applicable(t, q, f) /\ ~Refunded
          /\ req' = Concluded(t, q, f)
          /\ payment' = SettledWith(f, t[q].terms)
          /\ parked' = Projection(req', q)
       \/ /\ event[f] = "failed" /\ Applicable(t, q, f) /\ ~Refunded /\ t[q].status # "failed"
          /\ req' = Concluded(t, q, f)
          /\ parked' = Projection(req', q)
          /\ UNCHANGED payment
       \/ /\ event[f] = "pending" /\ Applicable(t, q, f) /\ ~Refunded /\ t[q].status # "failed"
          /\ req' = BoundTo(t, q, f)
          /\ parked' = BoundParked(req', q)
          /\ UNCHANGED payment
       \/ /\ \/ event[f] = "none"
             \/ ~Applicable(t, q, f)
             \/ Refunded /\ ~SecondDebit(t, q, f)
             \/ t[q].status = "failed" /\ event[f] # "succeeded"
          /\ req' = t
          /\ UNCHANGED <<payment, parked>>
  BY DEF ApplyEvent, Reviewed
<1> DEFINE q == OwnerOf(t, f)
<1>2. /\ Ready(t) /\ t \in [Reqs -> Row]
      /\ \/ t = req
         \/ event[f] # "none" /\ Applicable(t, q, f) /\ ~Refunded /\ t[q].status # "failed"
  BY TableFacts
<1>3. /\ event[f] \in State \cup {"none"} /\ (event[f] = "succeeded" => refund[f].status = "succeeded")
      /\ RowsOK(req) /\ Settlement(req, payment) /\ Parking(req, parked, payment)
  BY DEF IInv, TypeOK, Books, RefundsOK
<1>4. Applicable(t, q, f) => q \in Reqs
  BY <1>2, OwnerFacts DEF Applicable, Ready
<1>5. ~Refunded => payment.by = None
  BY <1>3 DEF Settlement, Refunded
<1> HIDE DEF q
<1>6. CASE /\ event[f] # "none" /\ Applicable(t, q, f) /\ SecondDebit(t, q, f)
           /\ req' = Reviewed(t, q, f)
           /\ UNCHANGED <<payment, parked>>
  <2>1. Refunded /\ event[f] = "succeeded"
    BY <1>6 DEF SecondDebit
  <2>2. /\ RowsOK(req') /\ Settlement(req', payment) /\ Parking(req', parked, payment) /\ Grows(req')
        /\ payment.by # None /\ payment.by # f /\ Flagged(req') = Flagged(req) \cup {f}
    <3>1. q \in Reqs
      BY <1>4, <1>6
    <3>2. /\ Writes(t, req', q) /\ req'[q].ref = f /\ req'[q].key = t[q].key
          /\ req'[q].aged = t[q].aged /\ req'[q].status = t[q].status /\ req'[q].review
      BY <1>2, <1>6, <3>1, ReviewRow
    <3>3. event[f] # "none" /\ Applicable(t, q, f) /\ q = OwnerOf(t, f)
      BY <1>6 DEF q
    <3> QED BY <2>1, <3>2, <3>3, ReviewBooks
  <2> QED BY <1>3, <1>6, <2>1, <2>2
<1>7. CASE /\ event[f] # "none" /\ Applicable(t, q, f) /\ ~Refunded
           /\ t[q].status # "failed" \/ event[f] = "succeeded"
           /\ \/ req' = Concluded(t, q, f) /\ parked' = Projection(req', q)
              \/ event[f] = "pending" /\ req' = BoundTo(t, q, f) /\ parked' = BoundParked(req', q)
           /\ payment' = IF event[f] = "succeeded" THEN SettledWith(f, t[q].terms) ELSE payment
  <2>1. event[f] \in State /\ t[q].status # "succeeded" /\ q \in Reqs
    BY <1>3, <1>4, <1>7 DEF Applicable
  <2>2. /\ Writes(t, req', q) /\ req'[q].ref = f /\ req'[q].status = event[f]
        /\ req'[q].key = t[q].key /\ req'[q].aged = t[q].aged /\ req'[q].review = t[q].review
    <3>1. CASE req' = Concluded(t, q, f)
      BY <1>2, <2>1, <3>1, ConcludedRow
    <3>2. CASE event[f] = "pending" /\ req' = BoundTo(t, q, f)
      BY <1>2, <1>7, <2>1, <3>2, BoundRow
    <3> QED BY <1>7, <3>1, <3>2
  <2>3. /\ RowsOK(req') /\ Grows(req') /\ Flagged(req') = Flagged(req)
        /\ event[f] # "succeeded" => \A o \in Reqs \ {q} : ~Stands(req', o)
        /\ Settlement(req', payment') /\ Parking(req', Projection(req', q), payment')
    BY <1>7, <2>1, <2>2, OpenBooks DEF q
  <2>4. parked' = Projection(req', q)
    BY <1>7, <2>3 DEF BoundParked, OtherActive, Stands, Active
  <2>5. event[f] = "succeeded" => payment'.by = f
    BY <1>7 DEF SettledWith
  <2> QED BY <1>3, <1>5, <1>7, <2>3, <2>4, <2>5
<1>8. CASE /\ \/ event[f] = "none"
              \/ ~Applicable(t, q, f)
              \/ Refunded /\ ~SecondDebit(t, q, f)
              \/ t[q].status = "failed" /\ event[f] # "succeeded"
           /\ req' = t
           /\ UNCHANGED <<payment, parked>>
  BY <1>2, <1>3, <1>8 DEF Ready
<1> QED BY <1>1, <1>6, <1>7, <1>8 DEF q
-----------------------------------------------------------------------------
(* The steps. *)

Call == [pc : JobPc, req : Req, ref : Ref, key : BOOLEAN]

\* The books are read with the provider's refunds, which the step leaves alone.
LEMMA BooksPrimed ==
    ASSUME RowsOK(req'), Settlement(req', payment'), Parking(req', parked', payment'), refund' = refund
    PROVE  Books(req, parked, payment)'
<1>1. RowsOK(req)'
  BY DEF RowsOK, RefsOwned, Declined, Made, Used
<1>2. Settlement(req, payment)'
  BY DEF Settlement, SettledWith
<1>3. Parking(req, parked, payment)'
  BY DEF Parking, Made, Used, Stands
<1> QED BY <1>1, <1>2, <1>3 DEF Books

\* What a step of a call, of the webhook or of the clock owes.
LEMMA StepKept ==
    ASSUME IInv, RowsOK(req'), Settlement(req', payment'), Parking(req', parked', payment'), Grows(req'),
           rotated' \in BOOLEAN, UNCHANGED provider,
           event' \in [Refunds -> State \cup {"none"}],
           \A f \in Refunds : /\ event[f] # "none" => event'[f] # "none"
                              /\ event'[f] # "none" => event'[f] \in refund[f].had,
           job' \in [Workers -> Call],
           \A w \in Workers : job'[w] = job[w] \/ job'[w] = NoJob \/ JobOK(w)',
           \A w \in Workers, q \in Reqs : Posting(w, q)' => Posting(w, q) \/ ~req[q].aged
    PROVE  IInv'
<1>1. refund' = refund /\ keyed' = keyed
  BY DEF provider
<1>2. Books(req, parked, payment)'
  BY <1>1, BooksPrimed
<1>3. TypeOK'
  BY <1>1 DEF IInv, TypeOK, RowsOK, Row, Settlement, Parking, Call
<1>4. RefundsOK'
  BY <1>1 DEF IInv, RefundsOK, Made
<1>5. KeysOK'
  BY KeysKept
<1>6. JobsOK'
  <2> SUFFICES ASSUME NEW w \in Workers PROVE JobOK(w)'
    BY DEF JobsOK
  <2>1. CASE job'[w] = job[w] \/ job'[w] = NoJob
    BY <1>1, <2>1, JobKept DEF Made
  <2> QED BY <2>1
<1> QED BY <1>2, <1>3, <1>4, <1>5, <1>6 DEF IInv

\* What holds between two steps, in parts.
LEMMA Known ==
    ASSUME IInv
    PROVE  /\ rotated \in BOOLEAN /\ event \in [Refunds -> State \cup {"none"}]
           /\ refund \in [Refunds -> [status : State \cup {"none"}, req : Req, terms : Terms,
                                      had : SUBSET State]]
           /\ keyed \in [Reqs -> [BOOLEAN -> Ref]] /\ job \in [Workers -> Call]
           /\ req \in [Reqs -> Row] /\ RefundsOK /\ KeysOK /\ JobsOK
           /\ RowsOK(req) /\ Settlement(req, payment) /\ Parking(req, parked, payment) /\ Ready(req)
           /\ ~Refunded => payment.by = None
           /\ \A f \in Refunds : event[f] # "none" => event[f] \in refund[f].had
           /\ \A w \in Workers : JobOK(w)
<1>1. Ready(req)
  BY TableReady
<1> QED BY <1>1 DEF IInv, TypeOK, Books, RowsOK, Settlement, Refunded, RefundsOK, JobsOK, Call

\* A call goes on with request q of table t, which is the only one that stands.
LEMMA Taken ==
    ASSUME IInv, Claimable, NEW w \in Workers, NEW q \in Reqs, NEW t, Ready(t), Stands(t, q),
           NEW pc \in {"post", "consume"}, Take(w, t, q, pc),
           Made(Legacy) /\ refund[Legacy].req = None => \E p \in Reqs : t[p].ref = Legacy,
           pc = "consume" => t[q].ref # None,
           pc = "post" => t[q].key = rotated /\ t[q].ref = None /\ ~req[q].aged,
           UNCHANGED <<rotated, payment, event, provider>>
    PROVE  IInv'
<1>1. payment.by = None /\ rotated \in BOOLEAN /\ job \in [Workers -> Call]
  BY Known DEF Claimable
<1>2. req' = t /\ parked' = Projection(t, q) /\ Used(t, q) /\ t \in [Reqs -> Row]
  BY DEF Take, Stands, Used, Ready, RowsOK
<1>3. /\ job' \in [Workers -> Call] /\ \A v \in Workers \ {w} : job'[v] = job[v]
      /\ job'[w].pc = pc /\ job'[w].req = q /\ job'[w].ref = t[q].ref
      /\ pc = "post" => job'[w].key = rotated
  <2>1. t[q].ref \in Ref
    BY <1>2 DEF Row
  <2> QED BY <1>1, <2>1 DEF Take, NoJob, Call, JobPc, Req
<1>4. Parking(t, Projection(t, q), payment)
  BY <1>1, <1>2, ParkingWritten DEF Ready, Writes
<1>5. JobOK(w)'
  BY <1>2, <1>3 DEF JobOK, Used
<1>6. \A v \in Workers, p \in Reqs : Posting(v, p)' => Posting(v, p) \/ ~req[p].aged
  BY <1>3 DEF Posting
<1> QED BY <1>1, <1>2, <1>3, <1>4, <1>5, <1>6, Known, StepKept DEF Ready

LEMMA ClaimNewKeeps == ASSUME IInv, NEW w \in Workers, ClaimNew(w) PROVE IInv'
<1>1. PICK q \in Fresh, terms \in Terms :
        Take(w, [req EXCEPT ![q] = [NoRequest EXCEPT !.status = "submitting", !.terms = terms,
                                      !.key = rotated]], q, "post")
  BY DEF ClaimNew
<1>2. PICK t : t = [req EXCEPT ![q] = [NoRequest EXCEPT !.status = "submitting", !.terms = terms,
                                         !.key = rotated]]
  OBVIOUS
<1>3. /\ req \in [Reqs -> Row] /\ rotated \in BOOLEAN /\ RowsOK(req) /\ Settlement(req, payment)
      /\ Parking(req, parked, payment) /\ payment.by = None /\ None \notin Reqs \cup Refunds
      /\ Legacy \in Refunds
  BY Known, RefundAssumption DEF ClaimNew, Claimable
<1>4. q \in Reqs /\ ~Used(req, q) /\ req[q] = NoRequest
  BY <1>3 DEF Fresh, Used, RowsOK
<1>5. /\ Writes(req, t, q) /\ t[q].status = "submitting" /\ t[q].ref = None /\ t[q].key = rotated
      /\ ~t[q].review
  BY <1>2, <1>3, <1>4 DEF Writes, NoRequest, Row, Active, Ref
<1>6. \A o \in Reqs : ~Stands(req, o)
  BY DEF ClaimNew, Standing, Stands
<1>7. Stands(t, q) /\ \A o \in Reqs : Stands(t, o) => o = q
  BY <1>5, <1>6 DEF Stands, Writes
<1>8. RowsOK(t)
  BY <1>3, <1>4, <1>5, <1>6, <1>7, RowsAdded
<1>9. Settlement(t, payment)
  BY <1>3, <1>4, <1>5, SettlementKept DEF NoRequest
<1>10. Grows(t)
  BY <1>4, <1>5 DEF Grows, Writes, Used
<1>11. Made(Legacy) /\ refund[Legacy].req = None => \E p \in Reqs : t[p].ref = Legacy
  BY <1>3, <1>4, <1>5 DEF ClaimNew, Parking, NoRequest, Writes
<1>12. ~req[q].aged
  BY <1>4 DEF NoRequest
<1>13. Ready(t)
  BY <1>7, <1>8, <1>9, <1>10 DEF Ready
<1>14. Take(w, t, q, "post")
  BY <1>1, <1>2, Zenon
<1> QED BY <1>4, <1>5, <1>7, <1>11, <1>12, <1>13, <1>14, Taken DEF ClaimNew

LEMMA ClaimLegacyKeeps == ASSUME IInv, NEW w \in Workers, ClaimLegacy(w) PROVE IInv'
<1>1. PICK q \in Fresh : Take(w, Adopted(q, rotated), q, "consume")
  BY DEF ClaimLegacy
<1>2. PICK t : t = Adopted(q, rotated)
  OBVIOUS
<1>3. q \in Reqs /\ rotated \in BOOLEAN /\ Legacy # None
  BY Known, RefundAssumption DEF Fresh
<1>4. /\ t[q].status = "pending" /\ t[q].ref = Legacy /\ Ready(t)
  BY <1>2, <1>3, AdoptedReady DEF ClaimLegacy
<1>5. Stands(t, q)
  BY <1>4 DEF Stands
<1>6. Take(w, t, q, "consume")
  BY <1>1, <1>2
<1> QED BY <1>3, <1>4, <1>5, <1>6, Taken DEF ClaimLegacy

\* A request that stands: nothing else does, and the entry's parked refund has been adopted.
LEMMA StandingFacts ==
    ASSUME IInv, NEW q \in Standing
    PROVE  /\ q \in Reqs /\ Stands(req, q) /\ Used(req, q) /\ parked.req # None
           /\ Made(Legacy) /\ refund[Legacy].req = None => \E p \in Reqs : req[p].ref = Legacy
<1>1. q \in Reqs /\ Stands(req, q) /\ Used(req, q)
  BY DEF Standing, Stands, Used
<1> QED BY <1>1, Known DEF Parking

LEMMA ClaimKnownKeeps == ASSUME IInv, NEW w \in Workers, ClaimKnown(w) PROVE IInv'
<1>1. PICK q \in Standing : req[q].ref # None /\ Take(w, req, q, "consume")
  BY DEF ClaimKnown
<1>2. q \in Reqs /\ Stands(req, q) /\ Ready(req)
  BY StandingFacts, Known
<1> QED BY <1>1, <1>2, StandingFacts, Taken DEF ClaimKnown

LEMMA ClaimRetryKeeps == ASSUME IInv, NEW w \in Workers, ClaimRetry(w) PROVE IInv'
<1>1. PICK q \in Standing : Resubmittable(q) /\ Take(w, [req EXCEPT ![q].status = "submitting"], q, "post")
  BY DEF ClaimRetry
<1>2. PICK t : t = [req EXCEPT ![q].status = "submitting"]
  OBVIOUS
<1>3. /\ req \in [Reqs -> Row] /\ RowsOK(req) /\ Settlement(req, payment) /\ Ready(req)
      /\ payment.by = None /\ Grows(req)
  BY Known DEF ClaimRetry, Claimable, Ready
<1>4. q \in Reqs /\ Stands(req, q) /\ Used(req, q)
  BY StandingFacts
<1>5. req[q] \in Row
  BY <1>3, <1>4
<1>6. /\ Writes(req, t, q) /\ t[q].status = "submitting" /\ t[q].ref = req[q].ref
      /\ t[q].key = req[q].key /\ t[q].aged = req[q].aged /\ t[q].review = req[q].review
  BY <1>2, <1>3, <1>4, <1>5 DEF Writes, Row, Active
<1>7. Stands(t, q) /\ Used(t, q) /\ \A o \in Reqs : Stands(t, o) => o = q
  BY <1>3, <1>4, <1>6 DEF Stands, Used, Writes, Ready
<1>8. RowsOK(t)
  BY <1>3, <1>4, <1>6, <1>7, RowsKept
<1>9. req[q].status # "succeeded" /\ ~req[q].review
  BY <1>3, <1>4 DEF Settlement
<1>10. Settlement(t, payment)
  BY <1>3, <1>4, <1>6, <1>9, SettlementKept
<1>11. Grows(t)
  BY <1>3, <1>4, <1>6, <1>7, GrowsKept
<1>12. Made(Legacy) /\ refund[Legacy].req = None => \E p \in Reqs : t[p].ref = Legacy
  BY <1>6, StandingFacts DEF Writes
<1>13. Ready(t)
  BY <1>7, <1>8, <1>10, <1>11 DEF Ready
<1>14. Take(w, t, q, "post")
  BY <1>1, <1>2, Zenon
<1>15. t[q].key = rotated /\ t[q].ref = None /\ ~req[q].aged
  BY <1>1, <1>6 DEF Resubmittable
<1> QED BY <1>4, <1>7, <1>12, <1>13, <1>14, <1>15, Taken DEF ClaimRetry

\* The rows stay as they are.
LEMMA RowsAsTheyWere == ASSUME IInv PROVE Grows(req)
BY DEF Grows

LEMMA ClaimLeasedKeeps == ASSUME IInv, NEW w \in Workers, ClaimLeased(w) PROVE IInv'
<1>1. PICK q \in Standing : parked' = Projection(req, q)
  BY DEF ClaimLeased
<1>2. req \in [Reqs -> Row] /\ Ready(req) /\ q \in Reqs /\ Stands(req, q) /\ Used(req, q)
  BY Known, StandingFacts
<1>3. Parking(req, parked', payment)
  BY <1>1, <1>2, StandingFacts, ParkingWritten DEF Ready, Writes
<1>4. UNCHANGED <<rotated, payment, req, event, provider, job>>
  BY DEF ClaimLeased
<1>5. /\ RowsOK(req') /\ Settlement(req', payment') /\ Parking(req', parked', payment')
      /\ Grows(req')
  BY <1>3, <1>4, Known, RowsAsTheyWere
<1>6. \A v \in Workers, p \in Reqs : Posting(v, p)' => Posting(v, p)
  BY <1>4 DEF Posting
<1> QED BY <1>4, <1>5, <1>6, Known, StepKept

\* A step after which the call holds j, and no more than j is new in the calls.
LEMMA Moved ==
    ASSUME IInv, NEW w \in Workers, job' \in [Workers -> Call],
           \A v \in Workers \ {w} : job'[v] = job[v],
           job'[w] = NoJob \/ (job'[w].pc # "post" /\ JobOK(w)')
    PROVE  /\ \A v \in Workers : job'[v] = job[v] \/ job'[v] = NoJob \/ JobOK(v)'
           /\ \A v \in Workers, q \in Reqs : Posting(v, q)' => Posting(v, q) \/ ~req[q].aged
BY DEF Posting, NoJob

LEMMA ConsumeKeeps == ASSUME IInv, NEW w \in Workers, Consume(w) PROVE IInv'
<1> DEFINE f == job[w].ref
           q == job[w].req
<1>1. /\ job \in [Workers -> Call] /\ req \in [Reqs -> Row] /\ JobOK(w) /\ job[w].pc = "consume"
      /\ ApplyEvent(f) /\ UNCHANGED <<rotated, event, provider>>
  BY Known DEF Consume
<1>2. f \in Refunds /\ q \in Reqs /\ Used(req, q) /\ req[q].ref = f /\ f # None
  BY <1>1 DEF JobOK, Row, Ref
<1> HIDE DEF f, q
<1>3. /\ RowsOK(req') /\ Settlement(req', payment') /\ Parking(req', parked', payment')
      /\ Grows(req')
  BY <1>1, <1>2, ApplyBooks
<1>4. /\ job' \in [Workers -> Call] /\ \A v \in Workers \ {w} : job'[v] = job[v]
      /\ job'[w].pc = "look" /\ job'[w].req = q /\ job'[w].ref = f
  BY <1>1 DEF Consume, Call, JobPc, f, q
<1>5. JobOK(w)'
  BY <1>2, <1>3, <1>4 DEF JobOK, Grows, Used
<1>6. /\ \A v \in Workers : job'[v] = job[v] \/ job'[v] = NoJob \/ JobOK(v)'
      /\ \A v \in Workers, p \in Reqs : Posting(v, p)' => Posting(v, p) \/ ~req[p].aged
  BY <1>4, <1>5, Moved
<1> QED BY <1>1, <1>3, <1>4, <1>6, Known, StepKept

LEMMA ApplyKeeps == ASSUME IInv, NEW w \in Workers, Apply(w) PROVE IInv'
<1> DEFINE f == job[w].ref
<1>1. /\ job \in [Workers -> Call] /\ JobOK(w) /\ job[w].pc = "apply"
      /\ ApplyEvent(f) /\ UNCHANGED <<rotated, event, provider>>
  BY Known DEF Apply
<1>2. f \in Refunds /\ event[f] # "none"
  BY <1>1 DEF JobOK
<1> HIDE DEF f
<1>3. /\ RowsOK(req') /\ Settlement(req', payment') /\ Parking(req', parked', payment')
      /\ Grows(req')
  BY <1>1, <1>2, ApplyBooks
<1>4. /\ job' \in [Workers -> Call] /\ \A v \in Workers \ {w} : job'[v] = job[v]
      /\ job'[w] = NoJob
  BY <1>1 DEF Apply, Call, JobPc, NoJob, Req, Ref
<1>5. /\ \A v \in Workers : job'[v] = job[v] \/ job'[v] = NoJob \/ JobOK(v)'
      /\ \A v \in Workers, p \in Reqs : Posting(v, p)' => Posting(v, p) \/ ~req[p].aged
  BY <1>4, Moved
<1> QED BY <1>1, <1>3, <1>4, <1>5, Known, StepKept

LEMMA WebhookApplyKeeps == ASSUME IInv, NEW f \in Refunds, WebhookApply(f) PROVE IInv'
<1>1. /\ RowsOK(req') /\ Settlement(req', payment') /\ Parking(req', parked', payment')
      /\ Grows(req')
  BY ApplyBooks DEF WebhookApply
<1>2. UNCHANGED <<rotated, event, provider, job>>
  BY DEF WebhookApply
<1>3. \A v \in Workers, p \in Reqs : Posting(v, p)' => Posting(v, p)
  BY <1>2 DEF Posting
<1> QED BY <1>1, <1>2, <1>3, Known, StepKept

\* The rows are left alone.
LEMMA BooksLeft ==
    ASSUME IInv, UNCHANGED <<payment, parked, req>>
    PROVE  /\ RowsOK(req') /\ Settlement(req', payment') /\ Parking(req', parked', payment')
           /\ Grows(req')
BY Known, RowsAsTheyWere

LEMMA LookKeeps == ASSUME IInv, NEW w \in Workers, Look(w) PROVE IInv'
<1> DEFINE q == job[w].req
           f == job[w].ref
<1>1. /\ job \in [Workers -> Call] /\ req \in [Reqs -> Row] /\ JobOK(w) /\ job[w].pc = "look"
      /\ UNCHANGED <<rotated, payment, parked, req, event, provider>>
  BY Known DEF Look, rows
<1>2. f \in Refunds /\ q \in Reqs /\ Used(req, q) /\ req[q].ref = f /\ Made(f)
  BY <1>1, Known DEF JobOK, Row, Ref, RowsOK, RefsOwned
<1> HIDE DEF f, q
<1>3. /\ job' \in [Workers -> Call] /\ \A v \in Workers \ {w} : job'[v] = job[v]
      /\ \/ job'[w] = NoJob
         \/ job'[w].pc = "bind" /\ job'[w].req = q /\ job'[w].ref = f
  <2>1. job' = [job EXCEPT ![w] = NoJob] \/ job' = [job EXCEPT ![w].pc = "bind"]
    BY DEF Look
  <2>2. CASE job' = [job EXCEPT ![w] = NoJob]
    BY <1>1, <2>2 DEF Call, JobPc, NoJob, Req, Ref
  <2>3. CASE job' = [job EXCEPT ![w].pc = "bind"]
    BY <1>1, <2>3 DEF Call, JobPc, f, q
  <2> QED BY <2>1, <2>2, <2>3
<1>4. job'[w] # NoJob => JobOK(w)'
  BY <1>1, <1>2, <1>3 DEF JobOK, Used, Made, provider
<1>5. /\ \A v \in Workers : job'[v] = job[v] \/ job'[v] = NoJob \/ JobOK(v)'
      /\ \A v \in Workers, p \in Reqs : Posting(v, p)' => Posting(v, p) \/ ~req[p].aged
  BY <1>3, <1>4, Moved
<1> QED BY <1>1, <1>3, <1>5, BooksLeft, Known, StepKept

LEMMA WorkerDiesKeeps == ASSUME IInv, NEW w \in Workers, WorkerDies(w) PROVE IInv'
<1>1. /\ job \in [Workers -> Call] /\ UNCHANGED <<rotated, payment, parked, req, event, provider>>
  BY Known DEF WorkerDies, rows
<1>2. /\ job' \in [Workers -> Call] /\ \A v \in Workers \ {w} : job'[v] = job[v]
      /\ job'[w] = NoJob
  BY <1>1 DEF WorkerDies, Call, JobPc, NoJob, Req, Ref
<1>3. /\ \A v \in Workers : job'[v] = job[v] \/ job'[v] = NoJob \/ JobOK(v)'
      /\ \A v \in Workers, p \in Reqs : Posting(v, p)' => Posting(v, p) \/ ~req[p].aged
  BY <1>2, Moved
<1> QED BY <1>1, <1>2, <1>3, BooksLeft, Known, StepKept

LEMMA RotateKeyKeeps == ASSUME IInv, RotateKey PROVE IInv'
<1>1. rotated' = TRUE /\ UNCHANGED <<payment, parked, req, event, provider, job>>
  BY DEF RotateKey, rows
<1>2. \A v \in Workers, p \in Reqs : Posting(v, p)' => Posting(v, p)
  BY <1>1 DEF Posting
<1> QED BY <1>1, <1>2, BooksLeft, Known, StepKept

\* A report is one of the states the provider's refund has had.
LEMMA Reported ==
    ASSUME IInv, NEW f \in Refunds, StoreReport(f)
    PROVE  /\ event' \in [Refunds -> State \cup {"none"}] /\ event'[f] # "none"
           /\ \A g \in Refunds : /\ event[g] # "none" => event'[g] # "none"
                                 /\ event'[g] # "none" => event'[g] \in refund[g].had
<1>1. PICK st \in refund[f].had : event' = [event EXCEPT ![f] = NewerOf(@, st)]
  BY DEF StoreReport
<1>2. /\ event \in [Refunds -> State \cup {"none"}] /\ refund[f].had \in SUBSET State
      /\ \A g \in Refunds : event[g] # "none" => event[g] \in refund[g].had
  BY Known
<1>3. event' = [event EXCEPT ![f] = event'[f]] /\ event'[f] = NewerOf(event[f], st)
  BY <1>1, <1>2
<1>4. event'[f] \in State /\ event'[f] \in refund[f].had
  BY <1>1, <1>2, <1>3 DEF NewerOf, State
<1> QED BY <1>2, <1>3, <1>4 DEF State

LEMMA WebhookStoreKeeps == ASSUME IInv, NEW f \in Refunds, WebhookStore(f) PROVE IInv'
<1>1. StoreReport(f) /\ UNCHANGED <<rotated, payment, parked, req, provider, job>>
  BY DEF WebhookStore
<1>2. \A v \in Workers, p \in Reqs : Posting(v, p)' => Posting(v, p)
  BY <1>1 DEF Posting
<1>3. /\ event' \in [Refunds -> State \cup {"none"}]
      /\ \A g \in Refunds : /\ event[g] # "none" => event'[g] # "none"
                            /\ event'[g] # "none" => event'[g] \in refund[g].had
  BY <1>1, Reported
<1> QED BY <1>1, <1>2, <1>3, BooksLeft, Known, StepKept

LEMMA StoreKeeps == ASSUME IInv, NEW w \in Workers, Store(w) PROVE IInv'
<1> DEFINE f == job[w].ref
<1>1. /\ job \in [Workers -> Call] /\ JobOK(w) /\ job[w].pc = "store" /\ StoreReport(f)
      /\ UNCHANGED <<rotated, payment, parked, req, provider>>
  BY Known DEF Store
<1>2. f \in Refunds
  BY <1>1 DEF JobOK
<1> HIDE DEF f
<1>3. /\ event' \in [Refunds -> State \cup {"none"}] /\ event'[f] # "none"
      /\ \A g \in Refunds : /\ event[g] # "none" => event'[g] # "none"
                            /\ event'[g] # "none" => event'[g] \in refund[g].had
  BY <1>1, <1>2, Reported
<1>4. /\ job' \in [Workers -> Call] /\ \A v \in Workers \ {w} : job'[v] = job[v]
      /\ job'[w].pc = "apply" /\ job'[w].ref = f
  BY <1>1 DEF Store, Call, JobPc, f
<1>5. JobOK(w)'
  BY <1>2, <1>3, <1>4 DEF JobOK
<1>6. /\ \A v \in Workers : job'[v] = job[v] \/ job'[v] = NoJob \/ JobOK(v)'
      /\ \A v \in Workers, p \in Reqs : Posting(v, p)' => Posting(v, p) \/ ~req[p].aged
  BY <1>4, <1>5, Moved
<1> QED BY <1>1, <1>3, <1>4, <1>6, BooksLeft, Known, StepKept

LEMMA UncertainKeeps == ASSUME IInv, NEW w \in Workers, Uncertain(w) PROVE IInv'
<1> DEFINE q == job[w].req
<1>1. /\ job \in [Workers -> Call] /\ req \in [Reqs -> Row] /\ JobOK(w) /\ job[w].pc = "uncertain"
      /\ job' = [job EXCEPT ![w] = NoJob]
      /\ UNCHANGED <<rotated, payment, event, provider>>
  BY Known DEF Uncertain
<1>2. q \in Reqs /\ Used(req, q)
  BY <1>1 DEF JobOK
<1> HIDE DEF q
<1>3. /\ job' \in [Workers -> Call] /\ \A v \in Workers \ {w} : job'[v] = job[v]
      /\ job'[w] = NoJob
  BY <1>1 DEF Call, JobPc, NoJob, Req, Ref
<1>4. /\ \A v \in Workers : job'[v] = job[v] \/ job'[v] = NoJob \/ JobOK(v)'
      /\ \A v \in Workers, p \in Reqs : Posting(v, p)' => Posting(v, p) \/ ~req[p].aged
  BY <1>3, Moved
<1>5. CASE req[q].ref = None /\ req[q].status = "submitting"
  <2>1. /\ req' = [req EXCEPT ![q].status = "unknown"]
        /\ parked' = IF ~Refunded /\ parked.req = q
                     THEN [parked EXCEPT !.status = "unknown"] ELSE parked
    BY <1>5 DEF Uncertain, q
  <2>2. req[q] \in Row
    BY <1>1, <1>2
  <2>3. /\ Writes(req, req', q) /\ req'[q].status = "unknown" /\ req'[q].ref = req[q].ref
        /\ req'[q].key = req[q].key /\ req'[q].aged = req[q].aged /\ req'[q].review = req[q].review
    BY <1>1, <1>2, <2>1, <2>2 DEF Writes, Row, Active
  <2>4. /\ Used(req', q) /\ Stands(req, q)
        /\ \A p \in Reqs : Stands(req', p) <=> Stands(req, p)
        /\ \A p \in Reqs : Used(req', p) <=> Used(req, p)
    BY <1>5, <2>3 DEF Used, Stands, Writes
  <2>5. RowsOK(req')
    BY <1>2, <2>3, <2>4, Known, RowsKept
  <2>6. req'[q].review => payment.by # None /\ req'[q].ref # None
    <3>1. req[q].review => payment.by # None /\ req[q].ref # None
      BY <1>2, Known DEF Settlement
    <3> QED BY <2>3, <3>1
  <2>7. Settlement(req', payment)
    <3>1. payment.by = None \/ req'[q].ref # payment.by
      BY <1>5, <2>3
    <3> QED BY <1>2, <1>5, <2>3, <2>6, <3>1, Known, SettlementKept
  <2>8. Grows(req')
    BY <1>2, <2>3, <2>4, RowsAsTheyWere, GrowsKept
  <2>9. /\ parked' \in [req : Req, id : Ref, status : Active \cup State \cup {"none"}]
        /\ parked'.req = parked.req /\ parked.req # None
        /\ payment.by = None => parked.req = q /\ parked'.status = "unknown"
    <3>1. parked \in [req : Req, id : Ref, status : Active \cup State \cup {"none"}]
      BY Known DEF Parking
    <3>2. parked.req # None /\ (payment.by = None => ~Refunded /\ parked.req = q)
      BY <1>2, <2>4, Known DEF Parking, Settlement, Refunded
    <3> QED BY <2>1, <3>1, <3>2 DEF Active
  <2>10. Parking(req', parked', payment)
    <3>1. \A p \in Reqs : req'[p].ref = req[p].ref
      BY <2>3 DEF Writes
    <3>2. payment.by = None => \A p \in Reqs : Stands(req', p) => p = q
      BY <1>2, <2>4, Known DEF Ready
    <3> QED BY <1>2, <2>3, <2>4, <2>9, <3>1, <3>2, Known DEF Parking
  <2> QED BY <1>1, <1>3, <1>4, <2>5, <2>7, <2>8, <2>10, Known, StepKept
<1>6. CASE ~(req[q].ref = None /\ req[q].status = "submitting")
  <2>1. UNCHANGED <<parked, req>>
    BY <1>6 DEF Uncertain, q
  <2> QED BY <1>1, <1>3, <1>4, <2>1, BooksLeft, Known, StepKept
<1> QED BY <1>5, <1>6

LEMMA AgeKeeps == ASSUME IInv, NEW q \in Reqs, Age(q) PROVE IInv'
<1>1. /\ req \in [Reqs -> Row] /\ req[q].status \in Active /\ req[q].ref = None
      /\ req' = [req EXCEPT ![q].aged = TRUE]
      /\ UNCHANGED <<rotated, payment, parked, event, provider, job>>
  BY Known DEF Age
<1>2. req[q] \in Row
  BY <1>1
<1>3. /\ Writes(req, req', q) /\ req'[q].status = req[q].status /\ req'[q].ref = req[q].ref
      /\ req'[q].key = req[q].key /\ req'[q].aged /\ req'[q].review = req[q].review
  BY <1>1, <1>2 DEF Writes, Row
<1>4. /\ Used(req, q) /\ req[q].status \notin {"succeeded", "failed"}
      /\ \A p \in Reqs : req'[p].status = req[p].status /\ req'[p].ref = req[p].ref
  BY <1>1, <1>3 DEF Used, Active, Writes
<1>5. RowsOK(req')
  BY <1>3, <1>4, Known, RowsKept DEF Used
<1>6. req'[q].review => payment.by # None /\ req'[q].ref # None
  BY <1>3, Known DEF Settlement
<1>7. Settlement(req', payment)
  <2>1. payment.by = None \/ req'[q].ref # payment.by
    BY <1>1, <1>3
  <2> QED BY <1>3, <1>4, <1>6, <2>1, Known, SettlementKept
<1>8. Grows(req')
  BY <1>3, <1>4, RowsAsTheyWere, GrowsKept DEF Used
<1>9. Parking(req', parked, payment)
  BY <1>4, Known DEF Parking, Used, Stands
<1>10. \A v \in Workers, p \in Reqs : Posting(v, p)' => Posting(v, p)
  BY <1>1 DEF Posting
<1> QED BY <1>1, <1>5, <1>7, <1>8, <1>9, <1>10, Known, StepKept

\* A late answer binds its own refund; it describes the entry unless another attempt does.
LEMMA BindBooks ==
    ASSUME IInv, NEW q \in Reqs, Used(req, q), NEW f \in Refunds, Made(f),
           refund[f].req = q \/ req[q].ref = f, ~Refunded, ~Conflicting(req, q, f),
           NEW t, t = BoundTo(req, q, f)
    PROVE  RowsOK(t) /\ Settlement(t, payment) /\ Parking(t, BoundParked(t, q), payment) /\ Grows(t)
<1>1. /\ req \in [Reqs -> Row] /\ RowsOK(req) /\ Settlement(req, payment) /\ Ready(req)
      /\ Parking(req, parked, payment) /\ payment.by = None /\ None \notin Refunds
  BY Known, RefundAssumption
<1>2. /\ Writes(req, t, q) /\ t[q].ref = f /\ t[q].key = req[q].key /\ t[q].aged = req[q].aged
      /\ t[q].review = req[q].review
      /\ req[q].status \in {"succeeded", "failed"} => t[q].status = req[q].status
      /\ req[q].status \notin {"succeeded", "failed"} => t[q].status = "pending"
  BY <1>1, BoundRow
<1>3. /\ req[q].ref = None \/ req[q].ref = f
      /\ \A o \in Reqs \ {q} : req[o].ref # f
      /\ req[q].ref = None => refund[f].req = q
  BY <1>1 DEF Conflicting
<1>4. req[q].status # "succeeded" /\ ~req[q].review /\ \A o \in Reqs : req[o].status # "succeeded"
  BY <1>1 DEF Settlement
<1>5. Used(t, q) /\ (t[q].status = "failed" => Declined(t, q))
  BY <1>1, <1>2, <1>3 DEF Used, Declined, RowsOK
<1>6. RowsOK(t)
  BY <1>1, <1>2, <1>3, <1>5, RowsKept
<1>7. Settlement(t, payment)
  BY <1>1, <1>2, <1>4, SettlementKept
<1>8. Grows(t)
  BY <1>1, <1>2, <1>3, <1>5, RowsAsTheyWere, GrowsKept
<1>9. parked.req # None
  BY <1>1 DEF Parking
<1>10. Made(Legacy) /\ refund[Legacy].req = None =>
          t[q].ref = Legacy \/ \E p \in Reqs : req[p].ref = Legacy
  BY <1>1, <1>9 DEF Parking
<1>11. CASE OtherActive(t, q)
  <2>1. PICK o \in Reqs \ {q} : t[o].status \in Active
    BY <1>11 DEF OtherActive
  <2>2. Stands(req, o) /\ req[o] = t[o]
    BY <1>2, <2>1 DEF Writes, Stands, Active
  <2>3. ~Stands(req, q)
    BY <1>1, <2>1, <2>2 DEF Ready
  <2>4. ~Stands(t, q)
    BY <1>2, <2>3 DEF Stands, Used
  <2>5. \A p \in Reqs : Stands(t, p) => Stands(req, p) /\ t[p].status = req[p].status
    BY <1>2, <2>4 DEF Writes, Stands
  <2>6. Parking(t, parked, payment)
    <3>1. \E p \in Reqs : Stands(t, p)
      BY <2>1 DEF Stands, Active
    <3>2. Made(Legacy) /\ refund[Legacy].req = None => \E p \in Reqs : t[p].ref = Legacy
      BY <1>2, <1>3, <1>10, RefundAssumption DEF Writes
    <3> QED BY <1>1, <1>9, <2>5, <3>1, <3>2 DEF Parking
  <2> QED BY <1>6, <1>7, <1>8, <1>11, <2>6 DEF BoundParked
<1>12. CASE ~OtherActive(t, q)
  <2>1. \A p \in Reqs \ {q} : ~Stands(req, p)
    BY <1>1, <1>2, <1>4, <1>12 DEF OtherActive, Writes, Stands, Active, Row
  <2>2. Parking(t, Projection(t, q), payment)
    BY <1>2, <1>3, <1>5, <1>10, <2>1, ParkingWritten
  <2> QED BY <1>6, <1>7, <1>8, <1>12, <2>2 DEF BoundParked
<1> QED BY <1>11, <1>12

LEMMA BindKeeps == ASSUME IInv, NEW w \in Workers, Bind(w) PROVE IInv'
<1> DEFINE q == job[w].req
           f == job[w].ref
<1>1. /\ job \in [Workers -> Call] /\ JobOK(w) /\ job[w].pc = "bind"
      /\ UNCHANGED <<rotated, payment, event, provider>>
  BY Known DEF Bind
<1>2. /\ f \in Refunds /\ q \in Reqs /\ Used(req, q) /\ Made(f)
      /\ refund[f].req = q \/ req[q].ref = f
  BY <1>1 DEF JobOK
<1>3. \/ UNCHANGED <<req, parked>>
      \/ /\ ~Refunded /\ ~Conflicting(req, q, f)
         /\ req' = BoundTo(req, q, f) /\ parked' = BoundParked(req', q)
  BY DEF Bind
<1>4. \/ job' = [job EXCEPT ![w] = NoJob]
      \/ job' = [job EXCEPT ![w].pc = "store", ![w].req = None]
  BY DEF Bind
<1> HIDE DEF f, q
<1>5. /\ RowsOK(req') /\ Settlement(req', payment') /\ Parking(req', parked', payment')
      /\ Grows(req')
  <2>1. CASE UNCHANGED <<req, parked>>
    BY <1>1, <2>1, BooksLeft
  <2>2. CASE /\ ~Refunded /\ ~Conflicting(req, q, f)
             /\ req' = BoundTo(req, q, f) /\ parked' = BoundParked(req', q)
    BY <1>1, <1>2, <2>2, BindBooks
  <2> QED BY <1>3, <2>1, <2>2
<1>6. /\ job' \in [Workers -> Call] /\ \A v \in Workers \ {w} : job'[v] = job[v]
      /\ \/ job'[w] = NoJob
         \/ job'[w].pc = "store" /\ job'[w].ref = f
  <2>1. CASE job' = [job EXCEPT ![w] = NoJob]
    BY <1>1, <2>1 DEF Call, JobPc, NoJob, Req, Ref
  <2>2. CASE job' = [job EXCEPT ![w].pc = "store", ![w].req = None]
    BY <1>1, <2>2 DEF Call, JobPc, Req, f
  <2> QED BY <1>4, <2>1, <2>2
<1>7. job'[w] # NoJob => JobOK(w)'
  BY <1>2, <1>6 DEF JobOK
<1>8. /\ \A v \in Workers : job'[v] = job[v] \/ job'[v] = NoJob \/ JobOK(v)'
      /\ \A v \in Workers, p \in Reqs : Posting(v, p)' => Posting(v, p) \/ ~req[p].aged
  BY <1>6, <1>7, Moved
<1> QED BY <1>1, <1>5, <1>6, <1>8, Known, StepKept

LEMMA ForgetKeeps == ASSUME IInv, NEW q \in Reqs, Forget(q) PROVE IInv'
<1>1. /\ req[q].aged /\ \A w \in Workers : ~Posting(w, q)
      /\ keyed' = [keyed EXCEPT ![q] = [k \in BOOLEAN |-> None]]
      /\ UNCHANGED <<rotated, payment, parked, req, event, refund, job>>
  BY DEF Forget, rows, Posting
<1>2. TypeOK'
  BY <1>1 DEF IInv, TypeOK, Ref
<1>3. RefundsOK' /\ JobsOK'
  BY <1>1, Known DEF RefundsOK, Made, JobsOK, JobOK, Used
<1>4. Books(req, parked, payment)'
  BY <1>1, BooksLeft, BooksPrimed
<1>5. KeysOK'
  <2>1. \A p \in Reqs : p # q => keyed'[p] = keyed[p]
    BY <1>1, Known
  <2>2. \A k \in BOOLEAN : keyed'[q][k] = None
    BY <1>1, Known
  <2>3. \A p \in Reqs, k \in BOOLEAN : keyed'[p][k] # None => refund'[keyed'[p][k]].req = p
    BY <1>1, <2>1, <2>2, Known DEF KeysOK
  <2>4. \A p \in Reqs, f \in Refunds : refund'[f].req = p =>
           \/ keyed'[p][req'[p].key] = f
           \/ (req'[p].aged /\ \A w \in Workers : ~Posting(w, p)')
    BY <1>1, <2>1, Known DEF KeysOK, Posting
  <2>5. OneRefundPerRequest'
    BY <1>1, Known DEF KeysOK, OneRefundPerRequest
  <2> QED BY <2>3, <2>4, <2>5 DEF KeysOK
<1> QED BY <1>2, <1>3, <1>4, <1>5 DEF IInv

\* What the provider adds to its refunds takes nothing back from the books.
LEMMA ProviderMoves ==
    ASSUME IInv, UNCHANGED <<payment, parked, req>>,
           \A g \in Refunds : Made(g) =>
               /\ refund'[g].status # "none" /\ refund'[g].req = refund[g].req
               /\ refund'[g].terms = refund[g].terms
               /\ refund[g].had \subseteq refund'[g].had
               /\ refund[g].status = "succeeded" => refund'[g].status = "succeeded",
           \A g \in Refunds : ~Made(g) => refund'[g] = refund[g] \/ refund'[g].req # None,
           \A g \in Refunds, q \in Reqs : refund'[g].req = q =>
               \/ refund[g].req = q
               \/ Used(req, q) /\ (req[q].ref # None => refund[req[q].ref].req = q)
    PROVE  Books(req, parked, payment)'
<1>1. /\ req \in [Reqs -> Row] /\ RowsOK(req) /\ Settlement(req, payment) /\ RefundsOK
      /\ Parking(req, parked, payment) /\ None \notin Reqs \cup Refunds /\ Legacy \in Refunds
  BY Known, RefundAssumption
<1>2. \A q \in Reqs : req[q].ref # None => req[q].ref \in Refunds /\ Made(req[q].ref)
  BY <1>1 DEF RowsOK, RefsOwned, Row, Ref
<1>3. \A q \in Reqs : Declined(req, q) => Declined(req, q)'
  BY <1>2 DEF Declined
<1>4. RefsOwned(req)'
  <2> SUFFICES ASSUME NEW q \in Reqs, req[q].ref # None
               PROVE  /\ Made(req[q].ref)'
                      /\ \/ refund'[req[q].ref].req = q
                         \/ (refund'[req[q].ref].req = None /\ \A f \in Refunds : refund'[f].req # q)
    BY DEF RefsOwned, Made
  <2>1. Made(req[q].ref) /\ refund'[req[q].ref].req = refund[req[q].ref].req
    BY <1>2
  <2>2. \/ refund[req[q].ref].req = q
        \/ (refund[req[q].ref].req = None /\ \A f \in Refunds : refund[f].req # q)
    BY <1>1 DEF RowsOK, RefsOwned
  <2>3. Made(req[q].ref)'
    BY <1>2 DEF Made
  <2> QED BY <1>1, <2>1, <2>2, <2>3
<1>5. \A q \in Reqs : ~Used(req, q) => \A f \in Refunds : refund'[f].req # q
  BY <1>1 DEF RowsOK
<1>6. RowsOK(req)'
  BY <1>1, <1>3, <1>4, <1>5 DEF RowsOK, Used, Declined
<1>7. Settlement(req, payment)'
  BY <1>1, <1>2 DEF Settlement, SettledWith
<1>8. Made(Legacy)' /\ refund'[Legacy].req = None => Made(Legacy) /\ refund[Legacy].req = None
  BY <1>1 DEF Made
<1>9. Made(Legacy) /\ refund[Legacy].req = None => Made(Legacy)' /\ refund'[Legacy].req = None
  BY <1>1 DEF Made
<1>10. Parking(req, parked, payment)'
  BY <1>1, <1>8, <1>9 DEF Parking, Used, Stands
<1> QED BY <1>6, <1>7, <1>10 DEF Books

LEMMA ConcludeKeeps == ASSUME IInv, NEW f \in Refunds, NEW st \in State, Conclude(f, st) PROVE IInv'
<1>1. /\ refund[f].status \in {"pending", "failed"} /\ st \in {"failed", "succeeded"}
      /\ refund[f].status = "failed" => st = "succeeded"
      /\ refund' = [refund EXCEPT ![f].status = st, ![f].had = @ \cup {st}]
      /\ UNCHANGED <<rotated, payment, parked, req, event, keyed, job>>
  BY DEF Conclude, rows
<1>2. /\ refund \in [Refunds -> [status : State \cup {"none"}, req : Req, terms : Terms,
                                 had : SUBSET State]]
      /\ RefundsOK /\ JobsOK /\ KeysOK
  BY Known
<1>3. refund[f] \in [status : State \cup {"none"}, req : Req, terms : Terms, had : SUBSET State]
  BY <1>2
<1>4. /\ refund' \in [Refunds -> [status : State \cup {"none"}, req : Req, terms : Terms,
                                  had : SUBSET State]]
      /\ refund'[f].status = st /\ refund'[f].had = refund[f].had \cup {st}
      /\ refund'[f].req = refund[f].req /\ refund'[f].terms = refund[f].terms
      /\ \A g \in Refunds \ {f} : refund'[g] = refund[g]
  BY <1>1, <1>2, <1>3
<1>5. \A g \in Refunds : refund'[g].req = refund[g].req /\ (Made(g)' <=> Made(g))
  BY <1>1, <1>4 DEF Made
<1>6. TypeOK'
  BY <1>1, <1>4 DEF IInv, TypeOK
<1>7. RefundsOK'
  BY <1>1, <1>2, <1>4, <1>5 DEF RefundsOK, Made
<1>8. Books(req, parked, payment)'
  BY <1>1, <1>4, <1>5, ProviderMoves DEF Made
<1>9. KeysOK'
  <2>1. \A q \in Reqs, k \in BOOLEAN : keyed[q][k] # None => keyed[q][k] \in Refunds
    BY Known DEF Ref
  <2> QED BY <1>1, <1>2, <1>5, <2>1 DEF KeysOK, OneRefundPerRequest, Posting
<1>10. JobsOK'
  <2> SUFFICES ASSUME NEW w \in Workers PROVE JobOK(w)'
    BY DEF JobsOK
  <2>1. Grows(req')
    BY <1>1, RowsAsTheyWere
  <2> QED BY <1>1, <1>5, <2>1, JobKept
<1> QED BY <1>6, <1>7, <1>8, <1>9, <1>10 DEF IInv

\* A submission that makes refund f: nobody has one for the request yet, and its key will lead
\* every other submission to this one.
LEMMA RefundMade ==
    ASSUME IInv, NEW w \in Workers, job[w].pc = "post", NEW q, q = job[w].req, NEW k, k = job[w].key,
           NEW f \in Refunds, keyed[q][k] = None, refund[f].status = "none",
           refund' = [refund EXCEPT ![f] = [status |-> "pending", req |-> q, terms |-> req[q].terms,
                                            had |-> {"pending"}]],
           keyed' = [keyed EXCEPT ![q][k] = f],
           UNCHANGED <<rotated, payment, parked, req, event>>,
           job' \in [Workers -> Call], \A v \in Workers \ {w} : job'[v] = job[v],
           JobOK(w)', job'[w].pc # "post"
    PROVE  IInv'
<1>1. /\ q \in Reqs /\ Used(req, q) /\ k = req[q].key /\ k \in BOOLEAN
      /\ req[q].ref # None => refund[req[q].ref].req = q
      /\ Posting(w, q)
  BY Known DEF JobOK, Posting, Row
<1>2. /\ refund \in [Refunds -> [status : State \cup {"none"}, req : Req, terms : Terms,
                                 had : SUBSET State]]
      /\ keyed \in [Reqs -> [BOOLEAN -> Ref]] /\ req \in [Reqs -> Row]
      /\ RefundsOK /\ KeysOK /\ None \notin Reqs \cup Refunds
  BY Known, RefundAssumption
<1>3. /\ refund'[f].status = "pending" /\ refund'[f].req = q /\ refund'[f].had = {"pending"}
      /\ \A g \in Refunds \ {f} : refund'[g] = refund[g]
      /\ refund' \in [Refunds -> [status : State \cup {"none"}, req : Req, terms : Terms,
                                  had : SUBSET State]]
  <2>1. req[q].terms \in Terms
    BY <1>1, <1>2 DEF Row
  <2> QED BY <1>1, <1>2, <2>1 DEF State, Req
<1>4. /\ keyed' \in [Reqs -> [BOOLEAN -> Ref]] /\ keyed'[q][k] = f
      /\ \A p \in Reqs, b \in BOOLEAN : p # q \/ b # k => keyed'[p][b] = keyed[p][b]
  BY <1>1, <1>2 DEF Ref
<1>5. ~Made(f) /\ Made(f)' /\ q # None /\ \A g \in Refunds : Made(g) => refund'[g] = refund[g]
  BY <1>1, <1>2, <1>3 DEF Made
<1>6. TypeOK'
  <2>1. TypeOK
    BY DEF IInv
  <2> QED BY <1>3, <1>4, <2>1 DEF TypeOK, Call
<1>7. RefundsOK'
  <2>1. refund[f] = NoRefund
    BY <1>2, <1>5 DEF RefundsOK
  <2>2. event'[f] = "none"
    BY <1>2, <2>1 DEF RefundsOK, NoRefund
  <2> QED BY <1>1, <1>2, <1>3, <1>5, <2>2 DEF RefundsOK, Made
<1>8. Books(req, parked, payment)'
  <2>1. \A g \in Refunds : ~Made(g) => refund'[g] = refund[g] \/ refund'[g].req # None
    BY <1>3, <1>5
  <2>2. \A g \in Refunds, p \in Reqs : refund'[g].req = p =>
            refund[g].req = p \/ (Used(req, p) /\ (req[p].ref # None => refund[req[p].ref].req = p))
    BY <1>1, <1>3
  <2> QED BY <1>5, <2>1, <2>2, ProviderMoves DEF Made
<1>9. ASSUME NEW g \in Refunds, refund[g].req = q PROVE FALSE
  <2>1. keyed[q][req[q].key] = g \/ \A v \in Workers : ~Posting(v, q)
    BY <1>1, <1>2, <1>9 DEF KeysOK
  <2>2. keyed[q][req[q].key] = None
    BY <1>1
  <2> QED BY <1>1, <1>2, <2>1, <2>2
<1>10. KeysOK'
  <2>1. \A p \in Reqs, b \in BOOLEAN : keyed'[p][b] # None => refund'[keyed'[p][b]].req = p
    <3> SUFFICES ASSUME NEW p \in Reqs, NEW b \in BOOLEAN, keyed'[p][b] # None
                 PROVE  refund'[keyed'[p][b]].req = p
      OBVIOUS
    <3>1. CASE p = q /\ b = k
      BY <1>3, <1>4, <3>1
    <3>2. CASE p # q \/ b # k
      <4>1. keyed'[p][b] = keyed[p][b] /\ keyed[p][b] \in Refunds /\ refund[keyed[p][b]].req = p
        BY <1>2, <1>4, <3>2 DEF KeysOK, Ref
      <4>2. keyed[p][b] # f
        BY <1>2, <1>5, <4>1 DEF RefundsOK, NoRefund
      <4> QED BY <1>3, <4>1, <4>2
    <3> QED BY <3>1, <3>2
  <2>2. \A p \in Reqs, g \in Refunds : refund'[g].req = p =>
            \/ keyed'[p][req'[p].key] = g
            \/ (req'[p].aged /\ \A v \in Workers : ~Posting(v, p)')
    <3> SUFFICES ASSUME NEW p \in Reqs, NEW g \in Refunds, refund'[g].req = p
                 PROVE  \/ keyed'[p][req[p].key] = g
                        \/ (req[p].aged /\ \A v \in Workers : ~Posting(v, p)')
      OBVIOUS
    <3>1. CASE p = q
      <4>1. g = f
        BY <1>3, <1>9, <3>1
      <4> QED BY <1>1, <1>4, <3>1, <4>1
    <3>2. CASE p # q
      <4>1. refund[g].req = p
        BY <1>3, <3>2
      <4>2. \/ keyed[p][req[p].key] = g
            \/ (req[p].aged /\ \A v \in Workers : ~Posting(v, p))
        BY <1>2, <4>1 DEF KeysOK
      <4>3. \A v \in Workers : Posting(v, p)' => Posting(v, p)
        BY DEF Posting
      <4>4. req[p].key \in BOOLEAN
        BY <1>2 DEF Row
      <4> QED BY <1>4, <3>2, <4>2, <4>3, <4>4
    <3> QED BY <3>1, <3>2
  <2>3. OneRefundPerRequest'
    BY <1>2, <1>3, <1>9 DEF KeysOK, OneRefundPerRequest
  <2> QED BY <2>1, <2>2, <2>3 DEF KeysOK
<1>11. JobsOK'
  <2> SUFFICES ASSUME NEW v \in Workers PROVE JobOK(v)'
    BY DEF JobsOK
  <2>1. CASE v = w
    BY <2>1
  <2>2. CASE v # w
    BY <1>5, <2>2, RowsAsTheyWere, JobKept DEF Made
  <2> QED BY <2>1, <2>2
<1> QED BY <1>6, <1>7, <1>8, <1>10, <1>11 DEF IInv

LEMMA PostKeeps == ASSUME IInv, NEW w \in Workers, Post(w) PROVE IInv'
<1> DEFINE q == job[w].req
           k == job[w].key
<1>1. /\ job \in [Workers -> Call] /\ JobOK(w) /\ job[w].pc = "post" /\ KeysOK /\ RefundsOK
      /\ UNCHANGED <<rotated, payment, parked, req, event>> /\ None \notin Reqs \cup Refunds
  BY Known, RefundAssumption DEF Post, rows
<1>2. q \in Reqs /\ Used(req, q) /\ k \in BOOLEAN
  BY <1>1 DEF JobOK, Call
<1>3. \/ /\ UNCHANGED provider
         /\ \/ job' = [job EXCEPT ![w].pc = "uncertain", ![w].key = FALSE]
            \/ \E f \in Refunds :
                  /\ keyed[q][k] = f
                  /\ job' = [job EXCEPT ![w].pc = "bind", ![w].ref = f, ![w].key = FALSE]
      \/ \E f \in Refunds :
            /\ keyed[q][k] = None /\ refund[f].status = "none"
            /\ refund' = [refund EXCEPT ![f] = [status |-> "pending", req |-> q, terms |-> req[q].terms,
                                                had |-> {"pending"}]]
            /\ keyed' = [keyed EXCEPT ![q][k] = f]
            /\ \/ job' = [job EXCEPT ![w].pc = "bind", ![w].ref = f, ![w].key = FALSE]
               \/ job' = [job EXCEPT ![w].pc = "uncertain", ![w].key = FALSE]
  <2>1. \/ \E f \in Refunds :
              /\ Submitted(q, k, f)
              /\ \/ job' = [job EXCEPT ![w].pc = "bind", ![w].ref = f, ![w].key = FALSE]
                 \/ job' = [job EXCEPT ![w].pc = "uncertain", ![w].key = FALSE]
        \/ UNCHANGED provider /\ job' = [job EXCEPT ![w].pc = "uncertain", ![w].key = FALSE]
    BY Zenon DEF Post
  <2> HIDE DEF q, k
  <2>2. ASSUME NEW f \in Refunds, Submitted(q, k, f)
        PROVE  \/ keyed[q][k] = f /\ UNCHANGED provider
               \/ /\ keyed[q][k] = None /\ refund[f].status = "none"
                  /\ refund' = [refund EXCEPT ![f] = [status |-> "pending", req |-> q,
                                                      terms |-> req[q].terms, had |-> {"pending"}]]
                  /\ keyed' = [keyed EXCEPT ![q][k] = f]
    BY <2>2, Zenon DEF Submitted, AmountOf
  <2> QED BY <2>1, <2>2, Zenon
<1> HIDE DEF q, k
<1>4. ASSUME job' = [job EXCEPT ![w].pc = "uncertain", ![w].key = FALSE]
      PROVE  /\ job' \in [Workers -> Call] /\ \A v \in Workers \ {w} : job'[v] = job[v]
             /\ job'[w].pc = "uncertain" /\ job'[w].req = q
  BY <1>1, <1>4 DEF Call, JobPc, q
<1>5. ASSUME NEW f \in Refunds, job' = [job EXCEPT ![w].pc = "bind", ![w].ref = f, ![w].key = FALSE]
      PROVE  /\ job' \in [Workers -> Call] /\ \A v \in Workers \ {w} : job'[v] = job[v]
             /\ job'[w].pc = "bind" /\ job'[w].req = q /\ job'[w].ref = f
  <2>1. job[w] \in Call /\ f \in Ref
    BY <1>1 DEF Ref
  <2> QED BY <1>1, <1>5, <2>1 DEF Call, JobPc, q
<1>6. job'[w].pc = "uncertain" /\ job'[w].req = q => JobOK(w)'
  BY <1>1, <1>2 DEF JobOK, Used
<1>7. ASSUME NEW f \in Refunds, job'[w].pc = "bind" /\ job'[w].req = q /\ job'[w].ref = f,
             Made(f)', refund'[f].req = q
      PROVE  JobOK(w)'
  BY <1>1, <1>2, <1>7 DEF JobOK, Used
<1>8. CASE UNCHANGED provider /\ job' = [job EXCEPT ![w].pc = "uncertain", ![w].key = FALSE]
  <2>1. /\ \A v \in Workers : job'[v] = job[v] \/ job'[v] = NoJob \/ JobOK(v)'
        /\ \A v \in Workers, p \in Reqs : Posting(v, p)' => Posting(v, p) \/ ~req[p].aged
    BY <1>4, <1>6, <1>8, Moved
  <2> QED BY <1>1, <1>4, <1>8, <2>1, BooksLeft, Known, StepKept
<1>9. ASSUME UNCHANGED provider, NEW f \in Refunds, keyed[q][k] = f,
             job' = [job EXCEPT ![w].pc = "bind", ![w].ref = f, ![w].key = FALSE]
      PROVE  IInv'
  <2>1. refund' = refund /\ refund[f].req = q
    BY <1>1, <1>2, <1>9 DEF KeysOK, provider
  <2>2. Made(f)' /\ refund'[f].req = q
    BY <1>1, <1>2, <2>1 DEF RefundsOK, Made, NoRefund
  <2>3. JobOK(w)'
    BY <1>5, <1>7, <1>9, <2>2
  <2>4. /\ \A v \in Workers : job'[v] = job[v] \/ job'[v] = NoJob \/ JobOK(v)'
        /\ \A v \in Workers, p \in Reqs : Posting(v, p)' => Posting(v, p) \/ ~req[p].aged
    BY <1>5, <1>9, <2>3, Moved
  <2> QED BY <1>1, <1>5, <1>9, <2>4, BooksLeft, Known, StepKept
<1>10. ASSUME NEW f \in Refunds, keyed[q][k] = None, refund[f].status = "none",
              refund' = [refund EXCEPT ![f] = [status |-> "pending", req |-> q, terms |-> req[q].terms,
                                               had |-> {"pending"}]],
              keyed' = [keyed EXCEPT ![q][k] = f],
              \/ job' = [job EXCEPT ![w].pc = "bind", ![w].ref = f, ![w].key = FALSE]
              \/ job' = [job EXCEPT ![w].pc = "uncertain", ![w].key = FALSE]
       PROVE  IInv'
  <2>1. Made(f)' /\ refund'[f].req = q
    BY <1>10, Known DEF Made
  <2>2. /\ job' \in [Workers -> Call] /\ \A v \in Workers \ {w} : job'[v] = job[v]
        /\ JobOK(w)' /\ job'[w].pc # "post"
    BY <1>4, <1>5, <1>6, <1>7, <1>10, <2>1
  <2> QED BY <1>1, <1>10, <2>2, RefundMade DEF q, k
<1> QED BY <1>3, <1>8, <1>9, <1>10
-----------------------------------------------------------------------------
(* The invariant. *)

LEMMA InitIInv == ASSUME Init PROVE IInv
<1>1. Legacy \in Refunds /\ None \notin Reqs /\ None \notin Refunds
  BY RefundAssumption
<1>2. /\ req \in [Reqs -> Row] /\ \A q \in Reqs : req[q] = NoRequest
      /\ payment = [status |-> "paid", by |-> None]
      /\ event = [f \in Refunds |-> "none"] /\ rotated = FALSE
      /\ keyed = [q \in Reqs |-> [k \in BOOLEAN |-> None]]
      /\ job = [w \in Workers |-> NoJob]
  BY DEF Init, NoRequest, Row, Ref, Active, Terms
<1>3. /\ refund \in [Refunds -> [status : State \cup {"none"}, req : Req, terms : Terms,
                                 had : SUBSET State]]
      /\ \A f \in Refunds \ {Legacy} : refund[f] = NoRefund
      /\ refund[Legacy].req = None
      /\ \/ /\ refund[Legacy] = NoRefund
            /\ parked = [req |-> None, id |-> None, status |-> "none"]
         \/ /\ refund[Legacy].status = "pending" /\ refund[Legacy].had = {"pending"}
            /\ parked = [req |-> None, id |-> Legacy, status |-> "pending"]
  <2>1. CASE /\ parked = [req |-> None, id |-> None, status |-> "none"]
             /\ refund = [f \in Refunds |-> NoRefund]
    BY <1>1, <2>1 DEF NoRefund, State, Req, Terms
  <2>2. CASE /\ parked = [req |-> None, id |-> Legacy, status |-> "pending"]
             /\ \E t \in Terms : refund = [f \in Refunds |->
                  IF f = Legacy THEN [status |-> "pending", req |-> None, terms |-> t, had |-> {"pending"}]
                                ELSE NoRefund]
    BY <1>1, <2>2 DEF NoRefund, State, Req, Terms
  <2> QED BY <2>1, <2>2 DEF Init
<1>4. TypeOK
  <2>1. rotated \in BOOLEAN /\ payment \in [status : {"paid", "refunded", "partially_refunded"}, by : Ref]
    BY <1>2 DEF Ref
  <2>2. parked \in [req : Req, id : Ref, status : Active \cup State \cup {"none"}]
    BY <1>1, <1>3 DEF Req, Ref, Active
  <2>3. event \in [Refunds -> State \cup {"none"}] /\ keyed \in [Reqs -> [BOOLEAN -> Ref]]
    BY <1>2 DEF Ref
  <2>4. job \in [Workers -> [pc : JobPc, req : Req, ref : Ref, key : BOOLEAN]]
    BY <1>2 DEF NoJob, JobPc, Req, Ref
  <2> QED BY <1>2, <1>3, <2>1, <2>2, <2>3, <2>4 DEF TypeOK, Row
<1>5. RefundsOK
  BY <1>1, <1>2, <1>3 DEF RefundsOK, Made, NoRefund
<1>6. \A q \in Reqs : ~Used(req, q) /\ ~Stands(req, q) /\ req[q].ref = None /\ ~req[q].review
                      /\ req[q].status = "none"
  BY <1>2 DEF Used, Stands, NoRequest
<1>7. \A f \in Refunds : refund[f].req = None
  BY <1>3 DEF NoRefund
<1>8. RowsOK(req)
  BY <1>1, <1>2, <1>6, <1>7 DEF RowsOK, RefsOwned
<1>9. Settlement(req, payment)
  BY <1>2, <1>6 DEF Settlement, Ref
<1>10. Parking(req, parked, payment)
  <2>1. Made(Legacy) <=> parked.status = "pending"
    BY <1>3 DEF Made, NoRefund
  <2>2. parked.req = None /\ parked \in [req : Req, id : Ref, status : Active \cup State \cup {"none"}]
    BY <1>1, <1>3 DEF Req, Ref, Active
  <2>3. parked.status = "pending" => parked.id = Legacy
    BY <1>3
  <2> QED BY <1>3, <1>6, <2>1, <2>2, <2>3 DEF Parking
<1>11. KeysOK
  BY <1>1, <1>2, <1>7 DEF KeysOK, OneRefundPerRequest
<1>12. JobsOK
  BY <1>2 DEF JobsOK, JobOK, NoJob
<1> QED BY <1>4, <1>5, <1>8, <1>9, <1>10, <1>11, <1>12 DEF IInv, Books

LEMMA NextIInv == ASSUME IInv, [Next]_vars PROVE IInv'
<1>1. CASE RotateKey
  BY <1>1, RotateKeyKeeps
<1>2. ASSUME NEW w \in Workers,
             \/ ClaimNew(w) \/ ClaimLegacy(w) \/ ClaimKnown(w) \/ ClaimRetry(w)
             \/ ClaimLeased(w) \/ CallStep(w) \/ WorkerDies(w)
      PROVE  IInv'
  BY <1>2, ClaimNewKeeps, ClaimLegacyKeeps, ClaimKnownKeeps, ClaimRetryKeeps, ClaimLeasedKeeps,
     ConsumeKeeps, LookKeeps, PostKeeps, UncertainKeeps, BindKeeps, StoreKeeps, ApplyKeeps,
     WorkerDiesKeeps DEF CallStep
<1>3. ASSUME NEW f \in Refunds, WebhookStore(f) \/ WebhookApply(f) \/ \E st \in State : Conclude(f, st)
      PROVE  IInv'
  BY <1>3, WebhookStoreKeeps, WebhookApplyKeeps, ConcludeKeeps
<1>4. ASSUME NEW q \in Reqs, Age(q) \/ Forget(q) PROVE IInv'
  BY <1>4, AgeKeeps, ForgetKeeps
<1>5. CASE UNCHANGED vars
  <2>1. UNCHANGED <<rotated, payment, parked, req, event, provider, job>>
    BY <1>5 DEF vars, provider
  <2>2. \A v \in Workers, p \in Reqs : Posting(v, p)' => Posting(v, p)
    BY <2>1 DEF Posting
  <2> QED BY <2>1, <2>2, BooksLeft, Known, StepKept
<1> QED BY <1>1, <1>2, <1>3, <1>4, <1>5 DEF Next

\* Two refunds of which neither was declined belong to two requests in use, one of which has been
\* declined: the refund it is bound to is the only one it has.
LEMMA OneMoves == ASSUME IInv PROVE OneRefundMoves
<1> SUFFICES ASSUME NEW f \in Moving, NEW g \in Moving, f # g PROVE FALSE
  BY DEF OneRefundMoves
<1>1. /\ f \in Refunds /\ Made(f) /\ "failed" \notin refund[f].had
      /\ g \in Refunds /\ Made(g) /\ "failed" \notin refund[g].had
  BY DEF Moving, Made
<1>2. /\ RowsOK(req) /\ Parking(req, parked, payment) /\ RefundsOK /\ OneRefundPerRequest
      /\ None \notin Reqs \cup Refunds /\ Legacy \in Refunds
      /\ refund[f].req \in Req /\ refund[g].req \in Req
  BY <1>1, Known, RefundAssumption DEF KeysOK
\* A refund made for a request keeps it from having been declined.
<1>3. ASSUME NEW h \in {f, g}, refund[h].req # None
      PROVE  /\ refund[h].req \in Reqs /\ Used(req, refund[h].req)
             /\ ~Declined(req, refund[h].req)
             /\ req[refund[h].req].ref # None => req[refund[h].req].ref = h
  <2> DEFINE p == refund[h].req
  <2>1. h \in Refunds /\ p \in Reqs /\ Used(req, p) /\ "failed" \notin refund[h].had
    BY <1>1, <1>2, <1>3 DEF RowsOK, Req
  <2>2. req[p].ref # None => req[p].ref = h
    BY <1>2, <1>3, <2>1 DEF RowsOK, RefsOwned, OneRefundPerRequest, Row, Ref
  <2> QED BY <2>1, <2>2 DEF Declined
<1>4. CASE refund[f].req # None /\ refund[g].req # None
  <2>1. refund[f].req # refund[g].req
    BY <1>1, <1>2, <1>4 DEF OneRefundPerRequest
  <2> QED BY <1>2, <1>3, <1>4, <2>1 DEF RowsOK
<1>5. ASSUME NEW h \in {f, g}, NEW o \in {f, g}, refund[h].req = None, refund[o].req # None
      PROVE  FALSE
  <2>1. h = Legacy
    BY <1>1, <1>2, <1>5 DEF RefundsOK
  <2>2. refund[o].req \in Reqs /\ Used(req, refund[o].req) /\ ~Declined(req, refund[o].req)
    BY <1>3, <1>5
  <2>3. PICK p \in Reqs : req[p].ref = Legacy
    BY <1>1, <1>2, <1>5, <2>1, <2>2 DEF Parking
  <2>4. Used(req, p) /\ ~Declined(req, p)
    BY <1>1, <1>2, <2>1, <2>3 DEF RowsOK, Declined, NoRequest
  <2>5. p # refund[o].req
    BY <1>1, <1>2, <1>5, <2>1, <2>3 DEF RowsOK, RefsOwned
  <2> QED BY <1>2, <2>2, <2>4, <2>5 DEF RowsOK
<1>6. CASE refund[f].req = None /\ refund[g].req = None
  BY <1>1, <1>2, <1>6 DEF RefundsOK
<1> QED BY <1>4, <1>5, <1>6

LEMMA Promises == ASSUME IInv PROVE LedgerIsDebited /\ ParkedIsCurrent /\ OneRefundPerRequest
<1>1. LedgerIsDebited
  BY Known DEF Settlement, LedgerIsDebited
<1>2. ParkedIsCurrent
  BY Known DEF Parking, Standing, Stands, Used, ParkedIsCurrent
<1> QED BY <1>1, <1>2, Known DEF KeysOK
-----------------------------------------------------------------------------
(* RefundRequest implements RefundLedger, step by step. *)

Debits == {f \in Refunds : refund[f].status = "succeeded"}

\* What a step does that applies no report and concludes no refund.
NoMoney == payment'.by = payment.by /\ Flagged(req') = Flagged(req) /\ Debits' = Debits

LEMMA LedgerMeans ==
    /\ Ledger!Init <=> Debits = {} /\ payment.by = None /\ Flagged(req) = {}
    /\ Ledger!Next <=> \E f \in Refunds :
          \/ /\ f \notin Debits /\ Debits' = Debits \cup {f}
             /\ payment'.by = payment.by /\ Flagged(req') = Flagged(req)
          \/ /\ f \in Debits /\ payment.by = None /\ payment'.by = f
             /\ Debits' = Debits /\ Flagged(req') = Flagged(req)
          \/ /\ f \in Debits /\ payment.by \notin {None, f} /\ Flagged(req') = Flagged(req) \cup {f}
             /\ Debits' = Debits /\ payment'.by = payment.by
    /\ (UNCHANGED Ledger!ledgerVars) <=> NoMoney
BY DEF Ledger!Init, Ledger!Next, Ledger!Debit, Ledger!Book, Ledger!Flag, Ledger!ledgerVars, Debits,
       Flagged, NoMoney

\* An entry that is not settled has nothing under review, before the step and after it.
LEMMA Quiet ==
    ASSUME IInv, IInv', payment' = payment, Debits' = Debits,
           \/ payment.by = None
           \/ \A p \in Reqs : (req'[p].review <=> req[p].review) /\ req'[p].ref = req[p].ref
    PROVE  NoMoney
<1>1. CASE payment.by = None
  <2>1. Settlement(req, payment)' /\ payment'.by = None
    BY <1>1 DEF IInv, Books
  <2>2. \A p \in Reqs : ~req[p].review /\ ~req'[p].review
    BY <1>1, <2>1, Known DEF Settlement
  <2> QED BY <2>2 DEF NoMoney, Flagged
<1>2. CASE \A p \in Reqs : (req'[p].review <=> req[p].review) /\ req'[p].ref = req[p].ref
  BY <1>2 DEF NoMoney, Flagged
<1> QED BY <1>1, <1>2

LEMMA ApplyIsLedger ==
    ASSUME IInv, NEW f \in Refunds, ApplyEvent(f), UNCHANGED provider,
           event[f] # "none" \/ \E p \in Reqs : req[p].ref = f
    PROVE  Ledger!Next \/ UNCHANGED Ledger!ledgerVars
<1>1. \/ payment' = payment /\ Flagged(req') = Flagged(req)
      \/ /\ payment' = payment /\ payment.by # None /\ payment.by # f
         /\ refund[f].status = "succeeded" /\ Flagged(req') = Flagged(req) \cup {f}
      \/ /\ payment.by = None /\ payment'.by = f
         /\ refund[f].status = "succeeded" /\ Flagged(req') = Flagged(req)
  BY ApplyBooks
<1>2. Debits' = Debits /\ (refund[f].status = "succeeded" => f \in Debits)
  BY DEF Debits, provider
<1> QED BY <1>1, <1>2, LedgerMeans DEF NoMoney

LEMMA ConcludeIsLedger ==
    ASSUME IInv, NEW f \in Refunds, NEW st \in State, Conclude(f, st)
    PROVE  Ledger!Next \/ UNCHANGED Ledger!ledgerVars
<1>1. /\ refund[f].status \in {"pending", "failed"} /\ st \in {"failed", "succeeded"}
      /\ refund' = [refund EXCEPT ![f].status = st, ![f].had = @ \cup {st}]
      /\ UNCHANGED <<payment, req>>
  BY DEF Conclude, rows
<1>2. /\ refund'[f].status = st /\ \A g \in Refunds \ {f} : refund'[g] = refund[g]
  <2>1. refund[f] \in [status : State \cup {"none"}, req : Req, terms : Terms, had : SUBSET State]
    BY Known
  <2> QED BY <1>1, <2>1, Known
<1>3. f \notin Debits
  BY <1>1 DEF Debits
<1>4. payment'.by = payment.by /\ Flagged(req') = Flagged(req)
  BY <1>1
<1>5. CASE st = "succeeded"
  <2>1. Debits' = Debits \cup {f}
    BY <1>2, <1>5 DEF Debits
  <2> QED BY <1>3, <1>4, <2>1, LedgerMeans
<1>6. CASE st = "failed"
  <2>1. Debits' = Debits
    BY <1>1, <1>2, <1>6 DEF Debits
  <2> QED BY <1>4, <2>1, LedgerMeans DEF NoMoney
<1> QED BY <1>1, <1>5, <1>6

LEMMA ProviderKept == ASSUME UNCHANGED provider PROVE Debits' = Debits
BY DEF Debits, provider

\* No other step moves money.
LEMMA CallIsQuiet ==
    ASSUME IInv, IInv', NEW w \in Workers,
           \/ ClaimNew(w) \/ ClaimLegacy(w) \/ ClaimKnown(w) \/ ClaimRetry(w) \/ ClaimLeased(w)
           \/ Look(w) \/ Post(w) \/ Uncertain(w) \/ Bind(w) \/ Store(w) \/ WorkerDies(w)
    PROVE  NoMoney
<1>1. CASE ClaimNew(w) \/ ClaimLegacy(w) \/ ClaimKnown(w) \/ ClaimRetry(w) \/ ClaimLeased(w)
  <2>1. payment' = payment /\ payment.by = None /\ UNCHANGED provider
    BY <1>1, Known DEF ClaimNew, ClaimLegacy, ClaimKnown, ClaimRetry, ClaimLeased, Claimable
  <2> QED BY <2>1, ProviderKept, Quiet
<1>2. CASE Look(w) \/ Store(w) \/ WorkerDies(w)
  <2>1. payment' = payment /\ req' = req /\ UNCHANGED provider
    BY <1>2 DEF Look, Store, WorkerDies, rows
  <2> QED BY <2>1, ProviderKept, Quiet
<1>3. CASE Post(w)
  <2>1. payment' = payment /\ req' = req
    BY <1>3 DEF Post, rows
  <2>2. \/ UNCHANGED provider
        \/ \E f \in Refunds, terms \in Terms : /\ refund[f].status = "none"
                /\ refund' = [refund EXCEPT ![f] = [status |-> "pending", req |-> job[w].req,
                                                    terms |-> terms, had |-> {"pending"}]]
    <3>1. job[w].req \in Reqs
      BY <1>3, Known DEF Post, JobOK
    <3>2. req[job[w].req].terms \in Terms
      BY <3>1, Known DEF Row
    <3>3. \/ UNCHANGED provider
          \/ \E f \in Refunds : Submitted(job[w].req, job[w].key, f)
      BY <1>3 DEF Post
    <3> QED BY <3>2, <3>3 DEF Submitted, AmountOf
  <2>3. Debits' = Debits
    <3>1. CASE UNCHANGED provider
      BY <3>1, ProviderKept
    <3>2. ASSUME NEW f \in Refunds, NEW terms \in Terms, refund[f].status = "none",
                 refund' = [refund EXCEPT ![f] = [status |-> "pending", req |-> job[w].req,
                                                  terms |-> terms, had |-> {"pending"}]]
          PROVE  Debits' = Debits
      <4>1. refund'[f].status = "pending" /\ \A g \in Refunds \ {f} : refund'[g] = refund[g]
        BY <3>2, Known
      <4> QED BY <3>2, <4>1 DEF Debits
    <3> QED BY <2>2, <3>1, <3>2
  <2> QED BY <2>1, <2>3, Quiet
<1>4. CASE Uncertain(w)
  <2>1. payment' = payment /\ UNCHANGED provider
    BY <1>4 DEF Uncertain
  <2>2. job[w].req \in Reqs
    BY <1>4, Known DEF Uncertain, JobOK
  <2>3. req' = req \/ req' = [req EXCEPT ![job[w].req].status = "unknown"]
    BY <1>4 DEF Uncertain
  <2>4. \A p \in Reqs : (req'[p].review <=> req[p].review) /\ req'[p].ref = req[p].ref
    <3>1. PICK q \in Reqs : q = job[w].req
      BY <2>2
    <3>2. req[q] \in Row /\ req \in [Reqs -> Row]
      BY Known
    <3>3. CASE req' = [req EXCEPT ![q].status = "unknown"]
      BY <3>2, <3>3 DEF Row
    <3> QED BY <2>3, <3>1, <3>3
  <2> QED BY <2>1, <2>4, ProviderKept, Quiet
<1>5. CASE Bind(w)
  <2>1. payment' = payment /\ UNCHANGED provider /\ (req' = req \/ payment.by = None)
    BY <1>5, Known DEF Bind
  <2> QED BY <2>1, ProviderKept, Quiet
<1> QED BY <1>1, <1>2, <1>3, <1>4, <1>5

LEMMA OthersAreQuiet ==
    ASSUME IInv, IInv',
           \/ RotateKey \/ UNCHANGED vars
           \/ \E f \in Refunds : WebhookStore(f)
           \/ \E q \in Reqs : Age(q) \/ Forget(q)
    PROVE  NoMoney
<1>1. CASE \/ RotateKey \/ UNCHANGED vars
           \/ \E f \in Refunds : WebhookStore(f)
           \/ \E q \in Reqs : Forget(q)
  <2>1. payment' = payment /\ req' = req /\ refund' = refund
    BY <1>1 DEF RotateKey, vars, WebhookStore, Forget, rows, provider
  <2> QED BY <2>1, Quiet DEF Debits
<1>2. ASSUME NEW q \in Reqs, Age(q) PROVE NoMoney
  <2>1. payment' = payment /\ UNCHANGED provider /\ req' = [req EXCEPT ![q].aged = TRUE]
    BY <1>2 DEF Age
  <2>2. req[q] \in Row
    BY Known
  <2>3. \A p \in Reqs : (req'[p].review <=> req[p].review) /\ req'[p].ref = req[p].ref
    BY <2>1, <2>2, Known DEF Row
  <2> QED BY <2>1, <2>3, ProviderKept, Quiet
<1> QED BY <1>1, <1>2

LEMMA StepIsLedger ==
    ASSUME IInv, IInv', [Next]_vars
    PROVE  Ledger!Next \/ UNCHANGED Ledger!ledgerVars
<1>1. ASSUME NEW w \in Workers, Consume(w) PROVE Ledger!Next \/ UNCHANGED Ledger!ledgerVars
  <2>1. /\ job[w].ref \in Refunds /\ \E p \in Reqs : req[p].ref = job[w].ref
        /\ ApplyEvent(job[w].ref) /\ UNCHANGED provider
    BY <1>1, Known DEF Consume, JobOK, Row, Ref
  <2> QED BY <2>1, ApplyIsLedger
<1>2. ASSUME NEW w \in Workers, Apply(w) PROVE Ledger!Next \/ UNCHANGED Ledger!ledgerVars
  <2>1. /\ job[w].ref \in Refunds /\ event[job[w].ref] # "none"
        /\ ApplyEvent(job[w].ref) /\ UNCHANGED provider
    BY <1>2, Known DEF Apply, JobOK
  <2> QED BY <2>1, ApplyIsLedger
<1>3. ASSUME NEW f \in Refunds, WebhookApply(f) PROVE Ledger!Next \/ UNCHANGED Ledger!ledgerVars
  BY <1>3, ApplyIsLedger DEF WebhookApply
<1>4. ASSUME NoMoney PROVE UNCHANGED Ledger!ledgerVars
  BY <1>4, LedgerMeans
<1> QED BY <1>1, <1>2, <1>3, <1>4, ConcludeIsLedger, CallIsQuiet, OthersAreQuiet DEF Next, CallStep
-----------------------------------------------------------------------------
(* What is promised of a refund. *)

\* The request rows, the provider's refunds and what each call and report knows of them agree in every
\* state: what a call read before it let go of the row still tells what it may do.
THEOREM RefundInvariant == Spec => []IInv
<1>1. Init => IInv
  BY InitIInv
<1>2. IInv /\ [Next]_vars => IInv'
  BY NextIInv
<1> QED BY <1>1, <1>2, PTL DEF Spec

\* Every row, report and call keeps its shape: no column ever holds what it may not.
THEOREM RefundTypeCorrect == Spec => []TypeOK
<1>1. IInv => TypeOK
  BY DEF IInv
<1> QED BY <1>1, RefundInvariant, PTL

\* However often a request is submitted, by any number of calls, across lost answers and a new
\* API key, the provider makes at most one refund for it.
THEOREM OneRefundEver == Spec => []OneRefundPerRequest
<1>1. IInv => OneRefundPerRequest
  BY Promises
<1> QED BY <1>1, RefundInvariant, PTL

\* No two refunds of an entry are under way or done: refund_request_claim makes a request only
\* after the provider declined the refund of the one before.
THEOREM OneMovesAtATime == Spec => []OneRefundMoves
<1>1. IInv => OneRefundMoves
  BY OneMoves
<1> QED BY <1>1, RefundInvariant, PTL

\* The ledger row is refunded exactly when one request succeeded, with the amount and the id of
\* the provider refund that did.
THEOREM LedgerAgrees == Spec => []LedgerIsDebited
<1>1. IInv => LedgerIsDebited
  BY Promises
<1> QED BY <1>1, RefundInvariant, PTL

\* payments.raw.refund describes the request that stands, and names none only before there is one.
THEOREM ParkedStaysCurrent == Spec => []ParkedIsCurrent
<1>1. IInv => ParkedIsCurrent
  BY Promises
<1> QED BY <1>1, RefundInvariant, PTL

\* Claims, answers, reports and replays in any order book one debit, after the provider made it,
\* and put every other they apply before an operator: RefundRequest implements RefundLedger.
THEOREM ImplementsLedger == Spec => BooksOneDebit
<1>1. Init => Ledger!Init
  <2> SUFFICES ASSUME Init PROVE Ledger!Init
    OBVIOUS
  <2>1. IInv
    BY InitIInv
  <2>2. payment.by = None /\ \A q \in Reqs : ~req[q].review
    BY DEF Init, NoRequest
  <2>3. \A f \in Refunds : refund[f].status # "succeeded"
    BY DEF Init, NoRefund
  <2> QED BY <2>2, <2>3, LedgerMeans DEF Debits, Flagged
<1>2. IInv /\ IInv' /\ [Next]_vars => [Ledger!Next]_(Ledger!ledgerVars)
  BY StepIsLedger
<1> QED BY <1>1, <1>2, RefundInvariant, PTL DEF Spec, BooksOneDebit, Ledger!Spec
=============================================================================
