---------------------------- MODULE RefundRequest ----------------------------
(***************************************************************************)
(* The refund of one paid single entry: the rows of `refund_requests' and  *)
(* `refund_provider_events', the part of the `payments' row a refund       *)
(* writes, the provider's refunds with its memory of idempotency keys, and *)
(* the Edge function calls between them.  Each SQL function is one action  *)
(* (it locks the registration and the payment); refundRegistration and the *)
(* webhook are several, and may die between any two.                       *)
(***************************************************************************)
EXTENDS FiniteSets

CONSTANTS
    Reqs,        \* refund_requests rows
    Refunds,     \* provider refunds (ref_)
    Legacy,      \* the provider refund an older release may have left parked
    Workers,     \* concurrent Edge function calls
    LateSuccess, \* TRUE: the provider may report a failed refund as succeeded later
    KeyRotates,  \* TRUE: PAYMONGO_SECRET_KEY may be replaced meanwhile
    None         \* SQL null

ASSUME RefundAssumption ==
    /\ Legacy \in Refunds
    /\ LateSuccess \in BOOLEAN
    /\ KeyRotates \in BOOLEAN
    /\ None \notin Reqs \cup Refunds

VARIABLES
    rotated, \* PAYMONGO_SECRET_KEY was replaced
    payment, \* payments: status, and the provider refund it was settled with (raw.provider_refund)
    parked,  \* payments.raw.refund
    req,     \* refund_requests
    event,   \* refund_provider_events.status
    refund,  \* the provider's refunds: request in the metadata, amount, state, states it has had
    keyed,   \* the refund the provider remembers for an idempotency key, per API key
    job      \* the running call of each worker

rows == <<payment, parked, req, event>>
provider == <<refund, keyed>>
vars == <<rotated, payment, parked, req, event, refund, keyed, job>>

Terms == {"full", "part"}
State == {"pending", "failed", "succeeded"}
Active == {"submitting", "unknown", "pending"}
JobPc == {"idle", "consume", "look", "post", "uncertain", "bind", "store", "apply"}

Req == Reqs \cup {None}
Ref == Refunds \cup {None}

NoRequest == [status |-> "none", ref |-> None, terms |-> "full", key |-> FALSE,
              aged |-> FALSE, review |-> FALSE]
NoRefund == [status |-> "none", req |-> None, terms |-> "full", had |-> {}]
NoJob == [pc |-> "idle", req |-> None, ref |-> None, key |-> FALSE]

TypeOK ==
    /\ rotated \in BOOLEAN
    /\ payment \in [status : {"paid", "refunded", "partially_refunded"}, by : Ref]
    /\ parked \in [req : Req, id : Ref, status : Active \cup State \cup {"none"}]
    /\ req \in [Reqs -> [status : Active \cup {"none", "failed", "succeeded"}, ref : Ref,
                         terms : Terms, key : BOOLEAN, aged : BOOLEAN, review : BOOLEAN]]
    /\ event \in [Refunds -> State \cup {"none"}]
    /\ refund \in [Refunds -> [status : State \cup {"none"}, req : Req, terms : Terms,
                               had : SUBSET State]]
    /\ keyed \in [Reqs -> [BOOLEAN -> Ref]]
    /\ job \in [Workers -> [pc : JobPc, req : Req, ref : Ref, key : BOOLEAN]]

\* An older release recorded a pending refund in payments.raw alone, or left nothing behind.
Init ==
    /\ rotated = FALSE
    /\ payment = [status |-> "paid", by |-> None]
    /\ req = [q \in Reqs |-> NoRequest]
    /\ event = [f \in Refunds |-> "none"]
    /\ \/ /\ parked = [req |-> None, id |-> None, status |-> "none"]
          /\ refund = [f \in Refunds |-> NoRefund]
       \/ /\ parked = [req |-> None, id |-> Legacy, status |-> "pending"]
          /\ \E t \in Terms : refund = [f \in Refunds |->
                IF f = Legacy THEN [status |-> "pending", req |-> None, terms |-> t, had |-> {"pending"}]
                              ELSE NoRefund]
    /\ keyed = [q \in Reqs |-> [k \in BOOLEAN |-> None]]
    /\ job = [w \in Workers |-> NoJob]

-----------------------------------------------------------------------------
(* What the rows say. *)

\* Faulty: an entry refunded in part is taken for one that is not.
FullyRefunded == payment.status = "refunded"

\* The ledger row is settled, in full or in part.
Refunded == payment.status # "paid"

\* Faulty: a request nobody answered does not hold the entry.
Answered == {q \in Reqs : req[q].status \notin {"none", "failed", "unknown"}}

\* The requests that are not failed; a claim looks for one of them.
Standing == {q \in Reqs : req[q].status \notin {"none", "failed"}}

\* A row of refund_requests not used yet.
Fresh == {q \in Reqs : req[q].status = "none"}

\* raw.refund as the functions write it for request q of table t.
Projection(t, q) == [req |-> q, id |-> t[q].ref, status |-> t[q].status]

\* A parked refund of an older release becomes a request with the amounts it was parked with.
Adopted(q, k) == [req EXCEPT ![q] = [NoRequest EXCEPT !.status = "pending", !.ref = parked.id,
                                        !.terms = refund[parked.id].terms, !.key = k]]

\* Nothing stands and raw.refund is pending: the refund was parked before requests existed.
Adoptable == Standing = {} /\ parked.status = "pending"

-----------------------------------------------------------------------------
(* refund_request_claim, for an entry that is paid and not under review. *)

Claimable == ~Refunded /\ \A q \in Reqs : ~req[q].review

\* The call goes on with request q of table t, which raw.refund now describes.
Take(w, t, q, pc) ==
    /\ req' = t
    /\ parked' = Projection(t, q)
    /\ job' = [job EXCEPT ![w] = [NoJob EXCEPT !.pc = pc, !.req = q, !.ref = t[q].ref,
                                               !.key = pc = "post" /\ rotated]]

\* No request stands: a new one freezes what the policy of the day, read nowhere else, gives
\* back.
ClaimNew(w) ==
    /\ job[w].pc = "idle"
    /\ Claimable /\ Standing = {} /\ parked.status # "pending"
    /\ \E q \in Fresh, terms \in Terms :
          Take(w, [req EXCEPT ![q] = [NoRequest EXCEPT !.status = "submitting", !.terms = terms,
                                        !.key = rotated]], q, "post")
    /\ UNCHANGED <<rotated, payment, event, provider>>

ClaimLegacy(w) ==
    /\ job[w].pc = "idle"
    /\ Claimable /\ Adoptable
    /\ \E q \in Fresh : Take(w, Adopted(q, rotated), q, "consume")
    /\ UNCHANGED <<rotated, payment, event, provider>>

\* The provider's refund is known: it is only ever looked up again.
ClaimKnown(w) ==
    /\ job[w].pc = "idle"
    /\ Claimable
    /\ \E q \in Standing : req[q].ref # None /\ Take(w, req, q, "consume")
    /\ UNCHANGED <<rotated, payment, event, provider>>

\* Faulty: the idempotency key is trusted under another credential.
ResubmittableUnderAnyKey(q) == req[q].ref = None /\ ~req[q].aged

\* An unanswered request may be submitted again: same credential, and younger than 23 hours.
\* The lease of 90 seconds only says when: it may have run out at any time, also under a call
\* that still waits for the provider.
Resubmittable(q) == req[q].ref = None /\ req[q].key = rotated /\ ~req[q].aged

\* The unanswered request is submitted again under its own idempotency key.
ClaimRetry(w) ==
    /\ job[w].pc = "idle"
    /\ Claimable
    /\ \E q \in Standing :
          /\ Resubmittable(q)
          /\ Take(w, [req EXCEPT ![q].status = "submitting"], q, "post")
    /\ UNCHANGED <<rotated, payment, event, provider>>

\* The request is leased to another call: raw.refund is written again and the call answers
\* pending.
ClaimLeased(w) ==
    /\ job[w].pc = "idle"
    /\ Claimable
    /\ \E q \in Standing : Resubmittable(q) /\ parked' = Projection(req, q)
    /\ UNCHANGED <<rotated, payment, req, event, provider, job>>

-----------------------------------------------------------------------------
(* refund_request_bind, refund_request_uncertain, refund_event_store. *)

\* Another request of the entry is active.
OtherActive(t, q) == \E o \in Reqs \ {q} : t[o].status \in Active

\* Request q of table t bound to refund f.
BoundTo(t, q, f) ==
    [t EXCEPT ![q].ref = f, ![q].status = IF @ \in {"succeeded", "failed"} THEN @ ELSE "pending"]

\* Faulty: the late answer of a failed attempt describes the entry again.
ReboundParked(t, q) == Projection(t, q)

\* What binding makes of raw.refund: a failed attempt's late answer does not replace its successor.
BoundParked(t, q) == IF OtherActive(t, q) THEN parked ELSE Projection(t, q)

\* refund f is not the one request q may have.
Conflicting(t, q, f) ==
    \/ t[q].ref \notin {None, f}
    \/ \E o \in Reqs \ {q} : t[o].ref = f

Bind(w) ==
    LET q == job[w].req f == job[w].ref IN
    /\ job[w].pc = "bind"
    /\ IF ~Refunded /\ Conflicting(req, q, f)
       THEN /\ job' = [job EXCEPT ![w] = NoJob]
            /\ UNCHANGED <<req, parked>>
       ELSE /\ job' = [job EXCEPT ![w].pc = "store", ![w].req = None]
            /\ IF Refunded THEN UNCHANGED <<req, parked>>
               ELSE LET t == BoundTo(req, q, f) IN req' = t /\ parked' = BoundParked(t, q)
    /\ UNCHANGED <<rotated, payment, event, provider>>

\* The submission had no usable answer: the request keeps its claim on the entry.
Uncertain(w) ==
    LET q == job[w].req IN
    /\ job[w].pc = "uncertain"
    /\ job' = [job EXCEPT ![w] = NoJob]
    /\ IF req[q].ref = None /\ req[q].status = "submitting"
       THEN /\ req' = [req EXCEPT ![q].status = "unknown"]
            /\ parked' = IF ~Refunded /\ parked.req = q
                         THEN [parked EXCEPT !.status = "unknown"] ELSE parked
       ELSE UNCHANGED <<req, parked>>
    /\ UNCHANGED <<rotated, payment, event, provider>>

\* Reports come in any order: success is final, and failure gives way to success only.
NewerOf(old, new) ==
    IF old = "succeeded" \/ (old = "failed" /\ new = "pending") THEN old ELSE new

\* A report of refund f, of any state it has had, is stored.
StoreReport(f) == \E st \in refund[f].had : event' = [event EXCEPT ![f] = NewerOf(@, st)]

Store(w) ==
    /\ job[w].pc = "store"
    /\ StoreReport(job[w].ref)
    /\ job' = [job EXCEPT ![w].pc = "apply"]
    /\ UNCHANGED <<rotated, payment, parked, req, provider>>

-----------------------------------------------------------------------------
(* refund_request_apply_event. *)

\* The table in which refund f is looked up: a parked refund nobody claimed yet is adopted.
Table(f) ==
    IF /\ \A q \in Reqs : req[q].ref # f
       /\ refund[f].req = None
       /\ Adoptable /\ parked.id = f /\ Claimable
    THEN {Adopted(q, FALSE) : q \in Fresh}
    ELSE {req}

\* The request refund f belongs to: by its id, else by the metadata it was created with.
OwnerOf(t, f) ==
    IF \E q \in Reqs : t[q].ref = f THEN CHOOSE q \in Reqs : t[q].ref = f ELSE refund[f].req

\* Faulty: any success after the entry is refunded is taken for a replay.
NeverSecond(t, q, f) == FALSE

\* The entry is refunded and f succeeded as well: a second debit.
SecondDebit(t, q, f) == Refunded /\ event[f] = "succeeded"

\* Faulty: a report of the refund that settled q is not taken for a replay.
ApplicableAgain(t, q, f) ==
    /\ q # None
    /\ t[q].ref \in {None, f}
    /\ refund[f].terms = t[q].terms
    /\ ~t[q].review

\* The stored report of f is about request q and nothing has settled q yet.
Applicable(t, q, f) ==
    /\ q # None
    /\ t[q].ref \in {None, f}
    /\ refund[f].terms = t[q].terms
    /\ ~t[q].review /\ t[q].status # "succeeded"

\* Faulty: the ledger row takes over the provider's word.
SettledAsReported(f, terms) == [status |-> event[f], by |-> f]

\* refund_registration_tx: the ledger row is settled with f, for the amount q froze.
SettledWith(f, terms) ==
    [status |-> IF terms = "part" THEN "partially_refunded" ELSE "refunded", by |-> f]

\* The request is settled or failed by the stored report.
Concluded(t, q, f) == [BoundTo(t, q, f) EXCEPT ![q].status = event[f]]

ApplyEvent(f) ==
    \E t \in Table(f) :
       LET q == OwnerOf(t, f) IN
       \/ /\ event[f] # "none" /\ Applicable(t, q, f) /\ SecondDebit(t, q, f)
          /\ req' = [t EXCEPT ![q].review = TRUE, ![q].ref = f]
          /\ UNCHANGED <<payment, parked>>
       \/ /\ event[f] = "succeeded" /\ Applicable(t, q, f) /\ ~Refunded
          /\ req' = Concluded(t, q, f)
          /\ payment' = SettledWith(f, t[q].terms)
          /\ parked' = Projection(req', q)
       \/ /\ event[f] = "failed" /\ Applicable(t, q, f) /\ ~Refunded /\ t[q].status # "failed"
          /\ req' = Concluded(t, q, f)
          /\ parked' = Projection(req', q)
          /\ UNCHANGED payment
       \/ /\ event[f] = "pending" /\ Applicable(t, q, f) /\ ~Refunded /\ t[q].status # "failed"
          /\ req' = BoundTo(t, q, f)
          /\ parked' = BoundParked(req', q)
          /\ UNCHANGED payment
       \/ /\ \/ event[f] = "none"
             \/ ~Applicable(t, q, f)
             \/ Refunded /\ ~SecondDebit(t, q, f)
             \/ t[q].status = "failed" /\ event[f] # "succeeded"
          /\ req' = t
          /\ UNCHANGED <<payment, parked>>

\* The call applies what is stored of the refund its request knows, before any provider call.
Consume(w) ==
    /\ job[w].pc = "consume"
    /\ ApplyEvent(job[w].ref)
    /\ job' = [job EXCEPT ![w].pc = "look"]
    /\ UNCHANGED <<rotated, event, provider>>

\* outcome(), then GET /refunds/:id if the request is still pending.
Look(w) ==
    LET q == job[w].req IN
    /\ job[w].pc = "look"
    /\ job' = IF req[q].review \/ req[q].status \in {"succeeded", "failed"} \/ Refunded
              THEN [job EXCEPT ![w] = NoJob]
              ELSE [job EXCEPT ![w].pc = "bind"]
    /\ UNCHANGED <<rotated, rows, provider>>

\* The report the call has just stored is applied.
Apply(w) ==
    /\ job[w].pc = "apply"
    /\ ApplyEvent(job[w].ref)
    /\ job' = [job EXCEPT ![w] = NoJob]
    /\ UNCHANGED <<rotated, event, provider>>

-----------------------------------------------------------------------------
(* PayMongo and the calls to it. *)

\* The amount a submission carries: the frozen one.
AmountOf(q) == {req[q].terms}

\* A submission returns the refund its idempotency key already made, or makes one.
Submitted(q, k, f) ==
    \/ keyed[q][k] = f /\ UNCHANGED provider
    \/ /\ keyed[q][k] = None
       /\ refund[f].status = "none"
       /\ \E terms \in AmountOf(q) :
             refund' = [refund EXCEPT ![f] = [status |-> "pending", req |-> q, terms |-> terms,
                                              had |-> {"pending"}]]
       /\ keyed' = [keyed EXCEPT ![q][k] = f]

\* POST /refunds: answered, rejected, or without a usable answer.
Post(w) ==
    LET j == job[w] IN
    /\ j.pc = "post"
    /\ \/ \E f \in Refunds :
             /\ Submitted(j.req, j.key, f)
             /\ \/ job' = [job EXCEPT ![w].pc = "bind", ![w].ref = f, ![w].key = FALSE]
                \/ job' = [job EXCEPT ![w].pc = "uncertain", ![w].key = FALSE]
       \/ /\ job' = [job EXCEPT ![w].pc = "uncertain", ![w].key = FALSE]
          /\ UNCHANGED provider
    /\ UNCHANGED <<rotated, rows>>

\* payments-webhook stores a signed report of refund f, then applies what is stored.  A report
\* comes late, twice, out of order, or never; between the two calls of the handler, which may
\* die there, anything happens, and a redelivery starts over with a report that changes
\* nothing: the second call can come at any time.
WebhookStore(f) ==
    /\ StoreReport(f)
    /\ UNCHANGED <<rotated, payment, parked, req, provider, job>>

WebhookApply(f) ==
    /\ event[f] # "none"
    /\ ApplyEvent(f)
    /\ UNCHANGED <<rotated, event, provider, job>>

\* The provider concludes a refund.
Conclude(f, st) ==
    /\ \/ refund[f].status = "pending" /\ st \in {"failed", "succeeded"}
       \/ refund[f].status = "failed" /\ st = "succeeded" /\ LateSuccess
    /\ refund' = [refund EXCEPT ![f].status = st, ![f].had = @ \cup {st}]
    /\ UNCHANGED <<rotated, rows, keyed, job>>

-----------------------------------------------------------------------------
(* The clock, the organizer, the operator. *)

\* The request is 23 hours old, which is only asked while its refund is unknown.
Age(q) ==
    /\ req[q].status \in Active /\ req[q].ref = None /\ ~req[q].aged
    /\ req' = [req EXCEPT ![q].aged = TRUE]
    /\ UNCHANGED <<rotated, payment, parked, event, provider, job>>

\* The provider forgets the keys of a request after 24 hours, when every call that claimed it
\* before its 23rd hour has ended.
Forget(q) ==
    /\ req[q].aged
    /\ \A w \in Workers : ~(job[w].pc = "post" /\ job[w].req = q)
    /\ keyed' = [keyed EXCEPT ![q] = [k \in BOOLEAN |-> None]]
    /\ UNCHANGED <<rotated, rows, refund, job>>

RotateKey ==
    /\ KeyRotates /\ ~rotated
    /\ rotated' = TRUE
    /\ UNCHANGED <<rows, provider, job>>

\* A call dies between two of its steps.
WorkerDies(w) ==
    /\ job[w].pc # "idle"
    /\ job' = [job EXCEPT ![w] = NoJob]
    /\ UNCHANGED <<rotated, rows, provider>>

-----------------------------------------------------------------------------
CallStep(w) ==
    \/ Consume(w) \/ Look(w) \/ Post(w) \/ Uncertain(w) \/ Bind(w)
    \/ Store(w) \/ Apply(w)

Next ==
    \/ RotateKey
    \/ \E w \in Workers :
          \/ ClaimNew(w) \/ ClaimLegacy(w) \/ ClaimKnown(w) \/ ClaimRetry(w)
          \/ ClaimLeased(w)
          \/ CallStep(w) \/ WorkerDies(w)
    \/ \E f \in Refunds : WebhookStore(f) \/ WebhookApply(f) \/ \E st \in State : Conclude(f, st)
    \/ \E q \in Reqs : Age(q) \/ Forget(q)

Spec == Init /\ [][Next]_vars
-----------------------------------------------------------------------------
(* What must be true. *)

Moving == {f \in Refunds : refund[f].status # "none" /\ "failed" \notin refund[f].had}

\* However often a request is retried, by whom, after which lost answer and across a change
\* of the API key, the provider makes at most one refund for it.
OneRefundPerRequest ==
    \A f, g \in Refunds : refund[f].req # None /\ refund[f].req = refund[g].req => f = g

\* A refund of the entry is never under way or done next to another one: a new request only
\* follows a refund the provider declined.  (One it declined and made after all, under
\* LateSuccess, is EveryDebitNoticed's.)
OneRefundMoves == \A f, g \in Moving : f = g

\* The ledger row and the provider agree: an entry is refunded by exactly one succeeded
\* request, with the amount of the provider refund it is bound to.
LedgerIsDebited ==
    \A q \in Reqs :
        /\ req[q].status = "succeeded" <=> payment.by # None /\ payment.by = req[q].ref
        /\ req[q].status = "succeeded" =>
              /\ refund[req[q].ref].status = "succeeded"
              /\ payment = SettledWith(req[q].ref, refund[req[q].ref].terms)

\* raw.refund describes the request that holds the entry, so that a parked refund of an older
\* release is the only thing a claim can take for one: a late answer, a late report or an
\* uncertain submission of a failed attempt never overwrites its successor.
ParkedIsCurrent ==
    payment.by = None =>
        /\ \A q \in Standing :
              parked.id # Legacy \/ parked.req # None => parked.req = q /\ parked.status = req[q].status
        /\ Standing = {} /\ parked.status \in Active => parked.req = None

-----------------------------------------------------------------------------
(* What a refund promises about money: RefundLedger.                       *)

\* A debit is a succeeded provider refund, it is booked as raw.provider_refund, and flagged by
\* a request under review that is bound to it.
Ledger == INSTANCE RefundLedger WITH
    debits <- {f \in Refunds : refund[f].status = "succeeded"},
    booked <- payment.by,
    flagged <- {f \in Refunds : \E q \in Reqs : req[q].review /\ req[q].ref = f}

\* One debit is booked, once and after the provider moved the money; only other debits are
\* flagged, and neither is ever undone, in whatever order reports, answers and retries come.
BooksOneDebit == Ledger!Spec

\* The provider delivers a report of a success until payments-webhook has answered it.  Nobody
\* else is assumed to do anything.
Fairness ==
    \A f \in Refunds :
        /\ WF_vars(WebhookStore(f) /\ event'[f] = "succeeded")
        /\ WF_vars(WebhookApply(f))

FairSpec == Spec /\ Fairness

\* No money leaves unnoticed: every provider refund that succeeds ends as the refund of the
\* entry or before an operator, although the call that asked for it may have died, been given
\* up, or been told that it failed.
EveryDebitNoticed == Ledger!EveryDebitNoticed
=============================================================================
