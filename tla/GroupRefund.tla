---------------------------- MODULE GroupRefund ----------------------------
(***************************************************************************)
(* Refunds of the entries of one group order: all were admitted by one     *)
(* capture, and staff give some or all of them back in as many requests as *)
(* they like.  A request is submitted to the provider once and never       *)
(* again; its outcome comes with the answer, with a later look or with a   *)
(* webhook, late, twice or out of order.  Every SQL function locks the     *)
(* order and is one action.                                                *)
(***************************************************************************)
EXTENDS Naturals, FiniteSets, Functions

CONSTANTS
    Entries,     \* registrations of the order, and their booking_payment_allocations
    Nets,        \* net_to_org_cents of each, at the capture
    Captured,    \* the amount of the capture
    RefundFees,  \* what refund_fee_cents may be; 0 under the full policy
    MinRefund,   \* smallest refund sent to the provider, 100 in the program
    Requests,    \* booking_refund_requests, one per actor and idempotency key
    Calls,       \* running admin-group-refund calls
    LateSuccess, \* TRUE: the provider may pay out a refund it has called failed
    None

VARIABLES
    reg,     \* registrations.status
    slots,   \* categories.slots_taken
    request, \* booking_refund_requests with their lines
    refund,  \* provider: the states the refund of each request has had
    call     \* what each call holds

vars == <<reg, slots, request, refund, call>>

Status == {"none", "submitting", "pending", "unknown", "succeeded", "failed", "review_required"}
Reports == {"pending", "failed", "succeeded"} \* processing is applied as pending
NoRequest == [status |-> "none", lines |-> {}, amount |-> 0, bound |-> FALSE]
Idle == [pc |-> "idle", req |-> None, report |-> None]

\* The rows, the provider's refunds and the calls keep their types.
TypeOK ==
    /\ reg \in [Entries -> {"paid", "refunded"}]
    /\ slots \in Nat
    /\ request \in [Requests -> [status : Status, lines : SUBSET Entries, amount : 0..Captured,
                                 bound : BOOLEAN]]
    /\ refund \in [Requests -> SUBSET Reports]
    /\ call \in [Calls -> [pc : {"idle", "post", "unknown", "get", "apply"},
                           req : Requests \cup {None}, report : Reports \cup {None}]]

Ended(q) == request[q].status \in {"none", "succeeded", "failed"}
Go(c, pc, q, report) == call' = [call EXCEPT ![c] = [pc |-> pc, req |-> q, report |-> report]]
Done(c) == call' = [call EXCEPT ![c] = Idle]

\* The tickets of request q are taken back and their places freed.
TakeBack(S) ==
    /\ reg' = [e \in Entries |-> IF e \in S THEN "refunded" ELSE reg[e]]
    /\ slots' = IF Cardinality(S) <= slots THEN slots - Cardinality(S) ELSE 0
----------------------------------------------------------------------------
(* Staff. *)

\* Faulty: a request whose submission was not answered is taken for a failed one.
NothingPending(q) == Ended(q) \/ request[q].status = "unknown"

\* No other request of the capture is under way: refund_in_progress.
NothingInProgress(q) == Ended(q)

\* What entries S bring back under a fee per entry.
Returned(fee, S) ==
    SumFunctionOnSet([e \in Entries |-> IF fee < Nets[e] THEN Nets[e] - fee ELSE 0], S)

AmountOf == [q \in Requests |-> request[q].amount]

\* booking_refund_claim of a new key: staff confirmed the amount it comes to under the terms of now.
Claim(c, q, S) ==
    LET unfailed == {p \in Requests : request[p].status # "failed"} IN
    /\ call[c].pc = "idle" /\ request[q].status = "none"
    /\ \A p \in Requests : NothingInProgress(p)
    /\ S # {} /\ \A e \in S : reg[e] = "paid"
    /\ \E fee \in RefundFees : LET amount == Returned(fee, S) IN
        /\ amount = 0 \/ amount >= MinRefund
        /\ amount + SumFunctionOnSet(AmountOf, unfailed) <= Captured
        /\ request' = [request EXCEPT ![q] =
               [status |-> IF amount = 0 THEN "succeeded" ELSE "submitting",
                lines |-> S, amount |-> amount, bound |-> FALSE]]
        /\ IF amount = 0
           THEN TakeBack(S) /\ UNCHANGED call
           ELSE Go(c, "post", q, None) /\ UNCHANGED <<reg, slots>>
    /\ UNCHANGED refund

\* booking_refund_claim of a known key: the refund is looked up once its id is known.
ClaimKnown(c, q) ==
    /\ call[c].pc = "idle" /\ request[q].status = "pending" /\ request[q].bound
    /\ Go(c, "get", q, None)
    /\ UNCHANGED <<reg, slots, request, refund>>

\* pmCreateRefund: answered, or rejected, or lost with or without a refund.
Post(c) ==
    LET q == call[c].req IN
    /\ call[c].pc = "post"
    /\ \/ refund' = [refund EXCEPT ![q] = {"pending"}]
          /\ (Go(c, "apply", q, "pending") \/ Go(c, "unknown", q, None))
       \/ Go(c, "unknown", q, None) /\ UNCHANGED refund
    /\ UNCHANGED <<reg, slots, request>>

\* booking_refund_unknown, unless a webhook came first.  The request is not submitted again.
MarkUnknown(c) ==
    LET q == call[c].req IN
    /\ call[c].pc = "unknown"
    /\ request' = IF request[q].status = "submitting" /\ ~request[q].bound
                  THEN [request EXCEPT ![q].status = "unknown"] ELSE request
    /\ Done(c)
    /\ UNCHANGED <<reg, slots, refund>>

\* pmGetRefund.
Get(c) ==
    /\ call[c].pc = "get"
    /\ LET had == refund[call[c].req]
           now == IF "succeeded" \in had THEN "succeeded" ELSE IF "failed" \in had THEN "failed" ELSE "pending"
       IN  Go(c, "apply", call[c].req, now)
    /\ UNCHANGED <<reg, slots, request, refund>>

\* A call may die between any two steps; pmGetRefund may fail.
Die(c) == call[c].pc # "idle" /\ Done(c) /\ UNCHANGED <<reg, slots, request, refund>>
----------------------------------------------------------------------------
(* The provider's word. *)

\* booking_refund_apply of a report of the request's own refund.  A failed request that succeeded
\* after all is parked for staff, unless another is under way: then the report is refused.
ApplyReport(q, report) ==
    LET old == request[q]
        booked == report = "succeeded" /\ \A e \in old.lines : reg[e] = "paid"
        Becomes(row) == request' = [request EXCEPT ![q] = row]
    IN
    \/ /\ old.status \in {"submitting", "pending", "unknown"}
       /\ IF booked THEN TakeBack(old.lines) ELSE UNCHANGED <<reg, slots>>
       /\ Becomes(IF report = "succeeded" /\ ~booked
                  THEN [old EXCEPT !.status = "review_required"]
                  ELSE [old EXCEPT !.status = report, !.bound = TRUE])
    \/ /\ old.status = "failed" /\ report = "succeeded" /\ \A p \in Requests \ {q} : Ended(p)
       /\ Becomes([old EXCEPT !.status = "review_required"])
       /\ UNCHANGED <<reg, slots>>
    \/ /\ \/ old.status \in {"succeeded", "review_required"}
          \/ old.status = "failed" /\ (report # "succeeded" \/ \E p \in Requests \ {q} : ~Ended(p))
       /\ UNCHANGED <<reg, slots, request>>

\* The call applies the answer it holds.
Apply(c) ==
    /\ call[c].pc = "apply"
    /\ ApplyReport(call[c].req, call[c].report)
    /\ Done(c)
    /\ UNCHANGED refund

\* applyGroupRefundWebhook: a state the refund has had, delivered late, twice or out of order.
Webhook(q) ==
    /\ \E report \in refund[q] : ApplyReport(q, report)
    /\ UNCHANGED <<refund, call>>

\* The provider ends a refund.
Conclude(q) ==
    /\ \/ /\ refund[q] = {"pending"}
          /\ \E state \in {"failed", "succeeded"} : refund' = [refund EXCEPT ![q] = @ \cup {state}]
       \/ /\ LateSuccess /\ refund[q] = {"pending", "failed"}
          /\ refund' = [refund EXCEPT ![q] = Reports]
    /\ UNCHANGED <<reg, slots, request, call>>
----------------------------------------------------------------------------
Init ==
    /\ reg = [e \in Entries |-> "paid"]
    /\ slots = Cardinality(Entries)
    /\ request = [q \in Requests |-> NoRequest]
    /\ refund = [q \in Requests |-> {}]
    /\ call = [c \in Calls |-> Idle]

CallStep == \E c \in Calls :
    \/ \E q \in Requests : ClaimKnown(c, q) \/ \E S \in SUBSET Entries : Claim(c, q, S)
    \/ Post(c) \/ MarkUnknown(c) \/ Get(c) \/ Apply(c) \/ Die(c)

ProviderStep == \E q \in Requests : Webhook(q) \/ Conclude(q)

Next == CallStep \/ ProviderStep

Spec == Init /\ [][Next]_vars
----------------------------------------------------------------------------
\* The provider pays a refund out once it has called it pending, and not after calling it failed.
PaidOut(q) == "succeeded" \in refund[q] /\ "failed" \notin refund[q]

\* An entry's money is given back by one refund, but for one the provider had called failed, and
\* the entry is refunded exactly when one request has booked it.
OneRefundEach ==
    \A e \in Entries :
        LET of == {q \in Requests : e \in request[q].lines}
            booked == {q \in of : request[q].status = "succeeded"}
        IN  /\ Cardinality({q \in of : PaidOut(q)}) <= 1
            /\ Cardinality(booked) = IF reg[e] = "refunded" THEN 1 ELSE 0
            /\ \A q \in booked : request[q].amount > 0 => "succeeded" \in refund[q]

\* The place of a refunded entry is free, and no other.
PlacesFreed == slots = Cardinality({e \in Entries : reg[e] = "paid"})

\* What the refunds took was in the capture.
WithinCapture ==
    SumFunctionOnSet(AmountOf, {q \in Requests : PaidOut(q)}) <= Captured

\* However requests overlap, the money, ticket and place of an entry are given back once, out of
\* the capture (20260922002908:303-433).
EntriesRefundedOnce == OneRefundEach /\ PlacesFreed /\ WithinCapture
=============================================================================
