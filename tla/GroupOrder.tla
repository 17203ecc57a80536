------------------------------ MODULE GroupOrder ------------------------------
(***************************************************************************)
(* Group checkout: one booker reserves several runners, one payment admits *)
(* all of them or none.  The rows of `booking_orders', their               *)
(* `registrations', `booking_payment_attempts' with their quote lines and  *)
(* dispatches, and the `booking_payment_captures' inbox; the PayMongo      *)
(* session of each attempt (its Idempotency-Key is the attempt id, and an  *)
(* attempt is dispatched once, so a session is named by its attempt); and  *)
(* the processes that touch them.  Each SQL function is one action, each   *)
(* Edge function several.                                                  *)
(*                                                                         *)
(* A worker is one running call of group-payment, payments-webhook,        *)
(* reconcile-payments or prescreening-maintenance; it may die between any  *)
(* two of its steps.  A runner may at any time also call                   *)
(* registrations-checkout for an entry of his own, which treats a lapsed   *)
(* entry of a group like any lapsed hold.  All entries are of one          *)
(* category, and an order's entries and its prescreening batch end at the  *)
(* same moment.                                                            *)
(***************************************************************************)
EXTENDS Naturals, FiniteSets

CONSTANTS
    Orders,      \* booking orders
    Entries,     \* the registrations they insert
    OrderOf,     \* the order of an entry
    Passports,   \* runner passports
    PassportOf,  \* the passport an entry is for
    Attempts,    \* payment attempts, with their sessions
    Captures,    \* PayMongo payments that moved money
    Sound,       \* the captures whose amount, currency and metadata match the quote
    Screened,    \* orders whose entries were approved by a prescreening batch
    Prices,      \* what discount codes can make of an entry's price
    Workers,     \* concurrent Edge function calls
    Checkouts,   \* calls of registrations-checkout, each a runner's for himself
    Capacity,    \* places of the category
    LateCapture, \* TRUE: a payment begun before the expiry may complete after it
    None         \* SQL null

EntriesOf == [o \in Orders \cup {None} |-> {e \in Entries : OrderOf[e] = o}]

ASSUME GroupAssumption ==
    /\ IsFiniteSet(Entries)
    /\ OrderOf \in [Entries -> Orders]
    /\ PassportOf \in [Entries -> Passports]
    /\ \A e, t \in Entries :  \* a request names each passport once
          OrderOf[e] = OrderOf[t] /\ PassportOf[e] = PassportOf[t] => e = t
    /\ Sound \subseteq Captures /\ Screened \subseteq Orders
    /\ "full" \in Prices /\ Prices \subseteq {"full", "cut", "free"}
    /\ Capacity \in Nat  \* and the screening batches were admitted within it
    /\ Cardinality({e \in Entries : OrderOf[e] \in Screened}) <= Capacity
    /\ LateCapture \in BOOLEAN
    /\ None \notin Orders \cup Attempts

VARIABLES
    eventOpen, \* events.status is open or almost_full
    order,     \* booking_orders.status, "none" before the insert
    reg,       \* registrations.status
    price,     \* registrations.total_amount
    lapsed,    \* the order's, its entries' and its batch's deadline has passed
    batch,     \* prescreening_batches.status, "none" for an order without one
    attempt,   \* the attempt: its order, status, the quoted prices, the dispatch
    free,      \* the order has a complimentary capture
    inbox,     \* booking_payment_captures.state of a provider capture
    slots,     \* categories.slots_taken
    sess,      \* the provider's session of an attempt
    charge,    \* the attempt a capture was taken on, and whether after the deadline
    checkout,  \* the lapsed entry a runner's own checkout has read, or has written
    job        \* the running call of each worker

rowVars == <<eventOpen, order, reg, price, lapsed, batch, attempt, free, inbox, slots>>
restVars == <<sess, charge, checkout>>
vars == <<eventOpen, order, reg, price, lapsed, batch, attempt, free, inbox, slots,
          sess, charge, checkout, job>>

OrderStatus == {"none", "pending", "paid", "expired", "cancelled", "reconciliation_required"}
RegStatus == {"none", "pending", "paid", "expired", "cancelled"}
BatchStatus == {"none", "ready", "expired", "cancelled", "completed"}
AttemptStatus == {"none", "prepared", "creating", "creation_unknown", "ready", "paid",
                  "expired", "reconciliation_required"}
CaptureState == {"none", "received", "fulfilled", "reconciliation_required"}
JobPc == {"idle", "create", "bind", "unknown", "observe", "confirm", "retry",
          "expire", "close", "finish", "batch"}

\* Attempts that reached the provider and are not settled; those that no longer block another.
InFlight == {"creating", "creation_unknown", "ready"}
Over == {"none", "prepared", "expired"}

NoAttempt == [order |-> None, status |-> "none", quote |-> {}, dispatch |-> "none"]
NoCharge == [att |-> None, late |-> FALSE]
NoSingleCall == [pc |-> "idle", entry |-> None, over |-> "none"]
NoJob == [pc |-> "idle", att |-> None, order |-> None, todo |-> {}]

\* A quote is the set of <<entry, price>> of the attempt's quote lines.
AttemptRow == [order : Orders \cup {None}, status : AttemptStatus,
               quote : SUBSET (Entries \X Prices),
               dispatch : {"none", "creating", "unknown", "ready"}]
Charge == [att : Attempts \cup {None}, late : BOOLEAN]
\* over: what the entry was when it was written over, kept for the properties.
SingleCall == {NoSingleCall} \cup [pc : {"read", "wrote"}, entry : Entries, over : RegStatus]
JobCall == [pc : JobPc, att : Attempts \cup {None}, order : Orders \cup {None},
            todo : SUBSET Captures]

TypeOK ==
    /\ eventOpen \in BOOLEAN
    /\ order \in [Orders -> OrderStatus]
    /\ reg \in [Entries -> RegStatus]
    /\ price \in [Entries -> Prices]
    /\ lapsed \in [Orders -> BOOLEAN]
    /\ batch \in [Orders -> BatchStatus]
    /\ attempt \in [Attempts -> AttemptRow]
    /\ free \in [Orders -> BOOLEAN]
    /\ inbox \in [Captures -> CaptureState]
    /\ slots \in Nat
    /\ sess \in [Attempts -> {"none", "open", "closed"}]
    /\ charge \in [Captures -> Charge]
    /\ checkout \in [Checkouts -> SingleCall]
    /\ job \in [Workers -> JobCall]

Init ==
    /\ eventOpen = TRUE
    /\ order = [o \in Orders |-> "none"]
    /\ reg = [e \in Entries |-> "none"]
    /\ price = [e \in Entries |-> "full"]
    /\ lapsed = [o \in Orders |-> FALSE]
    /\ batch = [o \in Orders |-> IF o \in Screened THEN "ready" ELSE "none"]
    /\ attempt = [a \in Attempts |-> NoAttempt]
    /\ free = [o \in Orders |-> FALSE]
    /\ inbox = [p \in Captures |-> "none"]
    /\ slots = 0
    /\ sess = [a \in Attempts |-> "none"]
    /\ charge = [p \in Captures |-> NoCharge]
    /\ checkout = [k \in Checkouts |-> NoSingleCall]
    /\ job = [w \in Workers |-> NoJob]

-----------------------------------------------------------------------------
(* What the database and the provider can be asked. *)

AttemptsOf(o) == {a \in Attempts : attempt[a].order = o}

\* The attempt and the order a capture was observed for.
OrderPaidBy(p) == IF charge[p].att = None THEN None ELSE attempt[charge[p].att].order

\* The order has evidence of money, whatever became of it.
HasCapture(o) == free[o] \/ \E p \in Captures : inbox[p] # "none" /\ OrderPaidBy(p) = o
Fulfilled(o) == free[o] \/ \E p \in Captures : inbox[p] = "fulfilled" /\ OrderPaidBy(p) = o

PaidOn(a) == {p \in Captures : charge[p].att = a}
Recorded(a) == {p \in PaidOn(a) : inbox[p] # "none"}
Received(a) == {p \in PaidOn(a) : inbox[p] = "received"}

\* Entries that count against the category when the code looks at registrations alone.
Holding == {e \in Entries :
               \/ reg[e] = "paid"
               \/ reg[e] = "pending" /\ ~lapsed[OrderOf[e]]}

\* The entry part of event_capacity_claims: also what an unsettled attempt may still pay for.
EntryClaims ==
    Holding \cup {e \in Entries : /\ reg[e] \in {"pending", "expired"}
                                  /\ \E a \in AttemptsOf(OrderOf[e]) :
                                        attempt[a].status \in InFlight \cup {"reconciliation_required"}}

\* event_capacity_claims: a ready batch holds the places of its approved runners.
Claims == EntryClaims \cup {e \in Entries : batch[OrderOf[e]] = "ready"}

\* Faulty: another live entry of a runner is overlooked.
NoRivals(o) == {}

\* The other live entries of a runner of order o (registrations_one_live_per_event backs the check).
Rivals(o) == {t \in Entries \ EntriesOf[o] :
                 /\ reg[t] \in {"pending", "paid"}
                 /\ \E e \in EntriesOf[o] : PassportOf[e] = PassportOf[t]}

Quote(o) == {<<e, price[e]>> : e \in EntriesOf[o]}
Costless(o) == \A e \in EntriesOf[o] : price[e] = "free"

\* A hold the booker may still act on.
Payable(o) == order[o] = "pending" /\ ~lapsed[o] /\ eventOpen
Untouched(o) == \A e \in EntriesOf[o] : reg[e] = "pending"

SetReg(E, s) == [e \in Entries |-> IF e \in E THEN s ELSE reg[e]]
PendingOf(o) == {e \in EntriesOf[o] : reg[e] = "pending"}
SetAttempts(A, s) == [a \in Attempts |-> IF a \in A THEN [attempt[a] EXCEPT !.status = s] ELSE attempt[a]]
PreparedOf(o) == {a \in AttemptsOf(o) : attempt[a].status = "prepared"}
Go(w, pc) == job' = [job EXCEPT ![w].pc = pc]
Idle(w) == job' = [job EXCEPT ![w] = NoJob]

-----------------------------------------------------------------------------
(* The booker: reserve, discount, prepare, pay, cancel. *)

\* Faulty: only registrations are counted, as before the event-wide guard.
HasPlacesByRow(o) == Cardinality(Holding \cup EntriesOf[o]) <= Capacity

\* assert_category_capacity, for the rows of order o
HasPlaces(o) == Cardinality(Claims \cup EntriesOf[o]) <= Capacity

\* booking_order_reserve: the runners' lapsed holds are swept first, whatever is known of
\* their money; then no runner may be live twice and every place must be free.
Reserve(o) ==
    LET same == {t \in Entries : \E e \in EntriesOf[o] : PassportOf[e] = PassportOf[t]}
        swept == {t \in same : reg[t] = "pending" /\ lapsed[OrderOf[t]]}
    IN  /\ order[o] = "none" /\ eventOpen
        /\ o \in Screened => batch[o] = "ready" /\ ~lapsed[o]
        /\ \A t \in same \ swept : reg[t] \notin {"pending", "paid"}
        /\ HasPlaces(o)
        /\ reg' = [e \in Entries |-> IF e \in EntriesOf[o] THEN "pending"
                                     ELSE IF e \in swept THEN "expired" ELSE reg[e]]
        /\ order' = [order EXCEPT ![o] = "pending"]
        /\ UNCHANGED <<eventOpen, price, lapsed, batch, attempt, free, inbox, slots,
                       restVars, job>>

\* discount_apply: a code changes one entry's price, and any prepared quote is void.
ApplyDiscountIf(e, pr, lock) ==
    LET o == OrderOf[e]
    IN  /\ reg[e] = "pending" /\ ~lapsed[o] /\ eventOpen
        /\ lock
        /\ pr # price[e]
        /\ price' = [price EXCEPT ![e] = pr]
        /\ attempt' = SetAttempts(PreparedOf(o), "expired")
        /\ UNCHANGED <<eventOpen, order, reg, lapsed, batch, free, inbox, slots, restVars, job>>

\* Faulty: the price may change while a session is payable.
ApplyDiscountUnlocked(e, pr) == ApplyDiscountIf(e, pr, ~HasCapture(OrderOf[e]))

ApplyDiscount(e, pr) ==
    ApplyDiscountIf(e, pr, /\ ~HasCapture(OrderOf[e])
                           /\ \A a \in AttemptsOf(OrderOf[e]) : attempt[a].status \in Over)

PrepareIf(o, a, alone) ==
    /\ Payable(o) /\ Untouched(o)
    /\ ~HasCapture(o)
    /\ attempt[a].status = "none"
    /\ alone
    /\ attempt' = [attempt EXCEPT ![a] = [order |-> o, status |-> "prepared",
                                          quote |-> Quote(o), dispatch |-> "none"]]
    /\ UNCHANGED <<eventOpen, order, reg, price, lapsed, batch, free, inbox, slots, restVars, job>>

\* Faulty: an attempt whose creation is uncertain does not block another.
PrepareAgain(o, a) ==
    PrepareIf(o, a, \A b \in AttemptsOf(o) : attempt[b].status \in {"expired", "creating", "creation_unknown"})

\* booking_order_prepare_payment: freezes the prices in a new attempt.
Prepare(o, a) == PrepareIf(o, a, \A b \in AttemptsOf(o) : attempt[b].status = "expired")

\* Faulty: the category's counter moves once for the order.
AdmitCountedOnce(o, a) ==
    /\ reg' = SetReg(EntriesOf[o], "paid")
    /\ slots' = slots + 1
    /\ order' = [order EXCEPT ![o] = "paid"]
    /\ attempt' = [attempt EXCEPT ![a].status = "paid"]
    /\ batch' = IF o \in Screened THEN [batch EXCEPT ![o] = "completed"] ELSE batch

\* Faulty: only the entries whose hold still stands become paid.
AdmitHeld(o, a) ==
    /\ reg' = SetReg(PendingOf(o), "paid")
    /\ slots' = slots + Cardinality(PendingOf(o))
    /\ order' = [order EXCEPT ![o] = "paid"]
    /\ attempt' = [attempt EXCEPT ![a].status = "paid"]
    /\ batch' = IF o \in Screened THEN [batch EXCEPT ![o] = "completed"] ELSE batch

\* All entries of o become paid; the triggers complete its batch.
Admit(o, a) ==
    /\ reg' = SetReg(EntriesOf[o], "paid")
    /\ slots' = slots + Cardinality(EntriesOf[o])
    /\ order' = [order EXCEPT ![o] = "paid"]
    /\ attempt' = [attempt EXCEPT ![a].status = "paid"]
    /\ batch' = IF o \in Screened THEN [batch EXCEPT ![o] = "completed"] ELSE batch

\* discount_confirm_free: an order that costs nothing needs no provider.
ConfirmFree(o, a) ==
    /\ Payable(o) /\ Untouched(o) /\ Costless(o)
    /\ attempt[a].order = o /\ attempt[a].status = "prepared"
    /\ \A q \in attempt[a].quote : q[2] = "free"
    /\ Cardinality(Holding) <= Capacity
    /\ o \in Screened => batch[o] = "ready"
    /\ Admit(o, a)
    /\ free' = [free EXCEPT ![o] = TRUE]
    /\ UNCHANGED <<eventOpen, price, lapsed, inbox, restVars, job>>

\* booking_payment_claim_dispatch: the one call that may create the attempt's session.
ClaimDispatchIf(w, a, evidence) ==
    LET o == attempt[a].order
    IN  /\ job[w].pc = "idle"
        /\ attempt[a].status = "prepared"
        /\ evidence
        /\ Payable(o) /\ Untouched(o) /\ ~Costless(o)
        /\ attempt[a].quote = Quote(o)
        /\ attempt' = [attempt EXCEPT ![a].status = "creating", ![a].dispatch = "creating"]
        /\ job' = [job EXCEPT ![w] = [NoJob EXCEPT !.pc = "create", !.att = a]]
        /\ UNCHANGED <<eventOpen, order, reg, price, lapsed, batch, free, inbox, slots, restVars>>

\* Faulty: evidence is not looked for.
ClaimDispatchAnyway(w, a) == ClaimDispatchIf(w, a, TRUE)

ClaimDispatch(w, a) == ClaimDispatchIf(w, a, ~HasCapture(attempt[a].order))

\* createGroupSession: an answer, or an uncertain call behind which a session may exist.
CreateSession(w) ==
    /\ job[w].pc = "create"
    /\ \/ /\ sess' = [sess EXCEPT ![job[w].att] = "open"]
          /\ Go(w, "bind") \/ Go(w, "unknown")
       \/ Go(w, "unknown") /\ UNCHANGED sess
    /\ UNCHANGED <<rowVars, charge, checkout>>

\* booking_payment_bind_session; its answer may be lost, too.
BindSession(w) ==
    LET a == job[w].att
    IN  /\ job[w].pc = "bind"
        /\ attempt' = [attempt EXCEPT ![a].dispatch = "ready",
                          ![a].status = IF @ \in {"creating", "creation_unknown"} THEN "ready" ELSE @]
        /\ Idle(w) \/ Go(w, "unknown")
        /\ UNCHANGED <<eventOpen, order, reg, price, lapsed, batch, free, inbox, slots, restVars>>

\* Faulty: the state of the dispatch is written as the attempt's status.
MarkUnknownMixed(w) ==
    /\ job[w].pc = "unknown"
    /\ attempt' = [attempt EXCEPT ![job[w].att].status = "unknown"]
    /\ Idle(w)
    /\ UNCHANGED <<eventOpen, order, reg, price, lapsed, batch, free, inbox, slots, restVars>>

\* booking_payment_dispatch_unknown: blocks the attempt, unless the session was bound after all.
MarkUnknown(w) ==
    LET a == job[w].att
    IN  /\ job[w].pc = "unknown"
        /\ attempt' = IF attempt[a].dispatch = "ready" THEN attempt
                      ELSE [attempt EXCEPT ![a].dispatch = "unknown",
                               ![a].status = IF @ = "creating" THEN "creation_unknown" ELSE @]
        /\ Idle(w)
        /\ UNCHANGED <<eventOpen, order, reg, price, lapsed, batch, free, inbox, slots, restVars>>

\* booking_order_cancel: only while no attempt was ever dispatched.
CancelIf(o, unpaid) ==
    /\ order[o] = "pending"
    /\ unpaid
    /\ \A e \in EntriesOf[o] : reg[e] \in {"pending", "expired"}
    /\ attempt' = SetAttempts(PreparedOf(o), "expired")
    /\ reg' = SetReg(EntriesOf[o], "cancelled")
    /\ order' = [order EXCEPT ![o] = "cancelled"]
    /\ batch' = IF batch[o] = "ready" THEN [batch EXCEPT ![o] = "cancelled"] ELSE batch
    /\ UNCHANGED <<eventOpen, price, lapsed, free, inbox, slots, restVars, job>>

Cancel(o) ==
    CancelIf(o, \A a \in AttemptsOf(o) : /\ attempt[a].status \in Over
                                         /\ attempt[a].dispatch = "none"
                                         /\ Recorded(a) = {})

-----------------------------------------------------------------------------
(* verifyGroupPayment: what the provider took becomes evidence first, and  *)
(* evidence becomes tickets or a review.                                   *)

\* A call ends, or returns to the expiry run that made it.
Return(w) ==
    LET o == job[w].order
    IN  job' = [job EXCEPT ![w] = IF o = None THEN NoJob
                                  ELSE [NoJob EXCEPT !.pc = "batch", !.order = o]]

\* Faulty: stored evidence is left to the call that stored it.
ConsultProvider(w, a, o, refresh) ==
    /\ PaidOn(a) # {} /\ (refresh \/ Recorded(a) = {})
    /\ job' = [job EXCEPT ![w] = [pc |-> "observe", att |-> a, order |-> o, todo |-> PaidOn(a)]]

\* Start or continue a verification: stored evidence is enough, unless a webhook asks the provider.
Consult(w, a, o, refresh) ==
    LET call(pc, todo) == [pc |-> pc, att |-> a, order |-> o, todo |-> todo]
    IN  \/ /\ ~refresh /\ Recorded(a) # {}
           /\ job' = [job EXCEPT ![w] = call("confirm", Received(a))]
        \/ /\ PaidOn(a) # {} /\ (refresh \/ Recorded(a) = {})
           /\ job' = [job EXCEPT ![w] = call("observe", PaidOn(a))]

\* group-payment (verify, retry), payments-webhook (refresh) and reconcile-payments.  Without
\* captures, only an expired session leads to a write.
Verify(w, a, refresh) ==
    /\ job[w].pc = "idle"
    /\ attempt[a].dispatch = "ready"
    /\ \/ Consult(w, a, None, refresh)
       \/ /\ ~refresh /\ PaidOn(a) = {} /\ sess[a] = "closed"
          /\ job' = [job EXCEPT ![w] = [NoJob EXCEPT !.pc = "retry", !.att = a]]
    /\ UNCHANGED <<rowVars, restVars>>

\* reconcile-payments takes what payment_reconciliation_pending_v lists.
Reconcile(w, a) ==
    /\ attempt[a].status \in InFlight \/ Received(a) # {}
    /\ Verify(w, a, FALSE)

\* booking_payment_capture_observe: a transaction of its own, idempotent by payment id.
Observe(w, p) ==
    /\ job[w].pc = "observe" /\ p \in job[w].todo
    /\ inbox' = [inbox EXCEPT ![p] = IF @ = "none" THEN "received" ELSE @]
    /\ job' = [job EXCEPT ![w].todo = @ \ {p}]
    /\ UNCHANGED <<eventOpen, order, reg, price, lapsed, batch, attempt, free, slots, restVars>>

\* The stored captures are read again before they are confirmed.
Observed(w) ==
    /\ job[w].pc = "observe" /\ job[w].todo = {}
    /\ job' = [job EXCEPT ![w].pc = "confirm", ![w].todo = Received(job[w].att)]
    /\ UNCHANGED <<rowVars, restVars>>

\* The places an admission adds exist: entries without a claim pass the capacity trigger,
\* which also refuses a screened entry after its deadline.
PlacesFor(o) ==
    /\ Cardinality(Holding \cup EntriesOf[o]) <= Capacity
    /\ \/ EntriesOf[o] \subseteq EntryClaims
       \/ Cardinality(Claims \cup EntriesOf[o]) <= Capacity /\ (o \in Screened => ~lapsed[o])

\* The checks of booking_payment_confirm that lead to tickets; any other outcome is a review.
Fulfils(p) ==
    LET a == charge[p].att
        o == attempt[a].order
    IN  /\ ~Fulfilled(o) /\ p \in Sound
        /\ order[o] \in {"pending", "expired"}
        /\ \A e \in EntriesOf[o] : reg[e] \in {"pending", "expired"}
        /\ attempt[a].quote = Quote(o)
        /\ eventOpen
        /\ Rivals(o) = {}
        /\ PlacesFor(o)
        /\ o \in Screened => batch[o] = "ready" /\ ~charge[p].late

\* Faulty: a second capture takes a paid order back into review.
ReviewPaid(o, a) ==
    /\ order' = [order EXCEPT ![o] = "reconciliation_required"]
    /\ attempt' = [attempt EXCEPT ![a].status = "reconciliation_required"]

\* What a capture that cannot be fulfilled does to its order, unless that is paid already.
Review(o, a) ==
    IF order[o] = "paid" THEN UNCHANGED <<order, attempt>>
    ELSE /\ order' = [order EXCEPT ![o] = "reconciliation_required"]
         /\ attempt' = [attempt EXCEPT ![a].status = "reconciliation_required"]

\* booking_payment_confirm for one received capture; a confirmed one only reports its state.
Confirm(w, p) ==
    LET a == job[w].att
        o == attempt[a].order
    IN  /\ job[w].pc = "confirm" /\ p \in job[w].todo
        /\ job' = [job EXCEPT ![w].todo = @ \ {p}]
        /\ \/ inbox[p] # "received" /\ UNCHANGED <<order, reg, batch, attempt, inbox, slots>>
           \/ /\ inbox[p] = "received" /\ Fulfils(p)
              /\ Admit(o, a)
              /\ inbox' = [inbox EXCEPT ![p] = "fulfilled"]
           \/ /\ inbox[p] = "received" /\ ~Fulfils(p)
              /\ inbox' = [inbox EXCEPT ![p] = "reconciliation_required"]
              /\ Review(o, a)
              /\ UNCHANGED <<reg, batch, slots>>
        /\ UNCHANGED <<eventOpen, price, lapsed, free, restVars>>

\* booking_payment_capture_failure: a refused confirmation is counted and left for a retry.
ConfirmRefused(w, p) ==
    /\ job[w].pc = "confirm" /\ p \in job[w].todo
    /\ job' = [job EXCEPT ![w].todo = @ \ {p}]
    /\ UNCHANGED <<rowVars, restVars>>

Confirmed(w) ==
    /\ job[w].pc = "confirm" /\ job[w].todo = {}
    /\ Return(w)
    /\ UNCHANGED <<rowVars, restVars>>

\* booking_payment_retry_expired: closes the attempt, so that another may be prepared.
RetryExpired(w) ==
    LET a == job[w].att
        o == attempt[a].order
    IN  /\ job[w].pc = "retry"
        /\ attempt' = IF /\ order[o] = "pending" /\ ~lapsed[o]
                         /\ attempt[a].status \in InFlight /\ Recorded(a) = {}
                      THEN [attempt EXCEPT ![a].status = "expired"] ELSE attempt
        /\ Idle(w)
        /\ UNCHANGED <<eventOpen, order, reg, price, lapsed, batch, free, inbox, slots, restVars>>

-----------------------------------------------------------------------------
(* prescreening-maintenance: reconcileExpiredGroup, then                   *)
(* prescreening_finish_expiry.  No worker does this for other orders.      *)

Unsettled(o) == {a \in AttemptsOf(o) : attempt[a].status \notin Over}

\* One due batch: its order is skipped when it is settled, in review, or bound to no session.
StartExpiry(w, o) ==
    LET call(pc, a) == [pc |-> pc, att |-> a, order |-> o, todo |-> {}]
    IN  /\ job[w].pc = "idle"
        /\ batch[o] = "ready" /\ lapsed[o]
        /\ \/ /\ \/ order[o] # "pending"
                 \/ \E a \in Unsettled(o) : attempt[a].status \notin InFlight
                                            \/ attempt[a].dispatch # "ready"
              /\ job' = [job EXCEPT ![w] = call("batch", None)]
           \/ /\ order[o] = "pending"
              /\ \E a \in Unsettled(o) : /\ attempt[a].status \in InFlight
                                         /\ attempt[a].dispatch = "ready"
                                         /\ job' = [job EXCEPT ![w] = call("expire", a)]
           \/ /\ order[o] = "pending" /\ Unsettled(o) = {}
              /\ job' = [job EXCEPT ![w] = call("finish", None)]
        /\ UNCHANGED <<rowVars, restVars>>

\* POST expire, then GET: a session that took money is verified, any other is closed.
CloseSession(w) ==
    LET a == job[w].att
    IN  /\ job[w].pc = "expire"
        /\ \/ Consult(w, a, job[w].order, FALSE) /\ UNCHANGED sess
           \/ /\ PaidOn(a) = {}
              /\ sess' = [sess EXCEPT ![a] = "closed"]
              /\ Go(w, "close")
        /\ UNCHANGED <<rowVars, charge, checkout>>

Expire(o) ==
    /\ reg' = SetReg(PendingOf(o), "expired")
    /\ order' = [order EXCEPT ![o] = "expired"]

\* prescreening_expire_group_attempt: the attempt, and with the last one the order.
ExpireAttempt(w) ==
    LET a == job[w].att
        o == job[w].order
        due == order[o] = "pending" /\ lapsed[o]
        mayClose == due /\ attempt[a].status # "paid" /\ Recorded(a) = {}
    IN  /\ job[w].pc = "close"
        /\ IF mayClose THEN /\ attempt' = SetAttempts({a}, "expired")
                            /\ Go(w, "finish")
                            /\ IF Unsettled(o) \subseteq {a} THEN Expire(o)
                               ELSE UNCHANGED <<order, reg>>
           ELSE Return(w) /\ UNCHANGED <<attempt, order, reg>>
        /\ UNCHANGED <<eventOpen, price, lapsed, batch, free, inbox, slots, restVars>>

\* finish_group_checkout_expiry
FinishOrder(w) ==
    LET o == job[w].order
    IN  /\ job[w].pc = "finish"
        /\ IF order[o] = "pending" /\ lapsed[o] /\ Unsettled(o) = {} /\ ~HasCapture(o)
           THEN Expire(o) /\ attempt' = SetAttempts(PreparedOf(o), "expired")
           ELSE UNCHANGED <<attempt, order, reg>>
        /\ Return(w)
        /\ UNCHANGED <<eventOpen, price, lapsed, batch, free, inbox, slots, restVars>>

\* prescreening_finish_expiry: the batch gives its places back once nothing is unresolved.
FinishBatchIf(w, resolved) ==
    LET o == job[w].order
    IN  /\ job[w].pc = "batch"
        /\ IF batch[o] = "ready" /\ lapsed[o] /\ resolved
           THEN /\ attempt' = SetAttempts(PreparedOf(o), "expired")
                /\ reg' = SetReg(PendingOf(o), "expired")
                /\ order' = IF order[o] = "pending" THEN [order EXCEPT ![o] = "expired"] ELSE order
                /\ batch' = [batch EXCEPT ![o] = "expired"]
           ELSE UNCHANGED <<attempt, reg, order, batch>>
        /\ Idle(w)
        /\ UNCHANGED <<eventOpen, price, lapsed, free, inbox, slots, restVars>>

\* Faulty: only a pending order has places to give back.
FinishBatchHeld(w) == FinishBatchIf(w, order[job[w].order] = "pending" /\ Unsettled(job[w].order) = {})

FinishBatch(w) ==
    FinishBatchIf(w, LET o == job[w].order
                     IN  /\ ~HasCapture(o)
                         /\ order[o] \notin {"paid", "reconciliation_required"}
                         /\ Unsettled(o) = {}
                         /\ \A e \in EntriesOf[o] : reg[e] # "paid")

-----------------------------------------------------------------------------
(* registrations-checkout, called by a runner for an entry of his own (which *)
(* is RegistrationPayment's).  What it read before, an event that is open    *)
(* and the places of the category he wants, may be long past.                *)

\* liveEntryQuery and isLapsedPending: a group entry has no payments row, so once its hold has
\* lapsed it counts as lapsed, whatever session, attempt or capture its order has.
ReadLapsed(k, e) ==
    /\ checkout[k].pc = "idle"
    /\ reg[e] = "pending" /\ lapsed[OrderOf[e]]
    /\ checkout' = [checkout EXCEPT ![k] = [pc |-> "read", entry |-> e, over |-> "none"]]
    /\ UNCHANGED <<rowVars, sess, charge, job>>

\* expireLapsedRow: an update by id, whatever the entry has become since; a call that dies in
\* between never does this, one that reads again after a collision is another call here.
ExpireLapsedRow(k) ==
    LET e == checkout[k].entry
    IN  /\ checkout[k].pc = "read"
        /\ reg' = [reg EXCEPT ![e] = "expired"]
        /\ checkout' = [checkout EXCEPT ![k] = [pc |-> "wrote", entry |-> e, over |-> reg[e]]]
        /\ UNCHANGED <<eventOpen, order, price, lapsed, batch, attempt, free, inbox, slots, sess,
                       charge, job>>

-----------------------------------------------------------------------------
(* Time, the organizer and the provider. *)

Lapse(o) ==
    /\ ~lapsed[o] /\ (order[o] \in {"pending", "expired", "reconciliation_required"} \/ o \in Screened)
    /\ lapsed' = [lapsed EXCEPT ![o] = TRUE]
    /\ UNCHANGED <<eventOpen, order, reg, price, batch, attempt, free, inbox, slots, restVars, job>>

\* Pending entries that expire, unless money is on record for their order.
Drop(E) ==
    /\ reg' = SetReg({e \in E : reg[e] = "pending" /\ ~HasCapture(OrderOf[e])}, "expired")
    /\ UNCHANGED <<order, price, lapsed, batch, attempt, free, inbox, slots, restVars, job>>

\* expire_stale_registrations, by cron
Sweep ==
    /\ \E e \in Entries : reg[e] = "pending" /\ lapsed[OrderOf[e]]
    /\ Drop({e \in Entries : lapsed[OrderOf[e]]})
    /\ UNCHANGED eventOpen

\* expire_pending_on_event_close
CloseEvent == eventOpen /\ eventOpen' = FALSE /\ Drop(Entries)

ReopenEvent ==
    /\ ~eventOpen /\ eventOpen' = TRUE
    /\ UNCHANGED <<order, reg, price, lapsed, batch, attempt, free, inbox, slots, restVars, job>>

\* admin_cancel_registration: a pending entry, whose payment it looks for in `payments' only, or
\* a ticket that cost nothing.
AdminCancel(e) ==
    /\ \/ reg[e] = "pending" /\ UNCHANGED slots
       \/ reg[e] = "paid" /\ price[e] = "free" /\ slots' = IF slots = 0 THEN 0 ELSE slots - 1
    /\ reg' = [reg EXCEPT ![e] = "cancelled"]
    /\ UNCHANGED <<eventOpen, order, price, lapsed, batch, attempt, free, inbox, restVars, job>>

\* The booker pays in a session whose URL the app handed out, more than once if the provider
\* lets it happen, and under LateCapture also after it closed.
Pay(p, a) ==
    /\ charge[p] = NoCharge
    /\ attempt[a].dispatch = "ready"
    /\ sess[a] = "open" \/ LateCapture
    /\ charge' = [charge EXCEPT ![p] = [att |-> a, late |-> lapsed[attempt[a].order]]]
    /\ UNCHANGED <<rowVars, sess, checkout, job>>

\* The provider closes an unpaid session on its own.
SessionExpires(a) ==
    /\ sess[a] = "open" /\ PaidOn(a) = {}
    /\ sess' = [sess EXCEPT ![a] = "closed"]
    /\ UNCHANGED <<rowVars, charge, checkout, job>>

WorkerDies(w) == job[w].pc # "idle" /\ Idle(w) /\ UNCHANGED <<rowVars, restVars>>

BookerStep ==
    \/ \E o \in Orders : Reserve(o) \/ Cancel(o)
    \/ \E o \in Orders, a \in Attempts : Prepare(o, a) \/ ConfirmFree(o, a)
    \/ \E e \in Entries, pr \in Prices : ApplyDiscount(e, pr)

RunnerStep == \E k \in Checkouts : ExpireLapsedRow(k) \/ \E e \in Entries : ReadLapsed(k, e)

SessionStep(w) ==
    \/ \E a \in Attempts : ClaimDispatch(w, a)
    \/ CreateSession(w) \/ BindSession(w) \/ MarkUnknown(w)

ConfirmStep(w) ==
    \/ Observed(w) \/ Confirmed(w) \/ RetryExpired(w)
    \/ \E p \in Captures : Observe(w, p) \/ Confirm(w, p) \/ ConfirmRefused(w, p)

ExpiryStep(w) == CloseSession(w) \/ ExpireAttempt(w) \/ FinishOrder(w) \/ FinishBatch(w)

Environment ==
    \/ \E o \in Orders : Lapse(o)
    \/ Sweep \/ CloseEvent \/ ReopenEvent
    \/ \E e \in Entries : AdminCancel(e)
    \/ \E p \in Captures, a \in Attempts : Pay(p, a)
    \/ \E a \in Attempts : SessionExpires(a)

Next ==
    \/ BookerStep \/ RunnerStep \/ Environment
    \/ \E w \in Workers :
          \/ SessionStep(w) \/ ConfirmStep(w) \/ ExpiryStep(w) \/ WorkerDies(w)
          \/ \E a \in Attempts, refresh \in BOOLEAN : Verify(w, a, refresh)
          \/ \E o \in Orders : StartExpiry(w, o)

Spec == Init /\ [][Next]_vars

-----------------------------------------------------------------------------
(* Properties *)

\* The entries that a runner's own checkout found in status s when it set them to expired.
WrittenOver(s) == {e \in Entries : \E k \in Checkouts :
                      checkout[k] = [pc |-> "wrote", entry |-> e, over |-> s]}

\* One capture admits the whole party or nobody: an order is paid exactly when its entries
\* are, but for a free ticket the organizer took back and a ticket that a checkout of the
\* runner's own has written over.  (The confirmation updates the entries row by row behind
\* triggers that may refuse one of them; sweeps and staff touch single entries.)
AllOrNone ==
    \A e \in Entries :
        /\ reg[e] = "paid" => order[OrderOf[e]] = "paid"
        /\ order[OrderOf[e]] = "paid" =>
              \/ reg[e] = "paid"
              \/ reg[e] \in {"cancelled", "expired"} /\ price[e] = "free"
              \/ reg[e] = "expired" /\ e \in WrittenOver("paid")

\* A paid order was paid once: it has one fulfilled capture, complimentary or not, of an attempt
\* that is paid and that quoted the prices the tickets carry; every other capture is in review.
PaidOnce ==
    \A o \in Orders :
        LET by == {p \in Captures : inbox[p] = "fulfilled" /\ OrderPaidBy(p) = o}
        IN  IF order[o] # "paid" THEN by = {} /\ ~free[o]
            ELSE /\ IF free[o] THEN by = {} ELSE Cardinality(by) = 1
                 /\ \A p \in by : attempt[charge[p].att].status = "paid"
                                  /\ attempt[charge[p].att].quote = Quote(o)

\* The tickets sold fit in the category, and its counter is their number, with the tickets
\* that were written over and never counted back.
PaidWithinCapacity ==
    LET sold == {e \in Entries : reg[e] = "paid"}
    IN  /\ slots = Cardinality(sold) + Cardinality(WrittenOver("paid"))
        /\ Cardinality(sold) <= Capacity

\* The places promised fit, too: sold, held, still payable at the provider, or screened; until a
\* session the provider had closed is paid after all, which claims again what was given up, or a
\* checkout sets to expired what staff had cancelled, which an attempt in flight claims again.
PlacesFit ==
    (\A p \in Captures : charge[p] # NoCharge => sess[charge[p].att] = "open")
        /\ WrittenOver("cancelled") = {}
        => Cardinality(Claims) <= Capacity

Chargeable(a) == attempt[a].dispatch = "ready" /\ sess[a] = "open" /\ PaidOn(a) = {}

\* The booker can pay an order in one session at a time, and in none once it was given up or
\* released.
OneChargeableAttempt ==
    \A a \in Attempts : Chargeable(a) =>
        /\ order[attempt[a].order] \notin {"cancelled", "expired"}
        /\ \A b \in Attempts \ {a} : Chargeable(b) => attempt[b].order # attempt[a].order

\* What a session charges is what the entries cost now.
ChargeableIsCurrent ==
    \A a \in Attempts : Chargeable(a) => attempt[a].quote = Quote(attempt[a].order)

\* Evidence from a session the provider has not closed.
TakenInTime(o) ==
    \E p \in Captures : inbox[p] # "none" /\ OrderPaidBy(p) = o /\ sess[charge[p].att] = "open"

\* Evidence pins the order: once a capture is on record, no session is dispatched for it and its
\* prices stay; and the order is not released, unless the capture came from a session the provider
\* had closed (prescreening_expire_group_attempt looks at the captures of one attempt only).
EvidencePins ==
    [][\A o \in Orders :
          /\ HasCapture(o) =>
                /\ \A a \in AttemptsOf(o) : attempt[a].dispatch = "none" => attempt'[a].dispatch = "none"
                /\ \A e \in EntriesOf[o] : price'[e] = price[e]
          /\ order[o] = "pending" /\ TakenInTime(o) => order'[o] \notin {"expired", "cancelled"}]_vars

Party == INSTANCE PartyAdmission
             WITH party <- order, tickets <- {e \in Entries : reg[e] = "paid"}

\* Group checkout admits parties: at most one ticket per runner, whole parties, places that exist.
AdmitsParties == Party!Spec

-----------------------------------------------------------------------------
(* The platform retries Edge functions and runs its workers again; a step  *)
(* of a call happens or the call dies.                                     *)
Fairness ==
    \A w \in Workers :
        /\ WF_vars(SessionStep(w) \/ ConfirmStep(w) \/ ExpiryStep(w) \/ WorkerDies(w))
        /\ \A a \in Attempts : SF_vars(Reconcile(w, a))
        /\ \A o \in Orders : SF_vars(StartExpiry(w, o))
        /\ SF_vars(Observed(w)) /\ SF_vars(CloseSession(w))
        /\ SF_vars(ExpireAttempt(w)) /\ SF_vars(FinishOrder(w)) /\ SF_vars(FinishBatch(w))
        /\ \A p \in Captures : SF_vars(Observe(w, p)) /\ SF_vars(Confirm(w, p))

FairSpec == Spec /\ Fairness

\* Money that reached the provider is answered: the order is paid or under review.
PaymentIsAnswered ==
    \A p \in Captures : [](charge[p] # NoCharge =>
        <>(OrderPaidBy(p) # None /\ order[OrderPaidBy(p)] \in {"paid", "reconciliation_required"}))

\* A screened party that let its deadline pass gives its places back, unless money is known of
\* or the outcome of creating a session is not (such an attempt is left to an operator).
ScreeningEnds ==
    \A o \in Screened :
        lapsed[o] /\ order[o] = "pending" ~>
            \/ batch[o] # "ready" \/ HasCapture(o)
            \/ \E a \in AttemptsOf(o) : attempt[a].dispatch \in {"creating", "unknown"}

\* 20260806201000_admin_cancel_registration_rpc.sql:11: "restricted to PENDING registrations with
\* no in-flight or captured payment".
CancelledIsUnchargeable ==
    \A a \in Attempts : Chargeable(a) =>
        \A e \in EntriesOf[attempt[a].order] : reg[e] # "cancelled"
=============================================================================
