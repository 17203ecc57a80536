------------------------- MODULE RegistrationPayment -------------------------
(***************************************************************************)
(* One event of race-pace and the paid registrations of its runners, from  *)
(* the checkout request to the ticket: the rows of `registrations',        *)
(* `payments', `single_payment_captures' and                               *)
(* `pending_checkout_reprice_attempts', the PayMongo sessions and charges, *)
(* and every process that touches them.  Each SQL function is one action   *)
(* (it is one transaction under row locks); each Edge function is several, *)
(* because other requests run between its database and provider calls.     *)
(*                                                                         *)
(* A checkout request is identified with the registration row it inserts.  *)
(* A worker is one running call of payments-webhook, payment-verify,       *)
(* reconcile-payments, payment-session, discount-checkout,                 *)
(* expire-paymongo-checkouts or reprice-event-checkouts; it may die        *)
(* between any two of its steps.                                           *)
(***************************************************************************)
EXTENDS Naturals, FiniteSets

CONSTANTS
    Regs,        \* registration rows (and the checkout requests that insert them)
    Passports,   \* runner passports
    PassportOf,  \* the passport a registration is for
    Sessions,    \* PayMongo checkout sessions (cs_)
    Captures,    \* PayMongo payments that moved money (pay_)
    Workers,     \* concurrent Edge function calls
    Capacity,    \* places of the category
    LateCapture, \* TRUE: a payment begun before the expiry may complete after it
    None         \* SQL null

ASSUME PaymentAssumption ==
    /\ IsFiniteSet(Regs)
    /\ PassportOf \in [Regs -> Passports]
    /\ Capacity \in Nat
    /\ LateCapture \in BOOLEAN
    /\ None \notin Regs \cup Sessions \cup Captures

VARIABLES
    eventOpen, \* events.status is open or almost_full
    reg,       \* registrations.status, "none" before the insert
    lapsed,    \* registrations.expires_at has passed
    pay,       \* the payments row: status, provider_ref, the pay_ id inside raw
    prep,      \* payments.discount_checkout_state, "none" for a checkout created at once
    attempt,   \* the session a reprice attempt claimed, until it is replaced or given back
    slots,     \* categories.slots_taken
    checkout,  \* the checkout request of each registration
    sess,      \* the provider's sessions: owner, open, handed out to the runner
    charge,    \* the session each captured payment was taken on
    inbox,     \* single_payment_captures.state ("conflict": review, fulfillment_conflict)
    job        \* the running call of each worker

rowVars == <<eventOpen, reg, lapsed, pay, prep, attempt, slots>>
provVars == <<sess, charge>>
vars == <<eventOpen, reg, lapsed, pay, prep, attempt, slots, checkout, sess, charge, inbox, job>>

RegStatus == {"none", "pending", "paid", "refunded", "cancelled", "expired"}
PayStatus == {"none", "pending", "paid", "failed", "refunded", "partially_refunded"}
PrepState == {"none", "prepared", "creating", "ready"}
CaptureState == {"none", "observed", "settled", "review", "conflict"}
InReview == {"review", "conflict"}

CheckoutPc == {"idle", "expire_row", "insert", "payment", "create", "bind", "release", "done"}
JobPc == {"idle", "observe", "confirm", "conflict", "settle",
          "expire", "finish", "restart", "unlock", "dispatch", "attach", "restore",
          "reprice", "claim", "create", "replace", "record", "discard"}

Session == Sessions \cup {None}
Capture == Captures \cup {None}

NoPayment == [status |-> "none", ref |-> None, raw |-> None]
NoCheckout == [pc |-> "idle", row |-> None, sess |-> None, retried |-> FALSE]
NoJob == [pc |-> "idle", reg |-> None, sess |-> None, new |-> None, first |-> None,
          todo |-> {}, sound |-> TRUE, status |-> "none", ref |-> None,
          seen |-> "none", review |-> FALSE]

PaymentRow == [status : PayStatus, ref : Session, raw : Capture]
CheckoutCall == [pc : CheckoutPc, row : Regs \cup {None}, sess : Session, retried : BOOLEAN]
SessionRow == [owner : Regs \cup {None}, open : BOOLEAN, shown : BOOLEAN]
JobCall == [pc : JobPc, reg : Regs \cup {None}, sess : Session, new : Session,
            first : Capture, todo : SUBSET Captures, sound : BOOLEAN, status : RegStatus,
            ref : Session, seen : CaptureState, review : BOOLEAN]

TypeOK ==
    /\ eventOpen \in BOOLEAN
    /\ reg \in [Regs -> RegStatus]
    /\ lapsed \in [Regs -> BOOLEAN]
    /\ pay \in [Regs -> PaymentRow]
    /\ prep \in [Regs -> PrepState]
    /\ attempt \in [Regs -> Session]
    /\ slots \in Nat
    /\ checkout \in [Regs -> CheckoutCall]
    /\ sess \in [Sessions -> SessionRow]
    /\ charge \in [Captures -> Session]
    /\ inbox \in [Captures -> CaptureState]
    /\ job \in [Workers -> JobCall]

Init ==
    /\ eventOpen = TRUE
    /\ reg = [r \in Regs |-> "none"]
    /\ lapsed = [r \in Regs |-> FALSE]
    /\ pay = [r \in Regs |-> NoPayment]
    /\ prep = [r \in Regs |-> "none"]
    /\ attempt = [r \in Regs |-> None]
    /\ slots = 0
    /\ checkout = [r \in Regs |-> NoCheckout]
    /\ sess = [s \in Sessions |-> [owner |-> None, open |-> FALSE, shown |-> FALSE]]
    /\ charge = [p \in Captures |-> None]
    /\ inbox = [p \in Captures |-> "none"]
    /\ job = [w \in Workers |-> NoJob]

-----------------------------------------------------------------------------
(* What the database and the provider can be asked. *)

\* The live entries of a passport: what the index registrations_one_live_per_event ranges over.
Live(pp) == {r \in Regs : PassportOf[r] = pp /\ reg[r] \in {"pending", "paid"}}

\* A pending hold whose window passed and that no provider session can still be paid for.
LapsedPending(r) == reg[r] = "pending" /\ lapsed[r] /\ pay[r].status = "none"

\* The registrations that occupy a place (event_capacity_claims).
Claims == {r \in Regs : \/ reg[r] = "paid"
                        \/ reg[r] = "pending" /\ ~lapsed[r]
                        \/ reg[r] \in {"pending", "expired"} /\ pay[r].status = "pending"}

\* The captured payments a GET of session s reports.
PaidOn(s) == {p \in Captures : charge[p] = s}

\* The registration a charge names in its metadata.
EntryOf(p) == IF charge[p] = None THEN None ELSE sess[charge[p]].owner

\* The inbox rows recorded for registration r.
Recorded(r) == {p \in Captures : inbox[p] # "none" /\ EntryOf(p) = r}

-----------------------------------------------------------------------------
(* registrations-checkout: one request, from the live-entry check to the   *)
(* bound session.                                                          *)

\* The request passes the event, sold-out and live-entry checks.  All three reads may
\* be stale by the time the row is inserted.
Request(r) ==
    /\ checkout[r].pc = "idle"
    /\ eventOpen
    /\ slots < Capacity
    /\ \/ /\ Live(PassportOf[r]) = {}
          /\ checkout' = [checkout EXCEPT ![r].pc = "insert"]
       \/ \E q \in Live(PassportOf[r]) :
             /\ LapsedPending(q)
             /\ checkout' = [checkout EXCEPT ![r].pc = "expire_row", ![r].row = q]
    /\ UNCHANGED <<rowVars, provVars, inbox, job>>

\* The lapsed row is expired by id, whatever its status has become.
ExpireLapsedRow(r) ==
    /\ checkout[r].pc = "expire_row"
    /\ LET q == checkout[r].row IN
       /\ reg' = [reg EXCEPT ![q] = "expired"]
       /\ lapsed' = [lapsed EXCEPT ![q] = FALSE]
    /\ checkout' = [checkout EXCEPT ![r].pc = "insert", ![r].row = None]
    /\ UNCHANGED <<eventOpen, pay, prep, attempt, slots, provVars, inbox, job>>

\* The row is inserted: no live entry of the passport and a free place.
InsertRegistration(r) ==
    /\ checkout[r].pc = "insert"
    /\ Live(PassportOf[r]) = {}
    /\ Cardinality(Claims) < Capacity
    /\ reg' = [reg EXCEPT ![r] = "pending"]
    /\ checkout' = [checkout EXCEPT ![r].pc = "payment"]
    /\ UNCHANGED <<eventOpen, lapsed, pay, prep, attempt, slots, provVars, inbox, job>>

\* The insert is refused: sold out, or a live entry won the race.  A lapsed winner is
\* expired and the insert retried, exactly once.
InsertRefused(r) ==
    /\ checkout[r].pc = "insert"
    /\ \/ /\ Live(PassportOf[r]) = {} => Cardinality(Claims) >= Capacity
          /\ ~\E q \in Live(PassportOf[r]) : LapsedPending(q) /\ ~checkout[r].retried
          /\ checkout' = [checkout EXCEPT ![r].pc = "done"]
       \/ \E q \in Live(PassportOf[r]) :
             /\ LapsedPending(q)
             /\ ~checkout[r].retried
             /\ checkout' = [checkout EXCEPT ![r].pc = "expire_row", ![r].row = q,
                                             ![r].retried = TRUE]
    /\ UNCHANGED <<rowVars, provVars, inbox, job>>

\* The payments row freezes the provider request and owns the external create, now or, for
\* a client that defers the payment, when the runner opens the pay page.
InsertPayment(r) ==
    /\ checkout[r].pc = "payment"
    /\ pay' = [pay EXCEPT ![r].status = "pending"]
    /\ \/ /\ checkout' = [checkout EXCEPT ![r].pc = "create"]
          /\ UNCHANGED prep
       \/ /\ checkout' = [checkout EXCEPT ![r].pc = "done"]
          /\ prep' = [prep EXCEPT ![r] = "prepared"]
    /\ UNCHANGED <<eventOpen, reg, lapsed, attempt, slots, provVars, inbox, job>>

\* The provider opens session s for registration r; nobody has its URL yet.
Opened(s, r) ==
    /\ sess[s].owner = None
    /\ sess' = [sess EXCEPT ![s] = [owner |-> r, open |-> TRUE, shown |-> FALSE]]

\* The create succeeds, is rejected, or is uncertain: the answer is lost and a session
\* may or may not exist.  An uncertain create is not retried.
CreateCheckout(r) ==
    /\ checkout[r].pc = "create"
    /\ \/ \E s \in Sessions :
             /\ Opened(s, r)
             /\ \/ checkout' = [checkout EXCEPT ![r].pc = "bind", ![r].sess = s]
                \/ checkout' = [checkout EXCEPT ![r].pc = "done"]
       \/ /\ \E next \in {"release", "done"} : checkout' = [checkout EXCEPT ![r].pc = next]
          /\ UNCHANGED sess
    /\ UNCHANGED <<rowVars, charge, inbox, job>>

\* release_rejected_paymongo_checkout.
ReleaseRejected(r) ==
    /\ checkout[r].pc = "release"
    /\ checkout' = [checkout EXCEPT ![r].pc = "done"]
    /\ IF /\ reg[r] = "pending" /\ pay[r].status = "pending"
          /\ pay[r].ref = None
          /\ Recorded(r) = {}
       THEN /\ pay' = [pay EXCEPT ![r].status = "failed"]
            /\ reg' = [reg EXCEPT ![r] = "expired"]
            /\ lapsed' = [lapsed EXCEPT ![r] = FALSE]
       ELSE UNCHANGED <<pay, reg, lapsed>>
    /\ UNCHANGED <<eventOpen, prep, attempt, slots, provVars, inbox, job>>

\* The session is bound by registration id alone, and its URL returned to the runner.
BindSession(r) ==
    /\ checkout[r].pc = "bind"
    /\ LET s == checkout[r].sess IN
       /\ pay' = [pay EXCEPT ![r].ref = s]
       /\ sess' = [sess EXCEPT ![s].shown = TRUE]
    /\ checkout' = [checkout EXCEPT ![r].pc = "done", ![r].sess = None]
    /\ UNCHANGED <<eventOpen, reg, lapsed, prep, attempt, slots, charge, inbox, job>>

\* The request dies (timeout, eviction, lost write).
CheckoutDies(r) ==
    /\ checkout[r].pc \notin {"idle", "done"}
    /\ checkout' = [checkout EXCEPT ![r] = [NoCheckout EXCEPT !.pc = "done"]]
    /\ UNCHANGED <<rowVars, provVars, inbox, job>>

-----------------------------------------------------------------------------
(* The event, the clock, the organizer. *)

\* expire_pending_on_event_close: a pending row without a PayMongo payment is released.
CloseEvent ==
    /\ eventOpen
    /\ eventOpen' = FALSE
    /\ LET gone == {r \in Regs : reg[r] = "pending" /\ pay[r].status = "none"} IN
       /\ reg' = [r \in Regs |-> IF r \in gone THEN "expired" ELSE reg[r]]
       /\ lapsed' = [r \in Regs |-> lapsed[r] /\ r \notin gone]
    /\ UNCHANGED <<pay, prep, attempt, slots, checkout, provVars, inbox, job>>

ReopenEvent ==
    /\ ~eventOpen
    /\ eventOpen' = TRUE
    /\ UNCHANGED <<reg, lapsed, pay, prep, attempt, slots, checkout, provVars, inbox, job>>

\* The hold window (24 hours by default) passes.  A checkout request lives minutes, so
\* the request that inserted the row has ended.
Lapse(r) ==
    /\ reg[r] = "pending" /\ ~lapsed[r] /\ checkout[r].pc = "done"
    /\ lapsed' = [lapsed EXCEPT ![r] = TRUE]
    /\ UNCHANGED <<eventOpen, reg, pay, prep, attempt, slots, checkout, provVars, inbox, job>>

\* expire_stale_registrations: the sweep never touches a PayMongo hold.
Sweep ==
    LET stale == {r \in Regs : LapsedPending(r)} IN
    /\ stale # {}
    /\ reg' = [r \in Regs |-> IF r \in stale THEN "expired" ELSE reg[r]]
    /\ lapsed' = [r \in Regs |-> lapsed[r] /\ r \notin stale]
    /\ UNCHANGED <<eventOpen, pay, prep, attempt, slots, checkout, provVars, inbox, job>>

\* admin_cancel_registration on an unpaid entry.
AdminCancel(r) ==
    /\ reg[r] = "pending"
    /\ pay[r].status \in {"none", "failed"}
    /\ reg' = [reg EXCEPT ![r] = "cancelled"]
    /\ UNCHANGED <<eventOpen, lapsed, pay, prep, attempt, slots, checkout, provVars, inbox, job>>

\* refund_registration_tx, reached once per entry through refund_request_claim: a partial
\* refund keeps the place, a full one gives it back.
Refund(r) ==
    /\ reg[r] = "paid" /\ pay[r].status = "paid"
    /\ \/ /\ pay' = [pay EXCEPT ![r].status = "partially_refunded"]
          /\ UNCHANGED <<reg, slots>>
       \/ /\ pay' = [pay EXCEPT ![r].status = "refunded"]
          /\ reg' = [reg EXCEPT ![r] = "refunded"]
          /\ slots' = IF slots > 0 THEN slots - 1 ELSE 0
    /\ UNCHANGED <<eventOpen, lapsed, prep, attempt, checkout, provVars, inbox, job>>

-----------------------------------------------------------------------------
(* PayMongo. *)

\* Money moves on a session whose URL the runner has.
Charge(p) ==
    /\ charge[p] = None
    /\ \E s \in Sessions :
          /\ sess[s].shown
          /\ sess[s].open \/ LateCapture
          /\ charge' = [charge EXCEPT ![p] = s]
    /\ UNCHANGED <<rowVars, checkout, sess, inbox, job>>

-----------------------------------------------------------------------------
(* confirmPayment: the shared path of every caller that saw a paid session. *)

\* Faulty: the ticket is issued before the capture is in the inbox.
StartUnrecorded(w, r, s, ps, p, b) ==
    job' = [job EXCEPT ![w] = [NoJob EXCEPT !.pc = "confirm", !.reg = r, !.sess = s,
                !.first = p, !.todo = ps, !.sound = b, !.status = reg[r], !.ref = pay[r].ref]]

\* The call starts: it reads the registration and its payment once, and works from that
\* snapshot for the rest of its life.  `ps' are the paid captures reported on session s,
\* `p' the first of them; `b' says whether the reported figures pass every check and
\* agree with what the inbox already holds.
StartConfirm(w, r, s, ps, p, b) ==
    job' = [job EXCEPT ![w] = [NoJob EXCEPT !.pc = "observe", !.reg = r, !.sess = s,
                !.first = p, !.todo = ps, !.sound = b, !.status = reg[r], !.ref = pay[r].ref]]

\* payments-webhook, checkout_session.payment.paid: a signed snapshot of the session.  It
\* can come late, twice, out of order, or never.
Webhook(w) ==
    /\ job[w].pc = "idle"
    /\ \E s \in Sessions : \E ps \in SUBSET PaidOn(s) : \E p \in ps : \E b \in BOOLEAN :
          StartConfirm(w, sess[s].owner, s, ps, p, b)
    /\ UNCHANGED <<rowVars, checkout, provVars, inbox>>

\* payments-webhook, payment.paid: the charge is not on the bound session.  It is kept
\* without inventing a session link.
WebhookUnbound(w) ==
    /\ job[w].pc = "idle"
    /\ \E p \in Captures :
          LET r == EntryOf(p) IN
          /\ r # None
          /\ inbox[p] = "none"
          /\ pay[r].ref \notin {None, charge[p]}
          /\ StartConfirm(w, r, None, {p}, p, TRUE)
    /\ UNCHANGED <<rowVars, checkout, provVars, inbox>>

\* GET of the stored session of registration r by worker w.
ReadStoredSession(w, r) ==
    /\ job[w].pc = "idle"
    /\ pay[r].ref # None
    /\ \E p \in PaidOn(pay[r].ref) : \E b \in BOOLEAN :
          StartConfirm(w, r, pay[r].ref, PaidOn(pay[r].ref), p, b)
    /\ UNCHANGED <<rowVars, checkout, provVars, inbox>>

\* payment-verify: the runner came back from the hosted page.
Verify(w, r) ==
    /\ reg[r] # "paid" => \A p \in Recorded(r) : inbox[p] \notin InReview
    /\ ReadStoredSession(w, r)


\* payment_reconciliation_pending_v: the payment is still pending, and a capture already in
\* review is left to the operator.
AwaitsReconciliation(r) ==
    /\ pay[r].status = "pending"
    /\ \A p \in Recorded(r) : inbox[p] \notin InReview

\* reconcile-payments.
Reconcile(w, r) == AwaitsReconciliation(r) /\ ReadStoredSession(w, r)

\* Faulty: a second capture is judged like the first.
AcceptableExtra(j) == j.sound /\ j.sess # None /\ j.sess = pay[j.reg].ref

\* The report j of a new capture fulfils its entry: it is the entry's first, its figures are
\* sound, and it is on the bound session.
Acceptable(j) ==
    Recorded(j.reg) = {} /\ j.sound /\ j.sess # None /\ j.sess = pay[j.reg].ref

\* Faulty: any capture of a paid entry is taken for the one that paid it.
ObservedStateOfPaid(j, p) ==
    CASE inbox[p] # "none" -> inbox[p]
      [] inbox[p] = "none" /\ reg[j.reg] \in {"paid", "refunded"} -> "settled"
      [] inbox[p] = "none" /\ reg[j.reg] \in {"pending", "expired"} /\ Acceptable(j) -> "observed"
      [] OTHER -> "review"

\* Faulty: the inbox copies the status of the payments row.
ObservedStateOfLedger(j, p) ==
    CASE inbox[p] # "none" -> inbox[p]
      [] inbox[p] = "none" /\ Acceptable(j) -> pay[j.reg].status
      [] OTHER -> "review"

\* What single_capture_observe decides for capture p of the report of job j.
ObservedState(j, p) ==
    CASE inbox[p] # "none" -> IF j.sound /\ j.sess = charge[p] THEN inbox[p] ELSE "review"
      [] inbox[p] = "none" /\ Acceptable(j) /\ reg[j.reg] \in {"pending", "expired"} -> "observed"
      [] /\ inbox[p] = "none" /\ Acceptable(j)
         /\ reg[j.reg] \in {"paid", "refunded"} /\ pay[j.reg].raw = p -> "settled"
      [] OTHER -> "review"

\* What the call does once every reported capture is in the inbox: it stops on a review
\* and on a registration its snapshot saw cancelled, only settles one it saw paid, and
\* otherwise goes on to confirm.
AfterObserve(j) ==
    CASE /\ ~j.review /\ j.seen = "observed"
         /\ j.status \in {"paid", "refunded"} -> [j EXCEPT !.pc = "settle"]
      [] /\ ~j.review /\ j.sess # None /\ j.sess = j.ref
         /\ j.status \notin {"paid", "refunded", "cancelled"} -> [j EXCEPT !.pc = "confirm"]
      [] OTHER -> NoJob

\* One call of single_capture_observe; the first reported capture goes first.
Observe(w) ==
    LET j == job[w] IN
    /\ j.pc = "observe"
    /\ \E p \in j.todo :
          /\ j.first \in j.todo => p = j.first
          /\ LET st == ObservedState(j, p)
                 k == [j EXCEPT !.todo = @ \ {p},
                                !.seen = IF p = j.first THEN st ELSE @,
                                !.review = @ \/ st \in InReview]
             IN /\ inbox' = [inbox EXCEPT ![p] = st]
                /\ job' = [job EXCEPT ![w] = IF k.todo = {} THEN AfterObserve(k) ELSE k]
    /\ UNCHANGED <<rowVars, checkout, provVars>>

\* Faulty: an expired entry comes back whatever the runner did since.
NeverSuperseded(r) == FALSE

\* An expired entry comes back only if no other live entry of the runner took its place.
Superseded(r) == reg[r] = "expired" /\ Live(PassportOf[r]) \ {r} # {}

\* Faulty: paid money finds a place even in a full category.
AlwaysHasPlace(r) == TRUE

\* registration_event_capacity_guard on the update to paid: the payments row is already
\* paid, so a lapsed or expired entry must find a place among the other claims.
HasPlace(r) ==
    \/ reg[r] = "pending" /\ ~lapsed[r]
    \/ Cardinality(Claims \ {r}) < Capacity

\* confirm_payment_tx, the step that issues the ticket.
ConfirmPaid(w) ==
    LET j == job[w] r == job[w].reg IN
    /\ j.pc = "confirm"
    /\ reg[r] \in {"pending", "expired"}
    /\ ~Superseded(r)
    /\ HasPlace(r)
    /\ pay' = [pay EXCEPT ![r].status = "paid", ![r].raw = j.first]
    /\ reg' = [reg EXCEPT ![r] = "paid"]
    /\ lapsed' = [lapsed EXCEPT ![r] = FALSE]
    /\ slots' = slots + 1
    /\ job' = [job EXCEPT ![w].pc = "settle"]
    /\ UNCHANGED <<eventOpen, prep, attempt, checkout, provVars, inbox>>

\* confirm_payment_tx answers already, not_pending or conflict, or raises on a full event: none
\* of these writes, and after the last one the capture stays observed for the next attempt.
ConfirmRefused(w) ==
    LET j == job[w] r == job[w].reg IN
    /\ j.pc = "confirm"
    /\ \/ /\ reg[r] \notin {"pending", "expired"}
          /\ job' = [job EXCEPT ![w].pc = "settle"]
       \/ /\ Superseded(r)
          /\ job' = [job EXCEPT ![w].pc = "conflict"]
       \/ /\ reg[r] \in {"pending", "expired"}
          /\ ~Superseded(r)
          /\ ~HasPlace(r)
          /\ job' = [job EXCEPT ![w] = NoJob]
    /\ UNCHANGED <<rowVars, checkout, provVars, inbox>>

\* The conflict is written to the inbox in a second call, by capture id alone; that call may fail,
\* which is logged only.
MarkConflict(w) ==
    /\ job[w].pc = "conflict"
    /\ \/ UNCHANGED inbox
       \/ inbox' = [inbox EXCEPT ![job[w].first] = "conflict"]
    /\ job' = [job EXCEPT ![w] = NoJob]
    /\ UNCHANGED <<rowVars, checkout, provVars>>

\* The ledger row of r was paid by capture p.
SettledBy(r, p) ==
    pay[r].status \in {"paid", "partially_refunded", "refunded"} /\ pay[r].raw = p

\* single_capture_settle.
Settle(w) ==
    LET p == job[w].first r == job[w].reg IN
    /\ job[w].pc = "settle"
    /\ inbox' = [inbox EXCEPT ![p] =
                   IF @ # "observed" THEN @
                   ELSE IF SettledBy(r, p) THEN "settled" ELSE "review"]
    /\ job' = [job EXCEPT ![w] = NoJob]
    /\ UNCHANGED <<rowVars, checkout, provVars>>

-----------------------------------------------------------------------------
(* payment-session on a deferred checkout: one call claims the create.      *)

\* discount_claim_single.
ClaimDispatch(w, r) ==
    /\ job[w].pc = "idle"
    /\ reg[r] = "pending" /\ ~lapsed[r] /\ eventOpen
    /\ prep[r] = "prepared"
    /\ prep' = [prep EXCEPT ![r] = "creating"]
    /\ job' = [job EXCEPT ![w] = [NoJob EXCEPT !.pc = "dispatch", !.reg = r]]
    /\ UNCHANGED <<eventOpen, reg, lapsed, pay, attempt, slots, checkout, provVars, inbox>>

\* The create succeeds, is rejected, or is uncertain.
DispatchCreate(w) ==
    /\ job[w].pc = "dispatch"
    /\ \/ \E s \in Sessions :
             /\ Opened(s, job[w].reg)
             /\ \/ job' = [job EXCEPT ![w].pc = "attach", ![w].new = s]
                \/ job' = [job EXCEPT ![w] = NoJob]
       \/ /\ \/ job' = [job EXCEPT ![w].pc = "restore"]
             \/ job' = [job EXCEPT ![w] = NoJob]
          /\ UNCHANGED sess
    /\ UNCHANGED <<rowVars, checkout, charge, inbox>>

\* The session is bound while the row still says creating, and its URL returned.
DispatchAttach(w) ==
    LET j == job[w] r == job[w].reg IN
    /\ j.pc = "attach"
    /\ IF prep[r] = "creating"
       THEN /\ pay' = [pay EXCEPT ![r].ref = j.new]
            /\ prep' = [prep EXCEPT ![r] = "ready"]
            /\ sess' = [sess EXCEPT ![j.new].shown = TRUE]
       ELSE UNCHANGED <<pay, prep, sess>>
    /\ job' = [job EXCEPT ![w] = NoJob]
    /\ UNCHANGED <<eventOpen, reg, lapsed, attempt, slots, checkout, charge, inbox>>

\* Only a definitive rejection makes the checkout editable again.
DispatchRestore(w) ==
    LET r == job[w].reg IN
    /\ job[w].pc = "restore"
    /\ prep' = [prep EXCEPT ![r] = IF pay[r].ref = None THEN "prepared" ELSE @]
    /\ job' = [job EXCEPT ![w] = NoJob]
    /\ UNCHANGED <<eventOpen, reg, lapsed, pay, attempt, slots, checkout, provVars, inbox>>

\* discount_expire_prepared: the expiry worker releases a hold that has no session yet.
ExpirePrepared(r) ==
    /\ reg[r] = "pending" /\ lapsed[r]
    /\ pay[r].status = "pending" /\ pay[r].ref = None
    /\ prep[r] = "prepared"
    /\ pay' = [pay EXCEPT ![r].status = "failed"]
    /\ reg' = [reg EXCEPT ![r] = "expired"]
    /\ lapsed' = [lapsed EXCEPT ![r] = FALSE]
    /\ UNCHANGED <<eventOpen, prep, attempt, slots, checkout, provVars, inbox, job>>

-----------------------------------------------------------------------------
(* expire-paymongo-checkouts, discount-checkout (restart) and               *)
(* reprice-event-checkouts: all three close the bound session at the        *)
(* provider before they change anything here.                               *)

\* paymongo_expiry_candidates; a row without a bound session is never released.
PickExpiry(w, r) ==
    /\ job[w].pc = "idle"
    /\ reg[r] = "pending" /\ pay[r].status = "pending"
    /\ lapsed[r] \/ ~eventOpen
    /\ pay[r].ref # None
    /\ job' = [job EXCEPT ![w] = [NoJob EXCEPT !.pc = "expire", !.reg = r, !.sess = pay[r].ref]]
    /\ UNCHANGED <<rowVars, checkout, provVars, inbox>>

\* restartDiscountCheckout: the runner wants to change the order he has a session for.
PickRestart(w, r) ==
    /\ job[w].pc = "idle"
    /\ pay[r].ref # None
    /\ job' = [job EXCEPT ![w] = [NoJob EXCEPT !.pc = "restart", !.reg = r, !.sess = pay[r].ref]]
    /\ UNCHANGED <<rowVars, checkout, provVars, inbox>>

\* An administrator changed prices: pending entries with a bound session are repriced.
PickReprice(w, r) ==
    /\ job[w].pc = "idle"
    /\ reg[r] = "pending"
    /\ pay[r].ref # None
    /\ job' = [job EXCEPT ![w] = [NoJob EXCEPT !.pc = "reprice", !.reg = r, !.sess = pay[r].ref]]
    /\ UNCHANGED <<rowVars, checkout, provVars, inbox>>

\* The local write each of them does on evidence that the session is closed.
AfterClose == [expire |-> "finish", restart |-> "unlock", reprice |-> "claim"]

\* Faulty: the reprice worker reads the session without expiring it.
ExpireUnlessRepricing(j) ==
    IF j.pc = "reprice" THEN UNCHANGED sess ELSE sess' = [sess EXCEPT ![j.sess].open = FALSE]

\* The provider takes no new payment on the session of call j.
ExpireSession(j) == sess' = [sess EXCEPT ![j.sess].open = FALSE]

\* The expire POST and the GET that follows it.  A paid session goes to confirmPayment, a
\* closed one is evidence for the local write.
CloseSession(w) ==
    LET j == job[w] s == job[w].sess IN
    /\ j.pc \in DOMAIN AfterClose
    /\ \/ /\ PaidOn(s) # {}
          /\ \E p \in PaidOn(s), b \in BOOLEAN : StartConfirm(w, j.reg, s, PaidOn(s), p, b)
          /\ UNCHANGED sess
       \/ /\ PaidOn(s) = {}
          /\ ExpireSession(j)
          /\ job' = [job EXCEPT ![w].pc = AfterClose[j.pc]]
    /\ UNCHANGED <<rowVars, checkout, charge, inbox>>

\* Nothing happened to the payment of r since session s was read: s is bound and no capture
\* is in the inbox.
Untouched(r, s) == pay[r].status = "pending" /\ pay[r].ref = s /\ Recorded(r) = {}

\* Faulty: the evidence is about another session than the bound one.
ExpirableByAnySession(r, s) ==
    reg[r] = "pending" /\ pay[r].status = "pending" /\ Recorded(r) = {}

\* Faulty: a capture recorded since the session was read is overlooked.
ExpirableWithCapture(r, s) == reg[r] = "pending" /\ pay[r].status = "pending" /\ pay[r].ref = s

\* What finish_paymongo_checkout_expiry requires.
Expirable(r, s) == reg[r] = "pending" /\ Untouched(r, s)

\* finish_paymongo_checkout_expiry.
FinishExpiry(w) ==
    LET r == job[w].reg IN
    /\ job[w].pc = "finish"
    /\ job' = [job EXCEPT ![w] = NoJob]
    /\ IF Expirable(r, job[w].sess)
       THEN /\ reg' = [reg EXCEPT ![r] = "expired"]
            /\ lapsed' = [lapsed EXCEPT ![r] = FALSE]
            /\ pay' = [pay EXCEPT ![r].status = "failed"]
       ELSE UNCHANGED <<reg, lapsed, pay>>
    /\ UNCHANGED <<eventOpen, prep, attempt, slots, checkout, provVars, inbox>>

\* What discount_restart_single requires.
Unlockable(r, s) == reg[r] = "pending" /\ ~lapsed[r] /\ Untouched(r, s) /\ attempt[r] = None

\* discount_restart_single: the closed session is unbound and the order may be edited.
UnlockCheckout(w) ==
    LET r == job[w].reg IN
    /\ job[w].pc = "unlock"
    /\ job' = [job EXCEPT ![w] = NoJob]
    /\ IF Unlockable(r, job[w].sess)
       THEN /\ pay' = [pay EXCEPT ![r].ref = None]
            /\ prep' = [prep EXCEPT ![r] = "prepared"]
       ELSE UNCHANGED <<pay, prep>>
    /\ UNCHANGED <<eventOpen, reg, lapsed, attempt, slots, checkout, provVars, inbox>>

\* begin_pending_checkout_reprice: one attempt owns the replacement of a session.
ClaimReprice(w) ==
    LET j == job[w] r == job[w].reg IN
    /\ j.pc = "claim"
    /\ IF Untouched(r, j.sess) /\ attempt[r] # j.sess
       THEN /\ attempt' = [attempt EXCEPT ![r] = j.sess]
            /\ job' = [job EXCEPT ![w].pc = "create"]
       ELSE /\ job' = [job EXCEPT ![w] = NoJob]
            /\ UNCHANGED attempt
    /\ UNCHANGED <<eventOpen, reg, lapsed, pay, prep, slots, checkout, provVars, inbox>>

\* The replacement is created, or the create fails and the attempt stays claimed.
CreateReplacement(w) ==
    LET j == job[w] IN
    /\ j.pc = "create"
    /\ \/ \E s \in Sessions :
             /\ Opened(s, j.reg)
             /\ \/ job' = [job EXCEPT ![w].pc = "replace", ![w].new = s]
                \/ job' = [job EXCEPT ![w] = NoJob]
       \/ /\ job' = [job EXCEPT ![w] = NoJob]
          /\ UNCHANGED sess
    /\ UNCHANGED <<rowVars, checkout, charge, inbox>>

\* What replace_pending_checkout_pricing requires.
Replaceable(r, s) == reg[r] = "pending" /\ Untouched(r, s)

\* replace_pending_checkout_pricing: the new session becomes the payable one.  Its answer may
\* be lost, and the worker then takes the replacement for refused.
ReplaceSession(w) ==
    LET j == job[w] r == job[w].reg IN
    /\ j.pc = "replace"
    /\ Replaceable(r, j.sess)
    /\ pay' = [pay EXCEPT ![r].ref = j.new]
    /\ sess' = [sess EXCEPT ![j.new].shown = TRUE]
    /\ \E next \in {"record", "discard"} : job' = [job EXCEPT ![w].pc = next]
    /\ UNCHANGED <<eventOpen, reg, lapsed, prep, attempt, slots, checkout, charge, inbox>>

\* record_pending_checkout_reprice, outcome replaced.
RecordReplaced(w) ==
    LET j == job[w] IN
    /\ j.pc = "record"
    /\ attempt' = [attempt EXCEPT ![j.reg] = IF @ = j.sess THEN None ELSE @]
    /\ job' = [job EXCEPT ![w] = NoJob]
    /\ UNCHANGED <<eventOpen, reg, lapsed, pay, prep, slots, checkout, provVars, inbox>>

\* The replacement was refused: a guard above failed, or the prices moved again.
ReplaceRefused(w) ==
    /\ job[w].pc = "replace"
    /\ job' = [job EXCEPT ![w].pc = "discard"]
    /\ UNCHANGED <<rowVars, checkout, provVars, inbox>>

\* The refused replacement is closed and the attempt given back, if the provider says so.
DiscardReplacement(w) ==
    LET j == job[w] r == job[w].reg IN
    /\ j.pc = "discard"
    /\ \/ /\ sess' = [sess EXCEPT ![j.new].open = FALSE]
          /\ attempt' = [attempt EXCEPT ![r] = IF @ = j.sess THEN None ELSE @]
       \/ UNCHANGED <<sess, attempt>>
    /\ job' = [job EXCEPT ![w] = NoJob]
    /\ UNCHANGED <<eventOpen, reg, lapsed, pay, prep, slots, checkout, charge, inbox>>

\* A call dies between two of its steps.
WorkerDies(w) ==
    /\ job[w].pc # "idle"
    /\ job' = [job EXCEPT ![w] = NoJob]
    /\ UNCHANGED <<rowVars, checkout, provVars, inbox>>

-----------------------------------------------------------------------------
CheckoutStep(r) ==
    \/ Request(r) \/ ExpireLapsedRow(r) \/ InsertRegistration(r) \/ InsertRefused(r)
    \/ InsertPayment(r) \/ CreateCheckout(r) \/ ReleaseRejected(r) \/ BindSession(r)
    \/ CheckoutDies(r)

ConfirmStep(w) ==
    Observe(w) \/ ConfirmPaid(w) \/ ConfirmRefused(w) \/ MarkConflict(w) \/ Settle(w)

DispatchStep(w) ==
    DispatchCreate(w) \/ DispatchAttach(w) \/ DispatchRestore(w)

CloseStep(w) ==
    \/ CloseSession(w) \/ FinishExpiry(w) \/ UnlockCheckout(w)
    \/ ClaimReprice(w) \/ CreateReplacement(w) \/ ReplaceSession(w)
    \/ RecordReplaced(w) \/ ReplaceRefused(w) \/ DiscardReplacement(w)

Next ==
    \/ CloseEvent \/ ReopenEvent \/ Sweep
    \/ \E r \in Regs : CheckoutStep(r) \/ Lapse(r) \/ AdminCancel(r) \/ Refund(r) \/ ExpirePrepared(r)
    \/ \E p \in Captures : Charge(p)
    \/ \E w \in Workers :
          \/ Webhook(w) \/ WebhookUnbound(w) \/ WorkerDies(w)
          \/ ConfirmStep(w) \/ DispatchStep(w) \/ CloseStep(w)
          \/ \E r \in Regs : \/ Verify(w, r) \/ Reconcile(w, r) \/ ClaimDispatch(w, r)
                             \/ PickExpiry(w, r) \/ PickRestart(w, r) \/ PickReprice(w, r)

Spec == Init /\ [][Next]_vars
-----------------------------------------------------------------------------
(* What must be true. *)

\* A capture marked settled is the one its registration's ledger row was paid by, and the
\* runner has the ticket or had it refunded: settle, refund and every late redelivery write
\* the inbox and the ledger in separate transactions.
SettledIsLedger ==
    \A p \in Captures : inbox[p] = "settled" =>
        \E r \in Regs : /\ EntryOf(p) = r /\ pay[r].raw = p
                        /\ pay[r].status \in {"paid", "partially_refunded", "refunded"}
                        /\ reg[r] \in {"paid", "refunded"}

\* However many captures a runner pays, on however many sessions, and whoever reports them
\* in whatever order, at most one of them can ever fulfil a registration.
OneCaptureFulfils ==
    \A p, q \in Captures :
        /\ inbox[p] \in {"observed", "settled"}
        /\ inbox[q] \in {"observed", "settled"}
        /\ EntryOf(p) = EntryOf(q)
        => p = q

\* No ticket without money: the ledger row of a paid or refunded registration names a
\* capture that is in the inbox and was taken on the session bound to this registration,
\* although the session is checked against a snapshot read before the ticket is issued.
TicketHasCapture ==
    \A r \in Regs : reg[r] \in {"paid", "refunded"} =>
        LET p == pay[r].raw IN
        p # None /\ EntryOf(p) = r /\ inbox[p] # "none" /\ charge[p] = pay[r].ref

\* The category counter is the number of tickets, and a late payment for an entry whose
\* hold was released can not push it past the capacity.
PaidWithinCapacity ==
    /\ slots = Cardinality({r \in Regs : reg[r] = "paid"})
    /\ slots <= Capacity

\* A runner never holds two tickets of one event, although an expired entry may come back
\* by a late payment while a second entry is bought.
OneTicketPerRunner ==
    \A r, q \in Regs :
        reg[r] = "paid" /\ reg[q] = "paid" /\ PassportOf[r] = PassportOf[q] => r = q

\* A payment is given up as failed only after the provider closed every session the runner
\* could have paid on.
ReleasedIsUnchargeable ==
    \A r \in Regs : pay[r].status = "failed" =>
        ~\E s \in Sessions : sess[s].owner = r /\ sess[s].shown /\ sess[s].open

\* A runner is never left with two payable sessions of an entry, and with none while the order
\* can be edited and paid for anew: an old price can not be paid next to the new one.
OneChargeableSession ==
    \A r \in Regs :
        LET payable == {s \in Sessions : sess[s].owner = r /\ sess[s].shown /\ sess[s].open}
        IN  /\ \A s, t \in payable : s = t
            /\ prep[r] = "prepared" => payable = {}

\* Once a capture of a registration is in the inbox as fulfilling it, no expiry or reprice
\* decided earlier may fail its payment or move the payable session elsewhere.
CapturePinsEntry ==
    [][\A r \in Regs :
         (\E p \in Recorded(r) : inbox[p] \in {"observed", "settled"}) =>
             /\ pay'[r].ref = pay[r].ref
             /\ pay'[r].status = "failed" => pay[r].status = "failed"]_vars

\* A session the runner can pay on belongs to an entry that is still his: the local
\* reservation is kept until the provider outcome is known.
ReservationHeldWhileChargeable ==
    \A r \in Regs :
        (\E s \in Sessions : sess[s].owner = r /\ sess[s].shown /\ sess[s].open)
            => reg[r] \in {"pending", "paid", "refunded"}

\* A capture filed as a fulfillment conflict bought no ticket: staff refunds it by hand.
ConflictHasNoTicket ==
    \A p \in Captures : inbox[p] = "conflict" =>
        \A r \in Regs : ~(reg[r] = "paid" /\ pay[r].raw = p)

-----------------------------------------------------------------------------
(* The reconciliation worker runs every five minutes, calls end, and not   *)
(* every call dies.  Nobody else is assumed to do anything.                *)
Fairness ==
    \A w \in Workers :
        /\ WF_vars(ConfirmStep(w) \/ DispatchStep(w) \/ CloseStep(w) \/ WorkerDies(w))
        /\ \A r \in Regs : SF_vars(Reconcile(w, r))
        /\ SF_vars(Observe(w))
        /\ SF_vars(ConfirmPaid(w))
        /\ SF_vars(ConfirmRefused(w))
        /\ SF_vars(MarkConflict(w) /\ inbox'[job[w].first] = "conflict")

FairSpec == Spec /\ Fairness

Answered(p) ==
    \/ inbox[p] \in InReview
    \/ \E r \in Regs : reg[r] \in {"paid", "refunded"} /\ pay[r].raw = p

\* The capture is on record for an entry the category has no place for: confirm_payment_tx raises.
HeldByFullCategory(p) == inbox[p] = "observed" /\ ~HasPlace(EntryOf(p))

=============================================================================
