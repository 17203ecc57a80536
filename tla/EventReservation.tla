-------------------------- MODULE EventReservation --------------------------
(***************************************************************************)
(* Paid reservations of a coming-soon event: the booker's checkout calls,  *)
(* the provider's sessions, the webhook that verifies a capture and the    *)
(* worker that closes an overdue checkout.  Every SQL function locks the   *)
(* event, the reservation and its payment and is one action; between two   *)
(* of them a call works on what it read.  A reservation is of one place.   *)
(***************************************************************************)
EXTENDS Naturals, FiniteSets

CONSTANTS
    Reservations, \* bookers' requests: idempotency keys of event_reservations
    Slots,        \* events.total_event_slots
    MaxGeneration,
    Calls,        \* running reservation-checkout calls
    Workers,      \* runs of expire-coming-soon-reservations
    Hooks,        \* running payments-webhook calls
    LateCapture,  \* a payment may complete at the provider after its session expired
    None

VARIABLES
    reservation, \* event_reservations.status
    due,         \* checkout_expires_at has passed
    payment,     \* reservation_payments: status, bound session, request, generation, capture
    history,     \* reservation_checkout_history: generations replaced with their session
    ledger,      \* reservation_capture_events: generation and outcome
    session,     \* provider: the session created under each generation's idempotency key, and
                 \* whether the booker was given its URL
    notice,      \* payment webhooks the provider still tries to deliver
    job          \* what each call, worker and webhook holds

vars == <<reservation, due, payment, history, ledger, session, notice, job>>

Generations == 0..MaxGeneration
Sessions == Reservations \X Generations
Procs == Calls \cup Workers \cup Hooks
Live == {"pending", "paid", "review"}

Unpaid == [status |-> "pending", ref |-> None, request |-> FALSE, gen |-> 0, capture |-> None]
NoSession == [state |-> "none", shown |-> FALSE, captured |-> FALSE, inTime |-> FALSE]
Idle == [pc |-> "idle", res |-> None, gen |-> 0, ref |-> None]
StepNames == {"idle", "read", "check", "retry", "prepare", "create", "reject", "bind",
              "route", "verify", "close", "get", "finish", "release"}

\* The columns, the provider's sessions and the jobs keep their types.
TypeOK ==
    /\ reservation \in [Reservations -> {"none", "expired"} \cup Live]
    /\ due \subseteq Reservations
    /\ payment \in [Reservations ->
           [status : {"pending", "paid", "review", "failed"}, ref : Generations \cup {None},
            request : BOOLEAN, gen : Generations, capture : Generations \cup {None}]]
    /\ history \subseteq Sessions
    /\ ledger \subseteq Sessions \X {"settled", "review"}
    /\ session \in [Sessions -> [state : {"none", "open", "expired"}, shown : BOOLEAN,
                                 captured : BOOLEAN, inTime : BOOLEAN]]
    /\ notice \subseteq Sessions
    /\ job \in [Procs -> [pc : StepNames, res : Reservations \cup {None}, gen : Generations,
                          ref : Generations \cup {None}]]

\* event_capacity_claims
Claims == {r \in Reservations : reservation[r] \in Live}
Captures(r) == {l \in ledger : l[1][1] = r}

Go(p, pc) == job' = [job EXCEPT ![p].pc = pc]
Done(p) == job' = [job EXCEPT ![p] = Idle]
At(p, pc) == job[p].pc = pc
Held(p) == <<job[p].res, job[p].ref>>
----------------------------------------------------------------------------
(* The reservation-checkout call. *)

\* reserve_category_passports: a new hold, or the reservation of a repeated request.
Reserve(c, r) ==
    /\ At(c, "idle")
    /\ \/ reservation[r] # "none" /\ UNCHANGED reservation
       \/ /\ reservation[r] = "none" /\ Cardinality(Claims) < Slots
          /\ reservation' = [reservation EXCEPT ![r] = "pending"]
    /\ job' = [job EXCEPT ![c] = [Idle EXCEPT !.pc = "read", !.res = r]]
    /\ UNCHANGED <<due, payment, history, ledger, session, notice>>

\* The rows are read back; a bound session is checked, a free payment prepared.
Read(c) ==
    LET r == job[c].res
        p == payment[r]
    IN  /\ At(c, "read")
        /\ IF reservation[r] = "pending" /\ p.status = "pending" /\ r \notin due
           THEN job' = [job EXCEPT ![c] = [pc |-> IF p.ref = None THEN "prepare" ELSE "check",
                                           res |-> r, gen |-> p.gen, ref |-> p.ref]]
           ELSE Done(c)
        /\ UNCHANGED <<reservation, due, payment, history, ledger, session, notice>>

\* Faulty: a session nobody paid is as good as expired.
LooksExpired(s) == ~s.captured

\* session.paid is looked at first.
SaysExpired(s) == ~s.captured /\ s.state = "expired"

\* pmGetCheckoutSession of the previous session: a capture is verified, an expired session
\* replaced, an open one handed out again.
Check(c) ==
    LET s == session[Held(c)]
    IN  /\ At(c, "check")
        /\ \/ s.captured /\ Go(c, "route")
           \/ SaysExpired(s) /\ Go(c, "retry")
           \/ ~s.captured /\ ~SaysExpired(s) /\ Done(c)
        /\ UNCHANGED <<reservation, due, payment, history, ledger, session, notice>>

\* reservation_retry_checkout, but for the session named.
Replaceable(r, gen) ==
    /\ reservation[r] = "pending" /\ payment[r].status = "pending" /\ r \notin due
    /\ payment[r].gen = gen /\ payment[r].request
    /\ Captures(r) = {}
    /\ gen < MaxGeneration

Replaced(r) == [Unpaid EXCEPT !.gen = payment[r].gen + 1]

\* Faulty: the replaced session is forgotten.
ForgetsReplaced(r, gen) == history

\* Every replaced session is retained (20260929110000:1).
RetainsReplaced(r, gen) == history \cup {<<r, gen>>}

\* reservation_retry_checkout of a session the provider reports expired.
Retry(c) ==
    LET r == job[c].res
    IN  /\ At(c, "retry")
        /\ IF Replaceable(r, job[c].gen) /\ payment[r].ref = job[c].ref
           THEN /\ history' = RetainsReplaced(r, job[c].gen)
                /\ payment' = [payment EXCEPT ![r] = Replaced(r)]
                /\ job' = [job EXCEPT ![c].pc = "prepare", ![c].gen = @ + 1, ![c].ref = None]
           ELSE UNCHANGED <<history, payment>> /\ Done(c)
        /\ UNCHANGED <<reservation, due, ledger, session, notice>>

\* Checked under the event's lock, which the worker takes as well (20260929184246:1).
Preparable(r, gen) ==
    /\ reservation[r] = "pending" /\ r \notin due
    /\ payment[r].status = "pending" /\ payment[r].gen = gen /\ payment[r].ref = None

\* reservation_prepare_checkout: the request is frozen before the provider sees it.
Prepare(c) ==
    LET r == job[c].res
    IN  /\ At(c, "prepare")
        /\ IF Preparable(r, job[c].gen)
           THEN payment' = [payment EXCEPT ![r].request = TRUE] /\ Go(c, "create")
           ELSE UNCHANGED payment /\ Done(c)
        /\ UNCHANGED <<reservation, due, history, ledger, session, notice>>

\* pmCreateCheckoutSession: the generation's key finds or creates the session; the answer comes,
\* is lost, or is a definite rejection.
Create(c) ==
    LET s == <<job[c].res, job[c].gen>>
    IN  /\ At(c, "create")
        /\ \/ /\ session' = [session EXCEPT ![s].state = IF @ = "none" THEN "open" ELSE @]
              /\ Go(c, "bind") \/ Done(c)
           \/ UNCHANGED session /\ Go(c, "reject")
        /\ UNCHANGED <<reservation, due, payment, history, ledger, notice>>

\* reservation_retry_checkout of a rejected creation: no session was bound.
Reject(c) ==
    LET r == job[c].res
    IN  /\ At(c, "reject")
        /\ IF Replaceable(r, job[c].gen) /\ payment[r].ref = None
           THEN payment' = [payment EXCEPT ![r] = Replaced(r)]
           ELSE UNCHANGED payment
        /\ Done(c)
        /\ UNCHANGED <<reservation, due, history, ledger, session, notice>>

Bindable(r, gen) ==
    payment[r].status = "pending" /\ payment[r].gen = gen /\ payment[r].ref = None

\* provider_ref and checkout_url are written; then the booker gets the URL.
Bind(c) ==
    LET r == job[c].res
        gen == job[c].gen
    IN  /\ At(c, "bind")
        /\ IF Bindable(r, gen)
           THEN /\ payment' = [payment EXCEPT ![r].ref = gen]
                /\ session' = [session EXCEPT ![<<r, gen>>].shown = TRUE]
           ELSE UNCHANGED <<payment, session>>
        /\ Done(c)
        /\ UNCHANGED <<reservation, due, history, ledger, notice>>
----------------------------------------------------------------------------
(* The runner, the provider and the clock. *)

Capture(s) ==
    /\ session' = [session EXCEPT ![s].captured = TRUE, ![s].inTime = s[1] \notin due]
    /\ notice' = notice \cup {s}
    /\ UNCHANGED <<reservation, due, payment, history, ledger, job>>

Pay(s) ==
    /\ session[s].shown /\ session[s].state = "open" /\ ~session[s].captured
    /\ Capture(s)

PayLate(s) ==
    /\ LateCapture
    /\ session[s].shown /\ session[s].state = "expired" /\ ~session[s].captured
    /\ Capture(s)

ExpireSession(s) ==
    /\ session[s].state = "open" /\ ~session[s].captured
    /\ session' = [session EXCEPT ![s].state = "expired"]
    /\ UNCHANGED <<reservation, due, payment, history, ledger, notice, job>>

Deadline(r) ==
    /\ r \notin due /\ reservation[r] # "none"
    /\ due' = due \cup {r}
    /\ UNCHANGED <<reservation, payment, history, ledger, session, notice, job>>
----------------------------------------------------------------------------
(* Verification, shared by the webhook, the booker's return and the worker. *)

\* The webhook names a generation and a session: the bound one, or one in the history.
Notify(h, s) ==
    /\ At(h, "idle") /\ s \in notice
    /\ job' = [job EXCEPT ![h] = [pc |-> "route", res |-> s[1], gen |-> s[2], ref |-> None]]
    /\ UNCHANGED <<reservation, due, payment, history, ledger, session, notice>>

Known(r, gen) == payment[r].ref = gen \/ <<r, gen>> \in history

\* verifyReservationPayment reads the payment again and finds the session: the one the webhook
\* names, or the bound one.  Without it the webhook is answered 503 and tried again.
Route(p) ==
    LET r == job[p].res
        gen == IF p \in Hooks THEN job[p].gen ELSE payment[r].ref
    IN  /\ At(p, "route")
        /\ IF gen # None /\ Known(r, gen)
           THEN job' = [job EXCEPT ![p].pc = "verify", ![p].ref = gen]
           ELSE Done(p)
        /\ UNCHANGED <<reservation, due, payment, history, ledger, session, notice>>

\* confirm_reservation_payment: what a capture settles, and what it leaves for review.
Settles(r, s) ==
    /\ session[s].inTime
    /\ payment[r].ref = s[2] /\ payment[r].capture = None
    /\ reservation[r] \in {"pending", "paid"} /\ payment[r].status \in {"pending", "paid"}

Recorded(s) == \E o \in {"settled", "review"} : <<s, o>> \in ledger

\* The captures of the session are confirmed one by one; a webhook is then answered.
Verify(p) ==
    LET s == Held(p)
        r == job[p].res
        pending(st) == IF st = "pending" THEN "review" ELSE st
    IN  /\ At(p, "verify")
        /\ IF ~session[s].captured \/ Recorded(s) THEN UNCHANGED <<reservation, payment, ledger>>
           ELSE IF Settles(r, s)
           THEN /\ ledger' = ledger \cup {<<s, "settled">>}
                /\ reservation' = [reservation EXCEPT ![r] = "paid"]
                /\ payment' = [payment EXCEPT ![r].status = "paid", ![r].capture = s[2]]
           ELSE /\ ledger' = ledger \cup {<<s, "review">>}
                /\ reservation' = [reservation EXCEPT ![r] = pending(@)]
                /\ payment' = [payment EXCEPT ![r].status = pending(@)]
        /\ notice' = IF p \in Hooks THEN notice \ {s} ELSE notice
        /\ Done(p)
        /\ UNCHANGED <<due, history, session>>
----------------------------------------------------------------------------
(* The expiry worker. *)

\* coming_soon_expiry_candidates, and the rows of one of them.
Pick(w, r) ==
    LET p == payment[r]
    IN  /\ At(w, "idle")
        /\ reservation[r] = "pending" /\ r \in due
        /\ p.ref # None \/ ~p.request
        /\ job' = [job EXCEPT ![w] = [pc |-> IF p.ref = None THEN "release" ELSE "close",
                                      res |-> r, gen |-> p.gen, ref |-> p.ref]]
        /\ UNCHANGED <<reservation, due, payment, history, ledger, session, notice>>

\* pmExpireCheckoutSession: the provider closes the session, or says to inspect it.
Close(w) ==
    /\ At(w, "close")
    /\ \/ /\ ~session[Held(w)].captured
          /\ session' = [session EXCEPT ![Held(w)].state = "expired"]
       \/ UNCHANGED session
    /\ Go(w, "get")
    /\ UNCHANGED <<reservation, due, payment, history, ledger, notice>>

\* pmGetCheckoutSession
Get(w) ==
    LET s == session[Held(w)]
    IN  /\ At(w, "get")
        /\ \/ s.captured /\ Go(w, "route")
           \/ SaysExpired(s) /\ Go(w, "finish")
           \/ ~s.captured /\ ~SaysExpired(s) /\ Done(w)
        /\ UNCHANGED <<reservation, due, payment, history, ledger, session, notice>>

Finishable(r, ref) ==
    /\ reservation[r] = "pending" /\ payment[r].status = "pending" /\ r \in due
    /\ payment[r].ref = ref
    /\ Captures(r) = {}

\* expire_event_reservation gives the place back.
GiveBack(r) ==
    /\ reservation' = [reservation EXCEPT ![r] = "expired"]
    /\ payment' = [payment EXCEPT ![r].status = "failed"]

\* finish_reservation_checkout_expiry
Finish(w) ==
    LET r == job[w].res
    IN  /\ At(w, "finish")
        /\ IF Finishable(r, job[w].ref) THEN GiveBack(r) ELSE UNCHANGED <<reservation, payment>>
        /\ Done(w)
        /\ UNCHANGED <<due, history, ledger, session, notice>>

\* expire_event_reservation of a checkout that was never sent to the provider.
Release(w) ==
    LET r == job[w].res
    IN  /\ At(w, "release")
        /\ IF /\ reservation[r] = "pending" /\ r \in due
              /\ ~(payment[r].status = "pending" /\ (payment[r].request \/ payment[r].ref # None))
           THEN GiveBack(r) ELSE UNCHANGED <<reservation, payment>>
        /\ Done(w)
        /\ UNCHANGED <<due, history, ledger, session, notice>>

\* A call, a worker or a webhook dies, or a read of the provider fails.
Crash(p) ==
    /\ ~At(p, "idle")
    /\ Done(p)
    /\ UNCHANGED <<reservation, due, payment, history, ledger, session, notice>>
----------------------------------------------------------------------------
Init ==
    /\ reservation = [r \in Reservations |-> "none"]
    /\ due = {}
    /\ payment = [r \in Reservations |-> Unpaid]
    /\ history = {}
    /\ ledger = {}
    /\ session = [s \in Sessions |-> NoSession]
    /\ notice = {}
    /\ job = [p \in Procs |-> Idle]

CallStep ==
    \E c \in Calls :
        \/ \E r \in Reservations : Reserve(c, r)
        \/ Read(c) \/ Check(c) \/ Retry(c) \/ Prepare(c) \/ Create(c) \/ Reject(c) \/ Bind(c)

HookStep == \E h \in Hooks, s \in Sessions : Notify(h, s)

VerifyStep == \E p \in Procs : Route(p) \/ Verify(p)

WorkerStep ==
    \E w \in Workers :
        Close(w) \/ Get(w) \/ Finish(w) \/ Release(w) \/ \E r \in Reservations : Pick(w, r)

OutsideStep ==
    \/ \E s \in Sessions : Pay(s) \/ PayLate(s) \/ ExpireSession(s)
    \/ \E r \in Reservations : Deadline(r)
    \/ \E p \in Procs : Crash(p)

Next == CallStep \/ HookStep \/ VerifyStep \/ WorkerStep \/ OutsideStep

Spec == Init /\ [][Next]_vars
----------------------------------------------------------------------------
(* Properties. *)

\* A place that was paid for or given back can no longer be paid for: no session of the
\* reservation is open in a booker's browser, however calls, the worker and the clock raced.
SettledIsUnpayable ==
    \A s \in Sessions : reservation[s[1]] \in {"paid", "expired"} =>
        ~(session[s].shown /\ session[s].state = "open" /\ ~session[s].captured)

\* No capture is lost or overdraws the event: until it is in the ledger its webhook is retried and
\* its session can still be found; one capture settles a reservation, in time; and a place given to
\* somebody else is not paid for again.
CapturesAreKept ==
    /\ \A s \in Sessions : session[s].captured /\ ~Recorded(s) => s \in notice /\ Known(s[1], s[2])
    /\ \A r \in Reservations :
           LET settled == {l[1] : l \in {c \in Captures(r) : c[2] = "settled"}}
           IN  /\ reservation[r] = "paid" <=> Cardinality(settled) = 1
               /\ \A s \in settled : session[s].inTime
    /\ Cardinality(Claims) <= Slots
=============================================================================
