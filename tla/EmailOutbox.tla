----------------------------- MODULE EmailOutbox -----------------------------
(***************************************************************************)
(* The leased e-mail outboxes.  transactional_email_jobs is drained by two *)
(* workers, send-lifecycle-email and coming-soon-delivery, and             *)
(* booking_order_deliveries by group-ticket-delivery.  A worker claims     *)
(* jobs for five minutes, sends, and reports with its lease token; it may  *)
(* crash anywhere, outlive its lease, or miss the provider's answer.       *)
(***************************************************************************)
EXTENDS Naturals, FiniteSets

CONSTANTS
    Notices,    \* jobs of the registration lifecycle: event_cancelled, payment_failed, ...
    Screenings, \* prescreening_ready jobs
    Receipts,   \* coming_soon_opened and reservation_paid jobs
    Tickets,    \* booking_order_deliveries rows
    LifecycleWorkers, ComingWorkers, TicketWorkers, \* invocations of the three functions
    MaxAttempts, \* attempts of a transactional job, five in the program
    MaxClaims,   \* bound on the claims of one job
    MaxResends,  \* bound on the resends of one prescreening mail
    None

VARIABLES
    job,   \* the rows of both outboxes
    moot,  \* the registration, event or tickets moved on: there is nothing to say any more
    mail,  \* copies the provider accepted of each delivery of a job, counted up to two
    worker \* the invocations

vars == <<job, moot, mail, worker>>

Jobs == Notices \cup Screenings \cup Receipts \cup Tickets
Workers == LifecycleWorkers \cup ComingWorkers \cup TicketWorkers
Deliveries == 0..MaxResends
Lease == [token : 1..MaxClaims, delivery : Deliveries]
Nobody == [held |-> [j \in Jobs |-> None], fresh |-> {}, at |-> None, pc |-> "idle", failed |-> FALSE]

\* The rows, the mailbox and the invocations keep their types.
TypeOK ==
    /\ job \in [Jobs -> [attempts : 0..MaxClaims, claims : 0..MaxClaims, token : 0..MaxClaims,
                         leased : BOOLEAN, due : BOOLEAN, sent : BOOLEAN, delivery : Deliveries]]
    /\ moot \in [Jobs -> BOOLEAN]
    /\ mail \in [Jobs -> [Deliveries -> 0..2]]
    /\ \A w \in Workers :
        /\ worker[w].held \in [Jobs -> Lease \cup {None}] /\ worker[w].fresh \subseteq Jobs
        /\ worker[w].at \in Jobs \cup {None} /\ worker[w].pc \in {"idle", "read", "send", "finish"}
        /\ worker[w].failed \in BOOLEAN

Held(w) == {j \in Jobs : worker[w].held[j] # None}
Put(w, pc, failed) == worker' = [worker EXCEPT ![w].pc = pc, ![w].failed = failed]
----------------------------------------------------------------------------
(* Time and the rest of the system. *)

\* The backoff of a failed attempt ends.
Due(j) ==
    /\ ~job[j].due
    /\ job' = [job EXCEPT ![j].due = TRUE]
    /\ UNCHANGED <<moot, mail, worker>>

\* Five minutes after the claim; the invocation may still be running.
LeaseRunsOut(j) ==
    /\ job[j].leased
    /\ job' = [job EXCEPT ![j].leased = FALSE]
    /\ worker' = [w \in Workers |-> [worker[w] EXCEPT !.fresh =
                     IF worker[w].held[j] # None /\ worker[w].held[j].token = job[j].token
                     THEN @ \ {j} ELSE @]]
    /\ UNCHANGED <<moot, mail>>

\* The entry is cancelled, the event rescheduled again, every ticket of the order refunded.
Overtaken(j) ==
    /\ j \in Notices \cup Tickets /\ ~moot[j]
    /\ moot' = [moot EXCEPT ![j] = TRUE]
    /\ UNCHANGED <<job, mail, worker>>

\* prescreening_resend_email: a new delivery identity; the lease token stays.
Resend(j) ==
    /\ j \in Screenings /\ job[j].delivery < MaxResends
    /\ job[j].due /\ ~job[j].leased
    /\ job' = [job EXCEPT ![j].sent = FALSE, ![j].attempts = 0, ![j].delivery = @ + 1]
    /\ UNCHANGED <<moot, mail, worker>>
----------------------------------------------------------------------------
(* The workers. *)

\* Faulty: a leased job can be claimed again.
ClaimableTwice(j) == ~job[j].sent /\ job[j].due /\ job[j].claims < MaxClaims

\* The candidates of the claims; only ticket deliveries are retried without end.
Claimable(j) ==
    /\ ~job[j].sent /\ job[j].due /\ ~job[j].leased
    /\ (j \in Tickets \/ job[j].attempts < MaxAttempts)
    /\ job[j].claims < MaxClaims

\* What a worker's claim can return: transactional_email_claim knows no types and takes ten jobs,
\* coming_soon_email_claim and booking_delivery_claim are asked for one.
Batches(w) ==
    IF w \in LifecycleWorkers THEN SUBSET {j \in Jobs \ Tickets : Claimable(j)}
    ELSE {{j} : j \in {k \in IF w \in ComingWorkers THEN Screenings \cup Receipts ELSE Tickets :
                          Claimable(k)}}

\* transactional_email_claim, coming_soon_email_claim, booking_delivery_claim
Claim(w) == \E batch \in Batches(w) \ {{}} :
    /\ worker[w] = Nobody
    /\ job' = [j \in Jobs |-> IF j \notin batch THEN job[j] ELSE
                  [job[j] EXCEPT !.attempts = IF j \in Tickets THEN 0 ELSE @ + 1, !.claims = @ + 1,
                                 !.token = job[j].claims + 1, !.leased = TRUE]]
    /\ worker' = [worker EXCEPT
           ![w].held = [j \in Jobs |-> IF j \in batch THEN [token |-> job'[j].token,
                                                           delivery |-> job[j].delivery] ELSE None],
           ![w].fresh = batch]
    /\ UNCHANGED <<moot, mail>>

\* The next job of the batch.
Turn(w) == \E j \in Held(w) :
    /\ worker[w].pc = "idle"
    /\ worker' = [worker EXCEPT ![w].at = j, ![w].pc = "read", ![w].failed = FALSE]
    /\ UNCHANGED <<job, moot, mail>>

\* Faulty: the ticket worker, too, takes what it cannot read for settled.
SkipsUnread(w, j, read) == ~read \/ moot[j]

\* The lifecycle worker skips a job whose registration it cannot read, which is every job of
\* another type, and one that is stale; the ticket worker one without a paid ticket.
Skips(w, j, read) ==
    IF w \in LifecycleWorkers THEN j \notin Notices \/ ~read \/ moot[j]
    ELSE j \in Tickets /\ read /\ moot[j]

\* The worker reads what the mail is about: it skips the job, fails, or goes on to send.
Read(w) == \E read \in BOOLEAN : LET j == worker[w].at IN
    /\ worker[w].pc = "read"
    /\ IF Skips(w, j, read) THEN Put(w, "finish", FALSE)
       ELSE IF read THEN Put(w, "send", FALSE) ELSE Put(w, "finish", TRUE)
    /\ UNCHANGED <<job, moot, mail>>

\* Faulty: the idempotency key is the attempt's.
KeyedByAttempt(j) == {}

\* The deliveries sent with an idempotency key: lifecycle/<job>, screening:<job>:<delivery>.
Keyed(j) == IF j \in Notices \cup Screenings THEN {d \in Deliveries : mail[j][d] > 0} ELSE {}

\* sendEmail: the provider accepts, refuses, or accepts and its answer is lost.
Send(w) == LET j == worker[w].at
               d == worker[w].held[j].delivery IN
    /\ worker[w].pc = "send"
    /\ \E accepted, heard \in BOOLEAN :
           /\ mail' = IF ~accepted \/ d \in Keyed(j) \/ mail[j][d] = 2 THEN mail
                      ELSE [mail EXCEPT ![j][d] = @ + 1]
           /\ Put(w, "finish", ~(accepted /\ heard))
    /\ UNCHANGED <<job, moot>>

\* Faulty: the finish is not tied to the lease.
FinishesAnyLease(w, j) == ~job[j].sent

\* The finish counts only under the worker's own lease; of a ticket delivery, while it lasts.
Finishes(w, j) ==
    /\ ~job[j].sent /\ job[j].token = worker[w].held[j].token
    /\ (j \in Tickets => job[j].leased)

\* transactional_email_finish, booking_delivery_finish; refused, the worker gives up its batch.
Finish(w) == LET j == worker[w].at IN
    /\ worker[w].pc = "finish"
    /\ IF Finishes(w, j)
       THEN /\ job' = [job EXCEPT ![j].sent = ~worker[w].failed, ![j].due = ~worker[w].failed,
                                  ![j].token = 0, ![j].leased = FALSE]
            /\ worker' = [worker EXCEPT ![w].held[j] = None, ![w].fresh = @ \ {j}, ![w].at = None,
                                        ![w].pc = "idle", ![w].failed = FALSE]
       ELSE /\ worker' = [worker EXCEPT ![w] = Nobody]
            /\ UNCHANGED job
    /\ UNCHANGED <<moot, mail>>

\* The invocation dies; its leases run on.
Crash(w) ==
    /\ worker[w] # Nobody
    /\ worker' = [worker EXCEPT ![w] = Nobody]
    /\ UNCHANGED <<job, moot, mail>>
----------------------------------------------------------------------------
Init ==
    /\ job = [j \in Jobs |-> [attempts |-> 0, claims |-> 0, token |-> 0, leased |-> FALSE,
                              due |-> TRUE, sent |-> FALSE, delivery |-> 0]]
    /\ moot = [j \in Jobs |-> FALSE]
    /\ mail = [j \in Jobs |-> [d \in Deliveries |-> 0]]
    /\ worker = [w \in Workers |-> Nobody]

Next ==
    \/ \E j \in Jobs : Due(j) \/ LeaseRunsOut(j) \/ Overtaken(j) \/ Resend(j)
    \/ \E w \in Workers : Claim(w) \/ Turn(w) \/ Read(w) \/ Send(w) \/ Finish(w) \/ Crash(w)

Spec == Init /\ [][Next]_vars
----------------------------------------------------------------------------
\* Within the five minutes of a claim nobody else holds a claim on the job: neither a sender that
\* outlived its lease nor a resend opens the job to a second one (20260920210000:161-191).
OneSender == \A j \in Jobs : Cardinality({w \in Workers : j \in worker[w].fresh}) <= 1

\* However often a lifecycle or prescreening mail is retried, after a crash, a lost answer or a
\* lost finish, and by either worker, one delivery reaches the mailbox at most once.
OneCopy == \A j \in Notices \cup Screenings, d \in Deliveries : mail[j][d] <= 1

\* A group's ticket delivery is marked sent only once its mail was accepted, or no entry of the
\* order holds a ticket any more.
TicketsAreSent == \A j \in Tickets : job[j].sent => mail[j][0] > 0 \/ moot[j]
=============================================================================
