--------------------- MODULE RegistrationPayment_proofs ---------------------
(***************************************************************************)
(* The proofs about RegistrationPayment, for every number of entries,      *)
(* sessions, captures and calls and every capacity.                        *)
(*                                                                         *)
(* IInv is inductive.  Its own part, Bookkeeping, says what each row, each *)
(* inbox entry and each half-done call may be relied on for while others   *)
(* write; the rest are the invariants the runs check, and the two facts    *)
(* about live entries and places that imply the remaining ones.            *)
(* SessionsInv, at the end, is inductive on top of it and says which       *)
(* sessions a runner can still pay on.                                     *)
(***************************************************************************)
EXTENDS RegistrationPayment, FiniteSetTheorems, TLAPS

-----------------------------------------------------------------------------
(* The invariant.                                                          *)

\* Capture p is in the inbox and was taken on the session bound to its entry.
AtBound(p) == inbox[p] # "none" /\ charge[p] = pay[EntryOf(p)].ref

\* The entries with a ticket.
Sold == {r \in Regs : reg[r] = "paid"}

\* The entries whose hold still runs.
Held == {r \in Regs : reg[r] = "pending" /\ ~lapsed[r]}

\* A session is known to one entry only: the one it was opened for holds it, hands it
\* out, is charged on it.
Owners ==
    /\ \A s \in Sessions : sess[s].shown => sess[s].owner \in Regs
    /\ \A r \in Regs : pay[r].ref # None => sess[pay[r].ref].owner = r
    /\ \A r \in Regs : checkout[r].pc = "bind" =>
          checkout[r].sess # None /\ sess[checkout[r].sess].owner = r
    /\ \A p \in Captures : charge[p] # None => sess[charge[p]].owner \in Regs

\* The rows of one entry agree with each other and with how far its checkout request is.
RowOK(r) ==
    /\ checkout[r].pc # "done" => prep[r] = "none" /\ pay[r].ref = None /\ ~lapsed[r]
    /\ checkout[r].pc \in {"idle", "expire_row", "insert"} => reg[r] = "none"
    /\ checkout[r].pc \in {"idle", "expire_row", "insert", "payment"} => pay[r].status = "none"
    /\ checkout[r].pc \in {"create", "bind", "release"} => pay[r].status # "none"
    /\ prep[r] \in {"prepared", "creating"} => pay[r].ref = None
    /\ pay[r].status = "none" => pay[r].ref = None /\ prep[r] = "none"
    /\ reg[r] \in {"paid", "refunded"} <=> pay[r].status \in {"paid", "partially_refunded", "refunded"}

\* The row a request is about to expire by id has no payment and no request of its own.
LapsedRowOK(r) ==
    checkout[r].pc = "expire_row" =>
        /\ checkout[r].row \in Regs
        /\ checkout[checkout[r].row].pc = "done"
        /\ pay[checkout[r].row].status = "none"

\* Every entry is in order.
Rows == \A r \in Regs : RowOK(r) /\ LapsedRowOK(r)

\* What the inbox holds was charged, and what fulfils an entry is on its bound session.
Evidence ==
    /\ \A p \in Captures : inbox[p] # "none" => charge[p] # None
    /\ \A p \in Captures : inbox[p] \in {"observed", "settled"} => AtBound(p)

\* What a half-done call j may still rely on, whatever others did since its last step: its
\* sessions belong to its entry, what it has filed stays filed, and the capture it is about to
\* confirm is on the bound session.
CallOK(j) ==
    j.pc # "idle" =>
    /\ j.reg \in Regs
    /\ j.sess # None => sess[j.sess].owner = j.reg
    /\ j.new # None => sess[j.new].owner = j.reg
    /\ j.pc \notin {"observe", "confirm", "conflict", "settle", "dispatch", "attach", "restore"}
         => j.sess # None
    /\ j.pc \in {"attach", "replace", "record", "discard"} => j.new # None
    /\ j.pc \in {"dispatch", "attach", "restore"} => checkout[j.reg].pc = "done"
    /\ j.pc \in {"dispatch", "attach", "restore"} => pay[j.reg].status # "none"
    /\ j.pc \in {"observe", "confirm", "conflict", "settle"} =>
         /\ j.first \in Captures
         /\ \A p \in j.todo \cup {j.first} : EntryOf(p) = j.reg /\ (j.sess # None => charge[p] = j.sess)
         /\ j.first \notin j.todo => inbox[j.first] # "none"
         /\ j.pc # "observe" => j.first \notin j.todo
    /\ j.pc = "observe" /\ j.first \notin j.todo /\ ~j.review => AtBound(j.first)
    /\ j.pc = "confirm" => AtBound(j.first)

\* Every call is in order.
Calls == \A w \in Workers : CallOK(job[w])

\* The index registrations_one_live_per_event: one live entry per runner.
OneLive == \A r, q \in Regs :
    /\ PassportOf[r] = PassportOf[q]
    /\ reg[r] \in {"pending", "paid"}
    /\ reg[q] \in {"pending", "paid"}
    => r = q

\* The counter counts the tickets, and tickets and running holds fit the category.  The
\* capacity alone is not inductive: a running hold is confirmed without a new check.
Places == slots = Cardinality(Sold) /\ Cardinality(Sold \cup Held) <= Capacity

\* The part of the invariant that says nothing a runner would notice.
Bookkeeping == TypeOK /\ Owners /\ Rows /\ Evidence /\ Calls

\* The inductive invariant.
IInv ==
    /\ Bookkeeping /\ OneLive /\ Places
    /\ OneCaptureFulfils /\ TicketHasCapture /\ SettledIsLedger

-----------------------------------------------------------------------------
(* Who writes what.                                                        *)

\* The actions that write registrations.status.
RegChange ==
    \/ CloseEvent \/ Sweep
    \/ \E r \in Regs : \/ ExpireLapsedRow(r) \/ InsertRegistration(r) \/ ReleaseRejected(r)
                       \/ AdminCancel(r) \/ Refund(r) \/ ExpirePrepared(r)
    \/ \E w \in Workers : ConfirmPaid(w) \/ FinishExpiry(w)

\* The actions that write registrations.expires_at.
LapsedChange ==
    \/ CloseEvent \/ Sweep
    \/ \E r \in Regs : ExpireLapsedRow(r) \/ ReleaseRejected(r) \/ Lapse(r) \/ ExpirePrepared(r)
    \/ \E w \in Workers : ConfirmPaid(w) \/ FinishExpiry(w)

\* The actions that write the payments row.
PayChange ==
    \/ \E r \in Regs : \/ InsertPayment(r) \/ ReleaseRejected(r) \/ BindSession(r)
                       \/ Refund(r) \/ ExpirePrepared(r)
    \/ \E w \in Workers : \/ ConfirmPaid(w) \/ DispatchAttach(w) \/ FinishExpiry(w)
                          \/ UnlockCheckout(w) \/ ReplaceSession(w)

\* The actions that write discount_checkout_state.
PrepChange ==
    \/ \E r \in Regs : InsertPayment(r) \/ \E w \in Workers : ClaimDispatch(w, r)
    \/ \E w \in Workers : DispatchAttach(w) \/ DispatchRestore(w) \/ UnlockCheckout(w)

\* The actions that write the reprice attempts.
AttemptChange ==
    \E w \in Workers : ClaimReprice(w) \/ RecordReplaced(w) \/ DiscardReplacement(w)

\* The actions that write categories.slots_taken.
SlotsChange == (\E r \in Regs : Refund(r)) \/ \E w \in Workers : ConfirmPaid(w)

\* The actions of the checkout requests.
CheckoutChange == \E r \in Regs : CheckoutStep(r)

\* The actions that open, hand out or close a provider session.
SessChange ==
    \/ \E r \in Regs : CreateCheckout(r) \/ BindSession(r)
    \/ \E w \in Workers : \/ DispatchCreate(w) \/ DispatchAttach(w) \/ CloseSession(w)
                          \/ CreateReplacement(w) \/ ReplaceSession(w) \/ DiscardReplacement(w)

\* The action that takes a payment.
ChargeChange == \E p \in Captures : Charge(p)

\* The actions that write the capture inbox.
InboxChange == \E w \in Workers : Observe(w) \/ MarkConflict(w) \/ Settle(w)

\* The actions of the workers.
JobChange ==
    \E w \in Workers :
       \/ Webhook(w) \/ WebhookUnbound(w) \/ WorkerDies(w)
       \/ ConfirmStep(w) \/ DispatchStep(w) \/ CloseStep(w)
       \/ \E r \in Regs : \/ Verify(w, r) \/ Reconcile(w, r) \/ ClaimDispatch(w, r)
                          \/ PickExpiry(w, r) \/ PickRestart(w, r) \/ PickReprice(w, r)

\* Every variable is written by its own actions only.
Framed ==
    /\ UNCHANGED reg \/ RegChange
    /\ UNCHANGED lapsed \/ LapsedChange
    /\ UNCHANGED pay \/ PayChange
    /\ UNCHANGED prep \/ PrepChange
    /\ UNCHANGED attempt \/ AttemptChange
    /\ UNCHANGED slots \/ SlotsChange
    /\ UNCHANGED checkout \/ CheckoutChange
    /\ UNCHANGED sess \/ SessChange
    /\ UNCHANGED charge \/ ChargeChange
    /\ UNCHANGED inbox \/ InboxChange
    /\ UNCHANGED job \/ JobChange

\* Each table and each provider fact of RegistrationPayment has the writers listed above.
LEMMA Frame == ASSUME Next PROVE Framed
<1> USE DEF Framed, RegChange, LapsedChange, PayChange, PrepChange, AttemptChange,
                SlotsChange, CheckoutChange, SessChange, ChargeChange, InboxChange, JobChange,
                rowVars, provVars
<1>1. ASSUME CloseEvent \/ ReopenEvent \/ Sweep PROVE Framed
  BY <1>1 DEF ReopenEvent, CloseEvent, Sweep
<1>2. ASSUME NEW r \in Regs, CheckoutStep(r) PROVE Framed
  BY <1>2 DEF CheckoutStep, Request, ExpireLapsedRow, InsertRegistration, InsertRefused,
         InsertPayment, CreateCheckout, ReleaseRejected, BindSession, CheckoutDies
<1>3. ASSUME NEW w \in Workers, ConfirmStep(w) PROVE Framed
  BY <1>3 DEF ConfirmStep, Observe, ConfirmPaid, ConfirmRefused, MarkConflict, Settle
<1>4. ASSUME NEW w \in Workers, DispatchStep(w) PROVE Framed
  BY <1>4 DEF DispatchStep, DispatchCreate, DispatchAttach, DispatchRestore
<1>5. ASSUME NEW w \in Workers, CloseStep(w) PROVE Framed
  BY <1>5 DEF CloseStep, CloseSession, FinishExpiry, UnlockCheckout, ClaimReprice,
         CreateReplacement, ReplaceSession, RecordReplaced, ReplaceRefused, DiscardReplacement
<1>6. ASSUME NEW r \in Regs, Lapse(r) \/ AdminCancel(r) \/ Refund(r) \/ ExpirePrepared(r) PROVE Framed
  BY <1>6 DEF Lapse, AdminCancel, Refund, ExpirePrepared
<1>7. ASSUME NEW w \in Workers, NEW r \in Regs,
             \/ Verify(w, r) \/ Reconcile(w, r) \/ ClaimDispatch(w, r)
             \/ PickExpiry(w, r) \/ PickRestart(w, r) \/ PickReprice(w, r)
      PROVE Framed
  BY <1>7 DEF Verify, Reconcile, ReadStoredSession, ClaimDispatch, PickExpiry, PickRestart,
         PickReprice
<1>8. ASSUME NEW w \in Workers, Webhook(w) \/ WebhookUnbound(w) \/ WorkerDies(w) PROVE Framed
  BY <1>8 DEF Webhook, WebhookUnbound, WorkerDies
<1>9. ASSUME NEW p \in Captures, Charge(p) PROVE Framed
  BY <1>9 DEF Charge
<1> QED BY <1>1, <1>2, <1>3, <1>4, <1>5, <1>6, <1>7, <1>8, <1>9 DEF Next

-----------------------------------------------------------------------------
(* Types.                                                                  *)

\* An idle worker is a call record.
LEMMA NoJobType == NoJob \in JobCall
  BY DEF NoJob, JobCall, JobPc, Session, Capture, RegStatus, CaptureState

\* Every writer of registrations.status writes a status of the enum.
LEMMA RegType == ASSUME TypeOK, RegChange PROVE reg' \in [Regs -> RegStatus]
<1>1. reg \in [Regs -> RegStatus]
  BY DEF TypeOK
<1>2. ASSUME CloseEvent \/ Sweep PROVE reg' \in [Regs -> RegStatus]
  BY <1>1, <1>2 DEF CloseEvent, Sweep, RegStatus
<1>3. ASSUME NEW r \in Regs, ExpireLapsedRow(r) \/ InsertRegistration(r) \/ ReleaseRejected(r)
      PROVE reg' \in [Regs -> RegStatus]
  BY <1>1, <1>3 DEF ExpireLapsedRow, InsertRegistration, ReleaseRejected, RegStatus
<1>4. ASSUME NEW r \in Regs, AdminCancel(r) \/ Refund(r) \/ ExpirePrepared(r)
      PROVE reg' \in [Regs -> RegStatus]
  BY <1>1, <1>4 DEF AdminCancel, Refund, ExpirePrepared, RegStatus
<1>5. ASSUME NEW w \in Workers, ConfirmPaid(w) PROVE reg' \in [Regs -> RegStatus]
  BY <1>1, <1>5 DEF ConfirmPaid, RegStatus
<1>6. ASSUME NEW w \in Workers, FinishExpiry(w) PROVE reg' \in [Regs -> RegStatus]
  <2>1. reg' = reg \/ reg' = [reg EXCEPT ![job[w].reg] = "expired"]
    BY <1>6 DEF FinishExpiry
  <2> QED BY <1>1, <2>1 DEF RegStatus
<1> QED BY <1>2, <1>3, <1>4, <1>5, <1>6 DEF RegChange

\* Every writer of the hold window leaves a Boolean.
LEMMA LapsedType == ASSUME TypeOK, LapsedChange PROVE lapsed' \in [Regs -> BOOLEAN]
<1>1. lapsed \in [Regs -> BOOLEAN]
  BY DEF TypeOK
<1> QED BY <1>1 DEF LapsedChange, CloseEvent, Sweep, ExpireLapsedRow, ReleaseRejected, Lapse,
               ExpirePrepared, ConfirmPaid, FinishExpiry

\* Every writer of discount_checkout_state writes one of its states.
LEMMA PrepType == ASSUME TypeOK, PrepChange PROVE prep' \in [Regs -> PrepState]
<1>1. prep \in [Regs -> PrepState]
  BY DEF TypeOK
<1> QED BY <1>1 DEF PrepChange, InsertPayment, ClaimDispatch, DispatchAttach, DispatchRestore,
               UnlockCheckout, PrepState

\* A reprice attempt names a session or none.
LEMMA AttemptType == ASSUME TypeOK, AttemptChange PROVE attempt' \in [Regs -> Session]
<1>1. attempt \in [Regs -> Session] /\ job \in [Workers -> JobCall]
  BY DEF TypeOK
<1> QED BY <1>1 DEF AttemptChange, ClaimReprice, RecordReplaced, DiscardReplacement, JobCall,
               Session

\* slots_taken never goes below zero: refund_registration_tx takes greatest(0, ...).
LEMMA SlotsType == ASSUME TypeOK, SlotsChange PROVE slots' \in Nat
<1>1. slots \in Nat
  BY DEF TypeOK
<1>2. ASSUME NEW r \in Regs, Refund(r) PROVE slots' \in Nat
  <2>1. slots' \in {slots, IF slots > 0 THEN slots - 1 ELSE 0}
    BY <1>2 DEF Refund
  <2> QED BY <1>1, <2>1
<1>3. ASSUME NEW w \in Workers, ConfirmPaid(w) PROVE slots' \in Nat
  <2>1. slots' = slots + 1
    BY <1>3 DEF ConfirmPaid
  <2> QED BY <1>1, <2>1
<1> QED BY <1>2, <1>3 DEF SlotsChange

\* single_capture_observe, settle and the conflict write a state of the inbox.
LEMMA InboxType == ASSUME TypeOK, InboxChange PROVE inbox' \in [Captures -> CaptureState]
<1>1. inbox \in [Captures -> CaptureState] /\ job \in [Workers -> JobCall]
  BY DEF TypeOK
<1>2. ASSUME NEW w \in Workers, MarkConflict(w) \/ Settle(w) PROVE inbox' \in [Captures -> CaptureState]
  BY <1>1, <1>2 DEF MarkConflict, Settle, CaptureState
<1>3. ASSUME NEW w \in Workers, Observe(w) PROVE inbox' \in [Captures -> CaptureState]
  <2>1. PICK p \in job[w].todo : inbox' = [inbox EXCEPT ![p] = ObservedState(job[w], p)]
    BY <1>3 DEF Observe
  <2>2. ObservedState(job[w], p) \in CaptureState
    BY <1>1, <2>1 DEF ObservedState, CaptureState, JobCall
  <2> QED BY <1>1, <2>1, <2>2
<1> QED BY <1>2, <1>3 DEF InboxChange

\* A charge is taken on a session.
LEMMA ChargeType == ASSUME TypeOK, ChargeChange PROVE charge' \in [Captures -> Session]
<1>1. charge \in [Captures -> Session]
  BY DEF TypeOK
<1> QED BY <1>1 DEF ChargeChange, Charge, Session

\* Every writer of payments leaves a well-formed row.
LEMMA PayType == ASSUME TypeOK, PayChange PROVE pay' \in [Regs -> PaymentRow]
<1> DEFINE T == pay' \in [Regs -> PaymentRow]
<1>1. /\ pay \in [Regs -> PaymentRow]
      /\ checkout \in [Regs -> CheckoutCall]
      /\ job \in [Workers -> JobCall]
  BY DEF TypeOK
<1>2. ASSUME NEW r \in Regs, InsertPayment(r) PROVE T
  BY <1>1, <1>2 DEF InsertPayment, PaymentRow, PayStatus
<1>3. ASSUME NEW r \in Regs, ReleaseRejected(r) PROVE T
  BY <1>1, <1>3 DEF ReleaseRejected, PaymentRow, PayStatus
<1>4. ASSUME NEW r \in Regs, BindSession(r) PROVE T
  BY <1>1, <1>4 DEF BindSession, PaymentRow, PayStatus, CheckoutCall
<1>5. ASSUME NEW r \in Regs, Refund(r) PROVE T
  BY <1>1, <1>5 DEF Refund, PaymentRow, PayStatus
<1>6. ASSUME NEW r \in Regs, ExpirePrepared(r) PROVE T
  BY <1>1, <1>6 DEF ExpirePrepared, PaymentRow, PayStatus
<1>7. ASSUME NEW w \in Workers, ConfirmPaid(w) PROVE T
  <2>1. pay' = [pay EXCEPT ![job[w].reg].status = "paid", ![job[w].reg].raw = job[w].first]
    BY <1>7 DEF ConfirmPaid
  <2>2. job[w].first \in Capture
    BY <1>1 DEF JobCall
  <2> QED BY <1>1, <2>1, <2>2 DEF PaymentRow, PayStatus
<1>8. ASSUME NEW w \in Workers, DispatchAttach(w) PROVE T
  BY <1>1, <1>8 DEF DispatchAttach, PaymentRow, PayStatus, JobCall, Session
<1>9. ASSUME NEW w \in Workers, FinishExpiry(w) PROVE T
  BY <1>1, <1>9 DEF FinishExpiry, PaymentRow, PayStatus
<1>10. ASSUME NEW w \in Workers, UnlockCheckout(w) PROVE T
  BY <1>1, <1>10 DEF UnlockCheckout, PaymentRow, PayStatus, JobCall, Session
<1>11. ASSUME NEW w \in Workers, ReplaceSession(w) PROVE T
  <2>1. pay' = [pay EXCEPT ![job[w].reg].ref = job[w].new]
    BY <1>11 DEF ReplaceSession
  <2>2. job[w].new \in Session
    BY <1>1 DEF JobCall
  <2> QED BY <1>1, <2>1, <2>2 DEF PaymentRow
<1> QED BY <1>2, <1>3, <1>4, <1>5, <1>6, <1>7, <1>8, <1>9, <1>10, <1>11 DEF PayChange

\* A session the provider opens has an owner.
LEMMA OpenedType ==
  ASSUME sess \in [Sessions -> SessionRow], NEW s \in Sessions, NEW r \in Regs, Opened(s, r)
  PROVE  sess' \in [Sessions -> SessionRow]
<1>1. [owner |-> r, open |-> TRUE, shown |-> FALSE] \in SessionRow
  BY DEF SessionRow
<1> QED BY <1>1 DEF Opened

\* Every provider call leaves well-formed sessions; the owner comes from the call's entry.
LEMMA SessType == ASSUME TypeOK, Owners, Calls, SessChange PROVE sess' \in [Sessions -> SessionRow]
<1> DEFINE T == sess' \in [Sessions -> SessionRow]
<1>1. sess \in [Sessions -> SessionRow]
  BY DEF TypeOK
<1>2. ASSUME NEW r \in Regs, CreateCheckout(r) PROVE T
  <2>1. UNCHANGED sess \/ \E s \in Sessions : Opened(s, r)
    BY <1>2 DEF CreateCheckout
  <2> QED BY <1>1, <2>1, OpenedType
<1>3. ASSUME NEW r \in Regs, BindSession(r) PROVE T
  BY <1>1, <1>3 DEF BindSession, SessionRow
<1>4. ASSUME NEW w \in Workers, DispatchCreate(w) PROVE T
  <2>1. job[w].reg \in Regs
    BY <1>4 DEF DispatchCreate, Calls, CallOK
  <2>2. UNCHANGED sess \/ \E s \in Sessions : Opened(s, job[w].reg)
    BY <1>4 DEF DispatchCreate
  <2> QED BY <1>1, <2>1, <2>2, OpenedType
<1>5. ASSUME NEW w \in Workers, CreateReplacement(w) PROVE T
  <2>1. job[w].reg \in Regs
    BY <1>5 DEF CreateReplacement, Calls, CallOK
  <2>2. UNCHANGED sess \/ \E s \in Sessions : Opened(s, job[w].reg)
    BY <1>5 DEF CreateReplacement
  <2> QED BY <1>1, <2>1, <2>2, OpenedType
<1>6. ASSUME NEW w \in Workers, DispatchAttach(w) PROVE T
  <2>1. UNCHANGED sess \/ sess' = [sess EXCEPT ![job[w].new].shown = TRUE]
    BY <1>6 DEF DispatchAttach
  <2> QED BY <1>1, <2>1 DEF SessionRow
<1>7. ASSUME NEW w \in Workers, CloseSession(w) PROVE T
  <2>1. UNCHANGED sess \/ ExpireSession(job[w])
    BY <1>7 DEF CloseSession
  <2> QED BY <1>1, <2>1 DEF ExpireSession, SessionRow
<1>8. ASSUME NEW w \in Workers, ReplaceSession(w) PROVE T
  BY <1>1, <1>8 DEF ReplaceSession, SessionRow
<1>9. ASSUME NEW w \in Workers, DiscardReplacement(w) PROVE T
  <2>1. UNCHANGED sess \/ sess' = [sess EXCEPT ![job[w].new].open = FALSE]
    BY <1>9 DEF DiscardReplacement
  <2> QED BY <1>1, <2>1 DEF SessionRow
<1> QED BY <1>2, <1>3, <1>4, <1>5, <1>6, <1>7, <1>8, <1>9 DEF SessChange

\* Every step of registrations-checkout leaves a well-formed request.
LEMMA CheckoutType == ASSUME TypeOK, CheckoutChange PROVE checkout' \in [Regs -> CheckoutCall]
<1>1. checkout \in [Regs -> CheckoutCall]
  BY DEF TypeOK
<1>2. PICK r \in Regs : CheckoutStep(r)
  BY DEF CheckoutChange
<1>3. CASE Request(r) \/ InsertRegistration(r)
  BY <1>1, <1>3 DEF Request, InsertRegistration, Live, CheckoutCall, CheckoutPc
<1>4. CASE ExpireLapsedRow(r)
  <2>1. checkout' = [checkout EXCEPT ![r].pc = "insert", ![r].row = None]
    BY <1>4 DEF ExpireLapsedRow
  <2>2. checkout' = [checkout EXCEPT ![r] = [checkout[r] EXCEPT !.pc = "insert", !.row = None]]
    BY <1>1, <2>1
  <2>3. [checkout[r] EXCEPT !.pc = "insert", !.row = None] \in CheckoutCall
    BY <1>1 DEF CheckoutCall, CheckoutPc
  <2> QED BY <1>1, <2>2, <2>3
<1>5. CASE InsertRefused(r)
  <2>1. \/ checkout' = [checkout EXCEPT ![r].pc = "done"]
        \/ \E q \in Regs : checkout' = [checkout EXCEPT ![r].pc = "expire_row", ![r].row = q,
                                                       ![r].retried = TRUE]
    BY <1>5 DEF InsertRefused, Live
  <2>2. CASE checkout' = [checkout EXCEPT ![r].pc = "done"]
    BY <1>1, <2>2 DEF CheckoutCall, CheckoutPc
  <2>3. ASSUME NEW q \in Regs,
               checkout' = [checkout EXCEPT ![r].pc = "expire_row", ![r].row = q, ![r].retried = TRUE]
        PROVE checkout' \in [Regs -> CheckoutCall]
    <3>1. checkout' = [checkout EXCEPT ![r] = [checkout[r] EXCEPT !.pc = "expire_row", !.row = q,
                                                                 !.retried = TRUE]]
      BY <1>1, <2>3
    <3>2. [checkout[r] EXCEPT !.pc = "expire_row", !.row = q, !.retried = TRUE] \in CheckoutCall
      BY <1>1 DEF CheckoutCall, CheckoutPc
    <3> QED BY <1>1, <3>1, <3>2
  <2> QED BY <2>1, <2>2, <2>3
<1>6. CASE InsertPayment(r) \/ ReleaseRejected(r)
  BY <1>1, <1>6 DEF InsertPayment, ReleaseRejected, CheckoutCall, CheckoutPc
<1>7. CASE CreateCheckout(r)
  BY <1>1, <1>7 DEF CreateCheckout, CheckoutCall, CheckoutPc, Session
<1>8. CASE BindSession(r)
  <2>1. checkout' = [checkout EXCEPT ![r].pc = "done", ![r].sess = None]
    BY <1>8 DEF BindSession
  <2>2. checkout' = [checkout EXCEPT ![r] = [checkout[r] EXCEPT !.pc = "done", !.sess = None]]
    BY <1>1, <2>1
  <2>3. [checkout[r] EXCEPT !.pc = "done", !.sess = None] \in CheckoutCall
    BY <1>1 DEF CheckoutCall, CheckoutPc, Session
  <2> QED BY <1>1, <2>2, <2>3
<1>9. CASE CheckoutDies(r)
  BY <1>1, <1>9 DEF CheckoutDies, NoCheckout, CheckoutCall, CheckoutPc, Session
<1> QED BY <1>2, <1>3, <1>4, <1>5, <1>6, <1>7, <1>8, <1>9 DEF CheckoutStep

-----------------------------------------------------------------------------
(* What survives every step.                                               *)

\* A session never changes the registration in its metadata.
LEMMA OwnersStay ==
  ASSUME TypeOK, [Next]_vars, NEW s \in Sessions, sess[s].owner \in Regs
  PROVE  sess'[s].owner = sess[s].owner
<1> DEFINE Kept == sess'[s].owner = sess[s].owner
<1>1. sess \in [Sessions -> SessionRow] /\ None \notin Regs
  BY PaymentAssumption DEF TypeOK
<1>2. ASSUME NEW t \in Sessions, NEW r, Opened(t, r) PROVE Kept
  BY <1>1, <1>2 DEF Opened, SessionRow
<1>3. ASSUME NEW r \in Regs, CreateCheckout(r) PROVE Kept
  BY <1>2, <1>3 DEF CreateCheckout
<1>4. ASSUME NEW r \in Regs, BindSession(r) PROVE Kept
  BY <1>1, <1>4 DEF BindSession, SessionRow
<1>5. ASSUME NEW w \in Workers, DispatchCreate(w) \/ CreateReplacement(w) PROVE Kept
  BY <1>2, <1>5 DEF DispatchCreate, CreateReplacement
<1>6. ASSUME NEW w \in Workers, DispatchAttach(w) PROVE Kept
  <2>1. UNCHANGED sess \/ sess' = [sess EXCEPT ![job[w].new].shown = TRUE]
    BY <1>6 DEF DispatchAttach
  <2> QED BY <1>1, <2>1 DEF SessionRow
<1>7. ASSUME NEW w \in Workers, CloseSession(w) PROVE Kept
  <2>1. UNCHANGED sess \/ ExpireSession(job[w])
    BY <1>7 DEF CloseSession
  <2> QED BY <1>1, <2>1 DEF ExpireSession, SessionRow
<1>8. ASSUME NEW w \in Workers, ReplaceSession(w) PROVE Kept
  BY <1>1, <1>8 DEF ReplaceSession, SessionRow
<1>9. ASSUME NEW w \in Workers, DiscardReplacement(w) PROVE Kept
  BY <1>1, <1>9 DEF DiscardReplacement, SessionRow
<1> QED BY Frame, <1>3, <1>4, <1>5, <1>6, <1>7, <1>8, <1>9 DEF Framed, SessChange, vars

\* A charge stays on its session and so with its entry.
LEMMA EntryStays ==
  ASSUME TypeOK, Owners, [Next]_vars, NEW p \in Captures, charge[p] # None
  PROVE  /\ charge'[p] = charge[p]
         /\ EntryOf(p) \in Regs
         /\ EntryOf(p)' = EntryOf(p)
<1>1. charge \in [Captures -> Session]
  BY DEF TypeOK
<1>2. charge'[p] = charge[p]
  BY <1>1, Frame DEF Framed, ChargeChange, Charge, vars
<1>3. charge[p] \in Sessions /\ sess[charge[p]].owner \in Regs
  BY <1>1 DEF Session, Owners
<1>4. sess'[charge[p]].owner = sess[charge[p]].owner
  BY <1>3, OwnersStay
<1> QED BY <1>2, <1>3, <1>4 DEF EntryOf

\* A capture filed in the inbox stays filed.
LEMMA InboxStays ==
  ASSUME TypeOK, [Next]_vars, NEW p \in Captures, inbox[p] # "none"
  PROVE  inbox'[p] # "none"
<1>1. inbox \in [Captures -> CaptureState]
  BY DEF TypeOK
<1>2. ASSUME NEW w \in Workers, Observe(w) PROVE inbox'[p] # "none"
  <2>1. PICK q \in job[w].todo : inbox' = [inbox EXCEPT ![q] = ObservedState(job[w], q)]
    BY <1>2 DEF Observe
  <2>2. q = p => ObservedState(job[w], q) # "none"
    BY DEF ObservedState
  <2> QED BY <1>1, <2>1, <2>2
<1>3. ASSUME NEW w \in Workers, MarkConflict(w) \/ Settle(w) PROVE inbox'[p] # "none"
  BY <1>1, <1>3 DEF MarkConflict, Settle
<1> QED BY Frame, <1>2, <1>3 DEF Framed, InboxChange, vars

\* While a capture on the bound session is in the inbox, none of the four writes of
\* provider_ref (bind, dispatch, restart, reprice) takes place.
LEMMA RefStays ==
  ASSUME TypeOK, Rows, Evidence, [Next]_vars, NEW p \in Captures, AtBound(p), EntryOf(p) \in Regs
  PROVE  pay'[EntryOf(p)].ref = pay[EntryOf(p)].ref
<1> DEFINE e == EntryOf(p)
           Kept == pay'[e].ref = pay[e].ref
<1>1. pay \in [Regs -> PaymentRow] /\ e \in Regs
  BY DEF TypeOK
<1>2. pay[e].ref # None /\ p \in Recorded(e)
  BY DEF AtBound, Evidence, Recorded
<1> HIDE DEF e
<1>3. ASSUME NEW r \in Regs, InsertPayment(r) PROVE Kept
  BY <1>1, <1>3 DEF InsertPayment, PaymentRow
<1>4. ASSUME NEW r \in Regs, ReleaseRejected(r) PROVE Kept
  BY <1>1, <1>4 DEF ReleaseRejected, PaymentRow
<1>5. ASSUME NEW r \in Regs, BindSession(r) PROVE Kept
  <2>1. r # e
    BY <1>2, <1>5 DEF BindSession, Rows, RowOK
  <2> QED BY <1>1, <1>5, <2>1 DEF BindSession
<1>6. ASSUME NEW r \in Regs, Refund(r) PROVE Kept
  BY <1>1, <1>6 DEF Refund, PaymentRow
<1>7. ASSUME NEW r \in Regs, ExpirePrepared(r) PROVE Kept
  BY <1>1, <1>7 DEF ExpirePrepared, PaymentRow
<1>8. ASSUME NEW w \in Workers, ConfirmPaid(w) PROVE Kept
  <2>1. pay' = [pay EXCEPT ![job[w].reg].status = "paid", ![job[w].reg].raw = job[w].first]
    BY <1>8 DEF ConfirmPaid
  <2> QED BY <1>1, <2>1 DEF PaymentRow
<1>9. ASSUME NEW w \in Workers, DispatchAttach(w) PROVE Kept
  <2>1. CASE prep[job[w].reg] = "creating"
    <3>1. job[w].reg # e
      BY <1>1, <1>2, <2>1 DEF Rows, RowOK
    <3> QED BY <1>1, <1>9, <3>1 DEF DispatchAttach
  <2>2. CASE prep[job[w].reg] # "creating"
    BY <1>9, <2>2 DEF DispatchAttach
  <2> QED BY <2>1, <2>2
<1>10. ASSUME NEW w \in Workers, FinishExpiry(w) PROVE Kept
  BY <1>1, <1>10 DEF FinishExpiry, PaymentRow
<1>11. ASSUME NEW w \in Workers, UnlockCheckout(w) PROVE Kept
  <2>1. CASE Unlockable(job[w].reg, job[w].sess)
    <3>1. job[w].reg # e
      BY <1>2, <2>1 DEF Unlockable, Untouched
    <3> QED BY <1>1, <1>11, <3>1 DEF UnlockCheckout
  <2>2. CASE ~Unlockable(job[w].reg, job[w].sess)
    BY <1>11, <2>2 DEF UnlockCheckout
  <2> QED BY <2>1, <2>2
<1>12. ASSUME NEW w \in Workers, ReplaceSession(w) PROVE Kept
  <2>1. job[w].reg # e
    BY <1>2, <1>12 DEF ReplaceSession, Replaceable, Untouched
  <2> QED BY <1>1, <1>12, <2>1 DEF ReplaceSession
<1>13. CASE UNCHANGED pay
  BY <1>13
<1>14. UNCHANGED pay \/ PayChange
  BY Frame DEF Framed, vars
<1> QED BY <1>3, <1>4, <1>5, <1>6, <1>7, <1>8, <1>9, <1>10, <1>11, <1>12, <1>13, <1>14
           DEF PayChange, e

\* A filed capture on the bound session stays one: no later call can unbind it.
LEMMA AtBoundStays ==
  ASSUME TypeOK, Owners, Rows, Evidence, [Next]_vars, NEW p \in Captures, AtBound(p)
  PROVE  AtBound(p)'
<1>1. charge[p] # None
  BY DEF AtBound, Evidence
<1>2. charge'[p] = charge[p] /\ EntryOf(p) \in Regs /\ EntryOf(p)' = EntryOf(p)
  BY <1>1, EntryStays
<1>3. pay'[EntryOf(p)].ref = pay[EntryOf(p)].ref
  BY <1>2, RefStays
<1>4. inbox'[p] # "none"
  BY InboxStays DEF AtBound
<1> QED BY <1>2, <1>3, <1>4 DEF AtBound

-----------------------------------------------------------------------------
(* Sessions and their entries.                                             *)

\* A checkout request is advanced by its own steps.
LEMMA CheckoutOwn ==
  ASSUME TypeOK, [Next]_vars, NEW r \in Regs, checkout'[r] # checkout[r]
  PROVE  CheckoutStep(r)
<1>1. checkout \in [Regs -> CheckoutCall]
  BY DEF TypeOK
<1>2. PICK q \in Regs : CheckoutStep(q)
  BY Frame DEF Framed, CheckoutChange, vars
<1>3. \E c : checkout' = [checkout EXCEPT ![q] = c]
  <2>1. CASE Request(q) \/ ExpireLapsedRow(q) \/ InsertRegistration(q)
    BY <2>1 DEF Request, ExpireLapsedRow, InsertRegistration
  <2>2. CASE InsertRefused(q)
    BY <2>2 DEF InsertRefused
  <2>3. CASE InsertPayment(q) \/ CreateCheckout(q)
    BY <2>3 DEF InsertPayment, CreateCheckout
  <2>4. CASE ReleaseRejected(q) \/ BindSession(q) \/ CheckoutDies(q)
    BY <2>4 DEF ReleaseRejected, BindSession, CheckoutDies
  <2> QED BY <1>2, <2>1, <2>2, <2>3, <2>4 DEF CheckoutStep
<1> QED BY <1>1, <1>2, <1>3

\* Only a session of an entry is ever handed out.
LEMMA NewlyShown ==
  ASSUME TypeOK, Owners, Calls, [Next]_vars, NEW s \in Sessions, sess'[s].shown
  PROVE  sess[s].owner \in Regs
<1> DEFINE Owned == sess[s].owner \in Regs
<1>1. sess \in [Sessions -> SessionRow] /\ checkout \in [Regs -> CheckoutCall] /\ job \in [Workers -> JobCall]
  BY DEF TypeOK
<1>2. sess[s].shown => Owned
  BY DEF Owners
<1>3. ASSUME NEW t \in Sessions, NEW r, Opened(t, r) PROVE Owned
  <2>1. sess'[s].shown => sess[s].shown
    BY <1>1, <1>3 DEF Opened, SessionRow
  <2> QED BY <1>2, <2>1
<1>4. CASE UNCHANGED sess
  BY <1>2, <1>4
<1>5. ASSUME NEW r \in Regs, CreateCheckout(r) PROVE Owned
  BY <1>3, <1>4, <1>5 DEF CreateCheckout
<1>6. ASSUME NEW r \in Regs, BindSession(r) PROVE Owned
  <2>1. sess' = [sess EXCEPT ![checkout[r].sess].shown = TRUE] /\ checkout[r].pc = "bind"
    BY <1>6 DEF BindSession
  <2>2. s = checkout[r].sess => sess[s].owner = r
    BY <2>1 DEF Owners
  <2>3. s # checkout[r].sess => sess[s].shown
    BY <1>1, <2>1
  <2> QED BY <1>2, <2>2, <2>3
<1>7. ASSUME NEW w \in Workers, DispatchCreate(w) \/ CreateReplacement(w) PROVE Owned
  BY <1>3, <1>4, <1>7 DEF DispatchCreate, CreateReplacement
<1>8. ASSUME NEW w \in Workers, DispatchAttach(w) \/ ReplaceSession(w) PROVE Owned
  <2>1. UNCHANGED sess \/ sess' = [sess EXCEPT ![job[w].new].shown = TRUE]
    BY <1>8 DEF DispatchAttach, ReplaceSession
  <2>2. job[w].reg \in Regs /\ job[w].new # None /\ sess[job[w].new].owner = job[w].reg
    BY <1>8 DEF DispatchAttach, ReplaceSession, Calls, CallOK
  <2>3. s # job[w].new => sess[s].shown
    BY <1>1, <2>1
  <2> QED BY <1>2, <2>2, <2>3
<1>9. ASSUME NEW w \in Workers, CloseSession(w) PROVE Owned
  <2>1. UNCHANGED sess \/ ExpireSession(job[w])
    BY <1>9 DEF CloseSession
  <2>2. sess[s].shown
    BY <1>1, <2>1 DEF ExpireSession, SessionRow
  <2> QED BY <1>2, <2>2
<1>10. ASSUME NEW w \in Workers, DiscardReplacement(w) PROVE Owned
  <2>1. sess[s].shown
    BY <1>1, <1>10 DEF DiscardReplacement, SessionRow
  <2> QED BY <1>2, <2>1
<1> QED BY Frame, <1>4, <1>5, <1>6, <1>7, <1>8, <1>9, <1>10 DEF Framed, SessChange, vars

\* Bind, dispatch and reprice bind a session that was opened for the same entry.
LEMMA RefOwned ==
  ASSUME TypeOK, Owners, Calls, [Next]_vars, NEW r \in Regs, pay'[r].ref # None
  PROVE  sess[pay'[r].ref].owner = r
<1> DEFINE Owned == sess[pay'[r].ref].owner = r
<1>1. pay \in [Regs -> PaymentRow] /\ checkout \in [Regs -> CheckoutCall] /\ job \in [Workers -> JobCall]
  BY DEF TypeOK
<1>2. CASE pay'[r].ref = pay[r].ref
  BY <1>2 DEF Owners
<1>3. ASSUME NEW q \in Regs, InsertPayment(q) \/ Refund(q) \/ ExpirePrepared(q) PROVE Owned
  <2>1. pay'[r].ref = pay[r].ref
    BY <1>1, <1>3 DEF InsertPayment, Refund, ExpirePrepared, PaymentRow
  <2> QED BY <1>2, <2>1
<1>4. ASSUME NEW q \in Regs, ReleaseRejected(q) PROVE Owned
  <2>1. pay'[r].ref = pay[r].ref
    BY <1>1, <1>4 DEF ReleaseRejected, PaymentRow
  <2> QED BY <1>2, <2>1
<1>5. ASSUME NEW q \in Regs, BindSession(q) PROVE Owned
  <2>1. pay' = [pay EXCEPT ![q].ref = checkout[q].sess] /\ checkout[q].pc = "bind"
    BY <1>5 DEF BindSession
  <2>2. q = r => pay'[r].ref = checkout[r].sess /\ sess[checkout[r].sess].owner = r
    BY <1>1, <2>1 DEF Owners, PaymentRow
  <2>3. q # r => pay'[r].ref = pay[r].ref
    BY <1>1, <2>1
  <2> QED BY <1>2, <2>2, <2>3
<1>6. ASSUME NEW w \in Workers, ConfirmPaid(w) PROVE Owned
  <2>1. pay' = [pay EXCEPT ![job[w].reg].status = "paid", ![job[w].reg].raw = job[w].first]
    BY <1>6 DEF ConfirmPaid
  <2>2. pay'[r].ref = pay[r].ref
    BY <1>1, <2>1 DEF PaymentRow
  <2> QED BY <1>2, <2>2
<1>7. ASSUME NEW w \in Workers, DispatchAttach(w) \/ ReplaceSession(w) PROVE Owned
  <2>1. UNCHANGED pay \/ pay' = [pay EXCEPT ![job[w].reg].ref = job[w].new]
    BY <1>7 DEF DispatchAttach, ReplaceSession
  <2>2. job[w].reg \in Regs /\ job[w].new # None /\ sess[job[w].new].owner = job[w].reg
    BY <1>7 DEF DispatchAttach, ReplaceSession, Calls, CallOK
  <2>3. pay'[r].ref = pay[r].ref \/ (job[w].reg = r /\ pay'[r].ref = job[w].new)
    BY <1>1, <2>1 DEF PaymentRow
  <2> QED BY <1>2, <2>2, <2>3
<1>8. ASSUME NEW w \in Workers, FinishExpiry(w) PROVE Owned
  <2>1. pay'[r].ref = pay[r].ref
    BY <1>1, <1>8 DEF FinishExpiry, PaymentRow
  <2> QED BY <1>2, <2>1
<1>9. ASSUME NEW w \in Workers, UnlockCheckout(w) PROVE Owned
  <2>1. pay'[r].ref \in {pay[r].ref, None}
    BY <1>1, <1>9 DEF UnlockCheckout, PaymentRow
  <2> QED BY <1>2, <2>1
<1>10. CASE UNCHANGED pay
  BY <1>2, <1>10
<1> QED BY Frame, <1>3, <1>4, <1>5, <1>6, <1>7, <1>8, <1>9, <1>10 DEF Framed, PayChange, vars

\* Every step keeps sessions with their entries.
LEMMA OwnersNext ==
  ASSUME TypeOK, Owners, Calls, [Next]_vars
  PROVE  Owners'
<1>1. /\ sess \in [Sessions -> SessionRow]
      /\ pay \in [Regs -> PaymentRow]
      /\ checkout \in [Regs -> CheckoutCall]
      /\ charge \in [Captures -> Session]
      /\ None \notin Regs
  BY PaymentAssumption DEF TypeOK
<1>2. ASSUME NEW s \in Sessions, sess'[s].shown PROVE sess'[s].owner \in Regs
  BY <1>2, NewlyShown, OwnersStay
<1>3. ASSUME NEW r \in Regs, pay'[r].ref # None PROVE sess'[pay'[r].ref].owner = r
  <2>1. pay' \in [Regs -> PaymentRow]
    BY <1>1, PayType, Frame DEF Framed, vars
  <2>2. pay'[r].ref \in Sessions
    BY <1>3, <2>1 DEF PaymentRow, Session
  <2>3. sess[pay'[r].ref].owner = r
    BY <1>3, RefOwned
  <2> QED BY <2>2, <2>3, OwnersStay
<1>4. ASSUME NEW r \in Regs, checkout'[r].pc = "bind"
      PROVE  checkout'[r].sess # None /\ sess'[checkout'[r].sess].owner = r
  <2>1. CASE checkout'[r] = checkout[r]
    <3>1. checkout[r].sess \in Sessions /\ sess[checkout[r].sess].owner = r
      BY <1>1, <1>4, <2>1 DEF Owners, CheckoutCall, Session
    <3> QED BY <2>1, <3>1, OwnersStay, <1>1, PaymentAssumption
  <2>2. CASE checkout'[r] # checkout[r]
    <3>1. CreateCheckout(r)
      <4>1. CheckoutStep(r)
        BY <2>2, CheckoutOwn
      <4>2. CASE Request(r) \/ ExpireLapsedRow(r) \/ InsertRegistration(r) \/ CheckoutDies(r)
        BY <1>1, <1>4, <4>2 DEF Request, ExpireLapsedRow, InsertRegistration, CheckoutDies,
               NoCheckout, CheckoutCall
      <4>3. CASE InsertRefused(r)
        <5>1. \/ checkout' = [checkout EXCEPT ![r].pc = "done"]
              \/ \E q : checkout' = [checkout EXCEPT ![r].pc = "expire_row", ![r].row = q, ![r].retried = TRUE]
          BY <4>3 DEF InsertRefused
        <5>2. ASSUME NEW q, checkout' = [checkout EXCEPT ![r].pc = "expire_row", ![r].row = q, ![r].retried = TRUE]
              PROVE  checkout'[r].pc = "expire_row"
          <6>1. checkout'[r] = [checkout[r] EXCEPT !.pc = "expire_row", !.row = q, !.retried = TRUE]
            BY <1>1, <5>2
          <6> QED BY <1>1, <6>1 DEF CheckoutCall
        <5>3. checkout' = [checkout EXCEPT ![r].pc = "done"] => checkout'[r].pc = "done"
          BY <1>1 DEF CheckoutCall
        <5> QED BY <1>4, <5>1, <5>2, <5>3
      <4>4. CASE InsertPayment(r) \/ ReleaseRejected(r) \/ BindSession(r)
        BY <1>1, <1>4, <4>4 DEF InsertPayment, ReleaseRejected, BindSession, CheckoutCall
      <4> QED BY <4>1, <4>2, <4>3, <4>4 DEF CheckoutStep
    <3>2. PICK s \in Sessions : Opened(s, r) /\ checkout' = [checkout EXCEPT ![r].pc = "bind", ![r].sess = s]
      BY <1>1, <1>4, <3>1 DEF CreateCheckout, CheckoutCall
    <3>3. checkout'[r].sess = s
      BY <1>1, <3>2 DEF CheckoutCall
    <3>4. sess'[s].owner = r
      BY <1>1, <3>2 DEF Opened
    <3> QED BY <3>2, <3>3, <3>4, PaymentAssumption
  <2> QED BY <2>1, <2>2
<1>5. ASSUME NEW p \in Captures, charge'[p] # None PROVE sess'[charge'[p]].owner \in Regs
  <2>1. CASE charge[p] # None
    <3>1. charge'[p] = charge[p] /\ charge[p] \in Sessions /\ sess[charge[p]].owner \in Regs
      BY <1>1, <2>1, EntryStays DEF Owners, Session
    <3> QED BY <3>1, OwnersStay
  <2>2. CASE charge[p] = None
    <3>1. PICK s \in Sessions : sess[s].shown /\ charge'[p] = s
      BY <1>1, <1>5, <2>2, Frame DEF Framed, ChargeChange, Charge, vars
    <3>2. sess[s].owner \in Regs
      BY <3>1 DEF Owners
    <3> QED BY <3>1, <3>2, OwnersStay
  <2> QED BY <2>1, <2>2
<1> QED BY <1>2, <1>3, <1>4, <1>5 DEF Owners

-----------------------------------------------------------------------------
(* The rows of an entry.                                                   *)

\* Every step leaves the rows of each entry in agreement.
LEMMA RowNext ==
  ASSUME TypeOK, Owners, Rows, Evidence, Calls, [Next]_vars, NEW r \in Regs
  PROVE  RowOK(r)'
<1> DEFINE Kept == RowOK(r)'
<1>1. /\ reg \in [Regs -> RegStatus]
      /\ lapsed \in [Regs -> BOOLEAN]
      /\ pay \in [Regs -> PaymentRow]
      /\ prep \in [Regs -> PrepState]
      /\ checkout \in [Regs -> CheckoutCall]
      /\ job \in [Workers -> JobCall]
  BY DEF TypeOK
<1>2. RowOK(r)
  BY DEF Rows
<1>3. ASSUME NEW q \in Regs, Request(q) PROVE Kept
  BY <1>1, <1>2, <1>3 DEF Request, RowOK, PaymentRow, CheckoutCall, rowVars, provVars
<1>4. ASSUME NEW q \in Regs, InsertRegistration(q) PROVE Kept
  BY <1>1, <1>2, <1>4 DEF InsertRegistration, RowOK, PaymentRow, CheckoutCall, rowVars, provVars
<1>5. ASSUME NEW q \in Regs, InsertRefused(q) PROVE Kept
  <2>1. checkout'[r] = checkout[r] \/ (r = q /\ checkout'[r].pc \in {"done", "expire_row"})
    <3>1. ASSUME NEW x, q = r,
                 checkout' = [checkout EXCEPT ![q].pc = "expire_row", ![q].row = x, ![q].retried = TRUE]
          PROVE  checkout'[r].pc = "expire_row"
      <4>1. checkout'[r] = [checkout[r] EXCEPT !.pc = "expire_row", !.row = x, !.retried = TRUE]
        BY <1>1, <3>1
      <4> QED BY <1>1, <4>1 DEF CheckoutCall
    <3>2. ASSUME NEW x, q # r,
                 checkout' = [checkout EXCEPT ![q].pc = "expire_row", ![q].row = x, ![q].retried = TRUE]
          PROVE  checkout'[r] = checkout[r]
      BY <1>1, <3>2
    <3>3. ASSUME checkout' = [checkout EXCEPT ![q].pc = "done"]
          PROVE  checkout'[r] = checkout[r] \/ (r = q /\ checkout'[r].pc = "done")
      BY <1>1, <3>3 DEF CheckoutCall
    <3>4. \/ checkout' = [checkout EXCEPT ![q].pc = "done"]
          \/ \E x : checkout' = [checkout EXCEPT ![q].pc = "expire_row", ![q].row = x, ![q].retried = TRUE]
      BY <1>5 DEF InsertRefused
    <3> QED BY <3>1, <3>2, <3>3, <3>4
  <2>2. checkout[q].pc = "insert" /\ UNCHANGED <<reg, lapsed, pay, prep>>
    BY <1>5 DEF InsertRefused, rowVars
  <2> QED BY <1>2, <2>1, <2>2 DEF RowOK
<1>6. ASSUME NEW q \in Regs, InsertPayment(q) PROVE Kept
  BY <1>1, <1>2, <1>6 DEF InsertPayment, RowOK, PaymentRow, CheckoutCall, rowVars, provVars
<1>7. ASSUME NEW q \in Regs, CreateCheckout(q) PROVE Kept
  BY <1>1, <1>2, <1>7 DEF CreateCheckout, RowOK, PaymentRow, CheckoutCall, rowVars, provVars
<1>8. ASSUME NEW q \in Regs, ReleaseRejected(q) PROVE Kept
  BY <1>1, <1>2, <1>8 DEF ReleaseRejected, RowOK, PaymentRow, CheckoutCall, rowVars, provVars
<1>9. ASSUME NEW q \in Regs, BindSession(q) PROVE Kept
  BY <1>1, <1>2, <1>9 DEF BindSession, RowOK, PaymentRow, CheckoutCall, rowVars, provVars
<1>10. ASSUME NEW q \in Regs, CheckoutDies(q) PROVE Kept
  BY <1>1, <1>2, <1>10 DEF CheckoutDies, RowOK, PaymentRow, CheckoutCall, rowVars, provVars
<1>11. ASSUME NEW q \in Regs, ExpireLapsedRow(q) PROVE Kept
  <2> DEFINE x == checkout[q].row
  <2>1. /\ x \in Regs /\ checkout[x].pc = "done" /\ pay[x].status = "none"
        /\ checkout[q].pc = "expire_row"
    BY <1>11 DEF ExpireLapsedRow, Rows, LapsedRowOK
  <2>2. /\ reg' = [reg EXCEPT ![x] = "expired"]
        /\ lapsed' = [lapsed EXCEPT ![x] = FALSE]
        /\ checkout' = [checkout EXCEPT ![q].pc = "insert", ![q].row = None]
        /\ UNCHANGED <<pay, prep>>
    BY <1>11 DEF ExpireLapsedRow
  <2> HIDE DEF x
  <2>3. \/ reg'[r] = reg[r] /\ lapsed'[r] = lapsed[r]
        \/ r = x /\ reg'[r] = "expired" /\ lapsed'[r] = FALSE
    BY <1>1, <2>2
  <2>4. checkout'[r] = checkout[r] \/ (r = q /\ checkout'[r].pc = "insert")
    <3>1. q # r => checkout'[r] = checkout[r]
      BY <1>1, <2>2
    <3>2. q = r => checkout'[r] = [checkout[r] EXCEPT !.pc = "insert", !.row = None]
      BY <1>1, <2>2
    <3> QED BY <1>1, <3>1, <3>2 DEF CheckoutCall
  <2> QED BY <1>2, <2>1, <2>2, <2>3, <2>4 DEF RowOK
<1>12. ASSUME NEW q \in Regs, Lapse(q) PROVE Kept
  BY <1>1, <1>2, <1>12 DEF Lapse, RowOK, PaymentRow, CheckoutCall, rowVars, provVars
<1>13. ASSUME NEW q \in Regs, AdminCancel(q) PROVE Kept
  BY <1>1, <1>2, <1>13 DEF AdminCancel, RowOK, PaymentRow, CheckoutCall, rowVars, provVars
<1>14. ASSUME NEW q \in Regs, Refund(q) PROVE Kept
  <2>1. reg[q] = "paid" /\ pay[q].status = "paid" /\ UNCHANGED <<lapsed, prep, checkout>>
    BY <1>14 DEF Refund
  <2>2. CASE pay' = [pay EXCEPT ![q].status = "partially_refunded"] /\ reg' = reg
    BY <1>1, <1>2, <2>1, <2>2 DEF RowOK, PaymentRow
  <2>3. CASE pay' = [pay EXCEPT ![q].status = "refunded"] /\ reg' = [reg EXCEPT ![q] = "refunded"]
    BY <1>1, <1>2, <2>1, <2>3 DEF RowOK, PaymentRow
  <2> QED BY <1>14, <2>2, <2>3 DEF Refund
<1>15. ASSUME NEW q \in Regs, ExpirePrepared(q) PROVE Kept
  BY <1>1, <1>2, <1>15 DEF ExpirePrepared, RowOK, PaymentRow, CheckoutCall, rowVars, provVars
<1>16. ASSUME NEW w \in Workers, ConfirmPaid(w) PROVE Kept
  <2> DEFINE q == job[w].reg
  <2>1. q \in Regs /\ pay[q].ref # None
    <3>1. /\ q \in Regs /\ job[w].first \in Captures /\ AtBound(job[w].first)
          /\ EntryOf(job[w].first) = q
      BY <1>16 DEF ConfirmPaid, Calls, CallOK
    <3> QED BY <3>1 DEF AtBound, Evidence
  <2>2. /\ pay' = [pay EXCEPT ![q].status = "paid", ![q].raw = job[w].first]
        /\ reg' = [reg EXCEPT ![q] = "paid"]
        /\ lapsed' = [lapsed EXCEPT ![q] = FALSE]
        /\ UNCHANGED <<prep, checkout>>
    BY <1>16 DEF ConfirmPaid
  <2> HIDE DEF q
  <2>3. \/ pay'[r] = pay[r] /\ reg'[r] = reg[r] /\ lapsed'[r] = lapsed[r]
        \/ /\ r = q /\ reg'[r] = "paid" /\ lapsed'[r] = FALSE
           /\ pay'[r].status = "paid" /\ pay'[r].ref = pay[r].ref
    BY <1>1, <2>2 DEF PaymentRow
  <2> QED BY <1>2, <2>1, <2>2, <2>3 DEF RowOK
<1>17. ASSUME NEW w \in Workers, FinishExpiry(w) PROVE Kept
  <2> DEFINE q == job[w].reg
  <2>1. CASE Expirable(q, job[w].sess)
    <3>1. /\ reg' = [reg EXCEPT ![q] = "expired"]
          /\ lapsed' = [lapsed EXCEPT ![q] = FALSE]
          /\ pay' = [pay EXCEPT ![q].status = "failed"]
          /\ reg[q] = "pending" /\ pay[q].status = "pending"
          /\ UNCHANGED <<prep, checkout>>
      BY <1>17, <2>1 DEF FinishExpiry, Expirable, Untouched
    <3> HIDE DEF q
    <3> QED BY <1>1, <1>2, <3>1 DEF RowOK, PaymentRow
  <2>2. CASE ~Expirable(q, job[w].sess)
    BY <1>2, <1>17, <2>2 DEF FinishExpiry, RowOK
  <2> QED BY <2>1, <2>2
<1>18. ASSUME NEW w \in Workers, DispatchAttach(w) PROVE Kept
  <2> DEFINE q == job[w].reg
             t == job[w].new
  <2>1. CASE prep[q] = "creating"
    <3>1. /\ pay' = [pay EXCEPT ![q].ref = t]
          /\ prep' = [prep EXCEPT ![q] = "ready"]
          /\ checkout[q].pc = "done" /\ pay[q].status # "none"
          /\ UNCHANGED <<reg, lapsed, checkout>>
      BY <1>18, <2>1 DEF DispatchAttach, Calls, CallOK
    <3> HIDE DEF q, t
    <3> QED BY <1>1, <1>2, <3>1 DEF RowOK, PaymentRow
  <2>2. CASE prep[q] # "creating"
    BY <1>2, <1>18, <2>2 DEF DispatchAttach, RowOK
  <2> QED BY <2>1, <2>2
<1>19. ASSUME NEW w \in Workers, DispatchRestore(w) PROVE Kept
  BY <1>1, <1>2, <1>19 DEF DispatchRestore, RowOK, PaymentRow, JobCall, Calls, CallOK,
         rowVars, provVars
<1>20. ASSUME NEW w \in Workers, UnlockCheckout(w) PROVE Kept
  <2> DEFINE q == job[w].reg
  <2>1. CASE Unlockable(q, job[w].sess)
    <3>1. /\ pay' = [pay EXCEPT ![q].ref = None]
          /\ prep' = [prep EXCEPT ![q] = "prepared"]
          /\ pay[q].status = "pending" /\ pay[q].ref # None
          /\ UNCHANGED <<reg, lapsed, checkout>>
      BY <1>20, <2>1 DEF UnlockCheckout, Unlockable, Untouched, Calls, CallOK
    <3> HIDE DEF q
    <3> QED BY <1>1, <1>2, <3>1 DEF RowOK, PaymentRow
  <2>2. CASE ~Unlockable(q, job[w].sess)
    BY <1>2, <1>20, <2>2 DEF UnlockCheckout, RowOK
  <2> QED BY <2>1, <2>2
<1>21. ASSUME NEW w \in Workers, ReplaceSession(w) PROVE Kept
  <2> DEFINE q == job[w].reg
             t == job[w].new
  <2>1. /\ pay' = [pay EXCEPT ![q].ref = t]
        /\ pay[q].status = "pending" /\ pay[q].ref # None
        /\ UNCHANGED <<reg, lapsed, prep, checkout>>
    BY <1>21 DEF ReplaceSession, Replaceable, Untouched, Calls, CallOK
  <2> HIDE DEF q, t
  <2> QED BY <1>1, <1>2, <2>1 DEF RowOK, PaymentRow
<1>22. CASE CloseEvent
  BY <1>1, <1>2, <1>22 DEF CloseEvent, RowOK, LapsedPending
<1>23. CASE Sweep
  BY <1>1, <1>2, <1>23 DEF Sweep, RowOK, LapsedPending
<1>24. ASSUME NEW w \in Workers, NEW q \in Regs, ClaimDispatch(w, q) PROVE Kept
  BY <1>1, <1>2, <1>24 DEF ClaimDispatch, RowOK
<1>25. CASE UNCHANGED <<reg, lapsed, pay, prep, checkout>>
  BY <1>2, <1>25 DEF RowOK
<1>26. \/ UNCHANGED <<reg, lapsed, pay, prep, checkout>>
       \/ RegChange \/ LapsedChange \/ PayChange \/ PrepChange \/ CheckoutChange
  BY Frame DEF Framed, vars
<1> QED BY <1>3, <1>4, <1>5, <1>6, <1>7, <1>8, <1>9, <1>10, <1>11, <1>12, <1>13, <1>14, <1>15,
           <1>16, <1>17, <1>18,
           <1>19, <1>20, <1>21, <1>22, <1>23, <1>24, <1>25, <1>26
        DEF RegChange, LapsedChange, PayChange, PrepChange, CheckoutChange, CheckoutStep

\* A request that ended takes no further step.
LEMMA DoneStays ==
  ASSUME TypeOK, [Next]_vars, NEW r \in Regs, checkout[r].pc = "done"
  PROVE  checkout'[r] = checkout[r]
<1>1. CheckoutStep(r) => FALSE
  BY DEF CheckoutStep, Request, ExpireLapsedRow, InsertRegistration, InsertRefused,
         InsertPayment,
         CreateCheckout, ReleaseRejected, BindSession, CheckoutDies
<1> QED BY <1>1, CheckoutOwn

\* The payments row appears in one step of the request and never disappears.
LEMMA PaymentBegins ==
  ASSUME TypeOK, Rows, Evidence, Calls, [Next]_vars, NEW r \in Regs, checkout[r].pc # "payment"
  PROVE  pay'[r].status = "none" <=> pay[r].status = "none"
<1> DEFINE Same == pay'[r].status = "none" <=> pay[r].status = "none"
<1>1. pay \in [Regs -> PaymentRow]
  BY DEF TypeOK
<1>11. CASE UNCHANGED pay
  BY <1>11
<1>2. ASSUME NEW q \in Regs, InsertPayment(q) PROVE Same
  BY <1>1, <1>2 DEF InsertPayment, PaymentRow
<1>3. ASSUME NEW q \in Regs, ReleaseRejected(q) PROVE Same
  BY <1>1, <1>3 DEF ReleaseRejected, PaymentRow
<1>4. ASSUME NEW q \in Regs, BindSession(q) PROVE Same
  BY <1>1, <1>4 DEF BindSession, PaymentRow
<1>5. ASSUME NEW q \in Regs, Refund(q) PROVE Same
  BY <1>1, <1>5 DEF Refund, PaymentRow
<1>6. ASSUME NEW q \in Regs, ExpirePrepared(q) PROVE Same
  BY <1>1, <1>6 DEF ExpirePrepared, PaymentRow
<1>7. ASSUME NEW w \in Workers, ConfirmPaid(w) PROVE Same
  <2> DEFINE q == job[w].reg
  <2>1. q \in Regs /\ pay[q].ref # None
    BY <1>7 DEF ConfirmPaid, Calls, CallOK, AtBound, Evidence
  <2>2. pay' = [pay EXCEPT ![q].status = "paid", ![q].raw = job[w].first]
    BY <1>7 DEF ConfirmPaid
  <2>3. pay[q].status # "none"
    BY <2>1 DEF Rows, RowOK
  <2> HIDE DEF q
  <2>4. q = r => pay'[r].status = "paid"
    BY <1>1, <2>2 DEF PaymentRow
  <2>5. q # r => pay'[r] = pay[r]
    BY <1>1, <2>2
  <2> QED BY <2>3, <2>4, <2>5
<1>8. ASSUME NEW w \in Workers, DispatchAttach(w) \/ UnlockCheckout(w) PROVE Same
  <2> DEFINE Bound(s) == pay' = [pay EXCEPT ![job[w].reg].ref = s]
  <2>1. UNCHANGED pay \/ Bound(job[w].new) \/ Bound(None)
    BY <1>8 DEF DispatchAttach, UnlockCheckout
  <2>2. ASSUME NEW s, Bound(s) PROVE Same
    BY <1>1, <2>2 DEF PaymentRow
  <2> QED BY <1>11, <2>1, <2>2
<1>9. ASSUME NEW w \in Workers, ReplaceSession(w) PROVE Same
  <2>1. pay' = [pay EXCEPT ![job[w].reg].ref = job[w].new]
    BY <1>9 DEF ReplaceSession
  <2> QED BY <1>1, <2>1 DEF PaymentRow
<1>10. ASSUME NEW w \in Workers, FinishExpiry(w) PROVE Same
  <2>1. \/ UNCHANGED pay
        \/ pay[job[w].reg].status # "none" /\ pay' = [pay EXCEPT ![job[w].reg].status = "failed"]
    BY <1>10 DEF FinishExpiry, Expirable, Untouched
  <2> QED BY <1>1, <2>1 DEF PaymentRow
<1>12. UNCHANGED pay \/ PayChange
  BY Frame DEF Framed, vars
<1> QED BY <1>2, <1>3, <1>4, <1>5, <1>6, <1>7, <1>8, <1>9, <1>10, <1>11, <1>12 DEF PayChange

\* A row picked to be expired by id gets no payment before it is.
LEMMA LapsedRowNext ==
  ASSUME TypeOK, Rows, Evidence, Calls, [Next]_vars, NEW r \in Regs
  PROVE  LapsedRowOK(r)'
<1>1. checkout \in [Regs -> CheckoutCall]
  BY DEF TypeOK
<1>2. ASSUME NEW x \in Regs, checkout[x].pc = "done", pay[x].status = "none"
      PROVE  checkout'[x].pc = "done" /\ pay'[x].status = "none"
  BY <1>2, DoneStays, PaymentBegins
<1>3. CASE checkout'[r] = checkout[r]
  <2>1. SUFFICES ASSUME checkout[r].pc = "expire_row"
                 PROVE  /\ checkout[r].row \in Regs
                        /\ checkout'[checkout[r].row].pc = "done"
                        /\ pay'[checkout[r].row].status = "none"
    BY <1>3 DEF LapsedRowOK
  <2> QED BY <1>2, <2>1 DEF Rows, LapsedRowOK
<1>4. ASSUME checkout'[r] # checkout[r], checkout'[r].pc = "expire_row"
      PROVE  \E q \in Regs : LapsedPending(q) /\ checkout'[r].row = q
  <2>1. CheckoutStep(r)
    BY <1>4, CheckoutOwn
  <2>2. \/ Request(r) \/ InsertRefused(r)
    <3>1. CASE ExpireLapsedRow(r)
      <4>1. checkout'[r] = [checkout[r] EXCEPT !.pc = "insert", !.row = None]
        BY <1>1, <3>1 DEF ExpireLapsedRow
      <4> QED BY <1>1, <1>4, <4>1 DEF CheckoutCall
    <3>2. CASE InsertRegistration(r) \/ InsertPayment(r) \/ ReleaseRejected(r) \/ CheckoutDies(r)
      BY <1>1, <1>4, <3>2 DEF InsertRegistration, InsertPayment, ReleaseRejected,
             CheckoutDies, NoCheckout, CheckoutCall
    <3>3. CASE BindSession(r)
      <4>1. checkout'[r] = [checkout[r] EXCEPT !.pc = "done", !.sess = None]
        BY <1>1, <3>3 DEF BindSession
      <4> QED BY <1>1, <1>4, <4>1 DEF CheckoutCall
    <3>4. CASE CreateCheckout(r)
      BY <1>1, <1>4, <3>4 DEF CreateCheckout, CheckoutCall
    <3> QED BY <2>1, <3>1, <3>2, <3>3, <3>4 DEF CheckoutStep
  <2>3. CASE Request(r)
    BY <1>1, <1>4, <2>3 DEF Request, Live, CheckoutCall
  <2>4. CASE InsertRefused(r)
    <3>1. \/ checkout' = [checkout EXCEPT ![r].pc = "done"]
          \/ \E q \in Regs : /\ LapsedPending(q)
                             /\ checkout' = [checkout EXCEPT ![r].pc = "expire_row", ![r].row = q, ![r].retried = TRUE]
      BY <2>4 DEF InsertRefused, Live
    <3>2. checkout' = [checkout EXCEPT ![r].pc = "done"] => checkout'[r].pc = "done"
      BY <1>1 DEF CheckoutCall
    <3>3. PICK q \in Regs : /\ LapsedPending(q)
                            /\ checkout' = [checkout EXCEPT ![r].pc = "expire_row", ![r].row = q, ![r].retried = TRUE]
      BY <1>4, <3>1, <3>2
    <3>4. checkout'[r] = [checkout[r] EXCEPT !.pc = "expire_row", !.row = q, !.retried = TRUE]
      BY <1>1, <3>3
    <3> QED BY <1>1, <3>3, <3>4 DEF CheckoutCall
  <2> QED BY <2>2, <2>3, <2>4
<1>5. ASSUME NEW q \in Regs, LapsedPending(q) PROVE checkout[q].pc = "done" /\ pay[q].status = "none"
  BY <1>5 DEF LapsedPending, Rows, RowOK
<1>6. CASE checkout'[r] # checkout[r]
  BY <1>2, <1>4, <1>5, <1>6 DEF LapsedRowOK
<1> QED BY <1>3, <1>6

\* Every step leaves all entries in order.
LEMMA RowsNext ==
  ASSUME TypeOK, Owners, Rows, Evidence, Calls, [Next]_vars
  PROVE  Rows'
BY RowNext, LapsedRowNext DEF Rows

-----------------------------------------------------------------------------
(* Tickets, live entries.                                                  *)

\* What a step may do to an entry it neither inserts, confirms nor refunds.
Settles(r) ==
    /\ reg'[r] = "paid" <=> reg[r] = "paid"
    /\ reg'[r] = "refunded" <=> reg[r] = "refunded"
    /\ reg'[r] = "pending" => reg[r] = "pending"
    /\ reg'[r] = "pending" /\ ~lapsed'[r] => ~lapsed[r]

\* An entry is inserted, confirmed, refunded, or keeps its ticket and gains no hold.
LEMMA RegMoves ==
  ASSUME TypeOK, Rows, [Next]_vars, NEW r \in Regs
  PROVE  \/ InsertRegistration(r)
         \/ \E w \in Workers : ConfirmPaid(w) /\ job[w].reg = r
         \/ Refund(r)
         \/ Settles(r)
<1>1. reg \in [Regs -> RegStatus] /\ lapsed \in [Regs -> BOOLEAN]
  BY DEF TypeOK
<1>2. CASE CloseEvent \/ Sweep
  BY <1>1, <1>2 DEF CloseEvent, Sweep, LapsedPending, Settles
<1>3. ASSUME NEW q \in Regs, ExpireLapsedRow(q) PROVE Settles(r)
  <2> DEFINE x == checkout[q].row
  <2>1. x \in Regs /\ reg[x] \notin {"paid", "refunded"}
    BY <1>3 DEF ExpireLapsedRow, Rows, LapsedRowOK, RowOK
  <2>2. reg' = [reg EXCEPT ![x] = "expired"] /\ lapsed' = [lapsed EXCEPT ![x] = FALSE]
    BY <1>3 DEF ExpireLapsedRow
  <2> HIDE DEF x
  <2> QED BY <1>1, <2>1, <2>2 DEF Settles
<1>4. ASSUME NEW q \in Regs, InsertRegistration(q), q # r PROVE Settles(r)
  BY <1>1, <1>4 DEF InsertRegistration, Settles
<1>5. ASSUME NEW q \in Regs, ReleaseRejected(q) \/ AdminCancel(q) \/ ExpirePrepared(q) PROVE Settles(r)
  BY <1>1, <1>5 DEF ReleaseRejected, AdminCancel, ExpirePrepared, Settles
<1>6. ASSUME NEW q \in Regs, Refund(q), q # r PROVE Settles(r)
  BY <1>1, <1>6 DEF Refund, Settles
<1>7. ASSUME NEW q \in Regs, Lapse(q) PROVE Settles(r)
  BY <1>1, <1>7 DEF Lapse, Settles
<1>8. ASSUME NEW w \in Workers, ConfirmPaid(w), job[w].reg # r PROVE Settles(r)
  <2>1. reg' = [reg EXCEPT ![job[w].reg] = "paid"] /\ lapsed' = [lapsed EXCEPT ![job[w].reg] = FALSE]
    BY <1>8 DEF ConfirmPaid
  <2> QED BY <1>1, <1>8, <2>1 DEF Settles
<1>9. ASSUME NEW w \in Workers, FinishExpiry(w) PROVE Settles(r)
  <2>1. \/ UNCHANGED <<reg, lapsed>>
        \/ /\ reg[job[w].reg] = "pending"
           /\ reg' = [reg EXCEPT ![job[w].reg] = "expired"]
           /\ lapsed' = [lapsed EXCEPT ![job[w].reg] = FALSE]
    BY <1>9 DEF FinishExpiry, Expirable
  <2> QED BY <1>1, <2>1 DEF Settles
<1>10. CASE UNCHANGED <<reg, lapsed>>
  BY <1>10 DEF Settles
<1>11. UNCHANGED <<reg, lapsed>> \/ RegChange \/ LapsedChange
  BY Frame DEF Framed, vars
<1> QED BY <1>2, <1>3, <1>4, <1>5, <1>6, <1>7, <1>8, <1>9, <1>10, <1>11
           DEF RegChange, LapsedChange

\* The capture named by the ledger row is written by confirm_payment_tx only.
LEMMA RawMoves ==
  ASSUME TypeOK, [Next]_vars, NEW r \in Regs
  PROVE  \/ \E w \in Workers : ConfirmPaid(w) /\ job[w].reg = r
         \/ pay'[r].raw = pay[r].raw
<1> DEFINE Same == pay'[r].raw = pay[r].raw
<1>1. pay \in [Regs -> PaymentRow]
  BY DEF TypeOK
<1>2. ASSUME NEW q \in Regs, InsertPayment(q) \/ BindSession(q) \/ ExpirePrepared(q) PROVE Same
  BY <1>1, <1>2 DEF InsertPayment, BindSession, ExpirePrepared, PaymentRow
<1>3. ASSUME NEW q \in Regs, ReleaseRejected(q) PROVE Same
  BY <1>1, <1>3 DEF ReleaseRejected, PaymentRow
<1>4. ASSUME NEW q \in Regs, Refund(q) PROVE Same
  BY <1>1, <1>4 DEF Refund, PaymentRow
<1>5. ASSUME NEW w \in Workers, ConfirmPaid(w), job[w].reg # r PROVE Same
  <2>1. pay' = [pay EXCEPT ![job[w].reg].status = "paid", ![job[w].reg].raw = job[w].first]
    BY <1>5 DEF ConfirmPaid
  <2> QED BY <1>1, <1>5, <2>1
<1>6. ASSUME NEW s, NEW q, pay' = [pay EXCEPT ![q].ref = s] PROVE Same
  BY <1>1, <1>6 DEF PaymentRow
<1>7. ASSUME NEW w \in Workers, DispatchAttach(w) \/ ReplaceSession(w) PROVE Same
  <2>1. UNCHANGED pay \/ pay' = [pay EXCEPT ![job[w].reg].ref = job[w].new]
    BY <1>7 DEF DispatchAttach, ReplaceSession
  <2> QED BY <1>6, <2>1
<1>8. ASSUME NEW w \in Workers, UnlockCheckout(w) PROVE Same
  <2>1. UNCHANGED pay \/ pay' = [pay EXCEPT ![job[w].reg].ref = None]
    BY <1>8 DEF UnlockCheckout
  <2> QED BY <1>6, <2>1
<1>9. ASSUME NEW w \in Workers, FinishExpiry(w) PROVE Same
  <2>1. UNCHANGED pay \/ pay' = [pay EXCEPT ![job[w].reg].status = "failed"]
    BY <1>9 DEF FinishExpiry
  <2> QED BY <1>1, <2>1 DEF PaymentRow
<1>10. CASE UNCHANGED pay
  BY <1>10
<1>11. UNCHANGED pay \/ PayChange
  BY Frame DEF Framed, vars
<1> QED BY <1>2, <1>3, <1>4, <1>5, <1>7, <1>8, <1>9, <1>10, <1>11 DEF PayChange

\* A ticket, kept or refunded, keeps the capture that paid it.
LEMMA PaidStays ==
  ASSUME TypeOK, Rows, [Next]_vars, NEW r \in Regs, reg[r] \in {"paid", "refunded"}
  PROVE  reg'[r] \in {"paid", "refunded"} /\ pay'[r].raw = pay[r].raw
<1>1. reg \in [Regs -> RegStatus]
  BY DEF TypeOK
<1>2. ~InsertRegistration(r)
  BY DEF InsertRegistration, Rows, RowOK
<1>3. ASSUME NEW w \in Workers, ConfirmPaid(w) PROVE job[w].reg # r
  BY <1>3 DEF ConfirmPaid
<1>4. Refund(r) => reg'[r] \in {"paid", "refunded"}
  BY <1>1 DEF Refund
<1> QED BY <1>2, <1>3, <1>4, RegMoves, RawMoves DEF Settles

\* A ticket is issued by confirm_payment_tx only.
LEMMA NewTicket ==
  ASSUME TypeOK, Rows, [Next]_vars, NEW r \in Regs,
         reg[r] \notin {"paid", "refunded"}, reg'[r] \in {"paid", "refunded"}
  PROVE  \E w \in Workers : ConfirmPaid(w) /\ job[w].reg = r
<1>1. reg \in [Regs -> RegStatus]
  BY DEF TypeOK
<1>2. ~InsertRegistration(r)
  BY <1>1 DEF InsertRegistration
<1>3. ~Refund(r)
  BY DEF Refund
<1> QED BY <1>2, <1>3, RegMoves DEF Settles

\* Neither an insert nor a late confirmation gives a runner a second live entry.
LEMMA OneLiveNext ==
  ASSUME TypeOK, Rows, OneLive, [Next]_vars
  PROVE  OneLive'
<1> DEFINE L(r) == reg[r] \in {"pending", "paid"}
<1>1. reg \in [Regs -> RegStatus]
  BY DEF TypeOK
<1> SUFFICES ASSUME NEW r \in Regs, NEW q \in Regs, PassportOf[r] = PassportOf[q], L(r)', L(q)', r # q
             PROVE  FALSE
  BY DEF OneLive
<1>2. ASSUME NEW x \in Regs, NEW y \in Regs, PassportOf[x] = PassportOf[y], L(y)', x # y
      PROVE  ~InsertRegistration(x)
  <2> SUFFICES ASSUME InsertRegistration(x) PROVE FALSE
    OBVIOUS
  <2>1. reg'[y] = reg[y]
    BY <1>1, <1>2 DEF InsertRegistration
  <2>2. y \in Live(PassportOf[x])
    BY <1>2, <2>1 DEF Live
  <2> QED BY <2>2 DEF InsertRegistration
<1>3. ASSUME NEW x \in Regs, NEW y \in Regs, PassportOf[x] = PassportOf[y], L(y)', x # y,
             NEW w \in Workers, ConfirmPaid(w), job[w].reg = x
      PROVE  L(x)
  <2>1. reg' = [reg EXCEPT ![x] = "paid"]
    BY <1>3 DEF ConfirmPaid
  <2>2. reg'[y] = reg[y]
    BY <1>1, <1>3, <2>1
  <2>3. y \in Live(PassportOf[x]) \ {x}
    BY <1>3, <2>2 DEF Live
  <2> QED BY <1>3, <2>3 DEF ConfirmPaid, Superseded
<1>4. ASSUME NEW x \in Regs, NEW y \in Regs, PassportOf[x] = PassportOf[y], L(x)', L(y)', x # y
      PROVE  L(x)
  <2>1. Refund(x) => L(x)
    BY DEF Refund
  <2> QED BY <1>2, <1>3, <1>4, <2>1, RegMoves DEF Settles
<1>5. L(r) /\ L(q)
  BY <1>4
<1> QED BY <1>5 DEF OneLive

-----------------------------------------------------------------------------
(* The inbox and the ledger.                                               *)

\* The inbox states of a capture that fulfils its entry.
Fulfilling == {"observed", "settled"}

\* single_capture_observe takes capture p for the one that fulfils the entry of call w.
Accepts(w, p) ==
    LET j == job[w] IN
    /\ inbox[p] = "none" /\ Acceptable(j)
    /\ EntryOf(p) = j.reg /\ j.reg \in Regs /\ charge[p] = j.sess
    /\ inbox' = [inbox EXCEPT ![p] = inbox'[p]]
    /\ UNCHANGED <<rowVars, provVars>>
    /\ inbox'[p] = "settled" => reg[j.reg] \in {"paid", "refunded"} /\ pay[j.reg].raw = p

\* single_capture_settle settles capture p of call w.
Confirms(w, p) ==
    /\ Settle(w) /\ p = job[w].first /\ inbox[p] = "observed"
    /\ EntryOf(p) = job[w].reg /\ job[w].reg \in Regs
    /\ inbox'[p] = "settled" => SettledBy(job[w].reg, p)

\* A capture becomes fulfilling in one of these two ways.
LEMMA NewState ==
  ASSUME TypeOK, Calls, [Next]_vars, NEW p \in Captures,
         inbox'[p] # inbox[p], inbox'[p] \in Fulfilling
  PROVE  \E w \in Workers : Accepts(w, p) \/ Confirms(w, p)
<1>1. inbox \in [Captures -> CaptureState] /\ job \in [Workers -> JobCall]
  BY DEF TypeOK
<1>2. ASSUME NEW w \in Workers, Observe(w) PROVE Accepts(w, p)
  <2> DEFINE j == job[w]
  <2>1. PICK q \in j.todo : inbox' = [inbox EXCEPT ![q] = ObservedState(j, q)]
    BY <1>2 DEF Observe
  <2>2. q = p /\ inbox'[p] = ObservedState(j, p)
    BY <1>1, <2>1
  <2>3. j.reg \in Regs /\ EntryOf(p) = j.reg /\ (j.sess # None => charge[p] = j.sess)
    BY <1>2, <2>1, <2>2 DEF Observe, Calls, CallOK
  <2>4. UNCHANGED <<rowVars, provVars>>
    BY <1>2 DEF Observe
  <2>5. /\ inbox[p] = "none" /\ Acceptable(j)
        /\ inbox'[p] = "settled" => reg[j.reg] \in {"paid", "refunded"} /\ pay[j.reg].raw = p
    BY <2>2 DEF ObservedState, Fulfilling
  <2>6. charge[p] = j.sess
    BY <2>3, <2>5 DEF Acceptable
  <2> QED BY <2>1, <2>2, <2>3, <2>4, <2>5, <2>6 DEF Accepts
<1>3. ASSUME NEW w \in Workers, MarkConflict(w) PROVE FALSE
  BY <1>1, <1>3 DEF MarkConflict, Fulfilling
<1>4. ASSUME NEW w \in Workers, Settle(w) PROVE Confirms(w, p)
  <2> DEFINE q == job[w].first
             st == IF inbox[q] # "observed" THEN inbox[q]
                   ELSE IF SettledBy(job[w].reg, q) THEN "settled" ELSE "review"
  <2>1. inbox' = [inbox EXCEPT ![q] = st]
    BY <1>4 DEF Settle
  <2>2. q = p /\ inbox'[p] = st
    BY <1>1, <2>1
  <2>3. job[w].reg \in Regs /\ EntryOf(p) = job[w].reg
    BY <1>4, <2>2 DEF Settle, Calls, CallOK
  <2> QED BY <1>4, <2>2, <2>3 DEF Confirms, Fulfilling
<1> QED BY Frame, <1>2, <1>3, <1>4 DEF Framed, InboxChange, vars

\* Every step keeps the fulfilling captures on the bound session of their entry.
LEMMA EvidenceNext ==
  ASSUME TypeOK, Owners, Rows, Evidence, Calls, [Next]_vars
  PROVE  Evidence'
<1>1. inbox \in [Captures -> CaptureState]
  BY DEF TypeOK
<1>2. ASSUME NEW p \in Captures, inbox'[p] # "none" PROVE charge'[p] # None
  <2>1. CASE charge[p] # None
    BY <2>1, EntryStays
  <2>2. CASE charge[p] = None
    <3>1. inbox[p] = "none"
      BY <2>2 DEF Evidence
    <3>2. PICK w \in Workers : Observe(w) \/ MarkConflict(w) \/ Settle(w)
      BY <1>2, <3>1, Frame DEF Framed, InboxChange, vars
    <3>3. p \in job[w].todo \cup {job[w].first}
      BY <1>1, <1>2, <3>1, <3>2 DEF Observe, MarkConflict, Settle
    <3>4. EntryOf(p) \in Regs
      BY <3>2, <3>3 DEF Observe, MarkConflict, Settle, Calls, CallOK
    <3> QED BY <2>2, <3>4, PaymentAssumption DEF EntryOf
  <2> QED BY <2>1, <2>2
<1>3. ASSUME NEW p \in Captures, inbox'[p] \in {"observed", "settled"} PROVE AtBound(p)'
  <2>1. CASE inbox[p] \in {"observed", "settled"}
    BY <2>1, AtBoundStays DEF Evidence
  <2>2. CASE inbox[p] \notin {"observed", "settled"}
    <3>1. PICK w \in Workers : Accepts(w, p)
      BY <1>3, <2>2, NewState DEF Fulfilling, Confirms
    <3>2. AtBound(p)' <=> inbox'[p] # "none" /\ charge[p] = pay[EntryOf(p)].ref
      BY <3>1 DEF Accepts, AtBound, rowVars, provVars, EntryOf
    <3> QED BY <1>3, <3>1, <3>2 DEF Accepts, Acceptable
  <2> QED BY <2>1, <2>2
<1> QED BY <1>2, <1>3 DEF Evidence

\* A second capture is never taken for the fulfilling one: the first is in the inbox.
LEMMA OneCaptureNext ==
  ASSUME TypeOK, Owners, Rows, Evidence, Calls, OneCaptureFulfils, [Next]_vars
  PROVE  OneCaptureFulfils'
<1>1. inbox \in [Captures -> CaptureState]
  BY DEF TypeOK
<1> SUFFICES ASSUME NEW p \in Captures, NEW q \in Captures, p # q, EntryOf(p)' = EntryOf(q)',
                    inbox'[p] \in Fulfilling, inbox'[q] \in Fulfilling
             PROVE  FALSE
  BY DEF OneCaptureFulfils, Fulfilling
<1>2. ASSUME NEW x \in Captures, NEW y \in Captures, x # y, EntryOf(x)' = EntryOf(y)',
             inbox'[x] \in Fulfilling, inbox'[y] \in Fulfilling
      PROVE  inbox[x] \in Fulfilling
  <2> SUFFICES ASSUME inbox[x] \notin Fulfilling PROVE FALSE
    OBVIOUS
  <2>1. PICK w \in Workers : Accepts(w, x)
    BY <1>2, NewState DEF Fulfilling, Confirms
  <2>2. inbox[y] \in Fulfilling
    BY <1>1, <1>2, <2>1 DEF Accepts
  <2>3. EntryOf(y) = EntryOf(x)
    BY <1>2, <2>1 DEF Accepts, provVars, EntryOf
  <2>4. y \in Recorded(job[w].reg)
    BY <2>1, <2>2, <2>3 DEF Accepts, Recorded, Fulfilling
  <2> QED BY <2>1, <2>4 DEF Accepts, Acceptable
<1>3. inbox[p] \in Fulfilling /\ inbox[q] \in Fulfilling
  BY <1>2
<1>4. EntryOf(p)' = EntryOf(p) /\ EntryOf(q)' = EntryOf(q)
  BY <1>3, EntryStays DEF Evidence, Fulfilling
<1> QED BY <1>3, <1>4 DEF OneCaptureFulfils, Fulfilling

\* A ticket is issued on a filed capture of the bound session, and keeps it.
LEMMA TicketNext ==
  ASSUME TypeOK, Owners, Rows, Evidence, Calls, TicketHasCapture, [Next]_vars
  PROVE  TicketHasCapture'
<1>1. pay \in [Regs -> PaymentRow]
  BY DEF TypeOK
<1> SUFFICES ASSUME NEW r \in Regs, reg'[r] \in {"paid", "refunded"}
             PROVE  /\ pay'[r].raw # None /\ EntryOf(pay[r].raw)' = r
                    /\ inbox'[pay'[r].raw] # "none" /\ charge'[pay'[r].raw] = pay'[r].ref
  BY DEF TicketHasCapture
<1>2. ASSUME NEW p \in Captures, AtBound(p), EntryOf(p) = r, pay'[r].raw = p
      PROVE  /\ pay'[r].raw # None /\ EntryOf(pay[r].raw)' = r
             /\ inbox'[pay'[r].raw] # "none" /\ charge'[pay'[r].raw] = pay'[r].ref
  <2>1. AtBound(p)'
    BY <1>2, AtBoundStays
  <2>2. EntryOf(p)' = r
    BY <1>2, EntryStays DEF AtBound, Evidence
  <2>3. EntryOf(pay[r].raw)' = r
    BY <1>2, <2>2 DEF EntryOf
  <2> QED BY <1>2, <2>1, <2>2, <2>3, PaymentAssumption DEF AtBound
<1>3. CASE reg[r] \in {"paid", "refunded"}
  <2>1. pay'[r].raw = pay[r].raw
    BY <1>3, PaidStays
  <2>2. pay[r].raw \in Captures /\ AtBound(pay[r].raw) /\ EntryOf(pay[r].raw) = r
    BY <1>1, <1>3 DEF TicketHasCapture, AtBound, PaymentRow, Capture
  <2> QED BY <1>2, <2>1, <2>2
<1>4. CASE reg[r] \notin {"paid", "refunded"}
  <2>1. PICK w \in Workers : ConfirmPaid(w) /\ job[w].reg = r
    BY <1>4, NewTicket
  <2>2. pay' = [pay EXCEPT ![r].status = "paid", ![r].raw = job[w].first]
    BY <2>1 DEF ConfirmPaid
  <2>3. pay'[r].raw = job[w].first
    BY <1>1, <2>2 DEF PaymentRow
  <2>4. job[w].first \in Captures /\ AtBound(job[w].first) /\ EntryOf(job[w].first) = r
    BY <2>1 DEF ConfirmPaid, Calls, CallOK
  <2> QED BY <1>2, <2>3, <2>4
<1> QED BY <1>3, <1>4

\* A capture is settled only against the ledger row it paid, and the row keeps naming it.
LEMMA SettledNext ==
  ASSUME TypeOK, Owners, Rows, Evidence, Calls, SettledIsLedger, [Next]_vars
  PROVE  SettledIsLedger'
<1> SUFFICES ASSUME NEW p \in Captures, inbox'[p] = "settled"
             PROVE  \E r \in Regs : /\ EntryOf(p)' = r /\ pay'[r].raw = p
                                    /\ reg'[r] \in {"paid", "refunded"}
                                    /\ pay'[r].status \in {"paid", "partially_refunded", "refunded"}
  BY DEF SettledIsLedger
<1>1. \E r \in Regs : EntryOf(p) = r /\ pay[r].raw = p /\ reg[r] \in {"paid", "refunded"}
  <2>1. CASE inbox[p] = "settled"
    BY <2>1 DEF SettledIsLedger
  <2>2. CASE inbox[p] # "settled"
    <3>1. PICK w \in Workers : Accepts(w, p) \/ Confirms(w, p)
      BY <2>2, NewState DEF Fulfilling
    <3>2. CASE Accepts(w, p)
      BY <3>2 DEF Accepts
    <3>3. CASE Confirms(w, p)
      <4>1. job[w].reg \in Regs /\ EntryOf(p) = job[w].reg /\ SettledBy(job[w].reg, p)
        BY <3>3 DEF Confirms
      <4> QED BY <4>1 DEF SettledBy, Rows, RowOK
    <3> QED BY <3>1, <3>2, <3>3
  <2> QED BY <2>1, <2>2
<1>2. PICK r \in Regs : EntryOf(p) = r /\ pay[r].raw = p /\ reg[r] \in {"paid", "refunded"}
  BY <1>1
<1>3. reg'[r] \in {"paid", "refunded"} /\ pay'[r].raw = p
  BY <1>2, PaidStays
<1>4. EntryOf(p)' = r
  <2>1. charge[p] # None
    BY <1>2, PaymentAssumption DEF EntryOf
  <2> QED BY <1>2, <2>1, EntryStays
<1>5. pay'[r].status \in {"paid", "partially_refunded", "refunded"}
  BY <1>3, RowsNext DEF Rows, RowOK
<1> QED BY <1>3, <1>4, <1>5

-----------------------------------------------------------------------------
(* Places.                                                                 *)

\* Insert and confirm take a place only where one is free; refund gives it back.
LEMMA PlacesNext ==
  ASSUME TypeOK, Rows, Calls, Places, [Next]_vars
  PROVE  Places'
<1> DEFINE A == Sold \cup Held
<1>1. reg \in [Regs -> RegStatus] /\ lapsed \in [Regs -> BOOLEAN] /\ slots \in Nat /\ Capacity \in Nat
  BY PaymentAssumption DEF TypeOK
<1>2. /\ IsFiniteSet(Sold) /\ IsFiniteSet(A) /\ IsFiniteSet(Claims)
      /\ IsFiniteSet(Sold') /\ IsFiniteSet(A')
  BY PaymentAssumption, FS_Subset DEF Sold, Held, Claims
<1>3. ASSUME NEW S, IsFiniteSet(S), NEW r, Cardinality(S) < Capacity, A' \subseteq S \cup {r}
      PROVE  Cardinality(A') <= Capacity
  <2>1. Cardinality(S \cup {r}) <= Cardinality(S) + 1 /\ IsFiniteSet(S \cup {r}) /\ Cardinality(S) \in Nat
    BY <1>3, FS_AddElement, FS_CardinalityType
  <2>2. Cardinality(A') <= Cardinality(S \cup {r})
    BY <1>3, <2>1, FS_Subset
  <2>3. Cardinality(A') \in Nat /\ Cardinality(S \cup {r}) \in Nat
    BY <1>2, <2>1, FS_CardinalityType
  <2> QED BY <1>1, <1>3, <2>1, <2>2, <2>3
<1>4. A' \subseteq A => Cardinality(A') <= Capacity
  <2>1. A' \subseteq A => Cardinality(A') <= Cardinality(A)
    BY <1>2, FS_Subset
  <2>2. Cardinality(A) \in Nat /\ Cardinality(A') \in Nat /\ Cardinality(A) <= Capacity
    BY <1>2, FS_CardinalityType DEF Places
  <2> QED BY <1>1, <2>1, <2>2
<1>5. CASE \E r \in Regs : InsertRegistration(r)
  <2>1. PICK r \in Regs : InsertRegistration(r)
    BY <1>5
  <2>2. reg' = [reg EXCEPT ![r] = "pending"] /\ lapsed' = lapsed /\ slots' = slots /\ reg[r] = "none"
    BY <2>1 DEF InsertRegistration, Rows, RowOK
  <2>3. Sold' = Sold
    BY <1>1, <2>2 DEF Sold
  <2>4. A' \subseteq Claims \cup {r}
    BY <1>1, <2>2 DEF Sold, Held, Claims
  <2>5. Cardinality(Claims) < Capacity
    BY <2>1 DEF InsertRegistration
  <2>6. Cardinality(A') <= Capacity
    BY <1>2, <1>3, <2>4, <2>5
  <2> QED BY <2>2, <2>3, <2>6 DEF Places
<1>6. CASE \E w \in Workers : ConfirmPaid(w)
  <2>1. PICK w \in Workers : ConfirmPaid(w)
    BY <1>6
  <2> DEFINE r == job[w].reg
  <2>2. /\ reg' = [reg EXCEPT ![r] = "paid"] /\ lapsed' = [lapsed EXCEPT ![r] = FALSE]
        /\ slots' = slots + 1 /\ reg[r] \in {"pending", "expired"} /\ HasPlace(r) /\ r \in Regs
    BY <2>1 DEF ConfirmPaid, Calls, CallOK
  <2> HIDE DEF r
  <2>3. Sold' = Sold \cup {r} /\ r \notin Sold
    BY <1>1, <2>2 DEF Sold
  <2>4. Cardinality(Sold') = Cardinality(Sold) + 1
    BY <1>2, <2>3, FS_AddElement
  <2>5. A' \subseteq A \cup {r}
    BY <1>1, <2>2 DEF Sold, Held
  <2>6. Cardinality(A') <= Capacity
    <3>1. CASE reg[r] = "pending" /\ ~lapsed[r]
      <4>1. r \in A
        BY <2>2, <3>1 DEF Held
      <4>2. A' \subseteq A
        BY <2>5, <4>1
      <4> QED BY <1>4, <4>2
    <3>2. CASE Cardinality(Claims \ {r}) < Capacity
      <4>1. A \subseteq Claims
        BY DEF Sold, Held, Claims
      <4>2. A' \subseteq (Claims \ {r}) \cup {r}
        BY <2>5, <4>1
      <4>3. IsFiniteSet(Claims \ {r})
        BY <1>2, FS_Subset
      <4> HIDE DEF A
      <4> QED BY <1>3, <3>2, <4>2, <4>3
    <3> QED BY <2>2, <3>1, <3>2 DEF HasPlace
  <2> QED BY <2>2, <2>4, <2>6 DEF Places
<1>7. CASE \E r \in Regs : Refund(r)
  <2>1. PICK r \in Regs : Refund(r)
    BY <1>7
  <2>2. reg[r] = "paid" /\ lapsed' = lapsed
    BY <2>1 DEF Refund
  <2>3. CASE UNCHANGED <<reg, slots>>
    <3>1. Sold' = Sold /\ Held' = Held
      BY <2>2, <2>3 DEF Sold, Held
    <3> QED BY <2>3, <3>1 DEF Places
  <2>4. CASE reg' = [reg EXCEPT ![r] = "refunded"] /\ slots' = IF slots > 0 THEN slots - 1 ELSE 0
    <3>1. Sold' = Sold \ {r} /\ r \in Sold
      BY <1>1, <2>2, <2>4 DEF Sold
    <3>2. A' \subseteq A
      BY <1>1, <2>2, <2>4 DEF Sold, Held
    <3>3. Cardinality(Sold') = Cardinality(Sold) - 1
      BY <1>2, <3>1, FS_RemoveElement
    <3>4. slots > 0
      <4>1. Sold # {}
        BY <3>1
      <4>2. Cardinality(Sold) # 0
        BY <1>2, <4>1, FS_EmptySet
      <4> QED BY <1>1, <4>2 DEF Places
    <3>5. slots' = slots - 1
      BY <2>4, <3>4
    <3>6. Cardinality(A') <= Capacity
      BY <1>4, <3>2
    <3> QED BY <3>3, <3>5, <3>6 DEF Places
  <2> QED BY <2>1, <2>3, <2>4 DEF Refund
<1>8. CASE /\ ~\E r \in Regs : InsertRegistration(r) \/ Refund(r)
           /\ ~\E w \in Workers : ConfirmPaid(w)
  <2>1. ASSUME NEW r \in Regs PROVE Settles(r)
    BY <1>8, RegMoves
  <2>2. Sold' = Sold /\ A' \subseteq A
    BY <2>1 DEF Sold, Held, Settles, RegStatus
  <2>3. slots' = slots
    BY <1>8, Frame DEF Framed, SlotsChange, vars
  <2>4. Cardinality(A') <= Capacity
    BY <1>4, <2>2
  <2> QED BY <2>2, <2>3, <2>4 DEF Places
<1> QED BY <1>5, <1>6, <1>7, <1>8

-----------------------------------------------------------------------------
(* The calls in flight.                                                    *)

\* What a waiting call relies on survives every step of everyone else.
LEMMA CallStays ==
  ASSUME TypeOK, Owners, Rows, Evidence, Calls, [Next]_vars, NEW j \in JobCall, CallOK(j)
  PROVE  CallOK(j)'
<1> SUFFICES ASSUME j.pc # "idle" PROVE CallOK(j)'
  BY DEF CallOK
<1>1. /\ j.reg \in Regs /\ j.sess \in Session /\ j.new \in Session
      /\ j.first \in Capture /\ j.todo \in SUBSET Captures
  BY DEF CallOK, JobCall
<1>2. ASSUME NEW s \in Session, s # None, sess[s].owner = j.reg PROVE sess'[s].owner = j.reg
  BY <1>1, <1>2, OwnersStay DEF Session
<1>3. j.sess # None => sess'[j.sess].owner = j.reg
  BY <1>1, <1>2 DEF CallOK
<1>4. j.new # None => sess'[j.new].owner = j.reg
  BY <1>1, <1>2 DEF CallOK
<1>5. j.pc \in {"dispatch", "attach", "restore"} =>
        checkout'[j.reg].pc = "done" /\ pay'[j.reg].status # "none"
  BY <1>1, DoneStays, PaymentBegins DEF CallOK
<1>6. ASSUME NEW p \in Captures, EntryOf(p) = j.reg
      PROVE  EntryOf(p)' = j.reg /\ charge'[p] = charge[p]
  <2>1. charge[p] # None
    BY <1>1, <1>6, PaymentAssumption DEF EntryOf
  <2> QED BY <1>6, <2>1, EntryStays
<1>7. ASSUME j.pc \in {"observe", "confirm", "conflict", "settle"}
      PROVE  /\ j.first \in Captures
             /\ \A p \in j.todo \cup {j.first} : EntryOf(p)' = j.reg /\ (j.sess # None => charge'[p] = j.sess)
             /\ j.first \notin j.todo => inbox'[j.first] # "none"
             /\ j.pc # "observe" => j.first \notin j.todo
  BY <1>1, <1>6, <1>7, InboxStays DEF CallOK
<1>8. ASSUME AtBound(j.first), j.first \in Captures PROVE AtBound(j.first)'
  BY <1>8, AtBoundStays
<1>9. /\ j.pc = "observe" /\ j.first \notin j.todo /\ ~j.review => AtBound(j.first)'
      /\ j.pc = "confirm" => AtBound(j.first)'
  BY <1>8 DEF CallOK
<1>10. /\ j.pc \notin {"observe", "confirm", "conflict", "settle", "dispatch", "attach", "restore"} => j.sess # None
       /\ j.pc \in {"attach", "replace", "record", "discard"} => j.new # None
  BY DEF CallOK
<1> QED BY <1>1, <1>3, <1>4, <1>5, <1>7, <1>9, <1>10 DEF CallOK

\* Call w takes a step and is in order after it.
CallMoves(w) ==
    /\ job' = [job EXCEPT ![w] = job'[w]]
    /\ job'[w] \in JobCall
    /\ CallOK(job[w])'

\* A call may end anywhere.
LEMMA Ends ==
  ASSUME TypeOK, NEW w \in Workers, job' = [job EXCEPT ![w] = NoJob]
  PROVE  CallMoves(w)
<1>1. job'[w] = NoJob
  BY DEF TypeOK
<1>2. CallOK(job[w])'
  BY <1>1 DEF CallOK, NoJob
<1> QED BY <1>1, <1>2, NoJobType DEF CallMoves

\* A call whose next step may rely on no more than it has now is in order after it.
LEMMA Advances ==
  ASSUME TypeOK, Owners, Rows, Evidence, Calls, [Next]_vars, NEW w \in Workers, NEW n \in JobPc,
         job' = [job EXCEPT ![w].pc = n], CallOK([job[w] EXCEPT !.pc = n])
  PROVE  CallMoves(w)
<1>1. job \in [Workers -> JobCall]
  BY DEF TypeOK
<1>2. PICK k : k = [job[w] EXCEPT !.pc = n]
  OBVIOUS
<1>3. k \in JobCall /\ CallOK(k)
  BY <1>1, <1>2 DEF JobCall
<1>4. CallOK(k)'
  BY <1>3, CallStays
<1>5. job'[w] = k /\ job' = [job EXCEPT ![w] = k]
  BY <1>1, <1>2
<1>6. CallOK(job[w])'
  BY <1>4, <1>5 DEF CallOK
<1> QED BY <1>3, <1>5, <1>6 DEF CallMoves

\* A call that starts from the captures of one session is in order.
LEMMA Begins ==
  ASSUME TypeOK, NEW w \in Workers, NEW r \in Regs, NEW s \in Session, NEW ps \in SUBSET Captures,
         NEW p \in ps, NEW b \in BOOLEAN, StartConfirm(w, r, s, ps, p, b), UNCHANGED provVars,
         s # None => sess[s].owner = r /\ ps \subseteq PaidOn(s),
         \A q \in ps : EntryOf(q) = r
  PROVE  CallMoves(w)
<1> DEFINE k == [NoJob EXCEPT !.pc = "observe", !.reg = r, !.sess = s,
                !.first = p, !.todo = ps, !.sound = b, !.status = reg[r], !.ref = pay[r].ref]
<1>1. /\ reg \in [Regs -> RegStatus] /\ pay \in [Regs -> PaymentRow]
      /\ job \in [Workers -> JobCall]
  BY DEF TypeOK
<1>2. /\ k.pc = "observe" /\ k.reg = r /\ k.sess = s /\ k.new = None /\ k.first = p
      /\ k.todo = ps /\ k.review = FALSE
  BY DEF NoJob
<1>3. reg[r] \in RegStatus /\ pay[r].ref \in Session /\ p \in Captures
  BY <1>1 DEF PaymentRow
<1>4. job' = [job EXCEPT ![w] = k]
  BY DEF StartConfirm
<1>5. k \in JobCall
  <2>1. p \in Capture /\ r \in Regs \cup {None} /\ "observe" \in JobPc
    BY <1>3 DEF Capture, JobPc
  <2> QED BY <1>3, <2>1, NoJobType DEF JobCall
<1> HIDE DEF k
<1>6. job'[w] = k
  BY <1>1, <1>4
<1>7. \A q \in ps : EntryOf(q)' = r /\ (s # None => charge'[q] = s)
  BY DEF EntryOf, PaidOn, provVars
<1>8. s # None => sess'[s].owner = r
  BY DEF provVars
<1>9. CallOK(job[w])'
  BY <1>2, <1>3, <1>6, <1>7, <1>8 DEF CallOK
<1> QED BY <1>4, <1>5, <1>6, <1>9 DEF CallMoves

\* A call that had a session opened for its entry is in order.
LEMMA Opens ==
  ASSUME TypeOK, Owners, Rows, Evidence, Calls, [Next]_vars, NEW w \in Workers, NEW s \in Sessions,
         Opened(s, job[w].reg), UNCHANGED <<pay, checkout>>,
         NEW n \in {"attach", "replace"},
         job[w].pc = IF n = "attach" THEN "dispatch" ELSE "create",
         job' = [job EXCEPT ![w].pc = n, ![w].new = s]
  PROVE  CallMoves(w)
<1>1. job \in [Workers -> JobCall] /\ sess \in [Sessions -> SessionRow]
  BY DEF TypeOK
<1>2. PICK j : j = job[w]
  OBVIOUS
<1>3. j \in JobCall /\ CallOK(j)
  BY <1>1, <1>2 DEF Calls
<1>4. CallOK(j)'
  BY <1>3, CallStays
<1>5. PICK k : k = [j EXCEPT !.pc = n, !.new = s]
  OBVIOUS
<1>6. job'[w] = k /\ job' = [job EXCEPT ![w] = k]
  BY <1>1, <1>2, <1>5
<1>7. k \in JobCall
  BY <1>3, <1>5 DEF JobCall, JobPc, Session
<1>8. /\ k.pc = n /\ k.new = s /\ k.reg = j.reg /\ k.sess = j.sess /\ k.first = j.first
      /\ k.todo = j.todo /\ k.review = j.review
  BY <1>3, <1>5 DEF JobCall
<1>9. s # None /\ sess'[s].owner = j.reg
  BY <1>1, <1>2, PaymentAssumption DEF Opened
<1>10. CallOK(job[w])'
  BY <1>2, <1>4, <1>6, <1>8, <1>9 DEF CallOK
<1> QED BY <1>6, <1>7, <1>10 DEF CallMoves

\* The webhook, verify and reconcile start confirmPayment in order.
LEMMA StartMoves ==
  ASSUME Bookkeeping, NEW w \in Workers,
         \/ Webhook(w) \/ WebhookUnbound(w)
         \/ \E r \in Regs : Verify(w, r) \/ Reconcile(w, r)
  PROVE  CallMoves(w)
<1> USE DEF Bookkeeping
<1>1. charge \in [Captures -> Session] /\ pay \in [Regs -> PaymentRow] /\ sess \in [Sessions -> SessionRow]
  BY DEF TypeOK
<1>2. ASSUME NEW s \in Sessions, NEW p \in PaidOn(s)
      PROVE  EntryOf(p) = sess[s].owner /\ sess[s].owner \in Regs /\ p \in Captures
  BY <1>1, <1>2, PaymentAssumption DEF PaidOn, EntryOf, Owners
<1>3. CASE Webhook(w)
  <2>1. PICK s \in Sessions :
           \E ps \in SUBSET PaidOn(s) : \E p \in ps : \E b \in BOOLEAN :
              StartConfirm(w, sess[s].owner, s, ps, p, b)
    BY <1>3 DEF Webhook
  <2>5. PICK ps \in SUBSET PaidOn(s) : \E p \in ps : \E b \in BOOLEAN :
           StartConfirm(w, sess[s].owner, s, ps, p, b)
    BY <2>1
  <2>6. PICK p \in ps, b \in BOOLEAN : StartConfirm(w, sess[s].owner, s, ps, p, b)
    BY <2>5
  <2>2. s \in Session /\ ps \in SUBSET Captures /\ sess[s].owner \in Regs
    BY <1>2, <2>6 DEF Session, PaidOn
  <2>3. UNCHANGED provVars
    BY <1>3 DEF Webhook
  <2>4. \A q \in ps : EntryOf(q) = sess[s].owner
    BY <1>2
  <2> QED BY <2>2, <2>3, <2>4, <2>6, Begins
<1>4. CASE WebhookUnbound(w)
  <2>1. PICK p \in Captures : EntryOf(p) # None /\ StartConfirm(w, EntryOf(p), None, {p}, p, TRUE)
    BY <1>4 DEF WebhookUnbound
  <2>2. EntryOf(p) \in Regs
    BY <1>1, <2>1 DEF EntryOf, Owners
  <2>3. UNCHANGED provVars
    BY <1>4 DEF WebhookUnbound
  <2>4. None \in Session /\ {p} \in SUBSET Captures /\ p \in {p}
    BY DEF Session
  <2> QED BY <2>1, <2>2, <2>3, <2>4, Begins
<1>5. ASSUME NEW r \in Regs, ReadStoredSession(w, r) PROVE CallMoves(w)
  <2> DEFINE s == pay[r].ref
  <2>1. PICK p \in PaidOn(s), b \in BOOLEAN : StartConfirm(w, r, s, PaidOn(s), p, b)
    BY <1>5 DEF ReadStoredSession
  <2>2. s \in Sessions /\ sess[s].owner = r
    BY <1>1, <1>5 DEF ReadStoredSession, PaymentRow, Session, Owners
  <2>3. UNCHANGED provVars
    BY <1>5 DEF ReadStoredSession
  <2> HIDE DEF s
  <2>4. s \in Session /\ PaidOn(s) \in SUBSET Captures /\ \A q \in PaidOn(s) : EntryOf(q) = r
    BY <1>2, <2>2 DEF Session, PaidOn
  <2> QED BY <2>1, <2>2, <2>3, <2>4, Begins
<1> QED BY <1>3, <1>4, <1>5 DEF Verify, Reconcile

\* confirm, conflict and settle leave their call in order.
LEMMA ConfirmMoves ==
  ASSUME Bookkeeping, [Next]_vars, NEW w \in Workers,
         ConfirmPaid(w) \/ ConfirmRefused(w) \/ MarkConflict(w) \/ Settle(w)
  PROVE  CallMoves(w)
<1> USE DEF Bookkeeping
<1>1. job \in [Workers -> JobCall] /\ CallOK(job[w])
  BY DEF TypeOK, Calls
<1>2. CASE job' = [job EXCEPT ![w] = NoJob]
  BY <1>2, Ends
<1>3. ASSUME NEW n \in {"settle", "conflict"}, job' = [job EXCEPT ![w].pc = n], job[w].pc = "confirm"
      PROVE  CallMoves(w)
  <2>1. CallOK([job[w] EXCEPT !.pc = n]) /\ n \in JobPc
    BY <1>1, <1>3 DEF CallOK, JobCall, JobPc
  <2> QED BY <1>3, <2>1, Advances
<1> QED BY <1>2, <1>3 DEF ConfirmPaid, ConfirmRefused, MarkConflict, Settle

\* The create of a deferred checkout leaves its call in order.
LEMMA DispatchMoves ==
  ASSUME Bookkeeping, [Next]_vars, NEW w \in Workers, DispatchStep(w)
  PROVE  CallMoves(w)
<1> USE DEF Bookkeeping
<1>1. job \in [Workers -> JobCall] /\ CallOK(job[w])
  BY DEF TypeOK, Calls
<1>2. CASE job' = [job EXCEPT ![w] = NoJob]
  BY <1>2, Ends
<1>3. CASE job' = [job EXCEPT ![w].pc = "restore"] /\ job[w].pc = "dispatch"
  <2>1. CallOK([job[w] EXCEPT !.pc = "restore"]) /\ "restore" \in JobPc
    BY <1>1, <1>3 DEF CallOK, JobCall, JobPc
  <2> QED BY <1>3, <2>1, Advances
<1>4. ASSUME NEW s \in Sessions, Opened(s, job[w].reg), DispatchCreate(w),
             job' = [job EXCEPT ![w].pc = "attach", ![w].new = s]
      PROVE  CallMoves(w)
  <2>1. job[w].pc = "dispatch" /\ UNCHANGED <<pay, checkout>>
    BY <1>4 DEF DispatchCreate, rowVars
  <2> QED BY <1>4, <2>1, Opens
<1>5. CASE DispatchCreate(w)
  BY <1>2, <1>3, <1>4, <1>5 DEF DispatchCreate
<1> QED BY <1>2, <1>5 DEF DispatchStep, DispatchAttach, DispatchRestore

\* The claims of payment-session and of the expiry, restart and reprice workers start in order.
LEMMA ClaimMoves ==
  ASSUME Bookkeeping, [Next]_vars, NEW w \in Workers, NEW r \in Regs,
         ClaimDispatch(w, r) \/ PickExpiry(w, r) \/ PickRestart(w, r) \/ PickReprice(w, r)
  PROVE  CallMoves(w)
<1> USE DEF Bookkeeping
<1>1. job \in [Workers -> JobCall] /\ pay \in [Regs -> PaymentRow]
  BY DEF TypeOK
<1>2. ASSUME NEW k \in JobCall, job' = [job EXCEPT ![w] = k], CallOK(k)
      PROVE  CallMoves(w)
  <2>1. job'[w] = k
    BY <1>1, <1>2
  <2>2. CallOK(k)'
    BY <1>2, CallStays
  <2>3. CallOK(job[w])'
    BY <2>1, <2>2 DEF CallOK
  <2> QED BY <1>2, <2>1, <2>3 DEF CallMoves
<1>3. CASE ClaimDispatch(w, r)
  <2>1. PICK k : k = [NoJob EXCEPT !.pc = "dispatch", !.reg = r]
    OBVIOUS
  <2>2. job' = [job EXCEPT ![w] = k] /\ prep[r] = "prepared"
    BY <1>3, <2>1 DEF ClaimDispatch
  <2>3. k \in JobCall
    BY <2>1, NoJobType DEF JobCall, JobPc
  <2>4. k.pc = "dispatch" /\ k.reg = r /\ k.sess = None /\ k.new = None
    BY <2>1 DEF NoJob
  <2>5. checkout[r].pc = "done" /\ pay[r].status # "none"
    BY <2>2 DEF Rows, RowOK
  <2>6. CallOK(k)
    BY <2>4, <2>5 DEF CallOK
  <2> QED BY <1>2, <2>2, <2>3, <2>6
<1>4. ASSUME NEW n \in {"expire", "restart", "reprice"}, pay[r].ref # None,
             job' = [job EXCEPT ![w] = [NoJob EXCEPT !.pc = n, !.reg = r, !.sess = pay[r].ref]]
      PROVE  CallMoves(w)
  <2>1. PICK k : k = [NoJob EXCEPT !.pc = n, !.reg = r, !.sess = pay[r].ref]
    OBVIOUS
  <2>2. pay[r].ref \in Session /\ sess[pay[r].ref].owner = r
    BY <1>1, <1>4 DEF PaymentRow, Owners
  <2>3. k \in JobCall
    BY <2>1, <2>2, NoJobType DEF JobCall, JobPc
  <2>4. k.pc = n /\ k.reg = r /\ k.sess = pay[r].ref /\ k.new = None
    BY <2>1 DEF NoJob
  <2>5. CallOK(k)
    BY <1>4, <2>2, <2>4 DEF CallOK
  <2> QED BY <1>2, <1>4, <2>1, <2>3, <2>5
<1> QED BY <1>3, <1>4 DEF PickExpiry, PickRestart, PickReprice

\* Closing a session and the write that follows leave their call in order.
LEMMA CloseMoves ==
  ASSUME Bookkeeping, [Next]_vars, NEW w \in Workers, CloseStep(w)
  PROVE  CallMoves(w)
<1> USE DEF Bookkeeping
<1>1. job \in [Workers -> JobCall] /\ CallOK(job[w])
  BY DEF TypeOK, Calls
<1>2. CASE job' = [job EXCEPT ![w] = NoJob]
  BY <1>2, Ends
<1>3. ASSUME NEW o \in {"expire", "restart", "reprice", "claim"}, job[w].pc = o,
             NEW n \in {"finish", "unlock", "claim", "create"}, job' = [job EXCEPT ![w].pc = n]
      PROVE  CallMoves(w)
  <2>1. CallOK([job[w] EXCEPT !.pc = n]) /\ n \in JobPc
    BY <1>1, <1>3 DEF CallOK, JobCall, JobPc
  <2> QED BY <1>3, <2>1, Advances
<1>4. ASSUME job[w].pc = "replace", NEW n \in {"record", "discard"}, job' = [job EXCEPT ![w].pc = n]
      PROVE  CallMoves(w)
  <2>1. CallOK([job[w] EXCEPT !.pc = n]) /\ n \in JobPc
    BY <1>1, <1>4 DEF CallOK, JobCall, JobPc
  <2> QED BY <1>4, <2>1, Advances
<1>5. CASE CloseSession(w)
  <2> DEFINE j == job[w]
             s == job[w].sess
  <2>1. j.pc \in {"expire", "restart", "reprice"}
    BY <1>5 DEF CloseSession, AfterClose
  <2>2. j.reg \in Regs /\ s \in Sessions /\ sess[s].owner = j.reg
    BY <1>1, <2>1 DEF CallOK, JobCall, Session
  <2>3. CASE \E p \in PaidOn(s), b \in BOOLEAN : StartConfirm(w, j.reg, s, PaidOn(s), p, b) /\ UNCHANGED sess
    <3>1. PICK p \in PaidOn(s), b \in BOOLEAN : StartConfirm(w, j.reg, s, PaidOn(s), p, b)
      BY <2>3
    <3>2. UNCHANGED provVars
      BY <1>5, <2>3 DEF CloseSession, provVars
    <3>3. s \in Session /\ PaidOn(s) \in SUBSET Captures
      BY <2>2 DEF Session, PaidOn
    <3>4. \A q \in PaidOn(s) : EntryOf(q) = j.reg
      BY <2>2, PaymentAssumption DEF PaidOn, EntryOf
    <3> HIDE DEF j, s
    <3> QED BY <2>2, <3>1, <3>2, <3>3, <3>4, Begins
  <2>4. CASE job' = [job EXCEPT ![w].pc = AfterClose[j.pc]]
    <3>1. AfterClose[j.pc] \in {"finish", "unlock", "claim", "create"}
      BY <2>1 DEF AfterClose
    <3> QED BY <1>3, <2>1, <2>4, <3>1
  <2> QED BY <1>5, <2>3, <2>4 DEF CloseSession
<1>6. CASE CreateReplacement(w)
  <2>1. job[w].pc = "create" /\ UNCHANGED <<pay, checkout>>
    BY <1>6 DEF CreateReplacement, rowVars
  <2>2. ASSUME NEW s \in Sessions, Opened(s, job[w].reg), job' = [job EXCEPT ![w].pc = "replace", ![w].new = s]
        PROVE  CallMoves(w)
    BY <2>1, <2>2, Opens
  <2> QED BY <1>2, <1>6, <2>2 DEF CreateReplacement
<1>7. CASE ClaimReprice(w)
  BY <1>2, <1>3, <1>7 DEF ClaimReprice
<1>8. CASE ReplaceSession(w)
  BY <1>4, <1>8 DEF ReplaceSession
<1>9. CASE ReplaceRefused(w)
  BY <1>4, <1>9 DEF ReplaceRefused
<1>10. CASE FinishExpiry(w) \/ UnlockCheckout(w) \/ RecordReplaced(w) \/ DiscardReplacement(w)
  BY <1>2, <1>10 DEF FinishExpiry, UnlockCheckout, RecordReplaced, DiscardReplacement
<1> QED BY <1>5, <1>6, <1>7, <1>8, <1>9, <1>10 DEF CloseStep

\* A call goes on to confirm only with a first capture that was filed as fulfilling.
LEMMA ObserveMoves ==
  ASSUME Bookkeeping, [Next]_vars, NEW w \in Workers, Observe(w)
  PROVE  CallMoves(w)
<1> USE DEF Bookkeeping
<1>1. job \in [Workers -> JobCall] /\ CallOK(job[w]) /\ inbox \in [Captures -> CaptureState]
  BY DEF TypeOK, Calls
<1>2. PICK j : j = job[w]
  OBVIOUS
<1>3. j \in JobCall /\ CallOK(j) /\ j.pc = "observe"
  BY <1>1, <1>2 DEF Observe
<1>4. CallOK(j)'
  BY <1>3, CallStays
<1>5. PICK p \in j.todo :
         /\ j.first \in j.todo => p = j.first
         /\ LET st == ObservedState(j, p)
                k == [j EXCEPT !.todo = @ \ {p}, !.seen = IF p = j.first THEN st ELSE @,
                               !.review = @ \/ st \in InReview]
            IN /\ inbox' = [inbox EXCEPT ![p] = st]
               /\ job' = [job EXCEPT ![w] = IF k.todo = {} THEN AfterObserve(k) ELSE k]
  BY <1>2 DEF Observe
<1>6. PICK st : st = ObservedState(j, p)
  OBVIOUS
<1>7. PICK k : k = [j EXCEPT !.todo = j.todo \ {p}, !.seen = IF p = j.first THEN st ELSE j.seen,
                             !.review = j.review \/ st \in InReview]
  OBVIOUS
<1>8. inbox' = [inbox EXCEPT ![p] = st] /\ job' = [job EXCEPT ![w] = IF k.todo = {} THEN AfterObserve(k) ELSE k]
  BY <1>5, <1>6, <1>7
<1>9. p \in Captures /\ st \in CaptureState \ {"none"}
  BY <1>1, <1>3, <1>6 DEF JobCall, ObservedState, CaptureState
<1>10. /\ k.pc = j.pc /\ k.reg = j.reg /\ k.sess = j.sess /\ k.new = j.new /\ k.first = j.first
       /\ k.todo = j.todo \ {p} /\ k.review = (j.review \/ st \in InReview) /\ k.status = j.status
  BY <1>3, <1>7 DEF JobCall
<1>11. k \in JobCall
  <2>1. (IF p = j.first THEN st ELSE j.seen) \in CaptureState /\ (j.review \/ st \in InReview) \in BOOLEAN
    BY <1>3, <1>9 DEF JobCall
  <2>2. j.todo \ {p} \in SUBSET Captures
    BY <1>3 DEF JobCall
  <2> QED BY <1>3, <1>7, <2>1, <2>2 DEF JobCall
<1>12. j.reg \in Regs /\ j.first \in Captures
  BY <1>3 DEF CallOK
<1>13. j.first \notin k.todo => inbox'[j.first] # "none"
  BY <1>1, <1>3, <1>4, <1>8, <1>9, <1>10 DEF CallOK
<1>14. j.first \notin k.todo /\ ~k.review => AtBound(j.first)'
  <2> SUFFICES ASSUME j.first \notin k.todo, ~k.review PROVE AtBound(j.first)'
    OBVIOUS
  <2>1. CASE j.first \notin j.todo
    BY <1>3, <1>4, <1>10, <2>1 DEF CallOK
  <2>2. CASE j.first \in j.todo
    <3>1. p = j.first /\ inbox'[p] = st /\ st \in {"observed", "settled"}
      BY <1>1, <1>5, <1>8, <1>9, <1>10, <2>2 DEF InReview, CaptureState
    <3> QED BY <1>12, <3>1, EvidenceNext DEF Evidence
  <2> QED BY <2>1, <2>2
<1>15. /\ j.sess # None => sess'[j.sess].owner = j.reg
       /\ j.new # None => sess'[j.new].owner = j.reg
       /\ \A q \in k.todo \cup {j.first} : EntryOf(q)' = j.reg /\ (j.sess # None => charge'[q] = j.sess)
  BY <1>3, <1>4, <1>10 DEF CallOK
<1>16. CASE k.todo # {}
  <2>1. job'[w] = k /\ job' = [job EXCEPT ![w] = k]
    BY <1>1, <1>8, <1>16
  <2>2. CallOK(job[w])'
    BY <1>3, <1>10, <1>12, <1>13, <1>14, <1>15, <2>1 DEF CallOK
  <2> QED BY <1>11, <2>1, <2>2 DEF CallMoves
<1>17. CASE k.todo = {}
  <2>1. job' = [job EXCEPT ![w] = AfterObserve(k)]
    BY <1>8, <1>17
  <2>2. CASE AfterObserve(k) = NoJob
    BY <2>1, <2>2, Ends
  <2>3. ASSUME NEW n \in {"settle", "confirm"}, AfterObserve(k) = [k EXCEPT !.pc = n], ~k.review
        PROVE  CallMoves(w)
    <3>1. PICK l : l = [k EXCEPT !.pc = n]
      OBVIOUS
    <3>2. job'[w] = l /\ job' = [job EXCEPT ![w] = l]
      BY <1>1, <2>1, <2>3, <3>1
    <3>3. l \in JobCall
      BY <1>11, <3>1 DEF JobCall, JobPc
    <3>4. /\ l.pc = n /\ l.reg = k.reg /\ l.sess = k.sess /\ l.new = k.new /\ l.first = k.first
          /\ l.todo = k.todo
      BY <1>11, <3>1 DEF JobCall
    <3>5. CallOK(job[w])'
      BY <1>10, <1>12, <1>13, <1>14, <1>15, <1>17, <2>3, <3>2, <3>4 DEF CallOK
    <3> QED BY <3>2, <3>3, <3>5 DEF CallMoves
  <2>4. \/ AfterObserve(k) = NoJob
        \/ ~k.review /\ AfterObserve(k) = [k EXCEPT !.pc = "settle"]
        \/ ~k.review /\ AfterObserve(k) = [k EXCEPT !.pc = "confirm"]
    BY DEF AfterObserve
  <2> QED BY <2>2, <2>3, <2>4
<1> QED BY <1>16, <1>17

\* Every step leaves all calls in order.
LEMMA JobNext ==
  ASSUME Bookkeeping, [Next]_vars
  PROVE  job' \in [Workers -> JobCall] /\ Calls'
<1>1. job \in [Workers -> JobCall]
  BY DEF Bookkeeping, TypeOK
<1>2. ASSUME NEW v \in Workers, job'[v] = job[v] PROVE CallOK(job[v])'
  <2>1. PICK k : k = job[v]
    OBVIOUS
  <2>2. CallOK(k)'
    BY <1>1, <2>1, CallStays DEF Bookkeeping, Calls
  <2> QED BY <1>2, <2>1, <2>2 DEF CallOK
<1>3. CASE UNCHANGED job
  BY <1>1, <1>2, <1>3 DEF Calls
<1>4. ASSUME NEW w \in Workers, WorkerDies(w) PROVE CallMoves(w)
  BY <1>4, Ends DEF WorkerDies, Bookkeeping
<1>5. CASE \E w \in Workers : CallMoves(w)
  <2>1. PICK w \in Workers : CallMoves(w)
    BY <1>5
  <2>2. job' \in [Workers -> JobCall] /\ \A v \in Workers \ {w} : job'[v] = job[v]
    BY <1>1, <2>1 DEF CallMoves
  <2>3. ASSUME NEW v \in Workers PROVE CallOK(job[v])'
    BY <1>2, <2>1, <2>2 DEF CallMoves
  <2> QED BY <2>2, <2>3 DEF Calls
<1>6. UNCHANGED job \/ \E w \in Workers : CallMoves(w)
  BY Frame, <1>4, StartMoves, ConfirmMoves, ObserveMoves, DispatchMoves, ClaimMoves, CloseMoves
     DEF Framed, JobChange, ConfirmStep, vars
<1> QED BY <1>3, <1>5, <1>6

-----------------------------------------------------------------------------
(* The theorems.                                                           *)

\* The event is opened and closed by the organizer only.
LEMMA EventFrame == ASSUME [Next]_vars PROVE UNCHANGED eventOpen \/ CloseEvent \/ ReopenEvent
<1> DEFINE Same == UNCHANGED eventOpen
<1>1. CASE Sweep \/ UNCHANGED vars
  BY <1>1 DEF Sweep, vars
<1>2. ASSUME NEW r \in Regs, CheckoutStep(r) PROVE Same
  BY <1>2 DEF CheckoutStep, Request, ExpireLapsedRow, InsertRegistration, InsertRefused,
         InsertPayment,
              CreateCheckout, ReleaseRejected, BindSession, CheckoutDies, rowVars
<1>3. ASSUME NEW w \in Workers, ConfirmStep(w) PROVE Same
  BY <1>3 DEF ConfirmStep, Observe, ConfirmPaid, ConfirmRefused, MarkConflict, Settle, rowVars
<1>4. ASSUME NEW w \in Workers, DispatchStep(w) PROVE Same
  BY <1>4 DEF DispatchStep, DispatchCreate, DispatchAttach, DispatchRestore, rowVars
<1>5. ASSUME NEW w \in Workers, CloseStep(w) PROVE Same
  BY <1>5 DEF CloseStep, CloseSession, FinishExpiry, UnlockCheckout, ClaimReprice,
         CreateReplacement,
              ReplaceSession, RecordReplaced, ReplaceRefused, DiscardReplacement, rowVars
<1>6. ASSUME NEW r \in Regs, Lapse(r) \/ AdminCancel(r) \/ Refund(r) \/ ExpirePrepared(r) PROVE Same
  BY <1>6 DEF Lapse, AdminCancel, Refund, ExpirePrepared
<1>7. ASSUME NEW w \in Workers, NEW r \in Regs,
             \/ Verify(w, r) \/ Reconcile(w, r) \/ ClaimDispatch(w, r)
             \/ PickExpiry(w, r) \/ PickRestart(w, r) \/ PickReprice(w, r)
      PROVE  Same
  BY <1>7 DEF Verify, Reconcile, ReadStoredSession, ClaimDispatch, PickExpiry, PickRestart,
         PickReprice, rowVars
<1>8. ASSUME NEW w \in Workers, Webhook(w) \/ WebhookUnbound(w) \/ WorkerDies(w) PROVE Same
  BY <1>8 DEF Webhook, WebhookUnbound, WorkerDies, rowVars
<1>9. ASSUME NEW p \in Captures, Charge(p) PROVE Same
  BY <1>9 DEF Charge, rowVars
<1> QED BY <1>1, <1>2, <1>3, <1>4, <1>5, <1>6, <1>7, <1>8, <1>9 DEF Next

\* Every step leaves all variables in their type.
LEMMA TypeNext ==
  ASSUME Bookkeeping, [Next]_vars
  PROVE  TypeOK'
<1> USE DEF Bookkeeping
<1>1. eventOpen' \in BOOLEAN
  <2>1. eventOpen \in BOOLEAN
    BY DEF TypeOK
  <2>2. CASE CloseEvent \/ ReopenEvent
    BY <2>2 DEF CloseEvent, ReopenEvent
  <2>3. UNCHANGED eventOpen \/ CloseEvent \/ ReopenEvent
    BY EventFrame
  <2> QED BY <2>1, <2>2, <2>3
<1>2. /\ reg \in [Regs -> RegStatus] /\ lapsed \in [Regs -> BOOLEAN] /\ pay \in [Regs -> PaymentRow]
      /\ prep \in [Regs -> PrepState] /\ attempt \in [Regs -> Session] /\ slots \in Nat
      /\ checkout \in [Regs -> CheckoutCall] /\ sess \in [Sessions -> SessionRow]
      /\ charge \in [Captures -> Session] /\ inbox \in [Captures -> CaptureState]
  BY DEF TypeOK
<1>3. Framed \/ UNCHANGED vars
  BY Frame
<1>4. /\ reg' \in [Regs -> RegStatus] /\ lapsed' \in [Regs -> BOOLEAN]
      /\ pay' \in [Regs -> PaymentRow] /\ prep' \in [Regs -> PrepState]
  BY <1>2, <1>3, RegType, LapsedType, PayType, PrepType DEF Framed, vars
<1>5. attempt' \in [Regs -> Session] /\ slots' \in Nat /\ checkout' \in [Regs -> CheckoutCall]
  BY <1>2, <1>3, AttemptType, SlotsType, CheckoutType DEF Framed, vars
<1>6. /\ sess' \in [Sessions -> SessionRow] /\ charge' \in [Captures -> Session]
      /\ inbox' \in [Captures -> CaptureState]
  BY <1>2, <1>3, SessType, ChargeType, InboxType DEF Framed, vars
<1>7. job' \in [Workers -> JobCall]
  BY JobNext
<1> QED BY <1>1, <1>4, <1>5, <1>6, <1>7 DEF TypeOK

\* The invariant holds before the first request.
LEMMA Established == Init => IInv
<1> SUFFICES ASSUME Init PROVE IInv
  OBVIOUS
<1> USE DEF Init
<1>1. TypeOK
  <2>1. NoPayment \in PaymentRow /\ NoCheckout \in CheckoutCall
    BY DEF NoPayment, PaymentRow, PayStatus, Session, Capture, NoCheckout, CheckoutCall,
           CheckoutPc
  <2>2. [owner |-> None, open |-> FALSE, shown |-> FALSE] \in SessionRow
    BY DEF SessionRow
  <2>3. reg \in [Regs -> RegStatus] /\ prep \in [Regs -> PrepState] /\ inbox \in [Captures -> CaptureState]
    BY DEF RegStatus, PrepState, CaptureState
  <2>4. charge \in [Captures -> Session] /\ attempt \in [Regs -> Session]
    BY DEF Session
  <2>5. eventOpen \in BOOLEAN /\ lapsed \in [Regs -> BOOLEAN] /\ slots \in Nat
    OBVIOUS
  <2>6. pay \in [Regs -> PaymentRow] /\ checkout \in [Regs -> CheckoutCall] /\ sess \in [Sessions -> SessionRow]
    BY <2>1, <2>2
  <2>7. job \in [Workers -> JobCall]
    BY NoJobType
  <2> QED BY <2>3, <2>4, <2>5, <2>6, <2>7 DEF TypeOK
<1>2. Owners
  BY DEF Owners, NoPayment, NoCheckout
<1>3. Rows
  BY DEF Rows, RowOK, LapsedRowOK, NoPayment, NoCheckout
<1>4. Evidence
  BY DEF Evidence
<1>5. Calls
  BY DEF Calls, CallOK, NoJob
<1>6. OneLive /\ OneCaptureFulfils /\ TicketHasCapture /\ SettledIsLedger
  <2>1. /\ \A r \in Regs : reg[r] \notin {"pending", "paid", "refunded"}
        /\ \A p \in Captures : inbox[p] \notin {"observed", "settled"}
    OBVIOUS
  <2>2. OneLive
    BY <2>1 DEF OneLive
  <2>3. OneCaptureFulfils
    BY <2>1 DEF OneCaptureFulfils
  <2>4. TicketHasCapture
    BY <2>1 DEF TicketHasCapture
  <2>5. SettledIsLedger
    BY <2>1 DEF SettledIsLedger
  <2> QED BY <2>2, <2>3, <2>4, <2>5
<1>7. Places
  <2>1. Sold = {} /\ Held = {}
    BY DEF Sold, Held
  <2>2. Cardinality(Sold) = 0 /\ Cardinality(Sold \cup Held) = 0
    BY <2>1, FS_EmptySet
  <2> QED BY <2>2, PaymentAssumption DEF Places
<1> QED BY <1>1, <1>2, <1>3, <1>4, <1>5, <1>6, <1>7 DEF IInv, Bookkeeping

\* Every step of the system preserves the invariant.
LEMMA Inductive == IInv /\ [Next]_vars => IInv'
<1> SUFFICES ASSUME IInv, [Next]_vars PROVE IInv'
  OBVIOUS
<1>1. TypeOK /\ Owners /\ Rows /\ Evidence /\ Calls
  BY DEF IInv, Bookkeeping
<1>2. TypeOK' /\ Calls'
  BY <1>1, TypeNext, JobNext DEF Bookkeeping
<1>3. Owners' /\ Rows' /\ Evidence'
  BY <1>1, OwnersNext, RowsNext, EvidenceNext
<1>4. OneLive' /\ Places'
  BY <1>1, OneLiveNext, PlacesNext DEF IInv, Bookkeeping
<1>5. OneCaptureFulfils' /\ TicketHasCapture' /\ SettledIsLedger'
  BY <1>1, OneCaptureNext, TicketNext, SettledNext DEF IInv, Bookkeeping
<1> QED BY <1>2, <1>3, <1>4, <1>5 DEF IInv, Bookkeeping

\* The invariant holds in every reachable state of every instance.
THEOREM Invariance == Spec => []IInv
BY Established, Inductive, PTL DEF Spec

\* Rows, sessions, inbox entries and calls always have their type: no status outside its
\* enum, no counter below zero.
THEOREM TypeCorrect == Spec => []TypeOK
<1>1. IInv => TypeOK
  BY DEF IInv, Bookkeeping
<1> QED BY <1>1, Invariance, PTL

\* However many captures are paid, reported and redelivered, single_capture_observe lets at
\* most one fulfil a registration.
THEOREM SingleFulfilment == Spec => []OneCaptureFulfils
<1>1. IInv => OneCaptureFulfils
  BY DEF IInv, Bookkeeping
<1> QED BY <1>1, Invariance, PTL

\* confirm_payment_tx never issues a ticket that is not backed by a filed capture on the
\* session bound to the registration, although the session was compared with a snapshot.
THEOREM NoTicketWithoutCapture == Spec => []TicketHasCapture
<1>1. IInv => TicketHasCapture
  BY DEF IInv, Bookkeeping
<1> QED BY <1>1, Invariance, PTL

\* A settled inbox row and the ledger row it paid agree forever, over refunds and redeliveries.
THEOREM SettledAgreesWithLedger == Spec => []SettledIsLedger
<1>1. IInv => SettledIsLedger
  BY DEF IInv, Bookkeeping
<1> QED BY <1>1, Invariance, PTL

\* A runner never holds two tickets of one event, although confirm_payment_tx revives expired
\* entries.
THEOREM SingleTicket == Spec => []OneTicketPerRunner
<1>1. IInv => OneTicketPerRunner
  BY DEF IInv, Bookkeeping, OneLive, OneTicketPerRunner
<1> QED BY <1>1, Invariance, PTL

\* slots_taken is the number of tickets and never exceeds the capacity, although late payments
\* revive entries whose place was given away.
THEOREM NeverOversold == Spec => []PaidWithinCapacity
<1>1. IInv => PaidWithinCapacity
  <2> SUFFICES ASSUME IInv PROVE PaidWithinCapacity
    OBVIOUS
  <2>1. slots = Cardinality(Sold) /\ Cardinality(Sold \cup Held) <= Capacity /\ slots \in Nat
    BY DEF IInv, Bookkeeping, Places, TypeOK
  <2>2. IsFiniteSet(Sold \cup Held)
    BY PaymentAssumption, FS_Subset DEF Sold, Held
  <2>3. Cardinality(Sold) <= Cardinality(Sold \cup Held) /\ Cardinality(Sold \cup Held) \in Nat
    BY <2>2, FS_Subset, FS_CardinalityType
  <2>4. slots <= Capacity
    BY <2>1, <2>3, PaymentAssumption
  <2> QED BY <2>1, <2>4 DEF PaidWithinCapacity, Sold
<1> QED BY <1>1, Invariance, PTL

\* The steps that fail a payment or bind a session look for a filed capture first.
LEMMA Pins ==
  ASSUME IInv, [Next]_vars, NEW r \in Regs,
         NEW p \in Recorded(r), inbox[p] \in {"observed", "settled"}
  PROVE  pay'[r].ref = pay[r].ref /\ (pay'[r].status = "failed" => pay[r].status = "failed")
<1> DEFINE Kept == pay'[r].status = "failed" => pay[r].status = "failed"
<1>1. TypeOK /\ Rows /\ Evidence /\ pay \in [Regs -> PaymentRow]
  BY DEF IInv, Bookkeeping, TypeOK
<1>2. p \in Captures /\ EntryOf(p) = r /\ AtBound(p)
  BY <1>1 DEF Recorded, Evidence
<1>3. pay'[r].ref = pay[r].ref
  BY <1>1, <1>2, RefStays
<1>4. pay[r].ref # None
  BY <1>1, <1>2 DEF AtBound, Evidence
<1>5. ASSUME NEW q \in Regs, InsertPayment(q) PROVE Kept
  BY <1>1, <1>5 DEF InsertPayment, PaymentRow
<1>6. ASSUME NEW q \in Regs, ReleaseRejected(q) PROVE Kept
  <2>1. UNCHANGED pay \/ (q # r /\ pay' = [pay EXCEPT ![q].status = "failed"])
    BY <1>6 DEF ReleaseRejected
  <2> QED BY <1>1, <2>1
<1>7. ASSUME NEW q \in Regs, BindSession(q) PROVE Kept
  BY <1>1, <1>7 DEF BindSession, PaymentRow
<1>8. ASSUME NEW q \in Regs, Refund(q) PROVE Kept
  BY <1>1, <1>8 DEF Refund, PaymentRow
<1>9. ASSUME NEW q \in Regs, ExpirePrepared(q) PROVE Kept
  BY <1>1, <1>4, <1>9 DEF ExpirePrepared
<1>10. ASSUME NEW w \in Workers, ConfirmPaid(w) PROVE Kept
  <2>1. pay' = [pay EXCEPT ![job[w].reg].status = "paid", ![job[w].reg].raw = job[w].first]
    BY <1>10 DEF ConfirmPaid
  <2> QED BY <1>1, <2>1 DEF PaymentRow
<1>11. ASSUME NEW s, NEW q, pay' = [pay EXCEPT ![q].ref = s] PROVE Kept
  BY <1>1, <1>11 DEF PaymentRow
<1>12. ASSUME NEW w \in Workers, DispatchAttach(w) \/ ReplaceSession(w) PROVE Kept
  <2>1. UNCHANGED pay \/ pay' = [pay EXCEPT ![job[w].reg].ref = job[w].new]
    BY <1>12 DEF DispatchAttach, ReplaceSession
  <2> QED BY <1>11, <2>1
<1>13. ASSUME NEW w \in Workers, UnlockCheckout(w) PROVE Kept
  <2>1. UNCHANGED pay \/ pay' = [pay EXCEPT ![job[w].reg].ref = None]
    BY <1>13 DEF UnlockCheckout
  <2> QED BY <1>11, <2>1
<1>14. ASSUME NEW w \in Workers, FinishExpiry(w) PROVE Kept
  <2>1. UNCHANGED pay \/ (job[w].reg # r /\ pay' = [pay EXCEPT ![job[w].reg].status = "failed"])
    BY <1>14 DEF FinishExpiry, Expirable, Untouched
  <2> QED BY <1>1, <2>1
<1>15. UNCHANGED pay \/ PayChange
  BY Frame DEF Framed, vars
<1> QED BY <1>3, <1>5, <1>6, <1>7, <1>8, <1>9, <1>10, <1>12, <1>13, <1>14, <1>15 DEF PayChange

\* Once a capture fulfils an entry, no expiry, restart or reprice decided earlier fails its
\* payment or binds another session.
THEOREM CapturePins == Spec => CapturePinsEntry
<1>1. IInv /\ [Next]_vars =>
        [\A r \in Regs :
           (\E p \in Recorded(r) : inbox[p] \in {"observed", "settled"}) =>
               /\ pay'[r].ref = pay[r].ref
               /\ pay'[r].status = "failed" => pay[r].status = "failed"]_vars
  BY Pins
<1> QED BY <1>1, Invariance, PTL DEF Spec, CapturePinsEntry

-----------------------------------------------------------------------------
(* What the runner can still pay on.                                       *)

\* The session of s can be paid: its URL is out and the provider has not closed it.
Chargeable(s) == sess[s].shown /\ sess[s].open

\* Whatever the runner can pay on is the session his payments row is bound to.
ChargeableIsBound == \A s \in Sessions : Chargeable(s) => pay[sess[s].owner].ref = s

\* The steps of a call that act on the evidence that its session is closed.
ActsOnClosed == {"finish", "unlock", "claim", "create", "replace"}

\* A call that has that evidence has it for as long as it waits.
ClosedFirst == \A w \in Workers : job[w].pc \in ActsOnClosed => ~sess[job[w].sess].open

\* A payment that was given up is out of reach of the request that made it and of a deferred
\* create: neither can still hand out a session.
GivenUp ==
    \A r \in Regs : pay[r].status = "failed" =>
        checkout[r].pc = "done" /\ reg[r] # "pending" /\ prep[r] # "creating"

\* The inductive invariant of the sessions, on top of IInv.
SessionsInv == ChargeableIsBound /\ ClosedFirst /\ GivenUp /\ ReleasedIsUnchargeable

\* The provider never reopens the session of an entry.
LEMMA StaysClosed ==
  ASSUME TypeOK, [Next]_vars, NEW s \in Sessions, sess[s].owner \in Regs, ~sess[s].open
  PROVE  ~sess'[s].open
<1> DEFINE Kept == ~sess'[s].open
<1>1. sess \in [Sessions -> SessionRow] /\ None \notin Regs
  BY PaymentAssumption DEF TypeOK
<1>2. ASSUME NEW t \in Sessions, NEW r, Opened(t, r) PROVE Kept
  BY <1>1, <1>2 DEF Opened, SessionRow
<1>3. ASSUME NEW r \in Regs, CreateCheckout(r) PROVE Kept
  BY <1>2, <1>3 DEF CreateCheckout
<1>4. ASSUME NEW r \in Regs, BindSession(r) PROVE Kept
  BY <1>1, <1>4 DEF BindSession, SessionRow
<1>5. ASSUME NEW w \in Workers, DispatchCreate(w) \/ CreateReplacement(w) PROVE Kept
  BY <1>2, <1>5 DEF DispatchCreate, CreateReplacement
<1>6. ASSUME NEW w \in Workers, DispatchAttach(w) PROVE Kept
  <2>1. UNCHANGED sess \/ sess' = [sess EXCEPT ![job[w].new].shown = TRUE]
    BY <1>6 DEF DispatchAttach
  <2> QED BY <1>1, <2>1 DEF SessionRow
<1>7. ASSUME NEW w \in Workers, CloseSession(w) PROVE Kept
  <2>1. UNCHANGED sess \/ ExpireSession(job[w])
    BY <1>7 DEF CloseSession
  <2> QED BY <1>1, <2>1 DEF ExpireSession, SessionRow
<1>8. ASSUME NEW w \in Workers, ReplaceSession(w) PROVE Kept
  BY <1>1, <1>8 DEF ReplaceSession, SessionRow
<1>9. ASSUME NEW w \in Workers, DiscardReplacement(w) PROVE Kept
  BY <1>1, <1>9 DEF DiscardReplacement, SessionRow
<1> QED BY Frame, <1>3, <1>4, <1>5, <1>6, <1>7, <1>8, <1>9 DEF Framed, SessChange, vars

\* The three steps that hand a session out bind it: the request's own, the deferred create, and
\* the reprice.
HandsOut(s) ==
    \/ \E r \in Regs : BindSession(r) /\ checkout[r].sess = s /\ sess[s].owner = r
    \/ \E w \in Workers : /\ DispatchAttach(w) /\ prep[job[w].reg] = "creating"
                          /\ job[w].new = s /\ sess[s].owner = job[w].reg
    \/ \E w \in Workers : ReplaceSession(w) /\ job[w].new = s /\ sess[s].owner = job[w].reg

\* A session becomes payable only by being handed out.
LEMMA BecomesChargeable ==
  ASSUME TypeOK, Owners, Calls, [Next]_vars, NEW s \in Sessions, Chargeable(s)', ~Chargeable(s)
  PROVE  HandsOut(s)
<1>1. sess \in [Sessions -> SessionRow]
  BY DEF TypeOK
<1>2. ASSUME NEW t \in Sessions, NEW r, Opened(t, r) PROVE FALSE
  BY <1>1, <1>2 DEF Opened, SessionRow, Chargeable
<1>3. ASSUME NEW r \in Regs, CreateCheckout(r) PROVE FALSE
  BY <1>2, <1>3 DEF CreateCheckout, Chargeable
<1>4. ASSUME NEW r \in Regs, BindSession(r) PROVE HandsOut(s)
  <2>1. sess' = [sess EXCEPT ![checkout[r].sess].shown = TRUE] /\ checkout[r].pc = "bind"
    BY <1>4 DEF BindSession
  <2>2. checkout[r].sess = s
    BY <1>1, <2>1 DEF Chargeable
  <2>3. sess[s].owner = r
    BY <2>1, <2>2 DEF Owners
  <2> QED BY <1>4, <2>2, <2>3 DEF HandsOut
<1>5. ASSUME NEW w \in Workers, DispatchCreate(w) \/ CreateReplacement(w) PROVE FALSE
  BY <1>2, <1>5 DEF DispatchCreate, CreateReplacement, Chargeable
<1>6. ASSUME NEW w \in Workers, DispatchAttach(w) PROVE HandsOut(s)
  <2>1. sess' # sess
    BY DEF Chargeable
  <2>2. /\ prep[job[w].reg] = "creating" /\ job[w].pc = "attach"
        /\ sess' = [sess EXCEPT ![job[w].new].shown = TRUE]
    BY <1>6, <2>1 DEF DispatchAttach
  <2>3. job[w].new = s
    BY <1>1, <2>2 DEF Chargeable
  <2>4. sess[s].owner = job[w].reg
    BY <2>2, <2>3 DEF Calls, CallOK
  <2> QED BY <1>6, <2>2, <2>3, <2>4 DEF HandsOut
<1>7. ASSUME NEW w \in Workers, CloseSession(w) PROVE FALSE
  <2>1. UNCHANGED sess \/ ExpireSession(job[w])
    BY <1>7 DEF CloseSession
  <2> QED BY <1>1, <2>1 DEF ExpireSession, SessionRow, Chargeable
<1>8. ASSUME NEW w \in Workers, ReplaceSession(w) PROVE HandsOut(s)
  <2>1. sess' = [sess EXCEPT ![job[w].new].shown = TRUE] /\ job[w].pc = "replace"
    BY <1>8 DEF ReplaceSession
  <2>2. job[w].new = s
    BY <1>1, <2>1 DEF Chargeable
  <2>3. sess[s].owner = job[w].reg
    BY <2>1, <2>2 DEF Calls, CallOK
  <2> QED BY <1>8, <2>2, <2>3 DEF HandsOut
<1>9. ASSUME NEW w \in Workers, DiscardReplacement(w) PROVE FALSE
  BY <1>1, <1>9 DEF DiscardReplacement, SessionRow, Chargeable
<1>10. CASE UNCHANGED sess
  BY <1>10 DEF Chargeable
<1> QED BY Frame, <1>3, <1>4, <1>5, <1>6, <1>7, <1>8, <1>9, <1>10 DEF Framed, SessChange, vars

\* Whoever hands a session out binds it in the same transaction.
LEMMA HandedOutIsBound ==
  ASSUME TypeOK, Calls, [Next]_vars, NEW s \in Sessions, HandsOut(s)
  PROVE  sess[s].owner \in Regs /\ pay'[sess[s].owner].ref = s
<1>1. pay \in [Regs -> PaymentRow]
  BY DEF TypeOK
<1>2. ASSUME NEW r \in Regs, BindSession(r), checkout[r].sess = s, sess[s].owner = r
      PROVE  pay'[r].ref = s
  BY <1>1, <1>2 DEF BindSession, PaymentRow
<1>3. ASSUME NEW w \in Workers, job[w].new = s, job[w].pc \in {"attach", "replace"},
             pay' = [pay EXCEPT ![job[w].reg].ref = job[w].new]
      PROVE  job[w].reg \in Regs /\ pay'[job[w].reg].ref = s
  <2>1. job[w].reg \in Regs
    BY <1>3 DEF Calls, CallOK
  <2> QED BY <1>1, <1>3, <2>1 DEF PaymentRow
<1>4. CASE \E r \in Regs : BindSession(r) /\ checkout[r].sess = s /\ sess[s].owner = r
  BY <1>2, <1>4
<1>5. ASSUME NEW w \in Workers, DispatchAttach(w), prep[job[w].reg] = "creating", job[w].new = s
      PROVE  job[w].reg \in Regs /\ pay'[job[w].reg].ref = s
  <2>1. job[w].pc = "attach" /\ pay' = [pay EXCEPT ![job[w].reg].ref = job[w].new]
    BY <1>5 DEF DispatchAttach
  <2> QED BY <1>3, <1>5, <2>1
<1>6. ASSUME NEW w \in Workers, ReplaceSession(w), job[w].new = s
      PROVE  job[w].reg \in Regs /\ pay'[job[w].reg].ref = s
  <2>1. job[w].pc = "replace" /\ pay' = [pay EXCEPT ![job[w].reg].ref = job[w].new]
    BY <1>6 DEF ReplaceSession
  <2> QED BY <1>3, <1>6, <2>1
<1> QED BY <1>4, <1>5, <1>6 DEF HandsOut

\* A session that was bound is unbound only by the restart and the reprice, for a session that
\* was closed.
LEMMA UnboundIsClosed ==
  ASSUME TypeOK, Owners, Rows, Calls, ClosedFirst, [Next]_vars, NEW r \in Regs,
         pay[r].ref # None, pay'[r].ref # pay[r].ref
  PROVE  ~sess[pay[r].ref].open
<1> DEFINE Closed == ~sess[pay[r].ref].open
<1>1. pay \in [Regs -> PaymentRow]
  BY DEF TypeOK
<1>2. ASSUME NEW q \in Regs, InsertPayment(q) \/ ReleaseRejected(q) \/ Refund(q) \/ ExpirePrepared(q)
      PROVE  FALSE
  BY <1>1, <1>2 DEF InsertPayment, ReleaseRejected, Refund, ExpirePrepared, PaymentRow
<1>3. ASSUME NEW q \in Regs, BindSession(q) PROVE FALSE
  <2>1. q # r
    BY <1>3 DEF BindSession, Rows, RowOK
  <2> QED BY <1>1, <1>3, <2>1 DEF BindSession
<1>4. ASSUME NEW w \in Workers, ConfirmPaid(w) PROVE FALSE
  <2>1. pay' = [pay EXCEPT ![job[w].reg].status = "paid", ![job[w].reg].raw = job[w].first]
    BY <1>4 DEF ConfirmPaid
  <2> QED BY <1>1, <2>1 DEF PaymentRow
<1>5. ASSUME NEW w \in Workers, DispatchAttach(w) PROVE FALSE
  <2>1. prep[job[w].reg] = "creating" /\ pay' = [pay EXCEPT ![job[w].reg].ref = job[w].new]
    BY <1>5 DEF DispatchAttach
  <2>2. job[w].reg # r
    BY <2>1 DEF Rows, RowOK
  <2> QED BY <1>1, <2>1, <2>2
<1>6. ASSUME NEW w \in Workers, FinishExpiry(w) PROVE FALSE
  BY <1>1, <1>6 DEF FinishExpiry, PaymentRow
<1>7. ASSUME NEW w \in Workers, UnlockCheckout(w) PROVE Closed
  <2>1. /\ Unlockable(job[w].reg, job[w].sess) /\ job[w].pc = "unlock"
        /\ pay' = [pay EXCEPT ![job[w].reg].ref = None]
    BY <1>7 DEF UnlockCheckout
  <2>2. job[w].reg = r
    BY <1>1, <2>1
  <2>3. ~sess[job[w].sess].open
    BY <2>1 DEF ClosedFirst, ActsOnClosed
  <2> QED BY <2>1, <2>2, <2>3 DEF Unlockable, Untouched
<1>8. ASSUME NEW w \in Workers, ReplaceSession(w) PROVE Closed
  <2>1. /\ Replaceable(job[w].reg, job[w].sess) /\ job[w].pc = "replace"
        /\ pay' = [pay EXCEPT ![job[w].reg].ref = job[w].new]
    BY <1>8 DEF ReplaceSession
  <2>2. job[w].reg = r
    BY <1>1, <2>1
  <2>3. ~sess[job[w].sess].open
    BY <2>1 DEF ClosedFirst, ActsOnClosed
  <2> QED BY <2>1, <2>2, <2>3 DEF Replaceable, Untouched
<1>9. UNCHANGED pay \/ PayChange
  BY Frame DEF Framed, vars
<1> QED BY <1>2, <1>3, <1>4, <1>5, <1>6, <1>7, <1>8, <1>9 DEF PayChange

\* Every step leaves the payable session bound.
LEMMA BoundNext ==
  ASSUME Bookkeeping, ChargeableIsBound, ClosedFirst, [Next]_vars
  PROVE  ChargeableIsBound'
<1> USE DEF Bookkeeping
<1> SUFFICES ASSUME NEW s \in Sessions, Chargeable(s)' PROVE pay'[sess'[s].owner].ref = s
  BY DEF ChargeableIsBound
<1>1. CASE ~Chargeable(s)
  <2>1. HandsOut(s)
    BY <1>1, BecomesChargeable
  <2>2. sess[s].owner \in Regs /\ pay'[sess[s].owner].ref = s
    BY <2>1, HandedOutIsBound
  <2> QED BY <2>2, OwnersStay
<1>2. CASE Chargeable(s)
  <2>1. sess[s].owner \in Regs /\ pay[sess[s].owner].ref = s
    BY <1>2 DEF Owners, ChargeableIsBound, Chargeable
  <2>2. s # None
    BY PaymentAssumption
  <2>3. pay'[sess[s].owner].ref = s
    BY <1>2, <2>1, <2>2, UnboundIsClosed DEF Chargeable
  <2> QED BY <2>1, <2>3, OwnersStay
<1> QED BY <1>1, <1>2

\* How call w may come to act on the evidence that its session is closed: it closed it in this
\* step, or has the evidence already.
ClosedMove(w) ==
    /\ \A v \in Workers \ {w} : job'[v] = job[v]
    /\ job'[w].pc \in ActsOnClosed =>
          /\ job'[w].sess = job[w].sess
          /\ job[w].pc \in ActsOnClosed \/ ~sess'[job[w].sess].open

\* Only the close of a session lets a call act on its being closed.
LEMMA ClosedMoves ==
  ASSUME TypeOK, Calls, [Next]_vars
  PROVE  UNCHANGED job \/ \E w \in Workers : ClosedMove(w)
<1>1. job \in [Workers -> JobCall] /\ sess \in [Sessions -> SessionRow]
  BY DEF TypeOK
<1>2. ASSUME NEW w \in Workers, NEW k, job' = [job EXCEPT ![w] = k], k.pc \notin ActsOnClosed
      PROVE  ClosedMove(w)
  <2>1. job'[w] = k /\ \A v \in Workers \ {w} : job'[v] = job[v]
    BY <1>1, <1>2
  <2> QED BY <1>2, <2>1 DEF ClosedMove
<1>3. NoJob.pc \notin ActsOnClosed
  BY DEF NoJob, ActsOnClosed
<1>4. ASSUME NEW w \in Workers, job' = [job EXCEPT ![w] = NoJob] PROVE ClosedMove(w)
  BY <1>2, <1>3, <1>4
<1>5. ASSUME NEW w \in Workers, NEW r, NEW s, NEW ps, NEW p, NEW b, StartConfirm(w, r, s, ps, p, b)
      PROVE  ClosedMove(w)
  <2>1. PICK k : k = [NoJob EXCEPT !.pc = "observe", !.reg = r, !.sess = s, !.first = p, !.todo = ps,
                              !.sound = b, !.status = reg[r], !.ref = pay[r].ref]
    OBVIOUS
  <2>2. job' = [job EXCEPT ![w] = k]
    BY <1>5, <2>1 DEF StartConfirm
  <2>3. k.pc \notin ActsOnClosed
    BY <2>1 DEF NoJob, ActsOnClosed
  <2> QED BY <1>2, <2>2, <2>3
<1>6. ASSUME NEW w \in Workers, NEW n, job' = [job EXCEPT ![w].pc = n],
             n \in ActsOnClosed => job[w].pc \in ActsOnClosed \/ ~sess'[job[w].sess].open
      PROVE  ClosedMove(w)
  <2>1. job'[w] = [job[w] EXCEPT !.pc = n] /\ \A v \in Workers \ {w} : job'[v] = job[v]
    BY <1>1, <1>6
  <2>2. job'[w].pc = n /\ job'[w].sess = job[w].sess
    BY <1>1, <2>1 DEF JobCall
  <2> QED BY <1>6, <2>1, <2>2 DEF ClosedMove
<1>7. ASSUME NEW w \in Workers, Observe(w) PROVE ClosedMove(w)
  <2>1. PICK k : /\ k.pc = job[w].pc
                 /\ \/ job' = [job EXCEPT ![w] = k]
                    \/ job' = [job EXCEPT ![w] = AfterObserve(k)]
    <3>1. PICK p \in job[w].todo :
             LET st == ObservedState(job[w], p)
                 k == [job[w] EXCEPT !.todo = @ \ {p}, !.seen = IF p = job[w].first THEN st ELSE @,
                                     !.review = @ \/ st \in InReview]
             IN job' = [job EXCEPT ![w] = IF k.todo = {} THEN AfterObserve(k) ELSE k]
      BY <1>7 DEF Observe
    <3>2. PICK k : k = [job[w] EXCEPT !.todo = @ \ {p},
                               !.seen = IF p = job[w].first THEN ObservedState(job[w], p) ELSE @,
                               !.review = @ \/ ObservedState(job[w], p) \in InReview]
      OBVIOUS
    <3>3. job' = [job EXCEPT ![w] = IF k.todo = {} THEN AfterObserve(k) ELSE k]
      BY <3>1, <3>2
    <3>4. k.pc = job[w].pc
      BY <1>1, <3>2 DEF JobCall
    <3> QED BY <3>3, <3>4
  <2>2. k.pc = "observe"
    BY <1>7, <2>1 DEF Observe
  <2>3. AfterObserve(k) \in {[k EXCEPT !.pc = "settle"], [k EXCEPT !.pc = "confirm"], NoJob}
    BY DEF AfterObserve
  <2>4. ASSUME NEW n \in {"settle", "confirm"}, job' = [job EXCEPT ![w] = [k EXCEPT !.pc = n]]
        PROVE  ClosedMove(w)
    <3>1. [k EXCEPT !.pc = n].pc \notin ActsOnClosed
      BY <2>2, <2>4 DEF ActsOnClosed
    <3> QED BY <1>2, <2>4, <3>1
  <2>5. CASE job' = [job EXCEPT ![w] = k]
    <3>1. k.pc \notin ActsOnClosed
      BY <2>2 DEF ActsOnClosed
    <3> QED BY <1>2, <2>5, <3>1
  <2> QED BY <1>4, <2>1, <2>3, <2>4, <2>5
<1>8. ASSUME NEW w \in Workers, ConfirmPaid(w) \/ ConfirmRefused(w) \/ MarkConflict(w) \/ Settle(w)
      PROVE  ClosedMove(w)
  BY <1>4, <1>6, <1>8 DEF ConfirmPaid, ConfirmRefused, MarkConflict, Settle, ActsOnClosed
<1>9. ASSUME NEW w \in Workers, NEW n, NEW s, job' = [job EXCEPT ![w].pc = n, ![w].new = s],
             n \in ActsOnClosed => job[w].pc \in ActsOnClosed
      PROVE  ClosedMove(w)
  <2>1. job'[w] = [job[w] EXCEPT !.pc = n, !.new = s] /\ \A v \in Workers \ {w} : job'[v] = job[v]
    BY <1>1, <1>9
  <2>2. job'[w].pc = n /\ job'[w].sess = job[w].sess
    BY <1>1, <2>1 DEF JobCall
  <2> QED BY <1>9, <2>1, <2>2 DEF ClosedMove
<1>10. ASSUME NEW w \in Workers, DispatchStep(w) PROVE ClosedMove(w)
  BY <1>4, <1>6, <1>9, <1>10
     DEF DispatchStep, DispatchCreate, DispatchAttach, DispatchRestore, ActsOnClosed
<1>11. ASSUME NEW w \in Workers, CloseSession(w) PROVE ClosedMove(w)
  <2>1. CASE ExpireSession(job[w]) /\ job' = [job EXCEPT ![w].pc = AfterClose[job[w].pc]]
    <3>1. job[w].pc \in {"expire", "restart", "reprice"}
      BY <1>11 DEF CloseSession, AfterClose
    <3>2. job[w].sess \in Sessions
      BY <1>1, <3>1 DEF Calls, CallOK, JobCall, Session
    <3>3. ~sess'[job[w].sess].open
      BY <1>1, <2>1, <3>2 DEF ExpireSession, SessionRow
    <3> QED BY <1>6, <2>1, <3>3
  <2> QED BY <1>5, <1>11, <2>1 DEF CloseSession
<1>12. ASSUME NEW w \in Workers, CloseStep(w), ~CloseSession(w) PROVE ClosedMove(w)
  <2>1. CASE ClaimReprice(w) \/ FinishExpiry(w) \/ UnlockCheckout(w) \/ RecordReplaced(w)
    BY <1>4, <1>6, <2>1 DEF ClaimReprice, FinishExpiry, UnlockCheckout, RecordReplaced, ActsOnClosed
  <2>2. CASE CreateReplacement(w)
    BY <1>4, <1>9, <2>2 DEF CreateReplacement, ActsOnClosed
  <2>3. CASE ReplaceSession(w) \/ ReplaceRefused(w) \/ DiscardReplacement(w)
    BY <1>4, <1>6, <2>3 DEF ReplaceSession, ReplaceRefused, DiscardReplacement, ActsOnClosed
  <2> QED BY <1>12, <2>1, <2>2, <2>3 DEF CloseStep
<1>13. ASSUME NEW w \in Workers, Webhook(w) \/ WebhookUnbound(w) PROVE ClosedMove(w)
  BY <1>5, <1>13 DEF Webhook, WebhookUnbound
<1>14. ASSUME NEW w \in Workers, NEW r \in Regs, Verify(w, r) \/ Reconcile(w, r) PROVE ClosedMove(w)
  BY <1>5, <1>14 DEF Verify, Reconcile, ReadStoredSession
<1>15. ASSUME NEW w \in Workers, NEW r \in Regs, ClaimDispatch(w, r) PROVE ClosedMove(w)
  BY <1>2, <1>15 DEF ClaimDispatch, NoJob, ActsOnClosed
<1>16. ASSUME NEW w \in Workers, NEW r \in Regs,
              PickExpiry(w, r) \/ PickRestart(w, r) \/ PickReprice(w, r)
       PROVE  ClosedMove(w)
  BY <1>2, <1>16 DEF PickExpiry, PickRestart, PickReprice, NoJob, ActsOnClosed
<1>17. UNCHANGED job \/ JobChange
  BY Frame DEF Framed, vars
<1> QED BY <1>4, <1>7, <1>8, <1>10, <1>11, <1>12, <1>13, <1>14, <1>15, <1>16, <1>17
           DEF JobChange, ConfirmStep, WorkerDies

\* Every step leaves the sessions closed that calls take for closed.
LEMMA ClosedNext ==
  ASSUME Bookkeeping, ClosedFirst, [Next]_vars
  PROVE  ClosedFirst'
<1> USE DEF Bookkeeping
<1>1. job \in [Workers -> JobCall]
  BY DEF TypeOK
<1>2. ASSUME NEW w \in Workers, job[w].pc \in ActsOnClosed PROVE ~sess'[job[w].sess].open
  <2>1. ~sess[job[w].sess].open
    BY <1>2 DEF ClosedFirst
  <2>2. job[w].sess \in Sessions /\ sess[job[w].sess].owner \in Regs
    BY <1>1, <1>2 DEF Calls, CallOK, ActsOnClosed, JobCall, Session
  <2> QED BY <2>1, <2>2, StaysClosed
<1>3. ASSUME NEW w \in Workers, ClosedMove(w) PROVE ClosedFirst'
  BY <1>2, <1>3 DEF ClosedMove, ClosedFirst
<1>4. CASE UNCHANGED job
  BY <1>2, <1>4 DEF ClosedFirst
<1> QED BY <1>3, <1>4, ClosedMoves

\* The three steps that give a payment up.
GivesUp(r) ==
    \/ ReleaseRejected(r) /\ pay[r].ref = None /\ checkout[r].pc = "release"
    \/ ExpirePrepared(r)
    \/ \E w \in Workers : FinishExpiry(w) /\ job[w].reg = r /\ Expirable(r, job[w].sess)

\* A payment is given up by a definitive rejection of its only create, by the expiry of a hold
\* without a session, or on evidence that the bound session is closed.
LEMMA Fails ==
  ASSUME TypeOK, [Next]_vars, NEW r \in Regs, pay'[r].status = "failed", pay[r].status # "failed"
  PROVE  GivesUp(r) /\ reg'[r] = "expired" /\ UNCHANGED <<prep, sess>>
<1> DEFINE Goal == GivesUp(r) /\ reg'[r] = "expired" /\ UNCHANGED <<prep, sess>>
<1>1. pay \in [Regs -> PaymentRow] /\ reg \in [Regs -> RegStatus]
  BY DEF TypeOK
<1>2. ASSUME NEW q \in Regs, InsertPayment(q) \/ BindSession(q) \/ Refund(q) PROVE FALSE
  BY <1>1, <1>2 DEF InsertPayment, BindSession, Refund, PaymentRow
<1>3. ASSUME NEW q \in Regs, ReleaseRejected(q) PROVE Goal
  <2>1. /\ pay[q].ref = None /\ checkout[q].pc = "release"
        /\ pay' = [pay EXCEPT ![q].status = "failed"]
        /\ reg' = [reg EXCEPT ![q] = "expired"]
    BY <1>3 DEF ReleaseRejected
  <2>2. q = r
    BY <1>1, <2>1
  <2>3. UNCHANGED <<prep, sess>>
    BY <1>3 DEF ReleaseRejected, provVars
  <2> QED BY <1>1, <1>3, <2>1, <2>2, <2>3 DEF GivesUp
<1>4. ASSUME NEW q \in Regs, ExpirePrepared(q) PROVE Goal
  <2>1. q = r
    BY <1>1, <1>4 DEF ExpirePrepared
  <2> QED BY <1>1, <1>4, <2>1 DEF ExpirePrepared, GivesUp, provVars
<1>5. ASSUME NEW w \in Workers, ConfirmPaid(w) PROVE FALSE
  <2>1. pay' = [pay EXCEPT ![job[w].reg].status = "paid", ![job[w].reg].raw = job[w].first]
    BY <1>5 DEF ConfirmPaid
  <2> QED BY <1>1, <2>1 DEF PaymentRow
<1>6. ASSUME NEW q, NEW s, pay' = [pay EXCEPT ![q].ref = s] PROVE FALSE
  BY <1>1, <1>6 DEF PaymentRow
<1>7. ASSUME NEW w \in Workers, DispatchAttach(w) \/ UnlockCheckout(w) \/ ReplaceSession(w) PROVE FALSE
  BY <1>6, <1>7 DEF DispatchAttach, UnlockCheckout, ReplaceSession
<1>8. ASSUME NEW w \in Workers, FinishExpiry(w) PROVE Goal
  <2>1. /\ Expirable(job[w].reg, job[w].sess)
        /\ pay' = [pay EXCEPT ![job[w].reg].status = "failed"]
        /\ reg' = [reg EXCEPT ![job[w].reg] = "expired"]
    BY <1>8 DEF FinishExpiry
  <2>2. job[w].reg = r
    BY <1>1, <2>1
  <2>3. UNCHANGED <<prep, sess>>
    BY <1>8 DEF FinishExpiry, provVars
  <2> QED BY <1>1, <1>8, <2>1, <2>2, <2>3 DEF GivesUp
<1>9. UNCHANGED pay \/ PayChange
  BY Frame DEF Framed, vars
<1> QED BY <1>2, <1>3, <1>4, <1>5, <1>7, <1>8, <1>9 DEF PayChange

\* A given-up payment is claimed by nobody.
LEMMA ClaimsNone ==
  ASSUME TypeOK, [Next]_vars, NEW r \in Regs, prep'[r] = "creating", prep[r] # "creating"
  PROVE  reg[r] = "pending"
<1>1. prep \in [Regs -> PrepState]
  BY DEF TypeOK
<1>2. ASSUME NEW q \in Regs, InsertPayment(q) PROVE FALSE
  BY <1>1, <1>2 DEF InsertPayment
<1>3. ASSUME NEW q \in Regs, NEW w \in Workers, ClaimDispatch(w, q) PROVE reg[r] = "pending"
  BY <1>1, <1>3 DEF ClaimDispatch
<1>4. ASSUME NEW w \in Workers, DispatchAttach(w) PROVE FALSE
  BY <1>1, <1>4 DEF DispatchAttach
<1>5. ASSUME NEW w \in Workers, DispatchRestore(w) PROVE FALSE
  BY <1>1, <1>5 DEF DispatchRestore
<1>6. ASSUME NEW w \in Workers, UnlockCheckout(w) PROVE FALSE
  BY <1>1, <1>6 DEF UnlockCheckout
<1>7. UNCHANGED prep \/ PrepChange
  BY Frame DEF Framed, vars
<1> QED BY <1>2, <1>3, <1>4, <1>5, <1>6, <1>7 DEF PrepChange

\* What a payment that is given up leaves behind: the request has ended, nobody is creating a
\* session, and the bound session, if there is one, is closed.
LEMMA GivingUp ==
  ASSUME Bookkeeping, ClosedFirst, [Next]_vars, NEW r \in Regs, GivesUp(r)
  PROVE  /\ checkout'[r].pc = "done" /\ prep[r] # "creating"
         /\ pay[r].ref # None => ~sess[pay[r].ref].open
<1> USE DEF Bookkeeping
<1>1. checkout \in [Regs -> CheckoutCall] /\ RowOK(r)
  BY DEF TypeOK, Rows
<1>2. CASE ReleaseRejected(r) /\ pay[r].ref = None /\ checkout[r].pc = "release"
  <2>1. checkout' = [checkout EXCEPT ![r].pc = "done"]
    BY <1>2 DEF ReleaseRejected
  <2>2. checkout'[r].pc = "done" /\ prep[r] = "none"
    BY <1>1, <1>2, <2>1 DEF RowOK, CheckoutCall
  <2> QED BY <1>2, <2>2
<1>3. CASE ExpirePrepared(r)
  <2>1. prep[r] = "prepared" /\ pay[r].ref = None /\ checkout' = checkout
    BY <1>3 DEF ExpirePrepared
  <2>2. checkout[r].pc = "done"
    BY <1>1, <2>1 DEF RowOK
  <2> QED BY <2>1, <2>2
<1>4. ASSUME NEW w \in Workers, FinishExpiry(w), job[w].reg = r, Expirable(r, job[w].sess)
      PROVE  /\ checkout'[r].pc = "done" /\ prep[r] # "creating"
             /\ pay[r].ref # None => ~sess[pay[r].ref].open
  <2>1. pay[r].ref = job[w].sess /\ job[w].pc = "finish" /\ checkout' = checkout
    BY <1>4 DEF FinishExpiry, Expirable, Untouched
  <2>2. pay[r].ref # None /\ ~sess[pay[r].ref].open
    BY <2>1 DEF Calls, CallOK, ClosedFirst, ActsOnClosed
  <2>3. checkout[r].pc = "done" /\ prep[r] # "creating"
    BY <1>1, <2>2 DEF RowOK
  <2> QED BY <2>1, <2>2, <2>3
<1> QED BY <1>2, <1>3, <1>4 DEF GivesUp

\* Every step leaves given-up payments given up.
LEMMA GivenUpNext ==
  ASSUME Bookkeeping, ClosedFirst, GivenUp, [Next]_vars
  PROVE  GivenUp'
<1> USE DEF Bookkeeping
<1> SUFFICES ASSUME NEW r \in Regs, pay'[r].status = "failed"
             PROVE  checkout'[r].pc = "done" /\ reg'[r] # "pending" /\ prep'[r] # "creating"
  BY DEF GivenUp
<1>1. CASE pay[r].status # "failed"
  <2>1. GivesUp(r) /\ reg'[r] = "expired" /\ UNCHANGED <<prep, sess>>
    BY <1>1, Fails
  <2> QED BY <2>1, GivingUp
<1>2. CASE pay[r].status = "failed"
  <2>1. checkout[r].pc = "done" /\ reg[r] # "pending" /\ prep[r] # "creating"
    BY <1>2 DEF GivenUp
  <2>2. checkout'[r].pc = "done"
    BY <2>1, DoneStays
  <2>3. prep'[r] # "creating"
    BY <2>1, ClaimsNone
  <2>4. reg'[r] # "pending"
    <3>1. reg \in [Regs -> RegStatus]
      BY DEF TypeOK
    <3>2. ~InsertRegistration(r)
      BY <2>1 DEF InsertRegistration
    <3>3. ASSUME NEW w \in Workers, ConfirmPaid(w), job[w].reg = r PROVE reg'[r] # "pending"
      BY <3>1, <3>3 DEF ConfirmPaid
    <3>4. Refund(r) => reg'[r] # "pending"
      BY <2>1, <3>1 DEF Refund
    <3> QED BY <2>1, <3>2, <3>3, <3>4, RegMoves DEF Settles
  <2> QED BY <2>2, <2>3, <2>4
<1> QED BY <1>1, <1>2

\* Every step leaves the runner of a given-up payment without a session to pay on.
LEMMA ReleasedNext ==
  ASSUME Bookkeeping, SessionsInv, [Next]_vars, ChargeableIsBound', Owners'
  PROVE  ReleasedIsUnchargeable'
<1> USE DEF Bookkeeping, SessionsInv
<1> SUFFICES ASSUME NEW r \in Regs, pay'[r].status = "failed", NEW s \in Sessions,
                    sess'[s].owner = r, Chargeable(s)'
             PROVE  FALSE
  BY DEF ReleasedIsUnchargeable, Chargeable
<1>1. pay'[r].ref = s
  BY DEF ChargeableIsBound
<1>2. CASE pay[r].status # "failed"
  <2>1. GivesUp(r) /\ UNCHANGED sess
    BY <1>2, Fails
  <2>2. Chargeable(s) /\ sess[s].owner = r
    BY <2>1 DEF Chargeable
  <2>3. pay[r].ref = s /\ s # None
    BY <2>2, PaymentAssumption DEF ChargeableIsBound
  <2> QED BY <2>1, <2>2, <2>3, GivingUp DEF Chargeable
<1>3. CASE pay[r].status = "failed"
  <2>1. CASE Chargeable(s)
    <3>1. sess[s].owner = r
      BY <2>1, OwnersStay DEF Owners, Chargeable
    <3> QED BY <1>3, <2>1, <3>1 DEF ReleasedIsUnchargeable, Chargeable
  <2>2. CASE ~Chargeable(s)
    <3>1. HandsOut(s)
      BY <2>2, BecomesChargeable
    <3>2. sess[s].owner = r
      BY <3>1, HandedOutIsBound, OwnersStay
    <3>3. checkout[r].pc = "done" /\ prep[r] # "creating"
      BY <1>3 DEF GivenUp
    <3>4. ~BindSession(r)
      BY <3>3 DEF BindSession
    <3>5. ASSUME NEW w \in Workers, ReplaceSession(w), job[w].reg = r PROVE FALSE
      BY <1>3, <3>5 DEF ReplaceSession, Replaceable, Untouched
    <3> QED BY <3>1, <3>2, <3>3, <3>4, <3>5 DEF HandsOut
  <2> QED BY <2>1, <2>2
<1> QED BY <1>2, <1>3

\* Every step preserves the invariant of the sessions.
LEMMA SessionsNext == IInv /\ SessionsInv /\ [Next]_vars => SessionsInv'
<1> SUFFICES ASSUME IInv, SessionsInv, [Next]_vars PROVE SessionsInv'
  OBVIOUS
<1>1. Bookkeeping /\ Owners'
  BY Inductive DEF IInv, Bookkeeping
<1>2. ChargeableIsBound' /\ ClosedFirst' /\ GivenUp'
  BY <1>1, BoundNext, ClosedNext, GivenUpNext DEF SessionsInv
<1>3. ReleasedIsUnchargeable'
  BY <1>1, <1>2, ReleasedNext
<1> QED BY <1>2, <1>3 DEF SessionsInv

\* No session is payable and no call runs before the first request.
LEMMA SessionsEstablished == Init => SessionsInv
BY DEF Init, SessionsInv, ChargeableIsBound, Chargeable, ClosedFirst, ActsOnClosed, NoJob, GivenUp,
       NoPayment, ReleasedIsUnchargeable

\* Whatever the runner can pay on is the bound session, in every reachable state.
THEOREM SessionsInvariance == Spec => []SessionsInv
BY SessionsEstablished, SessionsNext, Invariance, PTL DEF Spec

\* A payment is given up (release_rejected_paymongo_checkout, discount_expire_prepared,
\* finish_paymongo_checkout_expiry) only after the provider closed every session its runner
\* could have paid on, and nobody hands him another one.
THEOREM GivenUpIsUnpayable == Spec => []ReleasedIsUnchargeable
<1>1. SessionsInv => ReleasedIsUnchargeable
  BY DEF SessionsInv
<1> QED BY <1>1, SessionsInvariance, PTL

\* A runner never has two payable sessions of one entry, and none while the order can be edited:
\* the restart and the reprice close the old session before they bind or unbind one.
THEOREM OnePayableSession == Spec => []OneChargeableSession
<1>1. IInv /\ SessionsInv => OneChargeableSession
  <2> SUFFICES ASSUME IInv, SessionsInv, NEW r \in Regs
               PROVE  LET payable == {s \in Sessions : sess[s].owner = r /\ sess[s].shown /\ sess[s].open}
                      IN  /\ \A s, t \in payable : s = t
                          /\ prep[r] = "prepared" => payable = {}
    BY DEF OneChargeableSession
  <2>1. ASSUME NEW s \in Sessions, sess[s].owner = r, sess[s].shown, sess[s].open
        PROVE  pay[r].ref = s /\ s # None
    BY <2>1, PaymentAssumption DEF SessionsInv, ChargeableIsBound, Chargeable
  <2>2. prep[r] = "prepared" => pay[r].ref = None
    BY DEF IInv, Bookkeeping, Rows, RowOK
  <2> QED BY <2>1, <2>2
<1> QED BY <1>1, SessionsInvariance, Invariance, PTL
=============================================================================
