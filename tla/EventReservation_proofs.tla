---------------------- MODULE EventReservation_proofs ----------------------
(***************************************************************************)
(* The proofs about EventReservation, for every number of reservations,    *)
(* calls, workers, webhooks and checkout generations and every number of   *)
(* places.                                                                 *)
(*                                                                         *)
(* IInv is inductive: the rows of a reservation agree with each other, the *)
(* provider's sessions with the rows, the capture events with both, and a  *)
(* call that has seen a session expired may rely on it.                    *)
(***************************************************************************)
EXTENDS EventReservation, FiniteSetTheorems, TLAPS

\* What is assumed of the constants.
Setting ==
    /\ IsFiniteSet(Reservations) /\ Slots \in Nat /\ MaxGeneration \in Nat
    /\ None \notin Reservations \cup Generations

ReservationStatus == {"none", "expired"} \cup Live
PaymentRow ==
    [status : {"pending", "paid", "review", "failed"}, ref : Generations \cup {None},
     request : BOOLEAN, gen : Generations, capture : Generations \cup {None}]
SessionRow == [state : {"none", "open", "expired"}, shown : BOOLEAN, captured : BOOLEAN,
               inTime : BOOLEAN]
JobRow == [pc : StepNames, res : Reservations \cup {None}, gen : Generations,
           ref : Generations \cup {None}]

\* The columns and the provider's sessions keep their types.
Types ==
    /\ reservation \in [Reservations -> ReservationStatus]
    /\ due \subseteq Reservations
    /\ payment \in [Reservations -> PaymentRow]
    /\ history \subseteq Sessions
    /\ ledger \subseteq Sessions \X {"settled", "review"}
    /\ session \in [Sessions -> SessionRow]
    /\ notice \subseteq Sessions

\* The two rows of a reservation go through their states together; what is bound is the session
\* of the current generation, and a paid reservation names it as its capture.
RowOK(r) ==
    /\ reservation[r] \in {"none", "pending"} <=> payment[r].status = "pending"
    /\ reservation[r] = "paid" <=> payment[r].status = "paid"
    /\ reservation[r] = "expired" <=> payment[r].status = "failed"
    /\ payment[r].ref \in {None, payment[r].gen}
    /\ payment[r].capture \in {None, payment[r].ref}
    /\ payment[r].capture # None <=> reservation[r] = "paid"

RowsAgree == \A r \in Reservations : RowOK(r)

\* A session the booker has seen can be found again; one that was replaced is closed; a capture
\* has a webhook until it is recorded.
SessionsAgree ==
    \A s \in Sessions :
        /\ session[s].shown => Known(s[1], s[2]) /\ reservation[s[1]] # "none"
        /\ session[s].captured => session[s].shown
        /\ s \in history => session[s].state = "expired"
        /\ s \in notice => session[s].captured
        /\ session[s].captured /\ ~Recorded(s) => s \in notice

\* The capture events are of captured sessions, and the one that settled is the payment's.
LedgerAgrees ==
    \A s \in Sessions :
        /\ Recorded(s) => session[s].captured
        /\ <<s, "settled">> \in ledger <=> payment[s[1]].capture = s[2]
        /\ <<s, "settled">> \in ledger => session[s].inTime

\* A place is given back on evidence that the bound session is closed.
ClosedWhenExpired ==
    \A r \in Reservations :
        reservation[r] = "expired" /\ payment[r].ref # None =>
            session[<<r, payment[r].ref>>].state = "expired"

\* The event is not overdrawn.
PlacesFit == Cardinality(Claims) <= Slots

\* What a call j may rely on whatever others did since its last step: its reservation exists, it
\* has a session where it works on one, and what it saw expired is expired.
JobOK(j) ==
    /\ j.pc # "idle" => j.res \in Reservations /\ reservation[j.res] # "none"
    /\ j.pc \in {"check", "retry", "close", "get", "finish", "verify"} => j.ref # None
    /\ j.pc \in {"retry", "finish"} => session[<<j.res, j.ref>>].state = "expired"

Jobs == \A p \in Procs : JobOK(job[p])

\* What the rows, the provider and the webhooks hold.
Books == Types /\ RowsAgree /\ SessionsAgree /\ LedgerAgrees /\ ClosedWhenExpired /\ PlacesFit

\* What the running calls, workers and webhooks hold.
Working == job \in [Procs -> JobRow] /\ Jobs

\* The inductive invariant.
IInv == Books /\ Working

\* What a call relies on stays: a reservation is never unmade, a closed session never reopened.
Kept ==
    /\ \A r \in Reservations : reservation[r] # "none" => reservation'[r] # "none"
    /\ \A s \in Sessions : session[s].state = "expired" => session'[s].state = "expired"

\* What the invariant is about beside the jobs.
rowVars == <<reservation, due, payment, history, ledger, session, notice>>
----------------------------------------------------------------------------
(* Helpers. *)

\* A session is a reservation and a generation.
LEMMA SessionIsPair ==
  /\ \A s \in Sessions : s[1] \in Reservations /\ s[2] \in Generations /\ s = <<s[1], s[2]>>
  /\ \A r \in Reservations, g \in Generations : <<r, g>> \in Sessions
BY DEF Sessions

\* A job without work is a job.
LEMMA IdleType == ASSUME Setting PROVE Idle \in JobRow
<1>1. 0 \in Generations
  BY DEF Setting, Generations
<1> QED BY <1>1 DEF Idle, JobRow, StepNames

\* Nobody takes a place when no reservation joins the live ones.
LEMMA PlacesKept ==
  ASSUME Setting, PlacesFit, Claims' \subseteq Claims
  PROVE  PlacesFit'
<1>1. IsFiniteSet(Claims)
  BY FS_Subset DEF Claims, Setting
<1>2. Cardinality(Claims') <= Cardinality(Claims)
  BY <1>1, FS_Subset
<1>3. Cardinality(Claims) \in Nat /\ Cardinality(Claims') \in Nat
  BY <1>1, FS_Subset, FS_CardinalityType
<1> QED BY <1>2, <1>3 DEF PlacesFit, Setting

\* A step that changes no row and no session keeps what is said of them.
LEMMA BooksKept == ASSUME Books, UNCHANGED rowVars PROVE Books'
  BY DEF Books, rowVars, Types, RowsAgree, RowOK, SessionsAgree, LedgerAgrees, ClosedWhenExpired, PlacesFit,
         Claims, Known, Recorded
----------------------------------------------------------------------------
(* The checkout call. *)

\* reserve_category_passports takes a place that is free.
LEMMA ReserveBooks ==
  ASSUME Setting, Books, NEW c \in Calls, NEW r \in Reservations, Reserve(c, r)
  PROVE  Books'
<1> USE DEF Books
<1>1. CASE reservation' = reservation
  BY <1>1, BooksKept DEF Reserve, rowVars
<1>2. CASE reservation' # reservation
  <2>1. /\ reservation[r] = "none" /\ Cardinality(Claims) < Slots
        /\ reservation' = [reservation EXCEPT ![r] = "pending"]
        /\ UNCHANGED <<due, payment, history, ledger, session, notice>>
    BY <1>2 DEF Reserve
  <2>2. Types'
    BY <2>1 DEF Types, ReservationStatus, Live
  <2>3. reservation'[r] = "pending" /\ \A q \in Reservations \ {r} : reservation'[q] = reservation[q]
    BY <2>1 DEF Types
  <2>4. RowsAgree'
    BY <2>1, <2>3 DEF RowsAgree, RowOK
  <2>5. SessionsAgree'
    BY <2>1, <2>3, SessionIsPair DEF SessionsAgree, Known, Recorded
  <2>6. LedgerAgrees' /\ ClosedWhenExpired'
    BY <2>1, <2>3 DEF LedgerAgrees, Recorded, ClosedWhenExpired
  <2>7. PlacesFit'
    <3>1. Claims' = Claims \cup {r} /\ r \notin Claims
      BY <2>1, <2>3 DEF Claims, Live
    <3>2. IsFiniteSet(Claims)
      BY FS_Subset DEF Claims, Setting
    <3>3. Cardinality(Claims') = Cardinality(Claims) + 1 /\ Cardinality(Claims) \in Nat
      BY <3>1, <3>2, FS_AddElement, FS_CardinalityType
    <3> QED BY <2>1, <3>3 DEF PlacesFit, Setting
  <2> QED BY <2>2, <2>4, <2>5, <2>6, <2>7
<1> QED BY <1>1, <1>2

\* reservation_retry_checkout replaces a session that is closed, and remembers it.
LEMMA RetryBooks ==
  ASSUME Setting, Books, Jobs, job \in [Procs -> JobRow], NEW c \in Calls, Retry(c)
  PROVE  Books'
<1> USE DEF Books
<1>1. CASE UNCHANGED <<history, payment>>
  BY <1>1, BooksKept DEF Retry, rowVars
<1>2. CASE ~UNCHANGED <<history, payment>>
  <2> DEFINE r == job[c].res
             g == job[c].gen
  <2>1. /\ Replaceable(r, g) /\ payment[r].ref = job[c].ref /\ job[c].pc = "retry"
        /\ history' = history \cup {<<r, g>>}
        /\ payment' = [payment EXCEPT ![r] = Replaced(r)]
        /\ UNCHANGED <<reservation, due, ledger, session, notice>>
    BY <1>2 DEF Retry, At, RetainsReplaced
  <2>2. c \in Procs /\ r \in Reservations /\ job[c].ref # None /\ session[<<r, job[c].ref>>].state = "expired"
    BY <2>1 DEF Procs, Jobs, JobOK
  <2>3. payment[r].gen = g /\ payment[r].ref = g /\ g \in Generations /\ g < MaxGeneration
    BY <2>1, <2>2 DEF Replaceable, RowsAgree, RowOK, Types, PaymentRow
  <2>4. reservation[r] = "pending" /\ payment[r].status = "pending" /\ payment[r].capture = None
    BY <2>1, <2>2 DEF Replaceable, RowsAgree, RowOK
  <2> HIDE DEF r, g
  <2>5. g + 1 \in Generations
    BY <2>3 DEF Generations, Setting
  <2>6. /\ Replaced(r).status = "pending" /\ Replaced(r).ref = None /\ Replaced(r).capture = None
        /\ Replaced(r) \in PaymentRow
    BY <2>3, <2>5 DEF Replaced, Unpaid, PaymentRow
  <2>7. payment'[r] = Replaced(r) /\ \A q \in Reservations \ {r} : payment'[q] = payment[q]
    BY <2>1, <2>2 DEF Types
  <2>8. Types'
    BY <2>1, <2>2, <2>3, <2>6, SessionIsPair DEF Types
  <2>9. RowsAgree'
    BY <2>1, <2>4, <2>6, <2>7 DEF RowsAgree, RowOK
  <2>10. \A s \in Sessions : Known(s[1], s[2]) => Known(s[1], s[2])'
    BY <2>1, <2>3, <2>7, SessionIsPair DEF Known
  <2>11. SessionsAgree'
    BY <2>1, <2>2, <2>3, <2>10 DEF SessionsAgree, Recorded
  <2>12. LedgerAgrees'
    <3>1. \A s \in Sessions : payment'[s[1]].capture = payment[s[1]].capture
      BY <2>4, <2>6, <2>7, SessionIsPair
    <3> QED BY <2>1, <3>1 DEF LedgerAgrees, Recorded
  <2>13. ClosedWhenExpired'
    BY <2>1, <2>6, <2>7 DEF ClosedWhenExpired
  <2>14. PlacesFit'
    BY <2>1 DEF PlacesFit, Claims
  <2> QED BY <2>8, <2>9, <2>11, <2>12, <2>13, <2>14
<1> QED BY <1>1, <1>2

\* A payment whose session, generation, state and capture stay is as good as unchanged.
LEMMA PrepareBooks ==
  ASSUME Setting, Books, NEW c \in Calls, Prepare(c)
  PROVE  Books'
<1> USE DEF Books
<1> PICK x : x = job[c].res
  OBVIOUS
<1>1. /\ UNCHANGED payment \/ payment' = [payment EXCEPT ![x].request = TRUE]
      /\ UNCHANGED <<reservation, due, history, ledger, session, notice>>
  BY DEF Prepare
<1>2. /\ payment' \in [Reservations -> PaymentRow]
      /\ \A r \in Reservations : /\ payment'[r].status = payment[r].status
                                 /\ payment'[r].ref = payment[r].ref
                                 /\ payment'[r].gen = payment[r].gen
                                 /\ payment'[r].capture = payment[r].capture
  <2>1. ASSUME NEW r \in Reservations, payment'[r] # payment[r]
        PROVE  payment'[r] = [payment[r] EXCEPT !.request = TRUE]
    BY <1>1, <2>1 DEF Types
  <2>2. ASSUME NEW r \in Reservations
        PROVE  /\ payment'[r] \in PaymentRow
               /\ payment'[r].status = payment[r].status /\ payment'[r].ref = payment[r].ref
               /\ payment'[r].gen = payment[r].gen /\ payment'[r].capture = payment[r].capture
    <3>1. payment[r] \in PaymentRow
      BY DEF Types
    <3>2. CASE payment'[r] = payment[r]
      BY <3>1, <3>2
    <3>3. CASE payment'[r] # payment[r]
      <4>1. payment'[r] = [payment[r] EXCEPT !.request = TRUE]
        BY <2>1, <3>3
      <4> QED BY <3>1, <4>1 DEF PaymentRow
    <3> QED BY <3>2, <3>3
  <2>3. payment' = [r \in Reservations |-> payment'[r]]
    BY <1>1 DEF Types
  <2> QED BY <2>2, <2>3
<1>3. Types' /\ RowsAgree' /\ ClosedWhenExpired'
  BY <1>1, <1>2 DEF Types, RowsAgree, RowOK, ClosedWhenExpired
<1>4. SessionsAgree' /\ LedgerAgrees'
  BY <1>1, <1>2, SessionIsPair DEF SessionsAgree, LedgerAgrees, Recorded, Known
<1>5. PlacesFit'
  BY <1>1 DEF PlacesFit, Claims
<1> QED BY <1>3, <1>4, <1>5

\* pmCreateCheckoutSession opens a session nobody has seen, or finds the one it opened before.
LEMMA CreateBooks ==
  ASSUME Setting, Books, NEW c \in Calls, Create(c)
  PROVE  Books'
<1> USE DEF Books
<1> PICK x : x = <<job[c].res, job[c].gen>>
  OBVIOUS
<1>1. UNCHANGED <<reservation, due, payment, history, ledger, notice>>
  BY DEF Create
<1>2. /\ session' \in [Sessions -> SessionRow]
      /\ \A s \in Sessions : /\ session'[s].shown = session[s].shown
                             /\ session'[s].captured = session[s].captured
                             /\ session'[s].inTime = session[s].inTime
                             /\ session[s].state = "expired" => session'[s].state = "expired"
  <2>1. CASE UNCHANGED session
    BY <2>1 DEF Types
  <2>2. CASE session' # session
    <3>1. PICK st : st = IF session[x].state = "none" THEN "open" ELSE session[x].state
      OBVIOUS
    <3>2. session' = [session EXCEPT ![x].state = st]
      BY <2>2, <3>1 DEF Create, Types
    <3>3. PICK row : row = [session[x] EXCEPT !.state = st]
      OBVIOUS
    <3>4. session' = [session EXCEPT ![x] = row] /\ x \in Sessions
      BY <2>2, <3>2, <3>3 DEF Types
    <3>5. session[x] \in SessionRow /\ st \in {"none", "open", "expired"}
      BY <3>1, <3>4 DEF Types, SessionRow
    <3>6. /\ row \in SessionRow /\ row.shown = session[x].shown /\ row.captured = session[x].captured
          /\ row.inTime = session[x].inTime /\ row.state = st
      BY <3>3, <3>5 DEF SessionRow
    <3>7. /\ session' \in [Sessions -> SessionRow] /\ session'[x] = row
          /\ \A s \in Sessions \ {x} : session'[s] = session[s]
      BY <3>4, <3>6 DEF Types
    <3> QED BY <3>1, <3>6, <3>7
  <2> QED BY <2>1, <2>2
<1>3. Types' /\ RowsAgree'
  BY <1>1, <1>2 DEF Types, RowsAgree, RowOK
<1>4. SessionsAgree' /\ LedgerAgrees'
  BY <1>1, <1>2 DEF SessionsAgree, LedgerAgrees, Recorded, Known
<1>5. ClosedWhenExpired'
  BY <1>1, <1>2, SessionIsPair DEF ClosedWhenExpired, Types, PaymentRow
<1>6. PlacesFit'
  BY <1>1 DEF PlacesFit, Claims
<1> QED BY <1>3, <1>4, <1>5, <1>6

\* A rejected creation had no session to forget.
LEMMA RejectBooks ==
  ASSUME Setting, Books, Jobs, job \in [Procs -> JobRow], NEW c \in Calls, Reject(c)
  PROVE  Books'
<1> USE DEF Books
<1>1. CASE UNCHANGED payment
  BY <1>1, BooksKept DEF Reject, rowVars
<1>2. CASE ~UNCHANGED payment
  <2> DEFINE r == job[c].res
             g == job[c].gen
  <2>1. /\ Replaceable(r, g) /\ payment[r].ref = None /\ job[c].pc = "reject"
        /\ payment' = [payment EXCEPT ![r] = Replaced(r)]
        /\ UNCHANGED <<reservation, due, history, ledger, session, notice>>
    BY <1>2 DEF Reject, At
  <2>2. c \in Procs /\ r \in Reservations
    BY <2>1 DEF Procs, Jobs, JobOK
  <2>3. payment[r].gen = g /\ g \in Generations /\ g < MaxGeneration
    BY <2>1, <2>2 DEF Replaceable, Types, PaymentRow
  <2>4. reservation[r] = "pending" /\ payment[r].status = "pending" /\ payment[r].capture = None
    BY <2>1, <2>2 DEF Replaceable, RowsAgree, RowOK
  <2> HIDE DEF r, g
  <2>5. g + 1 \in Generations
    BY <2>3 DEF Generations, Setting
  <2>6. /\ Replaced(r).status = "pending" /\ Replaced(r).ref = None /\ Replaced(r).capture = None
        /\ Replaced(r) \in PaymentRow
    BY <2>3, <2>5 DEF Replaced, Unpaid, PaymentRow
  <2>7. payment'[r] = Replaced(r) /\ \A q \in Reservations \ {r} : payment'[q] = payment[q]
    BY <2>1, <2>2 DEF Types
  <2>8. Types' /\ RowsAgree'
    BY <2>1, <2>2, <2>4, <2>6, <2>7 DEF Types, RowsAgree, RowOK
  <2>9. \A s \in Sessions : /\ payment'[s[1]].capture = payment[s[1]].capture
                            /\ Known(s[1], s[2]) => Known(s[1], s[2])'
    BY <2>1, <2>4, <2>6, <2>7, SessionIsPair DEF Known, Setting
  <2>10. SessionsAgree' /\ LedgerAgrees'
    BY <2>1, <2>9 DEF SessionsAgree, LedgerAgrees, Recorded
  <2>11. ClosedWhenExpired' /\ PlacesFit'
    BY <2>1, <2>6, <2>7 DEF ClosedWhenExpired, PlacesFit, Claims
  <2> QED BY <2>8, <2>10, <2>11
<1> QED BY <1>1, <1>2

\* The session of the current generation is bound and handed out together.
LEMMA BindBooks ==
  ASSUME Setting, Books, Jobs, job \in [Procs -> JobRow], NEW c \in Calls, Bind(c)
  PROVE  Books'
<1> USE DEF Books
<1>1. CASE UNCHANGED <<payment, session>>
  BY <1>1, BooksKept DEF Bind, rowVars
<1>2. CASE ~UNCHANGED <<payment, session>>
  <2> PICK r, g : r = job[c].res /\ g = job[c].gen
    OBVIOUS
  <2>1. /\ Bindable(r, g) /\ job[c].pc = "bind"
        /\ payment' = [payment EXCEPT ![r].ref = g]
        /\ session' = [session EXCEPT ![<<r, g>>].shown = TRUE]
    BY <1>2 DEF Bind, At
  <2>2. UNCHANGED <<reservation, due, history, ledger, notice>>
    BY DEF Bind
  <2>3. c \in Procs /\ r \in Reservations /\ reservation[r] # "none"
    BY <2>1 DEF Procs, Jobs, JobOK
  <2>4. payment[r].gen = g /\ g \in Generations /\ payment[r].ref = None /\ payment[r].status = "pending"
    BY <2>1, <2>3 DEF Bindable, Types, PaymentRow
  <2>5. reservation[r] = "pending" /\ payment[r].capture = None /\ <<r, g>> \in Sessions
    BY <2>3, <2>4, SessionIsPair DEF RowsAgree, RowOK
  <2>6. /\ payment' \in [Reservations -> PaymentRow]
        /\ payment'[r].ref = g
        /\ \A q \in Reservations : /\ payment'[q].status = payment[q].status
                                   /\ payment'[q].gen = payment[q].gen
                                   /\ payment'[q].capture = payment[q].capture
                                   /\ q # r => payment'[q].ref = payment[q].ref
    <3>1. PICK row : row = [payment[r] EXCEPT !.ref = g]
      OBVIOUS
    <3>2. payment[r] \in PaymentRow /\ payment' = [payment EXCEPT ![r] = row]
      BY <2>1, <2>3, <3>1 DEF Types
    <3>3. /\ row \in PaymentRow /\ row.ref = g /\ row.status = payment[r].status
          /\ row.gen = payment[r].gen /\ row.capture = payment[r].capture
      BY <2>4, <3>1, <3>2 DEF PaymentRow
    <3>4. /\ payment' \in [Reservations -> PaymentRow] /\ payment'[r] = row
          /\ \A q \in Reservations \ {r} : payment'[q] = payment[q]
      BY <2>3, <3>2, <3>3 DEF Types
    <3> QED BY <3>3, <3>4
  <2>7. /\ session' \in [Sessions -> SessionRow]
        /\ \A s \in Sessions : /\ session'[s].state = session[s].state
                               /\ session'[s].captured = session[s].captured
                               /\ session'[s].inTime = session[s].inTime
                               /\ session[s].shown => session'[s].shown
                               /\ s # <<r, g>> => session'[s].shown = session[s].shown
    <3>1. PICK x \in Sessions : x = <<r, g>>
      BY <2>5
    <3>2. /\ session' = [session EXCEPT ![x].shown = TRUE]
          /\ session[x] \in SessionRow
      BY <2>1, <3>1 DEF Types
    <3>3. session'[x] = [session[x] EXCEPT !.shown = TRUE] /\ \A s \in Sessions \ {x} : session'[s] = session[s]
      BY <3>2 DEF Types
    <3>4. session' \in [Sessions -> SessionRow]
      BY <3>2 DEF Types, SessionRow
    <3> QED BY <3>1, <3>2, <3>3, <3>4 DEF SessionRow
  <2>8. Types'
    BY <2>6, <2>7, <2>2 DEF Types
  <2>9. RowsAgree'
    <3>1. \A q \in Reservations : q # r => payment'[q].ref = payment[q].ref
      BY <2>6
    <3> QED BY <2>4, <2>5, <2>6, <2>2, <3>1 DEF RowsAgree, RowOK
  <2>10. /\ \A s \in Sessions : Known(s[1], s[2]) => Known(s[1], s[2])'
        /\ Known(r, g)'
    BY <2>4, <2>6, <2>2, SessionIsPair DEF Known, Setting
  <2>11. SessionsAgree'
    <3>1. ASSUME NEW s \in Sessions, session'[s].shown
          PROVE  Known(s[1], s[2])' /\ reservation'[s[1]] # "none"
      <4>1. CASE s = <<r, g>>
        BY <2>3, <2>10, <2>2, <4>1
      <4>2. CASE s # <<r, g>>
        BY <2>7, <2>10, <2>2, <3>1, <4>2 DEF SessionsAgree
      <4> QED BY <4>1, <4>2
    <3> QED BY <2>7, <2>2, <3>1 DEF SessionsAgree, Recorded
  <2>12. LedgerAgrees'
    <3>1. \A s \in Sessions : payment'[s[1]].capture = payment[s[1]].capture
      BY <2>6, SessionIsPair
    <3> QED BY <2>7, <2>2, <3>1 DEF LedgerAgrees, Recorded
  <2>13. ClosedWhenExpired'
    BY <2>5, <2>6, <2>7, <2>2, SessionIsPair DEF ClosedWhenExpired, Types, PaymentRow
  <2>14. PlacesFit'
    BY <2>2 DEF PlacesFit, Claims
  <2> QED BY <2>8, <2>9, <2>11, <2>12, <2>13, <2>14
<1> QED BY <1>1, <1>2
----------------------------------------------------------------------------
(* The provider and the clock. *)

\* A closed session is closed for every row that names it.
LEMMA CloseBooks ==
  ASSUME Setting, Books, NEW s \in Sessions, session' = [session EXCEPT ![s].state = "expired"],
         UNCHANGED <<reservation, due, payment, history, ledger, notice>>
  PROVE  Books'
<1> USE DEF Books
<1>1. session[s] \in SessionRow
  BY DEF Types
<1>2. /\ session'[s] = [session[s] EXCEPT !.state = "expired"]
      /\ \A t \in Sessions \ {s} : session'[t] = session[t]
      /\ session' \in [Sessions -> SessionRow]
  BY <1>1 DEF Types, SessionRow
<1>3. \A t \in Sessions : /\ session'[t].shown = session[t].shown
                          /\ session'[t].captured = session[t].captured
                          /\ session'[t].inTime = session[t].inTime
                          /\ session[t].state = "expired" => session'[t].state = "expired"
  BY <1>1, <1>2 DEF SessionRow
<1>4. Types' /\ RowsAgree'
  BY <1>2 DEF Types, RowsAgree, RowOK
<1>5. SessionsAgree' /\ LedgerAgrees'
  BY <1>3 DEF SessionsAgree, LedgerAgrees, Recorded, Known
<1>6. ClosedWhenExpired'
  BY <1>3, SessionIsPair DEF ClosedWhenExpired, Types, PaymentRow
<1>7. PlacesFit'
  BY DEF PlacesFit, Claims
<1> QED BY <1>4, <1>5, <1>6, <1>7

\* A payment of a session the booker has seen brings a webhook with it.
LEMMA CaptureBooks ==
  ASSUME Setting, Books, NEW s \in Sessions, session[s].shown, ~session[s].captured, Capture(s)
  PROVE  Books'
<1> USE DEF Books
<1>1. session[s] \in SessionRow
  BY DEF Types
<1>2. /\ session' = [session EXCEPT ![s].captured = TRUE, ![s].inTime = s[1] \notin due]
      /\ notice' = notice \cup {s}
      /\ UNCHANGED <<reservation, due, payment, history, ledger>>
  BY DEF Capture
<1>3. /\ session'[s] = [session[s] EXCEPT !.captured = TRUE, !.inTime = s[1] \notin due]
      /\ \A t \in Sessions \ {s} : session'[t] = session[t]
  BY <1>2 DEF Types
<1>4. /\ session'[s].captured /\ session'[s].shown = session[s].shown
      /\ session'[s].state = session[s].state
  BY <1>1, <1>3 DEF SessionRow
<1>5. session' \in [Sessions -> SessionRow]
  <2>1. (s[1] \notin due) \in BOOLEAN
    OBVIOUS
  <2>2. session'[s] \in SessionRow
    BY <1>1, <1>3, <2>1 DEF SessionRow
  <2>3. session' = [t \in Sessions |-> session'[t]]
    BY <1>2 DEF Types
  <2>4. \A t \in Sessions : session'[t] \in SessionRow
    BY <1>3, <2>2 DEF Types
  <2> QED BY <2>3, <2>4
<1>6. ~Recorded(s) /\ <<s, "settled">> \notin ledger
  BY DEF LedgerAgrees, Recorded
<1>7. Types' /\ RowsAgree'
  BY <1>2, <1>5 DEF Types, RowsAgree, RowOK
<1>8. SessionsAgree'
  <2>1. \A t \in Sessions : /\ Known(t[1], t[2])' <=> Known(t[1], t[2])
                            /\ Recorded(t)' <=> Recorded(t)
                            /\ session'[t].shown = session[t].shown
                            /\ session'[t].state = session[t].state
                            /\ session[t].captured => session'[t].captured
                            /\ t # s => session'[t].captured = session[t].captured
    BY <1>2, <1>3, <1>4 DEF Known, Recorded
  <2>2. s \in notice' /\ \A t \in Sessions : t # s => (t \in notice' <=> t \in notice)
    BY <1>2
  <2>3. \A t \in Sessions : session'[t].shown => Known(t[1], t[2])' /\ reservation'[t[1]] # "none"
    BY <1>2, <2>1 DEF SessionsAgree
  <2>4. \A t \in Sessions : /\ session'[t].captured => session'[t].shown
                            /\ t \in history' => session'[t].state = "expired"
                            /\ t \in notice' => session'[t].captured
                            /\ session'[t].captured /\ ~Recorded(t)' => t \in notice'
    BY <1>2, <1>4, <2>1, <2>2 DEF SessionsAgree
  <2> QED BY <2>3, <2>4 DEF SessionsAgree
<1>9. LedgerAgrees'
  BY <1>2, <1>3, <1>4, <1>6 DEF LedgerAgrees, Recorded
<1>10. ClosedWhenExpired'
  <2>1. \A t \in Sessions : session'[t].state = session[t].state
    BY <1>3, <1>4
  <2> QED BY <1>2, <2>1, SessionIsPair DEF ClosedWhenExpired, Types, PaymentRow
<1>11. PlacesFit'
  BY <1>2 DEF PlacesFit, Claims
<1> QED BY <1>7, <1>8, <1>9, <1>10, <1>11

\* The deadline only makes a reservation due.
LEMMA DeadlineBooks ==
  ASSUME Setting, Books, NEW r \in Reservations, Deadline(r)
  PROVE  Books'
<1> USE DEF Books
<1>1. Types'
  BY DEF Deadline, Types
<1>2. RowsAgree' /\ SessionsAgree' /\ LedgerAgrees' /\ ClosedWhenExpired' /\ PlacesFit'
  BY DEF Deadline, RowsAgree, RowOK, SessionsAgree, LedgerAgrees, ClosedWhenExpired, PlacesFit, Claims, Known,
         Recorded
<1> QED BY <1>1, <1>2
----------------------------------------------------------------------------
(* Verification and expiry. *)

\* A verified capture is recorded once: it settles a pending reservation, or parks it.
LEMMA VerifyBooks ==
  ASSUME Setting, Books, Jobs, job \in [Procs -> JobRow], NEW p \in Procs, Verify(p)
  PROVE  Books'
<1> USE DEF Books
<1> PICK r, g, s : r = job[p].res /\ g = job[p].ref /\ s = <<r, g>>
  OBVIOUS
<1>1. r \in Reservations /\ g \in Generations /\ s \in Sessions /\ s[1] = r /\ s[2] = g
      /\ reservation[r] # "none" /\ Held(p) = s
  <2>1. job[p].pc = "verify" /\ job[p] \in JobRow
    BY DEF Verify, At
  <2>2. r \in Reservations /\ g # None /\ reservation[r] # "none"
    BY <2>1 DEF Jobs, JobOK
  <2> QED BY <2>1, <2>2, SessionIsPair DEF JobRow, Held
<1>2. UNCHANGED <<due, history, session>> /\ notice' \in {notice, notice \ {s}}
  BY <1>1 DEF Verify
<1>3. reservation[r] \in ReservationStatus /\ payment[r] \in PaymentRow
  BY <1>1 DEF Types
<1>4. CASE (~session[s].captured \/ Recorded(s)) /\ UNCHANGED <<reservation, payment, ledger>>
  <2>1. Types' /\ RowsAgree' /\ LedgerAgrees' /\ ClosedWhenExpired' /\ PlacesFit'
    BY <1>2, <1>4 DEF Types, RowsAgree, RowOK, LedgerAgrees, Recorded, ClosedWhenExpired, PlacesFit, Claims
  <2>2. SessionsAgree'
    BY <1>2, <1>4 DEF SessionsAgree, Recorded, Known
  <2> QED BY <2>1, <2>2
<1>5. ASSUME session[s].captured, ~Recorded(s), NEW o \in {"settled", "review"},
             ledger' = ledger \cup {<<s, o>>},
             NEW st \in Live, reservation' = [reservation EXCEPT ![r] = st], reservation[r] \in Live \/ st = reservation[r],
             \A q \in Reservations : payment'[q].ref = payment[q].ref
      PROVE  SessionsAgree' /\ PlacesFit'
  <2>1. \A t \in Sessions : Recorded(t) => Recorded(t)'
    BY <1>5 DEF Recorded
  <2>2. Recorded(s)'
    BY <1>5 DEF Recorded
  <2>3. \A q \in Reservations : reservation[q] # "none" => reservation'[q] # "none"
    BY <1>1, <1>5 DEF Types, Live
  <2>4. \A t \in Sessions : Known(t[1], t[2]) => Known(t[1], t[2])'
    BY <1>2, <1>5, SessionIsPair DEF Known
  <2>5. SessionsAgree'
    BY <1>2, <2>1, <2>2, <2>3, <2>4, SessionIsPair DEF SessionsAgree
  <2>6. Claims' \subseteq Claims
    BY <1>1, <1>5 DEF Claims, Types
  <2> QED BY <2>5, <2>6, PlacesKept
<1>6. CASE /\ session[s].captured /\ ~Recorded(s) /\ Settles(r, s)
           /\ ledger' = ledger \cup {<<s, "settled">>}
           /\ reservation' = [reservation EXCEPT ![r] = "paid"]
           /\ payment' = [payment EXCEPT ![r].status = "paid", ![r].capture = g]
  <2>1. /\ session[s].inTime /\ payment[r].ref = g /\ payment[r].capture = None
        /\ reservation[r] = "pending"
    BY <1>1, <1>6 DEF Settles, RowsAgree, RowOK
  <2>2. /\ payment'[r] = [payment[r] EXCEPT !.status = "paid", !.capture = g]
        /\ \A q \in Reservations \ {r} : payment'[q] = payment[q]
        /\ reservation'[r] = "paid"
        /\ \A q \in Reservations \ {r} : reservation'[q] = reservation[q]
    BY <1>1, <1>6 DEF Types
  <2>3. /\ payment'[r].status = "paid" /\ payment'[r].capture = g
        /\ payment'[r].ref = payment[r].ref /\ payment'[r].gen = payment[r].gen
        /\ payment'[r] \in PaymentRow
    BY <1>1, <1>3, <2>2 DEF PaymentRow
  <2>4. payment' \in [Reservations -> PaymentRow]
    <3>1. \A q \in Reservations : payment'[q] \in PaymentRow
      BY <2>2, <2>3 DEF Types
    <3>2. payment' = [q \in Reservations |-> payment'[q]]
      BY <1>6 DEF Types
    <3> QED BY <3>1, <3>2
  <2>5. Types'
    BY <1>1, <1>2, <1>6, <2>4 DEF Types, ReservationStatus, Live
  <2>6. RowsAgree'
    <3>1. RowOK(r)'
      <4>1. g # None
        BY <1>1 DEF Setting
      <4>2. payment[r].ref \in {None, payment[r].gen}
        BY <1>1 DEF RowsAgree, RowOK
      <4> QED BY <2>1, <2>2, <2>3, <4>1, <4>2 DEF RowOK
    <3>2. \A q \in Reservations \ {r} : RowOK(q)'
      BY <2>2 DEF RowsAgree, RowOK
    <3> QED BY <3>1, <3>2 DEF RowsAgree
  <2>7. \A q \in Reservations : payment'[q].ref = payment[q].ref
    BY <2>2, <2>3
  <2>8. SessionsAgree' /\ PlacesFit'
    BY <1>5, <1>6, <2>1, <2>7 DEF Live
  <2>9. LedgerAgrees'
    <3>1. \A t \in Sessions : Recorded(t)' => Recorded(t) \/ t = s
      BY <1>6 DEF Recorded
    <3>2. ASSUME NEW t \in Sessions PROVE <<t, "settled">> \in ledger' <=> payment'[t[1]].capture = t[2]
      <4>1. CASE t[1] # r
        <5>1. payment'[t[1]] = payment[t[1]] /\ t # s
          BY <1>1, <2>2, <4>1, SessionIsPair
        <5>2. <<t, "settled">> \in ledger' <=> <<t, "settled">> \in ledger
          BY <1>6, <5>1
        <5> QED BY <5>1, <5>2 DEF LedgerAgrees
      <4>2. CASE t = s
        BY <1>1, <1>6, <2>3, <4>2
      <4>3. CASE t[1] = r /\ t # s
        <5>1. t[2] \in Generations /\ t[2] # g
          BY <4>3, SessionIsPair
        <5>2. <<t, "settled">> \notin ledger
          BY <2>1, <4>3, <5>1 DEF LedgerAgrees, Setting
        <5> QED BY <1>6, <2>3, <4>3, <5>1, <5>2
      <4> QED BY <4>1, <4>2, <4>3
    <3> QED BY <1>2, <1>6, <2>1, <3>1, <3>2 DEF LedgerAgrees
  <2>10. ClosedWhenExpired'
    BY <1>2, <2>2 DEF ClosedWhenExpired
  <2> QED BY <2>5, <2>6, <2>8, <2>9, <2>10
<1>7. ASSUME NEW rs, NEW ps,
             session[s].captured, ~Recorded(s), ledger' = ledger \cup {<<s, "review">>},
             rs = (IF reservation[r] = "pending" THEN "review" ELSE reservation[r]),
             ps = (IF payment[r].status = "pending" THEN "review" ELSE payment[r].status),
             reservation' = [reservation EXCEPT ![r] = rs],
             payment' = [payment EXCEPT ![r].status = ps]
      PROVE  Books'
  <2>1. /\ payment'[r] = [payment[r] EXCEPT !.status = ps]
        /\ \A q \in Reservations \ {r} : payment'[q] = payment[q]
        /\ reservation'[r] = rs
        /\ \A q \in Reservations \ {r} : reservation'[q] = reservation[q]
    BY <1>1, <1>7 DEF Types
  <2>2. /\ payment'[r].status = ps /\ payment'[r].capture = payment[r].capture
        /\ payment'[r].ref = payment[r].ref /\ payment'[r].gen = payment[r].gen
        /\ payment'[r] \in PaymentRow
    BY <1>3, <1>7, <2>1 DEF PaymentRow
  <2>3. payment' \in [Reservations -> PaymentRow]
    <3>1. \A q \in Reservations : payment'[q] \in PaymentRow
      BY <2>1, <2>2 DEF Types
    <3>2. payment' = [q \in Reservations |-> payment'[q]]
      BY <1>7 DEF Types
    <3> QED BY <3>1, <3>2
  <2>4. rs \in ReservationStatus
    BY <1>3, <1>7 DEF ReservationStatus, Live
  <2>5. Types'
    BY <1>1, <1>2, <1>7, <2>3, <2>4 DEF Types
  <2>6. RowsAgree'
    <3>1. /\ rs \in {"none", "pending"} <=> ps = "pending"
          /\ rs = "paid" <=> ps = "paid"
          /\ rs = "expired" <=> ps = "failed"
          /\ rs = "paid" <=> reservation[r] = "paid"
      BY <1>1, <1>3, <1>7 DEF RowsAgree, RowOK, PaymentRow, ReservationStatus, Live
    <3>2. RowOK(r)'
      <4>1. RowOK(r)
        BY <1>1 DEF RowsAgree
      <4> QED BY <2>1, <2>2, <3>1, <4>1 DEF RowOK
    <3>3. \A q \in Reservations \ {r} : RowOK(q)'
      BY <2>1 DEF RowsAgree, RowOK
    <3> QED BY <3>2, <3>3 DEF RowsAgree
  <2>7. \A q \in Reservations : payment'[q].ref = payment[q].ref /\ payment'[q].capture = payment[q].capture
    BY <2>1, <2>2
  <2>8. SessionsAgree' /\ PlacesFit'
    <3>1. CASE rs \in Live
      <4>1. reservation[r] \in Live
        BY <1>7, <3>1 DEF Live
      <4> QED BY <1>5, <1>7, <2>7, <3>1, <4>1
    <3>2. CASE rs \notin Live
      <4>1. reservation' = reservation
        BY <1>1, <1>7, <3>2 DEF Types, Live
      <4>2. \A t \in Sessions : Recorded(t) => Recorded(t)'
        BY <1>7 DEF Recorded
      <4>3. Recorded(s)'
        BY <1>7 DEF Recorded
      <4>4. \A t \in Sessions : Known(t[1], t[2]) => Known(t[1], t[2])'
        BY <1>2, <2>7, SessionIsPair DEF Known
      <4>5. SessionsAgree'
        BY <1>2, <4>1, <4>2, <4>3, <4>4 DEF SessionsAgree
      <4> QED BY <4>1, <4>5 DEF PlacesFit, Claims
    <3> QED BY <3>1, <3>2
  <2>9. LedgerAgrees'
    <3>1. \A t \in Sessions : Recorded(t)' => Recorded(t) \/ t = s
      BY <1>7 DEF Recorded
    <3>2. \A t \in Sessions : <<t, "settled">> \in ledger' <=> <<t, "settled">> \in ledger
      BY <1>7
    <3>3. \A t \in Sessions : payment'[t[1]].capture = payment[t[1]].capture
      BY <2>7, SessionIsPair
    <3> QED BY <1>2, <1>7, <3>1, <3>2, <3>3 DEF LedgerAgrees
  <2>10. ClosedWhenExpired'
    <3>1. rs = "expired" => reservation[r] = "expired"
      BY <1>7
    <3> QED BY <1>2, <2>1, <2>7, <3>1 DEF ClosedWhenExpired
  <2> QED BY <2>5, <2>6, <2>8, <2>9, <2>10
<1> QED BY <1>1, <1>4, <1>6, <1>7 DEF Verify

\* expire_event_reservation gives a place back whose session, if there is one, is closed.
LEMMA GiveBackBooks ==
  ASSUME Setting, Books, NEW r \in Reservations, reservation[r] = "pending", GiveBack(r),
         payment[r].ref # None => session[<<r, payment[r].ref>>].state = "expired",
         UNCHANGED <<due, history, ledger, session, notice>>
  PROVE  Books'
<1> USE DEF Books
<1>1. /\ reservation' = [reservation EXCEPT ![r] = "expired"]
      /\ payment' = [payment EXCEPT ![r].status = "failed"]
  BY DEF GiveBack
<1>2. /\ payment'[r] = [payment[r] EXCEPT !.status = "failed"]
      /\ \A q \in Reservations \ {r} : payment'[q] = payment[q]
      /\ reservation'[r] = "expired"
      /\ \A q \in Reservations \ {r} : reservation'[q] = reservation[q]
  BY <1>1 DEF Types
<1>3. /\ payment'[r].status = "failed" /\ payment'[r].capture = payment[r].capture
      /\ payment'[r].ref = payment[r].ref /\ payment'[r].gen = payment[r].gen
  BY <1>2 DEF Types, PaymentRow
<1>4. Types'
  BY <1>1 DEF Types, PaymentRow, ReservationStatus
<1>5. RowsAgree'
  <2>1. RowOK(r)'
    <3>1. RowOK(r)
      BY DEF RowsAgree
    <3> QED BY <1>2, <1>3, <3>1 DEF RowOK
  <2>2. \A q \in Reservations \ {r} : RowOK(q)'
    BY <1>2 DEF RowsAgree, RowOK
  <2> QED BY <2>1, <2>2 DEF RowsAgree
<1>6. \A q \in Reservations : payment'[q].ref = payment[q].ref /\ payment'[q].capture = payment[q].capture
  BY <1>2, <1>3
<1>7. SessionsAgree' /\ LedgerAgrees'
  <2>1. \A t \in Sessions : /\ payment'[t[1]].capture = payment[t[1]].capture
                            /\ payment'[t[1]].ref = payment[t[1]].ref
                            /\ reservation[t[1]] # "none" => reservation'[t[1]] # "none"
    BY <1>2, <1>6, SessionIsPair
  <2> QED BY <2>1 DEF SessionsAgree, LedgerAgrees, Recorded, Known
<1>8. ClosedWhenExpired'
  BY <1>2, <1>6 DEF ClosedWhenExpired
<1>9. Claims' \subseteq Claims
  BY <1>2 DEF Claims, Live
<1> QED BY <1>4, <1>5, <1>7, <1>8, <1>9, PlacesKept
----------------------------------------------------------------------------
(* The jobs. *)

\* A step that leaves what the calls rely on, and gives one of them a job it may have.
LEMMA Moving ==
  ASSUME Working, Kept, NEW p \in Procs, NEW x \in JobRow, job' = [job EXCEPT ![p] = x], JobOK(x)'
  PROVE  Working'
<1>1. job' \in [Procs -> JobRow]
  BY DEF Working
<1>2. ASSUME NEW q \in Procs PROVE JobOK(job[q])'
  <2>1. CASE q = p
    <3>1. job'[q] = x
      BY <2>1 DEF Working
    <3> QED BY <3>1 DEF JobOK
  <2>2. CASE q # p
    <3>1. PICK j \in JobRow : j = job[q]
      BY DEF Working
    <3>2. job'[q] = j
      BY <2>2, <3>1 DEF Working
    <3>3. JobOK(j)
      BY <3>1 DEF Working, Jobs
    <3>4. j.pc \in {"retry", "finish"} => <<j.res, j.ref>> \in Sessions
      BY <3>3, SessionIsPair DEF JobOK, JobRow
    <3>5. JobOK(j)'
      BY <3>3, <3>4 DEF JobOK, Kept
    <3> QED BY <3>2, <3>5 DEF JobOK
  <2> QED BY <2>1, <2>2
<1> QED BY <1>1, <1>2 DEF Working, Jobs

\* A call goes on to a step it may take with what it holds.
LEMMA Going ==
  ASSUME Working, Kept, NEW p \in Procs, NEW pc \in StepNames, Go(p, pc), job[p].pc # "idle",
         pc \in {"check", "retry", "close", "get", "finish", "verify"} => job[p].ref # None,
         pc \in {"retry", "finish"} => session'[<<job[p].res, job[p].ref>>].state = "expired"
  PROVE  Working'
<1>1. PICK j \in JobRow : j = job[p]
  BY DEF Working
<1>2. PICK x : x = [j EXCEPT !.pc = pc]
  OBVIOUS
<1>3. x \in JobRow /\ x.pc = pc /\ x.res = j.res /\ x.gen = j.gen /\ x.ref = j.ref
  BY <1>1, <1>2 DEF JobRow
<1>4. job' = [job EXCEPT ![p] = x]
  BY <1>1, <1>2 DEF Go, Working
<1>5. j.res \in Reservations /\ reservation'[j.res] # "none"
  <2>1. JobOK(j)
    BY <1>1 DEF Working, Jobs
  <2> QED BY <1>1, <2>1 DEF JobOK, Kept
<1>6. JobOK(x)'
  BY <1>1, <1>3, <1>5 DEF JobOK
<1> QED BY <1>3, <1>4, <1>6, Moving

\* A call that ends relies on nothing.
LEMMA Stopping ==
  ASSUME Setting, Working, Kept, NEW p \in Procs, Done(p)
  PROVE  Working'
<1>1. PICK x \in JobRow : x = Idle
  BY IdleType
<1>2. job' = [job EXCEPT ![p] = x]
  BY <1>1 DEF Done
<1>3. x.pc = "idle"
  BY <1>1 DEF Idle
<1>4. JobOK(x)'
  BY <1>3 DEF JobOK
<1> QED BY <1>1, <1>2, <1>4, Moving

\* Nobody moves.
LEMMA Resting ==
  ASSUME Working, Kept, UNCHANGED job
  PROVE  Working'
<1>1. ASSUME NEW q \in Procs PROVE JobOK(job[q])'
  <2>1. PICK j \in JobRow : j = job[q]
    BY DEF Working
  <2>2. JobOK(j)
    BY <2>1 DEF Working, Jobs
  <2>3. j.pc \in {"retry", "finish"} => <<j.res, j.ref>> \in Sessions
    BY <2>2, SessionIsPair DEF JobOK, JobRow
  <2>4. JobOK(j)' /\ job'[q] = j
    BY <2>1, <2>2, <2>3 DEF JobOK, Kept
  <2> QED BY <2>4 DEF JobOK
<1> QED BY <1>1 DEF Working, Jobs

\* What a call that is not idle holds.
LEMMA Holding ==
  ASSUME Working, NEW p \in Procs, job[p].pc # "idle"
  PROVE  /\ job[p] \in JobRow /\ job[p].res \in Reservations /\ reservation[job[p].res] # "none"
         /\ job[p].pc \in {"check", "retry", "close", "get", "finish", "verify"} => Held(p) \in Sessions
         /\ job[p].pc \in {"retry", "finish"} => session[Held(p)].state = "expired"
<1>1. job[p] \in JobRow /\ JobOK(job[p])
  BY DEF Working, Jobs
<1> QED BY <1>1, SessionIsPair DEF JobOK, JobRow, Held

\* Rows and sessions that stay are kept.
LEMMA SameKept == ASSUME UNCHANGED <<reservation, session>> PROVE Kept
  BY DEF Kept
----------------------------------------------------------------------------
(* Every step keeps the invariant. *)

\* The steps of the checkout call.
LEMMA CallKeeps ==
  ASSUME Setting, IInv, CallStep
  PROVE  IInv'
<1> USE DEF IInv
<1>1. PICK c \in Calls :
          \/ \E r \in Reservations : Reserve(c, r)
          \/ Read(c) \/ Check(c) \/ Retry(c) \/ Prepare(c) \/ Create(c) \/ Reject(c) \/ Bind(c)
  BY DEF CallStep
<1>2. c \in Procs /\ Jobs /\ job \in [Procs -> JobRow]
  BY DEF Procs, Working
<1>3. ASSUME NEW r \in Reservations, Reserve(c, r) PROVE IInv'
  <2>1. Kept
    BY <1>3, SessionIsPair DEF Reserve, Kept, Books, Types
  <2>2. PICK x : x = [Idle EXCEPT !.pc = "read", !.res = r]
    OBVIOUS
  <2>3. x \in JobRow /\ x.pc = "read" /\ x.res = r
    <3>1. Idle \in JobRow
      BY IdleType
    <3> QED BY <2>2, <3>1 DEF JobRow, StepNames
  <2>4. job' = [job EXCEPT ![c] = x]
    BY <1>3, <2>2 DEF Reserve
  <2>5. reservation'[r] # "none"
    BY <1>3 DEF Reserve, Books, Types
  <2>6. JobOK(x)'
    BY <2>3, <2>5 DEF JobOK
  <2> QED BY <1>2, <1>3, <2>1, <2>3, <2>4, <2>6, Moving, ReserveBooks
<1>4. CASE Read(c)
  <2>1. UNCHANGED rowVars /\ Kept /\ job[c].pc = "read"
    BY <1>4, SameKept DEF Read, rowVars, At
  <2>2. job[c] \in JobRow /\ job[c].res \in Reservations /\ reservation[job[c].res] # "none"
    BY <1>2, <2>1, Holding
  <2>3. CASE Done(c)
    BY <1>2, <2>1, <2>3, Stopping, BooksKept
  <2>4. CASE ~Done(c)
    <3>1. PICK r, p : r = job[c].res /\ p = payment[r]
      OBVIOUS
    <3>2. PICK x : x = [pc |-> IF p.ref = None THEN "prepare" ELSE "check",
                        res |-> r, gen |-> p.gen, ref |-> p.ref]
      OBVIOUS
    <3>3. p \in PaymentRow /\ job' = [job EXCEPT ![c] = x]
      BY <1>4, <2>2, <2>4, <3>1, <3>2 DEF Read, Books, Types
    <3>4. x \in JobRow
      BY <2>2, <3>1, <3>2, <3>3 DEF JobRow, PaymentRow, StepNames
    <3>5. JobOK(x)'
      BY <2>1, <2>2, <3>1, <3>2 DEF JobOK, rowVars
    <3> QED BY <1>2, <2>1, <3>3, <3>4, <3>5, Moving, BooksKept
  <2> QED BY <2>3, <2>4
<1>5. CASE Check(c)
  <2>1. UNCHANGED rowVars /\ Kept /\ job[c].pc = "check"
    BY <1>5, SameKept DEF Check, rowVars, At
  <2>2. job[c] \in JobRow /\ job[c].ref # None /\ Held(c) \in Sessions
    BY <1>2, <2>1, Holding DEF Jobs, JobOK
  <2>3. \/ Go(c, "route") \/ Done(c)
        \/ Go(c, "retry") /\ session[Held(c)].state = "expired"
    BY <1>5 DEF Check, SaysExpired
  <2>4. CASE Go(c, "route")
    BY <1>2, <2>1, <2>4, Going, BooksKept DEF StepNames
  <2>5. CASE Done(c)
    BY <1>2, <2>1, <2>5, Stopping, BooksKept
  <2>6. CASE Go(c, "retry") /\ session[Held(c)].state = "expired"
    <3>1. session'[<<job[c].res, job[c].ref>>].state = "expired"
      BY <2>1, <2>6 DEF Held, rowVars
    <3> QED BY <1>2, <2>1, <2>2, <2>6, <3>1, Going, BooksKept DEF StepNames
  <2> QED BY <2>3, <2>4, <2>5, <2>6
<1>6. CASE Retry(c)
  <2>1. Kept /\ job[c].pc = "retry"
    BY <1>6, SameKept DEF Retry, At
  <2>2. job[c] \in JobRow /\ job[c].res \in Reservations /\ reservation[job[c].res] # "none"
    BY <1>2, <2>1, Holding
  <2>3. Working'
    <3>1. CASE Done(c)
      BY <1>2, <2>1, <3>1, Stopping
    <3>2. CASE ~Done(c)
      <4>1. PICK j : j = job[c]
        OBVIOUS
      <4>2. /\ job' = [job EXCEPT ![c].pc = "prepare", ![c].gen = @ + 1, ![c].ref = None]
            /\ j.gen < MaxGeneration
        BY <1>6, <3>2, <4>1 DEF Retry, Replaceable
      <4>3. PICK x : x = [j EXCEPT !.pc = "prepare", !.gen = j.gen + 1, !.ref = None]
        OBVIOUS
      <4>4. job' = [job EXCEPT ![c] = x]
        BY <1>2, <2>2, <4>1, <4>2, <4>3 DEF JobRow
      <4>5. j.gen + 1 \in Generations
        BY <2>2, <4>1, <4>2 DEF JobRow, Generations, Setting
      <4>6. x \in JobRow /\ x.pc = "prepare" /\ x.res = j.res
        BY <2>2, <4>1, <4>3, <4>5 DEF JobRow, StepNames
      <4>7. JobOK(x)'
        BY <2>1, <2>2, <4>1, <4>6 DEF JobOK, Kept
      <4> QED BY <1>2, <2>1, <4>4, <4>6, <4>7, Moving
    <3> QED BY <3>1, <3>2
  <2> QED BY <1>2, <1>6, <2>3, RetryBooks
<1>7. CASE Prepare(c)
  <2>1. Kept /\ job[c].pc = "prepare" /\ (Go(c, "create") \/ Done(c))
    BY <1>7, SameKept DEF Prepare, At
  <2>2. CASE Done(c)
    BY <1>2, <1>7, <2>1, <2>2, Stopping, PrepareBooks
  <2>3. CASE Go(c, "create")
    BY <1>2, <1>7, <2>1, <2>3, Going, PrepareBooks DEF StepNames
  <2> QED BY <2>1, <2>2, <2>3
<1>8. CASE Create(c)
  <2>1. job[c].pc = "create" /\ (Go(c, "bind") \/ Done(c) \/ Go(c, "reject"))
    BY <1>8 DEF Create, At
  <2>2. Kept
    <3>1. PICK x : x = <<job[c].res, job[c].gen>>
      OBVIOUS
    <3>2. /\ \/ UNCHANGED session
             \/ session' = [session EXCEPT ![x].state = IF @ = "none" THEN "open" ELSE @]
          /\ UNCHANGED reservation
      BY <1>8, <3>1 DEF Create
    <3> QED BY <3>2 DEF Kept, Books, Types, SessionRow
  <2>3. CASE Done(c)
    BY <1>2, <1>8, <2>2, <2>3, Stopping, CreateBooks
  <2>4. CASE Go(c, "bind")
    BY <1>2, <1>8, <2>1, <2>2, <2>4, Going, CreateBooks DEF StepNames
  <2>5. CASE Go(c, "reject")
    BY <1>2, <1>8, <2>1, <2>2, <2>5, Going, CreateBooks DEF StepNames
  <2> QED BY <2>1, <2>3, <2>4, <2>5
<1>9. CASE Reject(c)
  <2>1. Kept /\ Done(c)
    BY <1>9, SameKept DEF Reject
  <2> QED BY <1>2, <1>9, <2>1, Stopping, RejectBooks
<1>10. CASE Bind(c)
  <2>1. Done(c) /\ UNCHANGED reservation
    BY <1>10 DEF Bind
  <2>2. Kept
    <3>1. PICK x : x = <<job[c].res, job[c].gen>>
      OBVIOUS
    <3>2. UNCHANGED session \/ session' = [session EXCEPT ![x].shown = TRUE]
      BY <1>10, <3>1 DEF Bind
    <3> QED BY <2>1, <3>2 DEF Kept, Books, Types, SessionRow
  <2> QED BY <1>2, <1>10, <2>1, <2>2, Stopping, BindBooks
<1> QED BY <1>1, <1>3, <1>4, <1>5, <1>6, <1>7, <1>8, <1>9, <1>10

\* The steps of the webhook and of the verification that all share.
LEMMA VerifyKeeps ==
  ASSUME Setting, IInv, HookStep \/ VerifyStep
  PROVE  IInv'
<1> USE DEF IInv
<1>1. Jobs /\ job \in [Procs -> JobRow]
  BY DEF Working
<1>2. ASSUME NEW h \in Hooks, NEW s \in Sessions, Notify(h, s) PROVE IInv'
  <2>1. UNCHANGED rowVars /\ Kept /\ h \in Procs
    BY <1>2, SameKept DEF Notify, rowVars, Procs
  <2>2. s[1] \in Reservations /\ s[2] \in Generations /\ reservation[s[1]] # "none"
    BY <1>2, SessionIsPair DEF Notify, Books, SessionsAgree
  <2>3. PICK x : x = [pc |-> "route", res |-> s[1], gen |-> s[2], ref |-> None]
    OBVIOUS
  <2>4. x \in JobRow /\ JobOK(x)'
    BY <2>1, <2>2, <2>3 DEF JobRow, StepNames, JobOK, rowVars
  <2>5. job' = [job EXCEPT ![h] = x]
    BY <1>2, <2>3 DEF Notify
  <2> QED BY <2>1, <2>4, <2>5, Moving, BooksKept
<1>3. ASSUME NEW p \in Procs, Route(p) PROVE IInv'
  <2>1. UNCHANGED rowVars /\ Kept /\ job[p].pc = "route"
    BY <1>3, SameKept DEF Route, rowVars, At
  <2>2. job[p] \in JobRow /\ job[p].res \in Reservations /\ reservation[job[p].res] # "none"
    BY <2>1, Holding
  <2>3. CASE Done(p)
    BY <2>1, <2>3, Stopping, BooksKept
  <2>4. CASE ~Done(p)
    <3>1. PICK j, gen : j = job[p] /\ gen = IF p \in Hooks THEN job[p].gen ELSE payment[job[p].res].ref
      OBVIOUS
    <3>2. gen # None /\ job' = [job EXCEPT ![p].pc = "verify", ![p].ref = gen]
      BY <1>3, <2>4, <3>1 DEF Route
    <3>3. gen \in Generations
      BY <2>2, <3>1, <3>2 DEF JobRow, Books, Types, PaymentRow
    <3>4. PICK x : x = [j EXCEPT !.pc = "verify", !.ref = gen]
      OBVIOUS
    <3>5. x \in JobRow /\ x.pc = "verify" /\ x.res = j.res /\ x.ref = gen
      BY <2>2, <3>1, <3>3, <3>4 DEF JobRow, StepNames
    <3>6. job' = [job EXCEPT ![p] = x]
      BY <1>1, <3>1, <3>2, <3>4
    <3>7. JobOK(x)'
      BY <2>1, <2>2, <3>1, <3>2, <3>5 DEF JobOK, rowVars
    <3> QED BY <2>1, <3>5, <3>6, <3>7, Moving, BooksKept
  <2> QED BY <2>3, <2>4
<1>4. ASSUME NEW p \in Procs, Verify(p) PROVE IInv'
  <2>1. Books'
    BY <1>1, <1>4, VerifyBooks
  <2>2. Done(p) /\ UNCHANGED session
    BY <1>4 DEF Verify
  <2>3. \A r \in Reservations : reservation[r] # "none" => reservation'[r] # "none"
    <3>1. PICK q : q = job[p].res
      OBVIOUS
    <3>2. \/ UNCHANGED reservation
          \/ reservation' = [reservation EXCEPT ![q] = "paid"]
          \/ reservation' = [reservation EXCEPT ![q] = IF @ = "pending" THEN "review" ELSE @]
      BY <1>4, <3>1 DEF Verify
    <3> QED BY <3>2 DEF Books, Types
  <2> QED BY <2>1, <2>2, <2>3, Stopping DEF Kept
<1> QED BY <1>2, <1>3, <1>4 DEF HookStep, VerifyStep

\* The steps of the expiry worker.
LEMMA WorkerKeeps ==
  ASSUME Setting, IInv, WorkerStep
  PROVE  IInv'
<1> USE DEF IInv
<1>1. PICK w \in Workers :
          Close(w) \/ Get(w) \/ Finish(w) \/ Release(w) \/ \E r \in Reservations : Pick(w, r)
  BY DEF WorkerStep
<1>2. w \in Procs /\ Jobs /\ job \in [Procs -> JobRow]
  BY DEF Procs, Working
<1>3. CASE Close(w)
  <2>1. job[w].pc = "close" /\ Go(w, "get")
    BY <1>3 DEF Close, At
  <2>2. job[w].ref # None
    BY <1>2, <2>1 DEF Jobs, JobOK
  <2>3. PICK s \in Sessions : s = Held(w)
    BY <1>2, <2>1, Holding
  <2>4. /\ UNCHANGED session \/ session' = [session EXCEPT ![s].state = "expired"]
        /\ UNCHANGED <<reservation, due, payment, history, ledger, notice>>
    BY <1>3, <2>3 DEF Close
  <2>5. Books'
    BY <2>4, BooksKept, CloseBooks DEF rowVars
  <2>6. Kept
    BY <2>4 DEF Kept, Books, Types, SessionRow
  <2> QED BY <1>2, <2>1, <2>2, <2>5, <2>6, Going DEF StepNames
<1>4. CASE Get(w)
  <2>1. UNCHANGED rowVars /\ Kept /\ job[w].pc = "get"
    BY <1>4, SameKept DEF Get, rowVars, At
  <2>2. job[w].ref # None
    BY <1>2, <2>1 DEF Jobs, JobOK
  <2>3. \/ Go(w, "route") \/ Done(w)
        \/ Go(w, "finish") /\ session[Held(w)].state = "expired"
    BY <1>4 DEF Get, SaysExpired
  <2>4. CASE Go(w, "route")
    BY <1>2, <2>1, <2>4, Going, BooksKept DEF StepNames
  <2>5. CASE Done(w)
    BY <1>2, <2>1, <2>5, Stopping, BooksKept
  <2>6. CASE Go(w, "finish") /\ session[Held(w)].state = "expired"
    <3>1. session'[<<job[w].res, job[w].ref>>].state = "expired"
      BY <2>1, <2>6 DEF Held, rowVars
    <3> QED BY <1>2, <2>1, <2>2, <2>6, <3>1, Going, BooksKept DEF StepNames
  <2> QED BY <2>3, <2>4, <2>5, <2>6
<1>5. CASE Finish(w) \/ Release(w)
  <2>1. PICK r : r = job[w].res
    OBVIOUS
  <2>2. /\ job[w].pc \in {"finish", "release"} /\ Done(w)
        /\ UNCHANGED <<due, history, ledger, session, notice>>
    BY <1>5 DEF Finish, Release, At
  <2>3. r \in Reservations
    BY <1>2, <2>1, <2>2, Holding
  <2>4. CASE UNCHANGED <<reservation, payment>>
    BY <1>2, <2>2, <2>4, SameKept, Stopping, BooksKept DEF rowVars
  <2>5. CASE ~UNCHANGED <<reservation, payment>>
    <3>1. GiveBack(r) /\ reservation[r] = "pending"
      BY <1>5, <2>1, <2>5 DEF Finish, Release, Finishable
    <3>2. payment[r].ref # None => session[<<r, payment[r].ref>>].state = "expired"
      <4>1. CASE Finish(w)
        <5>1. job[w].pc = "finish" /\ payment[r].ref = job[w].ref
          BY <2>1, <2>5, <4>1 DEF Finish, Finishable, At
        <5> QED BY <1>2, <2>1, <5>1, Holding DEF Held
      <4>2. CASE Release(w)
        <5>1. payment[r].status = "pending"
          BY <2>3, <3>1 DEF Books, RowsAgree, RowOK
        <5> QED BY <2>1, <2>5, <4>2, <5>1 DEF Release
      <4> QED BY <1>5, <4>1, <4>2
    <3>3. Books'
      BY <2>2, <2>3, <3>1, <3>2, GiveBackBooks
    <3>4. Kept
      BY <2>2, <3>1 DEF GiveBack, Kept, Books, Types
    <3> QED BY <1>2, <2>2, <3>3, <3>4, Stopping
  <2> QED BY <2>4, <2>5
<1>6. ASSUME NEW r \in Reservations, Pick(w, r) PROVE IInv'
  <2>1. UNCHANGED rowVars /\ Kept /\ reservation[r] = "pending"
    BY <1>6, SameKept DEF Pick, rowVars
  <2>2. PICK p \in PaymentRow : p = payment[r]
    BY DEF Books, Types
  <2>3. PICK x : x = [pc |-> IF p.ref = None THEN "release" ELSE "close",
                      res |-> r, gen |-> p.gen, ref |-> p.ref]
    OBVIOUS
  <2>4. job' = [job EXCEPT ![w] = x]
    BY <1>6, <2>2, <2>3 DEF Pick
  <2>5. x \in JobRow
    BY <2>2, <2>3 DEF JobRow, PaymentRow, StepNames
  <2>6. JobOK(x)'
    BY <2>1, <2>3 DEF JobOK, rowVars
  <2> QED BY <1>2, <2>1, <2>4, <2>5, <2>6, Moving, BooksKept
<1> QED BY <1>1, <1>3, <1>4, <1>5, <1>6

\* The runner, the provider, the clock and a crash.
LEMMA OutsideKeeps ==
  ASSUME Setting, IInv, OutsideStep
  PROVE  IInv'
<1> USE DEF IInv
<1>1. ASSUME NEW s \in Sessions, Pay(s) \/ PayLate(s) PROVE IInv'
  <2>1. session[s].shown /\ ~session[s].captured /\ Capture(s)
    BY <1>1 DEF Pay, PayLate
  <2>2. Kept /\ UNCHANGED job
    <3>1. UNCHANGED <<reservation, job>> /\ \A t \in Sessions : session'[t].state = session[t].state
      BY <2>1 DEF Capture, Books, Types, SessionRow
    <3> QED BY <3>1 DEF Kept
  <2> QED BY <2>1, <2>2, CaptureBooks, Resting
<1>2. ASSUME NEW s \in Sessions, ExpireSession(s) PROVE IInv'
  <2>1. /\ session' = [session EXCEPT ![s].state = "expired"]
        /\ UNCHANGED <<reservation, due, payment, history, ledger, notice, job>>
    BY <1>2 DEF ExpireSession
  <2>2. Kept
    BY <2>1 DEF Kept, Books, Types, SessionRow
  <2> QED BY <2>1, <2>2, CloseBooks, Resting
<1>3. ASSUME NEW r \in Reservations, Deadline(r) PROVE IInv'
  <2>1. Kept /\ UNCHANGED job
    BY <1>3, SameKept DEF Deadline
  <2> QED BY <1>3, <2>1, DeadlineBooks, Resting
<1>4. ASSUME NEW p \in Procs, Crash(p) PROVE IInv'
  <2>1. Kept /\ UNCHANGED rowVars /\ Done(p)
    BY <1>4, SameKept DEF Crash, rowVars
  <2> QED BY <2>1, Stopping, BooksKept
<1> QED BY <1>1, <1>2, <1>3, <1>4 DEF OutsideStep
----------------------------------------------------------------------------
(* The theorems. *)

\* The initial states satisfy the invariant.
LEMMA Initially ==
  ASSUME Setting, Init
  PROVE  IInv
<1>1. 0 \in Generations
  BY DEF Setting, Generations
<1>2. Types
  BY <1>1 DEF Init, Types, ReservationStatus, PaymentRow, SessionRow, Unpaid, NoSession
<1>3. /\ \A r \in Reservations : payment[r] = Unpaid /\ reservation[r] = "none"
      /\ \A s \in Sessions : session[s] = NoSession
  BY DEF Init
<1>4. RowsAgree
  BY <1>3 DEF RowsAgree, RowOK, Unpaid
<1>5. SessionsAgree
  BY <1>3 DEF Init, SessionsAgree, NoSession
<1>6. LedgerAgrees
  <2>1. ledger = {}
    BY DEF Init
  <2>2. ASSUME NEW s \in Sessions PROVE payment[s[1]].capture # s[2]
    BY <1>3, SessionIsPair DEF Unpaid, Setting
  <2> QED BY <2>1, <2>2 DEF LedgerAgrees, Recorded
<1>7. ClosedWhenExpired
  BY <1>3 DEF ClosedWhenExpired
<1>8. PlacesFit
  <2>1. Claims = {}
    BY <1>3 DEF Claims, Live
  <2> QED BY <2>1, FS_EmptySet DEF PlacesFit, Setting
<1>9. Working
  <2>1. job = [p \in Procs |-> Idle]
    BY DEF Init
  <2>2. job \in [Procs -> JobRow]
    BY <2>1, IdleType
  <2>3. \A p \in Procs : job[p].pc = "idle"
    BY <2>1 DEF Idle
  <2> QED BY <2>2, <2>3 DEF Working, Jobs, JobOK
<1> QED BY <1>2, <1>4, <1>5, <1>6, <1>7, <1>8, <1>9 DEF IInv, Books

\* Every step of the reservation checkout keeps the invariant.
LEMMA Inductive ==
  ASSUME Setting, IInv, [Next]_vars
  PROVE  IInv'
<1>1. CASE UNCHANGED vars
  <2>1. UNCHANGED rowVars /\ Kept /\ UNCHANGED job
    BY <1>1, SameKept DEF vars, rowVars
  <2> QED BY <2>1, BooksKept, Resting DEF IInv
<1>2. CASE Next
  BY <1>2, CallKeeps, VerifyKeeps, WorkerKeeps, OutsideKeeps DEF Next
<1> QED BY <1>1, <1>2

\* The rows, the provider's sessions and the running jobs agree in every state of the checkout, the
\* webhook and the expiry worker.
THEOREM Invariance ==
  ASSUME Setting
  PROVE  Spec => []IInv
<1>1. Init => IInv
  BY Initially
<1>2. IInv /\ [Next]_vars => IInv'
  BY Inductive
<1> QED BY <1>1, <1>2, PTL DEF Spec

\* The columns, the provider's sessions and the jobs keep their types.
THEOREM TypeCorrect ==
  ASSUME Setting
  PROVE  Spec => []TypeOK
<1>1. IInv => TypeOK
  BY DEF IInv, Books, Working, Types, TypeOK, ReservationStatus, PaymentRow, SessionRow, JobRow
<1> QED BY <1>1, Invariance, PTL

\* A session the booker has seen is the bound one or a replaced one; a replaced one is closed, the
\* bound one was captured or closed before the place was settled.
THEOREM SettledCannotBePaid ==
  ASSUME Setting
  PROVE  Spec => []SettledIsUnpayable
<1>1. ASSUME IInv PROVE SettledIsUnpayable
  <2> SUFFICES ASSUME NEW s \in Sessions, reservation[s[1]] \in {"paid", "expired"},
                      session[s].shown, session[s].state = "open", ~session[s].captured
               PROVE  FALSE
    BY DEF SettledIsUnpayable
  <2>1. PICK r \in Reservations, g \in Generations : s = <<r, g>> /\ s[1] = r /\ s[2] = g
    BY SessionIsPair
  <2>2. Known(r, g) /\ g # None
    BY <1>1, <2>1 DEF IInv, Books, SessionsAgree, Setting
  <2>3. s \notin history
    BY <1>1 DEF IInv, Books, SessionsAgree
  <2>4. payment[r].ref = g
    BY <2>1, <2>2, <2>3 DEF Known
  <2>5. CASE reservation[r] = "expired"
    BY <1>1, <2>1, <2>2, <2>4, <2>5 DEF IInv, Books, ClosedWhenExpired
  <2>6. CASE reservation[r] = "paid"
    <3>1. payment[r].capture = g
      BY <1>1, <2>4, <2>6 DEF IInv, Books, RowsAgree, RowOK
    <3>2. Recorded(s)
      BY <1>1, <2>1, <3>1 DEF IInv, Books, LedgerAgrees, Recorded
    <3> QED BY <1>1, <3>2 DEF IInv, Books, LedgerAgrees
  <2> QED BY <2>1, <2>5, <2>6
<1> QED BY <1>1, Invariance, PTL

\* The capture that settled a reservation is the one its payment names, so a paid reservation has
\* one and no other has any.
LEMMA OneSettles ==
  ASSUME Setting, IInv, NEW r \in Reservations, NEW settled,
         settled = {l[1] : l \in {c \in Captures(r) : c[2] = "settled"}}
  PROVE  /\ reservation[r] = "paid" <=> Cardinality(settled) = 1
         /\ \A s \in settled : session[s].inTime
<1>1. \A s : s \in settled <=> s \in Sessions /\ s[1] = r /\ <<s, "settled">> \in ledger
  <2>1. ledger \subseteq Sessions \X {"settled", "review"}
    BY DEF IInv, Books, Types
  <2> QED BY <2>1 DEF Captures
<1>2. \A s : s \in settled <=> s \in Sessions /\ s[1] = r /\ payment[r].capture = s[2]
  BY <1>1 DEF IInv, Books, LedgerAgrees
<1>3. payment[r] \in PaymentRow /\ (payment[r].capture # None <=> reservation[r] = "paid")
  BY DEF IInv, Books, Types, RowsAgree, RowOK
<1>4. \A s \in settled : session[s].inTime
  BY <1>1 DEF IInv, Books, LedgerAgrees
<1>5. CASE reservation[r] = "paid"
  <2>1. PICK g \in Generations : g = payment[r].capture
    BY <1>3, <1>5 DEF PaymentRow
  <2>2. settled = {<<r, g>>}
    <3>1. \A s : s \in settled => s = <<r, g>>
      BY <1>2, <2>1, SessionIsPair
    <3>2. PICK t \in Sessions : t = <<r, g>> /\ t[1] = r /\ t[2] = g
      BY SessionIsPair
    <3>3. t \in settled
      BY <1>2, <2>1, <3>2
    <3> QED BY <3>1, <3>2, <3>3
  <2> QED BY <1>5, <1>4, <2>2, FS_Singleton
<1>6. CASE reservation[r] # "paid"
  <2>1. settled = {}
    BY <1>2, <1>3, <1>6, SessionIsPair DEF Setting
  <2> QED BY <1>6, <2>1, FS_EmptySet
<1> QED BY <1>5, <1>6

\* A capture is known and announced until it is recorded, one capture settles a reservation, in
\* time, and the places taken never exceed the event's.
THEOREM NoCaptureLost ==
  ASSUME Setting
  PROVE  Spec => []CapturesAreKept
<1>1. ASSUME IInv PROVE CapturesAreKept
  <2>1. \A s \in Sessions :
            session[s].captured /\ ~Recorded(s) => s \in notice /\ Known(s[1], s[2])
    BY <1>1 DEF IInv, Books, SessionsAgree
  <2>2. Cardinality(Claims) <= Slots
    BY <1>1 DEF IInv, Books, PlacesFit
  <2>3. ASSUME NEW r \in Reservations
        PROVE  LET settled == {l[1] : l \in {c \in Captures(r) : c[2] = "settled"}}
               IN  /\ reservation[r] = "paid" <=> Cardinality(settled) = 1
                   /\ \A s \in settled : session[s].inTime
    BY <1>1, OneSettles
  <2> QED BY <2>1, <2>2, <2>3 DEF CapturesAreKept
<1> QED BY <1>1, Invariance, PTL
====
