------------------------- MODULE GroupOrder_proofs -------------------------
(* Group checkout admits whole parties, once, into places that exist, and  *)
(* lets the booker pay in one session at a time, whatever calls, sweeps,   *)
(* captures and lost answers come in between.  The invariant is proved in  *)
(* layers, each from the layers below it: what calls hold, what the        *)
(* dispatch of an attempt says about its session and its captures, what    *)
(* an order says about its attempts, what it says about its entries.       *)
EXTENDS GroupOrder, FiniteSetTheorems, TLAPS

Dispatching == {"create", "bind", "unknown"}
Asking == {"observe", "confirm", "retry", "expire", "close"}
ForOrder == {"expire", "close", "finish", "batch"}

\* A call works for an attempt, an expiry run for an order.
CallsOK ==
    \A w \in Workers :
        /\ job[w].pc \in Dispatching \cup Asking => job[w].att \in Attempts
        /\ job[w].pc \in ForOrder => job[w].order \in Orders

TypeInv == TypeOK /\ CallsOK

\* The dispatch of an attempt and its status move together.
RowOK(r) ==
    /\ r.status = "none" <=> r.order = None
    /\ r.dispatch = "none" => r.status \in {"none", "prepared", "expired", "paid"}
    /\ r.dispatch = "creating" => r.status = "creating"
    /\ r.dispatch = "unknown" => r.status = "creation_unknown"
    /\ r.dispatch = "ready" => r.status \in {"ready", "paid", "expired", "reconciliation_required"}

\* A session comes from a dispatch; an attempt is given up once its session is closed, and settled
\* or taken into review once its session took money.
SessionOK(a) ==
    /\ sess[a] # "none" => attempt[a].dispatch # "none"
    /\ attempt[a].dispatch = "ready" =>
          /\ sess[a] # "none"
          /\ attempt[a].status = "expired" => sess[a] = "closed"
          /\ attempt[a].status \in {"paid", "reconciliation_required"} => PaidOn(a) # {}

RowsOK == \A a \in Attempts : RowOK(attempt[a]) /\ SessionOK(a)

\* Money is taken in a session whose URL was handed out, and recorded after that.
ChargesOK ==
    \A p \in Captures :
        /\ charge[p].att = None => charge[p] = NoCharge /\ inbox[p] = "none"
        /\ charge[p].att # None => attempt[charge[p].att].dispatch = "ready"

\* What a call has seen of its attempt still holds when it acts on it.
JobOK(w) ==
    LET a == job[w].att IN
    /\ job[w].pc \in {"create", "bind"} => attempt[a].dispatch = "creating"
    /\ job[w].pc = "create" => sess[a] = "none"
    /\ job[w].pc = "bind" => sess[a] # "none"
    /\ job[w].pc = "unknown" => attempt[a].dispatch \in {"creating", "ready"}
    /\ job[w].pc \in Asking => attempt[a].dispatch = "ready"
    /\ job[w].pc \in {"retry", "close"} => sess[a] = "closed"
    /\ job[w].pc \in {"observe", "confirm"} => job[w].todo \subseteq PaidOn(a)
    /\ job[w].pc \in {"expire", "close"} => attempt[a].order = job[w].order

\* One call at a time creates the session of an attempt.
OneDispatcher ==
    \A v, w \in Workers :
        job[v].pc \in Dispatching /\ job[w].pc \in Dispatching /\ job[v].att = job[w].att => v = w

JobsOK == (\A w \in Workers : JobOK(w)) /\ OneDispatcher

SessionInv == TypeInv /\ RowsOK /\ ChargesOK /\ JobsOK

-----------------------------------------------------------------------------
(* What a step does to an attempt and to a call, field by field. *)

OthersKept(a) == \A b \in Attempts \ {a} : attempt'[b] = attempt[b]

Sets(a, s, d) ==
    /\ attempt' \in [Attempts -> AttemptRow]
    /\ OthersKept(a)
    /\ attempt'[a].status = s /\ attempt'[a].dispatch = d
    /\ attempt'[a].order = attempt[a].order /\ attempt'[a].quote = attempt[a].quote

Voids(A) ==
    /\ attempt' \in [Attempts -> AttemptRow]
    /\ \A b \in Attempts : /\ attempt'[b].order = attempt[b].order
                           /\ attempt'[b].quote = attempt[b].quote
                           /\ attempt'[b].dispatch = attempt[b].dispatch
                           /\ attempt'[b].status = IF b \in A THEN "expired" ELSE attempt[b].status

CallsKept(w) == \A v \in Workers \ {w} : job'[v] = job[v]

Continues(w, pc, todo) ==
    /\ job' \in [Workers -> JobCall]
    /\ CallsKept(w)
    /\ job'[w].pc = pc /\ job'[w].todo = todo
    /\ job'[w].att = job[w].att /\ job'[w].order = job[w].order

Turns(w, call) == job' \in [Workers -> JobCall] /\ CallsKept(w) /\ job'[w] = call

\* A status is set.
LEMMA Marked ==
    ASSUME TypeOK, NEW a \in Attempts, NEW s \in AttemptStatus,
           attempt' = [attempt EXCEPT ![a].status = s]
    PROVE  Sets(a, s, attempt[a].dispatch)
BY DEF TypeOK, AttemptRow, Sets, OthersKept

\* A status and a dispatch are set.
LEMMA Dispatched ==
    ASSUME TypeOK, NEW a \in Attempts, NEW s \in AttemptStatus,
           NEW d \in {"none", "creating", "unknown", "ready"},
           attempt' = [attempt EXCEPT ![a].status = s, ![a].dispatch = d]
    PROVE  Sets(a, s, d)
BY DEF TypeOK, AttemptRow, Sets, OthersKept

\* A dispatch and a status are set.
LEMMA DispatchedFirst ==
    ASSUME TypeOK, NEW a \in Attempts, NEW s \in AttemptStatus,
           NEW d \in {"none", "creating", "unknown", "ready"},
           attempt' = [attempt EXCEPT ![a].dispatch = d, ![a].status = s]
    PROVE  Sets(a, s, d)
BY DEF TypeOK, AttemptRow, Sets, OthersKept

\* Attempts are voided.
LEMMA Voided ==
    ASSUME TypeOK, NEW A, attempt' = SetAttempts(A, "expired")
    PROVE  Voids(A)
<1>1. ASSUME NEW b \in Attempts
      PROVE  /\ attempt'[b] = IF b \in A THEN [attempt[b] EXCEPT !.status = "expired"] ELSE attempt[b]
             /\ attempt[b] \in AttemptRow
  BY DEF TypeOK, SetAttempts
<1>2. ASSUME NEW b \in Attempts
      PROVE  /\ attempt'[b] \in AttemptRow
             /\ attempt'[b].order = attempt[b].order
             /\ attempt'[b].quote = attempt[b].quote
             /\ attempt'[b].dispatch = attempt[b].dispatch
             /\ attempt'[b].status = IF b \in A THEN "expired" ELSE attempt[b].status
  BY <1>1 DEF AttemptRow, AttemptStatus
<1>3. attempt' = [b \in Attempts |-> attempt'[b]]
  BY DEF SetAttempts
<1>4. attempt' \in [Attempts -> AttemptRow]
  BY <1>2, <1>3
<1> QED BY <1>2, <1>4 DEF Voids

\* One attempt is voided.
LEMMA VoidedOne ==
    ASSUME TypeOK, NEW a \in Attempts, attempt' = SetAttempts({a}, "expired")
    PROVE  Sets(a, "expired", attempt[a].dispatch)
BY DEF TypeOK, AttemptRow, AttemptStatus, Sets, OthersKept, SetAttempts

\* A call goes on.
LEMMA Went ==
    ASSUME TypeOK, NEW w \in Workers, NEW pc \in JobPc, Go(w, pc)
    PROVE  Continues(w, pc, job[w].todo)
BY DEF TypeOK, JobCall, Continues, CallsKept, Go

\* A call is done with a capture.
LEMMA Did ==
    ASSUME TypeOK, NEW w \in Workers, NEW p \in Captures, job' = [job EXCEPT ![w].todo = @ \ {p}]
    PROVE  Continues(w, job[w].pc, job[w].todo \ {p})
BY DEF TypeOK, JobCall, Continues, CallsKept

\* A call starts anew.
LEMMA Turned ==
    ASSUME TypeOK, NEW w \in Workers, NEW call \in JobCall, job' = [job EXCEPT ![w] = call]
    PROVE  Turns(w, call)
BY DEF TypeOK, Turns, CallsKept

\* A call ends.
LEMMA Ended ==
    ASSUME TypeOK, NEW w \in Workers, Idle(w)
    PROVE  Turns(w, NoJob)
<1>1. NoJob \in JobCall
  BY DEF NoJob, JobCall, JobPc
<1> QED BY <1>1, Turned DEF Idle

\* The record of a call that starts with a position and one target.
LEMMA Started ==
    ASSUME NEW pc, NEW x
    PROVE  /\ [NoJob EXCEPT !.pc = pc, !.att = x] = [pc |-> pc, att |-> x, order |-> None, todo |-> {}]
           /\ [NoJob EXCEPT !.pc = pc, !.order = x] = [pc |-> pc, att |-> None, order |-> x, todo |-> {}]
<1>1. [NoJob EXCEPT !.pc = pc] = [pc |-> pc, att |-> None, order |-> None, todo |-> {}]
  BY DEF NoJob
<1>2. /\ [NoJob EXCEPT !.pc = pc, !.att = x] = [[NoJob EXCEPT !.pc = pc] EXCEPT !.att = x]
      /\ [NoJob EXCEPT !.pc = pc, !.order = x] = [[NoJob EXCEPT !.pc = pc] EXCEPT !.order = x]
  OBVIOUS
<1>3. /\ [[pc |-> pc, att |-> None, order |-> None, todo |-> {}] EXCEPT !.att = x]
             = [pc |-> pc, att |-> x, order |-> None, todo |-> {}]
      /\ [[pc |-> pc, att |-> None, order |-> None, todo |-> {}] EXCEPT !.order = x]
             = [pc |-> pc, att |-> None, order |-> x, todo |-> {}]
  OBVIOUS
<1> QED BY <1>1, <1>2, <1>3

\* A call ends, or goes back to its expiry run.
LEMMA Returned ==
    ASSUME TypeOK, NEW w \in Workers, Return(w)
    PROVE  \/ Turns(w, NoJob)
           \/ /\ job[w].order \in Orders
              /\ Turns(w, [pc |-> "batch", att |-> None, order |-> job[w].order, todo |-> {}])
<1>1. CASE job[w].order = None
  BY <1>1, Ended DEF Return, Idle
<1>2. CASE job[w].order # None
  <2> DEFINE call == [pc |-> "batch", att |-> None, order |-> job[w].order, todo |-> {}]
  <2>1. call \in JobCall
    BY DEF TypeOK, JobCall, JobPc
  <2>2. job[w].order \in Orders
    BY <1>2 DEF TypeOK, JobCall
  <2>3. [NoJob EXCEPT !.pc = "batch", !.order = job[w].order] = call
    BY Started, Zenon
  <2>4. job' = [job EXCEPT ![w] = [NoJob EXCEPT !.pc = "batch", !.order = job[w].order]]
    BY <1>2 DEF Return
  <2> HIDE DEF call
  <2>5. job' = [job EXCEPT ![w] = call]
    BY <2>3, <2>4
  <2>6. Turns(w, call)
    BY <2>1, <2>5, Turned
  <2> QED BY <2>2, <2>6 DEF call
<1> QED BY <1>1, <1>2

\* A verification starts.
LEMMA Consulted ==
    ASSUME TypeOK, NEW w \in Workers, NEW a \in Attempts, NEW o \in Orders \cup {None},
           NEW r \in BOOLEAN, Consult(w, a, o, r)
    PROVE  \E pc \in {"observe", "confirm"}, todo \in SUBSET PaidOn(a) :
               Turns(w, [pc |-> pc, att |-> a, order |-> o, todo |-> todo])
<1>1. Received(a) \subseteq PaidOn(a) /\ PaidOn(a) \subseteq Captures
  BY DEF Received, PaidOn
<1>2. \A pc \in {"observe", "confirm"}, todo \in SUBSET PaidOn(a) :
         [pc |-> pc, att |-> a, order |-> o, todo |-> todo] \in JobCall
  BY <1>1 DEF JobCall, JobPc
<1> QED BY <1>1, <1>2, Turned DEF Consult

-----------------------------------------------------------------------------
(* The first layer: types. *)

\* The calls keep their targets when the one that moves keeps its own.
LEMMA CallsAfter ==
    ASSUME CallsOK, NEW w \in Workers, CallsKept(w),
           job'[w].pc \in Dispatching \cup Asking => job'[w].att \in Attempts,
           job'[w].pc \in ForOrder => job'[w].order \in Orders
    PROVE  CallsOK'
BY DEF CallsOK, CallsKept

LEMMA CallsEnded == ASSUME CallsOK, NEW w \in Workers, Turns(w, NoJob) PROVE CallsOK'
<1>1. job'[w].pc = "idle"
  BY DEF Turns, NoJob
<1> QED BY <1>1, CallsAfter DEF Turns, Dispatching, Asking, ForOrder

LEMMA CallsReturned == ASSUME TypeInv, NEW w \in Workers, Return(w) PROVE CallsOK' /\ job' \in [Workers -> JobCall]
<1>1. CASE Turns(w, NoJob)
  BY <1>1, CallsEnded DEF TypeInv, Turns
<1>2. CASE /\ job[w].order \in Orders
           /\ Turns(w, [pc |-> "batch", att |-> None, order |-> job[w].order, todo |-> {}])
  <2>1. job'[w].pc = "batch" /\ job'[w].order \in Orders /\ CallsKept(w) /\ job' \in [Workers -> JobCall]
    BY <1>2 DEF Turns
  <2> QED BY <2>1, CallsAfter DEF Dispatching, Asking, TypeInv
<1> QED BY <1>1, <1>2, Returned DEF TypeInv

LEMMA CallsDid ==
    ASSUME TypeInv, NEW w \in Workers, NEW p \in Captures, job' = [job EXCEPT ![w].todo = @ \ {p}]
    PROVE  CallsOK' /\ job' \in [Workers -> JobCall]
<1>1. Continues(w, job[w].pc, job[w].todo \ {p})
  BY Did DEF TypeInv
<1> QED BY <1>1, CallsAfter DEF TypeInv, CallsOK, Continues

LEMMA CallsConsult ==
    ASSUME TypeInv, NEW w \in Workers, NEW a \in Attempts, NEW o \in Orders \cup {None},
           NEW r \in BOOLEAN, Consult(w, a, o, r)
    PROVE  CallsOK' /\ job' \in [Workers -> JobCall]
<1>1. PICK pc \in {"observe", "confirm"}, todo \in SUBSET PaidOn(a) :
          Turns(w, [pc |-> pc, att |-> a, order |-> o, todo |-> todo])
  BY Consulted DEF TypeInv
<1>2. job'[w].pc = pc /\ job'[w].att = a /\ CallsKept(w) /\ job' \in [Workers -> JobCall]
  BY <1>1 DEF Turns
<1> QED BY <1>2, CallsAfter DEF TypeInv, ForOrder

LEMMA CallsGo ==
    ASSUME TypeInv, NEW w \in Workers, NEW pc \in JobPc, Go(w, pc),
           pc \in Dispatching \cup Asking => job[w].pc \in Dispatching \cup Asking,
           pc \in ForOrder => job[w].pc \in ForOrder
    PROVE  CallsOK' /\ job' \in [Workers -> JobCall]
<1>1. Continues(w, pc, job[w].todo)
  BY Went DEF TypeInv
<1> QED BY <1>1, CallsAfter DEF TypeInv, CallsOK, Continues

\* A row of entries, and of orders, is written with a status.
LEMMA Written ==
    ASSUME TypeOK
    PROVE  /\ \A E, s : s \in RegStatus => SetReg(E, s) \in [Entries -> RegStatus]
           /\ \A o, s : s \in OrderStatus => [order EXCEPT ![o] = s] \in [Orders -> OrderStatus]
BY DEF TypeOK, SetReg

LEMMA Counted == ASSUME TypeOK, NEW o \in Orders \cup {None} PROVE slots + Cardinality(EntriesOf[o]) \in Nat
<1>1. EntriesOf[o] = {e \in Entries : OrderOf[e] = o}
  BY DEF EntriesOf
<1>2. IsFiniteSet(EntriesOf[o])
  BY <1>1, FS_Subset, GroupAssumption
<1>3. Cardinality(EntriesOf[o]) \in Nat
  BY <1>2, FS_CardinalityType
<1> QED BY <1>3 DEF TypeOK

\* An admission writes its rows and counts its entries.
LEMMA Admitted ==
    ASSUME TypeOK, NEW o \in Orders \cup {None}, NEW a \in Attempts, Admit(o, a)
    PROVE  /\ reg' \in [Entries -> RegStatus] /\ slots' \in Nat
           /\ order' \in [Orders -> OrderStatus] /\ batch' \in [Orders -> BatchStatus]
           /\ Sets(a, "paid", attempt[a].dispatch)
<1>1. attempt' = [attempt EXCEPT ![a].status = "paid"] /\ "paid" \in AttemptStatus
      /\ reg' = SetReg(EntriesOf[o], "paid") /\ "paid" \in RegStatus
      /\ order' = [order EXCEPT ![o] = "paid"] /\ "paid" \in OrderStatus
      /\ slots' = slots + Cardinality(EntriesOf[o])
  BY DEF Admit, AttemptStatus, RegStatus, OrderStatus
<1>2. Sets(a, "paid", attempt[a].dispatch)
  BY <1>1, Marked
<1>3. batch' \in [Orders -> BatchStatus]
  BY DEF Admit, TypeOK, BatchStatus
<1> QED BY <1>1, <1>2, <1>3, Written, Counted

\* A review marks an order and its attempt, unless the order is paid.
LEMMA Reviewed ==
    ASSUME TypeOK, NEW o, NEW a \in Attempts, Review(o, a)
    PROVE  /\ order' \in [Orders -> OrderStatus] /\ attempt' \in [Attempts -> AttemptRow]
           /\ \/ order[o] = "paid" /\ order' = order /\ attempt' = attempt
              \/ /\ order[o] # "paid" /\ order' = [order EXCEPT ![o] = "reconciliation_required"]
                 /\ Sets(a, "reconciliation_required", attempt[a].dispatch)
<1>1. CASE order[o] = "paid"
  BY <1>1 DEF Review, TypeOK
<1>2. CASE order[o] # "paid"
  <2>1. attempt' = [attempt EXCEPT ![a].status = "reconciliation_required"]
        /\ order' = [order EXCEPT ![o] = "reconciliation_required"]
        /\ "reconciliation_required" \in AttemptStatus /\ "reconciliation_required" \in OrderStatus
    BY <1>2 DEF Review, AttemptStatus, OrderStatus
  <2> QED BY <1>2, <2>1, Marked, Written DEF Sets
<1> QED BY <1>1, <1>2

-----------------------------------------------------------------------------
(* What the steps that touch an attempt or a call do to both. *)

LEMMA PrepareDoes ==
    ASSUME TypeInv, NEW o \in Orders, NEW a \in Attempts, Prepare(o, a)
    PROVE  /\ TypeInv'
           /\ OthersKept(a) /\ attempt[a].status = "none"
           /\ attempt'[a].order = o /\ attempt'[a].quote = Quote(o)
           /\ attempt'[a].status = "prepared" /\ attempt'[a].dispatch = "none"
<1>1. attempt' = [attempt EXCEPT ![a] = [order |-> o, status |-> "prepared",
                                         quote |-> Quote(o), dispatch |-> "none"]]
  BY DEF Prepare, PrepareIf
<1>2. Quote(o) \in SUBSET (Entries \X Prices)
  BY DEF TypeInv, TypeOK, Quote, EntriesOf
<1>3. [order |-> o, status |-> "prepared", quote |-> Quote(o), dispatch |-> "none"] \in AttemptRow
  BY <1>2 DEF AttemptRow, AttemptStatus
<1>4. attempt' \in [Attempts -> AttemptRow] /\ OthersKept(a)
      /\ attempt'[a] = [order |-> o, status |-> "prepared", quote |-> Quote(o), dispatch |-> "none"]
  BY <1>1, <1>3 DEF TypeInv, TypeOK, OthersKept
<1>5. TypeInv'
  BY <1>4 DEF Prepare, PrepareIf, TypeInv, TypeOK, CallsOK, restVars
<1>6. attempt[a].status = "none"
  BY DEF Prepare, PrepareIf
<1>7. attempt'[a].order = o /\ attempt'[a].quote = Quote(o)
      /\ attempt'[a].status = "prepared" /\ attempt'[a].dispatch = "none"
  BY <1>4
<1> QED BY <1>4, <1>5, <1>6, <1>7

LEMMA ConfirmFreeDoes ==
    ASSUME TypeInv, NEW o \in Orders, NEW a \in Attempts, ConfirmFree(o, a)
    PROVE  TypeInv' /\ Sets(a, "paid", attempt[a].dispatch)
<1>1. free' \in [Orders -> BOOLEAN]
  BY DEF TypeInv, TypeOK, ConfirmFree
<1>2. Admit(o, a)
  BY DEF ConfirmFree
<1>3. Sets(a, "paid", attempt[a].dispatch)
      /\ reg' \in [Entries -> RegStatus] /\ slots' \in Nat
      /\ order' \in [Orders -> OrderStatus] /\ batch' \in [Orders -> BatchStatus]
  BY <1>2, Admitted DEF TypeInv
<1> QED BY <1>1, <1>3 DEF ConfirmFree, TypeInv, TypeOK, CallsOK, restVars, Sets

LEMMA ClaimDoes ==
    ASSUME TypeInv, NEW w \in Workers, NEW a \in Attempts, ClaimDispatch(w, a)
    PROVE  /\ TypeInv' /\ attempt[a].status = "prepared" /\ Sets(a, "creating", "creating")
           /\ Turns(w, [pc |-> "create", att |-> a, order |-> None, todo |-> {}])
<1> DEFINE call == [pc |-> "create", att |-> a, order |-> None, todo |-> {}]
<1>1. attempt' = [attempt EXCEPT ![a].status = "creating", ![a].dispatch = "creating"]
      /\ job' = [job EXCEPT ![w] = [NoJob EXCEPT !.pc = "create", !.att = a]]
      /\ "creating" \in AttemptStatus
  BY DEF ClaimDispatch, ClaimDispatchIf, AttemptStatus
<1>2. Sets(a, "creating", "creating")
  BY <1>1, Dispatched DEF TypeInv
<1>3. [NoJob EXCEPT !.pc = "create", !.att = a] = call /\ call \in JobCall
  BY Started DEF JobCall, JobPc
<1> HIDE DEF call
<1>4. job' = [job EXCEPT ![w] = call]
  BY <1>1, <1>3
<1>5. Turns(w, call)
  BY <1>3, <1>4, Turned DEF TypeInv
<1>6. CallsOK'
  <2>1. job'[w].pc = "create" /\ job'[w].att = a /\ CallsKept(w)
    BY <1>5 DEF call, Turns
  <2> QED BY <2>1, CallsAfter DEF TypeInv, Dispatching, ForOrder
<1>7. attempt[a].status = "prepared" /\ TypeOK'
  BY <1>2, <1>5 DEF ClaimDispatch, ClaimDispatchIf, TypeInv, TypeOK, Sets, Turns, restVars
<1> QED BY <1>2, <1>5, <1>6, <1>7 DEF call, TypeInv

LEMMA CreateDoes ==
    ASSUME TypeInv, NEW w \in Workers, CreateSession(w)
    PROVE  /\ TypeInv' /\ job[w].pc = "create"
           /\ \/ sess' = [sess EXCEPT ![job[w].att] = "open"]
                 /\ (Continues(w, "bind", job[w].todo) \/ Continues(w, "unknown", job[w].todo))
              \/ sess' = sess /\ Continues(w, "unknown", job[w].todo)
<1>1. job[w].pc = "create" /\ (Go(w, "bind") \/ Go(w, "unknown")) /\ {"bind", "unknown"} \subseteq JobPc
      /\ (sess' = sess \/ sess' = [sess EXCEPT ![job[w].att] = "open"])
  BY DEF CreateSession, JobPc
<1>2. CallsOK' /\ job' \in [Workers -> JobCall]
  BY <1>1, CallsGo DEF Dispatching, Asking, ForOrder
<1>3. sess' \in [Attempts -> {"none", "open", "closed"}]
  BY <1>1 DEF TypeInv, TypeOK
<1>4. Go(w, "bind") => Continues(w, "bind", job[w].todo)
  BY <1>1, Went DEF TypeInv
<1>5. Go(w, "unknown") => Continues(w, "unknown", job[w].todo)
  BY <1>1, Went DEF TypeInv
<1>6. TypeOK'
  BY <1>2, <1>3 DEF CreateSession, rowVars, TypeInv, TypeOK
<1> QED BY <1>1, <1>2, <1>4, <1>5, <1>6 DEF CreateSession, TypeInv

LEMMA BindDoes ==
    ASSUME TypeInv, NEW w \in Workers, BindSession(w)
    PROVE  LET a == job[w].att IN
           /\ TypeInv' /\ job[w].pc = "bind" /\ a \in Attempts
           /\ Sets(a, IF attempt[a].status \in {"creating", "creation_unknown"} THEN "ready"
                      ELSE attempt[a].status, "ready")
           /\ Turns(w, NoJob) \/ Continues(w, "unknown", job[w].todo)
<1> DEFINE a == job[w].att
           s == IF attempt[a].status \in {"creating", "creation_unknown"} THEN "ready" ELSE attempt[a].status
<1>1. job[w].pc = "bind" /\ a \in Attempts
  BY DEF BindSession, TypeInv, CallsOK, Dispatching
<1>2. Sets(a, s, "ready") /\ attempt' \in [Attempts -> AttemptRow]
  <2>1. attempt' = [attempt EXCEPT ![a].dispatch = "ready", ![a].status = s]
    BY <1>1 DEF BindSession
  <2>2. s \in AttemptStatus
    BY <1>1 DEF TypeInv, TypeOK, AttemptRow, AttemptStatus
  <2> HIDE DEF s, a
  <2> QED BY <1>1, <2>1, <2>2, DispatchedFirst DEF TypeInv, Sets
<1>3. CASE Idle(w)
  <2>1. Turns(w, NoJob)
    BY <1>3, Ended DEF TypeInv
  <2> QED BY <1>1, <1>2, <2>1, CallsEnded DEF BindSession, TypeInv, TypeOK, restVars, Turns
<1>4. CASE Go(w, "unknown")
  <2>1. "unknown" \in JobPc
    BY DEF JobPc
  <2>2. Continues(w, "unknown", job[w].todo)
    BY <1>4, <2>1, Went DEF TypeInv
  <2>3. CallsOK'
    BY <1>1, <1>4, <2>1, CallsGo DEF Dispatching, Asking, ForOrder
  <2> QED BY <1>1, <1>2, <2>2, <2>3 DEF BindSession, TypeInv, TypeOK, restVars, Continues
<1> QED BY <1>3, <1>4 DEF BindSession

LEMMA UnknownDoes ==
    ASSUME TypeInv, NEW w \in Workers, MarkUnknown(w)
    PROVE  LET a == job[w].att IN
           /\ TypeInv' /\ job[w].pc = "unknown" /\ a \in Attempts
           /\ \/ attempt[a].dispatch = "ready" /\ attempt' = attempt
              \/ /\ attempt[a].dispatch # "ready"
                 /\ Sets(a, IF attempt[a].status = "creating" THEN "creation_unknown"
                            ELSE attempt[a].status, "unknown")
           /\ Turns(w, NoJob)
<1> DEFINE a == job[w].att
           s == IF attempt[a].status = "creating" THEN "creation_unknown" ELSE attempt[a].status
<1>1. job[w].pc = "unknown" /\ a \in Attempts
  BY DEF MarkUnknown, TypeInv, CallsOK, Dispatching
<1>2. \/ attempt[a].dispatch = "ready" /\ attempt' = attempt
      \/ attempt[a].dispatch # "ready" /\ Sets(a, s, "unknown")
  <2>1. CASE attempt[a].dispatch = "ready"
    BY <2>1 DEF MarkUnknown
  <2>2. CASE attempt[a].dispatch # "ready"
    <3>1. attempt' = [attempt EXCEPT ![a].dispatch = "unknown", ![a].status = s]
      BY <1>1, <2>2 DEF MarkUnknown
    <3>2. s \in AttemptStatus
      BY <1>1 DEF TypeInv, TypeOK, AttemptRow, AttemptStatus
    <3> HIDE DEF s, a
    <3> QED BY <1>1, <2>2, <3>1, <3>2, DispatchedFirst DEF TypeInv
  <2> QED BY <2>1, <2>2
<1>3. Turns(w, NoJob)
  BY Ended DEF MarkUnknown, TypeInv
<1>4. TypeInv'
  BY <1>2, <1>3, CallsEnded DEF MarkUnknown, TypeInv, TypeOK, restVars, Turns, Sets
<1> QED BY <1>1, <1>2, <1>3, <1>4

Returns(w) ==
    \/ Turns(w, NoJob)
    \/ /\ job[w].order \in Orders
       /\ Turns(w, [pc |-> "batch", att |-> None, order |-> job[w].order, todo |-> {}])

LEMMA VerifyDoes ==
    ASSUME TypeInv, NEW w \in Workers, NEW a \in Attempts, NEW r \in BOOLEAN, Verify(w, a, r)
    PROVE  /\ TypeInv' /\ attempt[a].dispatch = "ready"
           /\ \/ \E pc \in {"observe", "confirm"}, todo \in SUBSET PaidOn(a) :
                    Turns(w, [pc |-> pc, att |-> a, order |-> None, todo |-> todo])
              \/ /\ sess[a] = "closed"
                 /\ Turns(w, [pc |-> "retry", att |-> a, order |-> None, todo |-> {}])
<1>1. attempt[a].dispatch = "ready" /\ UNCHANGED <<rowVars, restVars>>
  BY DEF Verify
<1>2. CASE Consult(w, a, None, r)
  <2>1. CallsOK' /\ job' \in [Workers -> JobCall]
    BY <1>2, CallsConsult
  <2>2. \E pc \in {"observe", "confirm"}, todo \in SUBSET PaidOn(a) :
            Turns(w, [pc |-> pc, att |-> a, order |-> None, todo |-> todo])
    BY <1>2, Consulted DEF TypeInv
  <2> QED BY <1>1, <2>1, <2>2 DEF TypeInv, TypeOK, rowVars, restVars
<1>3. CASE sess[a] = "closed" /\ job' = [job EXCEPT ![w] = [NoJob EXCEPT !.pc = "retry", !.att = a]]
  <2> DEFINE call == [pc |-> "retry", att |-> a, order |-> None, todo |-> {}]
  <2>1. [NoJob EXCEPT !.pc = "retry", !.att = a] = call /\ call \in JobCall
    BY Started DEF JobCall, JobPc
  <2> HIDE DEF call
  <2>2. job' = [job EXCEPT ![w] = call]
    BY <1>3, <2>1
  <2>3. Turns(w, call)
    BY <2>1, <2>2, Turned DEF TypeInv
  <2>4. job'[w].pc = "retry" /\ job'[w].att = a /\ CallsKept(w) /\ job' \in [Workers -> JobCall]
    BY <2>3 DEF call, Turns
  <2>5. CallsOK'
    BY <2>4, CallsAfter DEF TypeInv, ForOrder
  <2> QED BY <1>1, <1>3, <2>3, <2>4, <2>5 DEF call, TypeInv, TypeOK, rowVars, restVars
<1> QED BY <1>1, <1>2, <1>3 DEF Verify

LEMMA ObserveDoes ==
    ASSUME TypeInv, NEW w \in Workers, NEW p \in Captures, Observe(w, p)
    PROVE  /\ TypeInv' /\ job[w].pc = "observe" /\ p \in job[w].todo /\ job[w].att \in Attempts
           /\ Continues(w, "observe", job[w].todo \ {p})
<1>1. job[w].pc = "observe" /\ p \in job[w].todo /\ job[w].att \in Attempts
      /\ job' = [job EXCEPT ![w].todo = @ \ {p}]
  BY DEF Observe, TypeInv, CallsOK, Asking
<1>2. inbox' \in [Captures -> CaptureState]
  BY DEF Observe, TypeInv, TypeOK, CaptureState
<1>3. Continues(w, "observe", job[w].todo \ {p})
  BY <1>1, Did DEF TypeInv
<1>4. CallsOK' /\ job' \in [Workers -> JobCall]
  BY <1>1, CallsDid
<1> QED BY <1>1, <1>2, <1>3, <1>4 DEF Observe, restVars, TypeInv, TypeOK

LEMMA ObservedDoes ==
    ASSUME TypeInv, NEW w \in Workers, Observed(w)
    PROVE  /\ TypeInv' /\ job[w].pc = "observe" /\ job[w].att \in Attempts
           /\ Continues(w, "confirm", Received(job[w].att))
<1>1. job[w].pc = "observe" /\ job[w].att \in Attempts
  BY DEF Observed, TypeInv, CallsOK, Asking
<1>2. Received(job[w].att) \subseteq Captures
  BY DEF Received, PaidOn
<1>3. Continues(w, "confirm", Received(job[w].att))
  BY <1>2 DEF Observed, TypeInv, TypeOK, JobCall, JobPc, Continues, CallsKept
<1>4. CallsOK'
  BY <1>1, <1>3, CallsAfter DEF TypeInv, Continues, Dispatching, Asking, ForOrder
<1> QED BY <1>1, <1>3, <1>4 DEF Observed, rowVars, restVars, Continues, TypeInv, TypeOK

\* What confirming a capture does to the rows.
Confirming(p, a, o) ==
    \/ inbox[p] # "received" /\ UNCHANGED <<order, reg, batch, attempt, inbox, slots>>
    \/ /\ inbox[p] = "received" /\ Fulfils(p)
       /\ Admit(o, a) /\ Sets(a, "paid", attempt[a].dispatch)
       /\ inbox' = [inbox EXCEPT ![p] = "fulfilled"]
    \/ /\ inbox[p] = "received"
       /\ inbox' = [inbox EXCEPT ![p] = "reconciliation_required"]
       /\ \/ order[o] = "paid" /\ order' = order /\ attempt' = attempt
          \/ /\ order[o] # "paid" /\ order' = [order EXCEPT ![o] = "reconciliation_required"]
             /\ Sets(a, "reconciliation_required", attempt[a].dispatch)
       /\ UNCHANGED <<reg, batch, slots>>

LEMMA ConfirmDoes ==
    ASSUME TypeInv, NEW w \in Workers, NEW p \in Captures, Confirm(w, p)
    PROVE  LET a == job[w].att IN
           /\ TypeInv' /\ job[w].pc = "confirm" /\ p \in job[w].todo /\ a \in Attempts
           /\ Continues(w, "confirm", job[w].todo \ {p})
           /\ UNCHANGED <<eventOpen, price, lapsed, free, sess, charge, checkout>>
           /\ Confirming(p, a, attempt[a].order)
<1> DEFINE a == job[w].att
           o == attempt[a].order
<1>1. job[w].pc = "confirm" /\ p \in job[w].todo /\ a \in Attempts
      /\ job' = [job EXCEPT ![w].todo = @ \ {p}]
      /\ UNCHANGED <<eventOpen, price, lapsed, free, sess, charge, checkout>>
  BY DEF Confirm, restVars, TypeInv, CallsOK, Asking
<1>2. o \in Orders \cup {None}
  BY <1>1 DEF TypeInv, TypeOK, AttemptRow
<1>3. Continues(w, "confirm", job[w].todo \ {p}) /\ CallsOK' /\ job' \in [Workers -> JobCall]
  BY <1>1, Did, CallsDid DEF TypeInv
<1>4. CASE inbox[p] # "received" /\ UNCHANGED <<order, reg, batch, attempt, inbox, slots>>
  BY <1>1, <1>3, <1>4 DEF TypeInv, TypeOK, Confirming
<1>5. CASE inbox[p] = "received" /\ Fulfils(p) /\ Admit(o, a) /\ inbox' = [inbox EXCEPT ![p] = "fulfilled"]
  <2>1. Sets(a, "paid", attempt[a].dispatch)
        /\ reg' \in [Entries -> RegStatus] /\ slots' \in Nat
        /\ order' \in [Orders -> OrderStatus] /\ batch' \in [Orders -> BatchStatus]
    BY <1>1, <1>2, <1>5, Admitted DEF TypeInv
  <2>2. inbox' \in [Captures -> CaptureState]
    BY <1>5 DEF TypeInv, TypeOK, CaptureState
  <2> QED BY <1>1, <1>3, <1>5, <2>1, <2>2 DEF TypeInv, TypeOK, Confirming, Sets
<1>6. CASE /\ inbox[p] = "received" /\ inbox' = [inbox EXCEPT ![p] = "reconciliation_required"]
           /\ Review(o, a) /\ UNCHANGED <<reg, batch, slots>>
  <2>1. /\ order' \in [Orders -> OrderStatus] /\ attempt' \in [Attempts -> AttemptRow]
        /\ \/ order[o] = "paid" /\ order' = order /\ attempt' = attempt
           \/ /\ order[o] # "paid" /\ order' = [order EXCEPT ![o] = "reconciliation_required"]
              /\ Sets(a, "reconciliation_required", attempt[a].dispatch)
    BY <1>1, <1>6, Reviewed DEF TypeInv
  <2>2. inbox' \in [Captures -> CaptureState]
    BY <1>6 DEF TypeInv, TypeOK, CaptureState
  <2> QED BY <1>1, <1>3, <1>6, <2>1, <2>2 DEF TypeInv, TypeOK, Confirming
<1> QED BY <1>4, <1>5, <1>6 DEF Confirm

LEMMA RefusedDoes ==
    ASSUME TypeInv, NEW w \in Workers, NEW p \in Captures, ConfirmRefused(w, p)
    PROVE  /\ TypeInv' /\ job[w].pc = "confirm" /\ job[w].att \in Attempts
           /\ Continues(w, "confirm", job[w].todo \ {p})
<1>1. job[w].pc = "confirm" /\ p \in job[w].todo /\ job[w].att \in Attempts
      /\ job' = [job EXCEPT ![w].todo = @ \ {p}]
  BY DEF ConfirmRefused, TypeInv, CallsOK, Asking
<1>2. Continues(w, "confirm", job[w].todo \ {p}) /\ CallsOK' /\ job' \in [Workers -> JobCall]
  BY <1>1, Did, CallsDid DEF TypeInv
<1> QED BY <1>1, <1>2 DEF ConfirmRefused, rowVars, restVars, TypeInv, TypeOK

LEMMA ConfirmedDoes ==
    ASSUME TypeInv, NEW w \in Workers, Confirmed(w)
    PROVE  TypeInv' /\ Returns(w)
<1>1. Return(w) /\ UNCHANGED <<rowVars, restVars>>
  BY DEF Confirmed
<1>2. CallsOK' /\ job' \in [Workers -> JobCall] /\ Returns(w)
  BY <1>1, Returned, CallsReturned DEF TypeInv, Returns
<1> QED BY <1>1, <1>2 DEF rowVars, restVars, TypeInv, TypeOK

LEMMA RetryDoes ==
    ASSUME TypeInv, NEW w \in Workers, RetryExpired(w)
    PROVE  LET a == job[w].att IN
           /\ TypeInv' /\ job[w].pc = "retry" /\ a \in Attempts /\ Turns(w, NoJob)
           /\ \/ attempt' = attempt
              \/ /\ order[attempt[a].order] = "pending" /\ attempt[a].status \in InFlight
                 /\ Sets(a, "expired", attempt[a].dispatch)
<1> DEFINE a == job[w].att
<1>1. job[w].pc = "retry" /\ a \in Attempts
  BY DEF RetryExpired, TypeInv, CallsOK, Asking
<1>2. Turns(w, NoJob)
  BY Ended DEF RetryExpired, TypeInv
<1>3. \/ attempt' = attempt
      \/ /\ order[attempt[a].order] = "pending" /\ attempt[a].status \in InFlight
         /\ attempt' = [attempt EXCEPT ![a].status = "expired"]
  BY DEF RetryExpired
<1>4. "expired" \in AttemptStatus
  BY DEF AttemptStatus
<1>5. \/ attempt' = attempt
      \/ /\ order[attempt[a].order] = "pending" /\ attempt[a].status \in InFlight
         /\ Sets(a, "expired", attempt[a].dispatch)
  BY <1>1, <1>3, <1>4, Marked DEF TypeInv
<1>6. TypeInv'
  BY <1>2, <1>5, CallsEnded DEF RetryExpired, restVars, TypeInv, TypeOK, Sets, Turns
<1> QED BY <1>1, <1>2, <1>5, <1>6

LEMMA StartDoes ==
    ASSUME TypeInv, NEW w \in Workers, NEW o \in Orders, StartExpiry(w, o)
    PROVE  /\ TypeInv'
           /\ \/ \E a \in Attempts :
                    /\ attempt[a].order = o /\ attempt[a].dispatch = "ready"
                    /\ Turns(w, [pc |-> "expire", att |-> a, order |-> o, todo |-> {}])
              \/ \E pc \in {"batch", "finish"} :
                    Turns(w, [pc |-> pc, att |-> None, order |-> o, todo |-> {}])
<1>1. UNCHANGED <<rowVars, restVars>>
  BY DEF StartExpiry
<1>2. CASE \E a \in Attempts :
               /\ attempt[a].order = o /\ attempt[a].dispatch = "ready"
               /\ job' = [job EXCEPT ![w] = [pc |-> "expire", att |-> a, order |-> o, todo |-> {}]]
  <2>1. PICK a \in Attempts :
               /\ attempt[a].order = o /\ attempt[a].dispatch = "ready"
               /\ job' = [job EXCEPT ![w] = [pc |-> "expire", att |-> a, order |-> o, todo |-> {}]]
    BY <1>2
  <2>2. [pc |-> "expire", att |-> a, order |-> o, todo |-> {}] \in JobCall
    BY DEF JobCall, JobPc
  <2>3. Turns(w, [pc |-> "expire", att |-> a, order |-> o, todo |-> {}])
    BY <2>1, <2>2, Turned DEF TypeInv
  <2>4. job'[w].pc = "expire" /\ job'[w].att = a /\ job'[w].order = o /\ CallsKept(w)
        /\ job' \in [Workers -> JobCall]
    BY <2>3 DEF Turns
  <2>5. CallsOK'
    BY <2>4, CallsAfter DEF TypeInv
  <2> QED BY <1>1, <2>1, <2>3, <2>4, <2>5 DEF rowVars, restVars, TypeInv, TypeOK
<1>3. CASE \E pc \in {"batch", "finish"} :
               job' = [job EXCEPT ![w] = [pc |-> pc, att |-> None, order |-> o, todo |-> {}]]
  <2>1. PICK pc \in {"batch", "finish"} :
               job' = [job EXCEPT ![w] = [pc |-> pc, att |-> None, order |-> o, todo |-> {}]]
    BY <1>3
  <2>2. [pc |-> pc, att |-> None, order |-> o, todo |-> {}] \in JobCall
    BY DEF JobCall, JobPc
  <2>3. Turns(w, [pc |-> pc, att |-> None, order |-> o, todo |-> {}])
    BY <2>1, <2>2, Turned DEF TypeInv
  <2>4. job'[w].pc = pc /\ job'[w].order = o /\ CallsKept(w) /\ job' \in [Workers -> JobCall]
    BY <2>3 DEF Turns
  <2>5. CallsOK'
    BY <2>4, CallsAfter DEF TypeInv, Dispatching, Asking
  <2> QED BY <1>1, <2>3, <2>4, <2>5 DEF rowVars, restVars, TypeInv, TypeOK
<1> QED BY <1>2, <1>3 DEF StartExpiry, Unsettled, AttemptsOf

LEMMA CloseDoes ==
    ASSUME TypeInv, NEW w \in Workers, CloseSession(w)
    PROVE  LET a == job[w].att IN
           /\ TypeInv' /\ job[w].pc = "expire" /\ a \in Attempts
           /\ \/ /\ sess' = sess
                 /\ \E pc \in {"observe", "confirm"}, todo \in SUBSET PaidOn(a) :
                       Turns(w, [pc |-> pc, att |-> a, order |-> job[w].order, todo |-> todo])
              \/ /\ PaidOn(a) = {} /\ sess' = [sess EXCEPT ![a] = "closed"]
                 /\ Continues(w, "close", job[w].todo)
<1> DEFINE a == job[w].att
<1>1. job[w].pc = "expire" /\ a \in Attempts /\ UNCHANGED <<rowVars, charge, checkout>>
      /\ job[w].order \in Orders \cup {None}
  BY DEF CloseSession, TypeInv, TypeOK, JobCall, CallsOK, Asking
<1>2. CASE Consult(w, a, job[w].order, FALSE) /\ sess' = sess
  <2>1. CallsOK' /\ job' \in [Workers -> JobCall]
    BY <1>1, <1>2, CallsConsult
  <2>2. \E pc \in {"observe", "confirm"}, todo \in SUBSET PaidOn(a) :
            Turns(w, [pc |-> pc, att |-> a, order |-> job[w].order, todo |-> todo])
    BY <1>1, <1>2, Consulted DEF TypeInv
  <2> QED BY <1>1, <1>2, <2>1, <2>2 DEF rowVars, TypeInv, TypeOK
<1>3. CASE PaidOn(a) = {} /\ sess' = [sess EXCEPT ![a] = "closed"] /\ Go(w, "close")
  <2>1. "close" \in JobPc
    BY DEF JobPc
  <2>2. Continues(w, "close", job[w].todo) /\ CallsOK' /\ job' \in [Workers -> JobCall]
    BY <1>1, <1>3, <2>1, Went, CallsGo DEF TypeInv, Dispatching, Asking, ForOrder
  <2>3. sess' \in [Attempts -> {"none", "open", "closed"}]
    BY <1>3 DEF TypeInv, TypeOK
  <2> QED BY <1>1, <1>3, <2>2, <2>3 DEF rowVars, TypeInv, TypeOK
<1> QED BY <1>1, <1>2, <1>3 DEF CloseSession

LEMMA ExpireTypes ==
    ASSUME TypeOK, NEW o, Expire(o)
    PROVE  reg' \in [Entries -> RegStatus] /\ order' \in [Orders -> OrderStatus]
<1>1. "expired" \in RegStatus /\ "expired" \in OrderStatus
  BY DEF RegStatus, OrderStatus
<1> QED BY <1>1, Written DEF Expire

LEMMA ExpireAttemptDoes ==
    ASSUME TypeInv, NEW w \in Workers, ExpireAttempt(w)
    PROVE  LET a == job[w].att
               o == job[w].order
           IN  /\ TypeInv' /\ job[w].pc = "close" /\ a \in Attempts /\ o \in Orders
               /\ \/ Returns(w) /\ attempt' = attempt /\ UNCHANGED <<order, reg>>
                  \/ /\ Continues(w, "finish", job[w].todo)
                     /\ Sets(a, "expired", attempt[a].dispatch)
                     /\ order[o] = "pending" /\ lapsed[o] /\ attempt[a].status # "paid" /\ Recorded(a) = {}
                     /\ \/ Unsettled(o) \subseteq {a} /\ Expire(o)
                        \/ UNCHANGED <<order, reg>>
<1> DEFINE a == job[w].att
           o == job[w].order
<1>1. job[w].pc = "close" /\ a \in Attempts /\ o \in Orders
      /\ UNCHANGED <<eventOpen, price, lapsed, batch, free, inbox, slots, sess, charge, checkout>>
  BY DEF ExpireAttempt, restVars, TypeInv, CallsOK, Asking, ForOrder
<1>2. CASE Return(w) /\ UNCHANGED <<attempt, order, reg>>
  <2>1. CallsOK' /\ job' \in [Workers -> JobCall] /\ Returns(w)
    BY <1>2, Returned, CallsReturned DEF TypeInv, Returns
  <2> QED BY <1>1, <1>2, <2>1 DEF TypeInv, TypeOK
<1>3. CASE /\ order[o] = "pending" /\ lapsed[o] /\ attempt[a].status # "paid" /\ Recorded(a) = {}
           /\ attempt' = SetAttempts({a}, "expired") /\ Go(w, "finish")
           /\ \/ Unsettled(o) \subseteq {a} /\ Expire(o)
              \/ UNCHANGED <<order, reg>>
  <2>1. "finish" \in JobPc
    BY DEF JobPc
  <2>2. Continues(w, "finish", job[w].todo) /\ CallsOK' /\ job' \in [Workers -> JobCall]
    BY <1>1, <1>3, <2>1, Went, CallsGo DEF TypeInv, Dispatching, Asking, ForOrder
  <2>3. Sets(a, "expired", attempt[a].dispatch)
    BY <1>1, <1>3, VoidedOne DEF TypeInv
  <2>4. reg' \in [Entries -> RegStatus] /\ order' \in [Orders -> OrderStatus]
    BY <1>3, ExpireTypes DEF TypeInv, TypeOK
  <2> QED BY <1>1, <1>3, <2>2, <2>3, <2>4 DEF TypeInv, TypeOK, Sets
<1> QED BY <1>1, <1>2, <1>3 DEF ExpireAttempt

LEMMA FinishOrderDoes ==
    ASSUME TypeInv, NEW w \in Workers, FinishOrder(w)
    PROVE  LET o == job[w].order
           IN  /\ TypeInv' /\ o \in Orders /\ Returns(w)
               /\ \/ attempt' = attempt /\ UNCHANGED <<order, reg>>
                  \/ /\ order[o] = "pending" /\ Unsettled(o) = {} /\ ~HasCapture(o)
                     /\ Expire(o) /\ Voids(PreparedOf(o))
<1> DEFINE o == job[w].order
<1>1. job[w].pc = "finish" /\ o \in Orders /\ Return(w)
      /\ UNCHANGED <<eventOpen, price, lapsed, batch, free, inbox, slots, sess, charge, checkout>>
  BY DEF FinishOrder, restVars, TypeInv, CallsOK, ForOrder
<1>2. CallsOK' /\ job' \in [Workers -> JobCall] /\ Returns(w)
  BY <1>1, Returned, CallsReturned DEF TypeInv, Returns
<1>3. CASE UNCHANGED <<attempt, order, reg>>
  BY <1>1, <1>2, <1>3 DEF TypeInv, TypeOK
<1>4. CASE /\ order[o] = "pending" /\ Unsettled(o) = {} /\ ~HasCapture(o)
           /\ Expire(o) /\ attempt' = SetAttempts(PreparedOf(o), "expired")
  <2>1. Voids(PreparedOf(o))
    BY <1>4, Voided DEF TypeInv
  <2>2. reg' \in [Entries -> RegStatus] /\ order' \in [Orders -> OrderStatus]
    BY <1>4, ExpireTypes DEF TypeInv, TypeOK
  <2> QED BY <1>1, <1>2, <1>4, <2>1, <2>2 DEF TypeInv, TypeOK, Voids
<1> QED BY <1>1, <1>3, <1>4 DEF FinishOrder

LEMMA FinishBatchDoes ==
    ASSUME TypeInv, NEW w \in Workers, FinishBatch(w)
    PROVE  LET o == job[w].order
           IN  /\ TypeInv' /\ o \in Orders /\ Turns(w, NoJob)
               /\ \/ attempt' = attempt /\ UNCHANGED <<reg, order, batch>>
                  \/ /\ ~HasCapture(o) /\ order[o] \notin {"paid", "reconciliation_required"}
                     /\ Unsettled(o) = {} /\ Voids(PreparedOf(o))
                     /\ reg' = SetReg(PendingOf(o), "expired")
                     /\ order' = IF order[o] = "pending" THEN [order EXCEPT ![o] = "expired"] ELSE order
                     /\ batch' = [batch EXCEPT ![o] = "expired"]
<1> DEFINE o == job[w].order
<1>1. job[w].pc = "batch" /\ o \in Orders /\ Idle(w)
      /\ UNCHANGED <<eventOpen, price, lapsed, free, inbox, slots, sess, charge, checkout>>
  BY DEF FinishBatch, FinishBatchIf, restVars, TypeInv, CallsOK, ForOrder
<1>2. Turns(w, NoJob)
  BY <1>1, Ended DEF TypeInv
<1>3. CallsOK' /\ job' \in [Workers -> JobCall]
  BY <1>2, CallsEnded DEF TypeInv, Turns
<1>4. CASE UNCHANGED <<attempt, reg, order, batch>>
  BY <1>1, <1>2, <1>3, <1>4 DEF TypeInv, TypeOK
<1>5. CASE /\ ~HasCapture(o) /\ order[o] \notin {"paid", "reconciliation_required"}
           /\ Unsettled(o) = {} /\ attempt' = SetAttempts(PreparedOf(o), "expired")
           /\ reg' = SetReg(PendingOf(o), "expired")
           /\ order' = IF order[o] = "pending" THEN [order EXCEPT ![o] = "expired"] ELSE order
           /\ batch' = [batch EXCEPT ![o] = "expired"]
  <2>1. Voids(PreparedOf(o))
    BY <1>5, Voided DEF TypeInv
  <2>2. "expired" \in RegStatus /\ "expired" \in OrderStatus /\ "expired" \in BatchStatus
    BY DEF RegStatus, OrderStatus, BatchStatus
  <2>3. reg' \in [Entries -> RegStatus] /\ order' \in [Orders -> OrderStatus]
    BY <1>5, <2>2, Written DEF TypeInv, TypeOK
  <2>4. batch' \in [Orders -> BatchStatus]
    BY <1>5, <2>2 DEF TypeInv, TypeOK
  <2> QED BY <1>1, <1>2, <1>3, <1>5, <2>1, <2>3, <2>4 DEF TypeInv, TypeOK, Voids
<1> QED BY <1>1, <1>4, <1>5 DEF FinishBatch, FinishBatchIf

LEMMA DiesDoes ==
    ASSUME TypeInv, NEW w \in Workers, WorkerDies(w)
    PROVE  TypeInv' /\ Turns(w, NoJob)
<1>1. Turns(w, NoJob) /\ UNCHANGED <<rowVars, restVars>>
  BY Ended DEF WorkerDies, TypeInv
<1> QED BY <1>1, CallsEnded DEF rowVars, restVars, TypeInv, TypeOK, Turns

LEMMA CancelDoes ==
    ASSUME TypeInv, NEW o \in Orders, Cancel(o)
    PROVE  TypeInv' /\ Voids(PreparedOf(o))
<1>1. /\ attempt' = SetAttempts(PreparedOf(o), "expired") /\ reg' = SetReg(EntriesOf[o], "cancelled")
      /\ order' = [order EXCEPT ![o] = "cancelled"]
      /\ batch' = IF batch[o] = "ready" THEN [batch EXCEPT ![o] = "cancelled"] ELSE batch
      /\ UNCHANGED <<eventOpen, price, lapsed, free, inbox, slots, restVars, job>>
  BY DEF Cancel, CancelIf
<1>2. "cancelled" \in RegStatus /\ "cancelled" \in OrderStatus /\ "cancelled" \in BatchStatus
  BY DEF RegStatus, OrderStatus, BatchStatus
<1>3. reg' \in [Entries -> RegStatus] /\ order' \in [Orders -> OrderStatus]
  BY <1>1, <1>2, Written DEF TypeInv
<1>4. Voids(PreparedOf(o)) /\ batch' \in [Orders -> BatchStatus]
  BY <1>1, <1>2, Voided DEF TypeInv, TypeOK
<1> QED BY <1>1, <1>3, <1>4 DEF TypeInv, TypeOK, CallsOK, restVars, Voids

LEMMA DiscountDoes ==
    ASSUME TypeInv, NEW e \in Entries, NEW pr \in Prices, ApplyDiscount(e, pr)
    PROVE  TypeInv' /\ Voids(PreparedOf(OrderOf[e]))
<1>1. Voids(PreparedOf(OrderOf[e])) /\ price' \in [Entries -> Prices]
  BY Voided DEF ApplyDiscount, ApplyDiscountIf, TypeInv, TypeOK
<1> QED BY <1>1 DEF ApplyDiscount, ApplyDiscountIf, TypeInv, TypeOK, CallsOK, restVars, Voids

LEMMA ReserveDoes ==
    ASSUME TypeInv, NEW o \in Orders, Reserve(o)
    PROVE  TypeInv'
<1>1. reg' \in [Entries -> RegStatus]
  BY DEF Reserve, TypeInv, TypeOK, RegStatus
<1>2. "pending" \in OrderStatus
  BY DEF OrderStatus
<1>3. order' \in [Orders -> OrderStatus]
  BY <1>2, Written DEF Reserve, TypeInv
<1> QED BY <1>1, <1>3 DEF Reserve, TypeInv, TypeOK, CallsOK, restVars

LEMMA DropDoes ==
    ASSUME TypeInv, NEW E, Drop(E), eventOpen' \in BOOLEAN
    PROVE  TypeInv'
<1>1. "expired" \in RegStatus
  BY DEF RegStatus
<1>2. reg' \in [Entries -> RegStatus]
  BY <1>1, Written DEF Drop, TypeInv
<1> QED BY <1>2 DEF Drop, TypeInv, TypeOK, CallsOK, restVars

LEMMA AdminCancelDoes ==
    ASSUME TypeInv, NEW e \in Entries, AdminCancel(e)
    PROVE  TypeInv'
<1>1. reg' \in [Entries -> RegStatus] /\ slots' \in Nat
  BY DEF AdminCancel, TypeInv, TypeOK, RegStatus
<1> QED BY <1>1 DEF AdminCancel, TypeInv, TypeOK, CallsOK, restVars



\* A runner's own checkout reads an entry, or writes over it.
LEMMA RunnerDoes ==
    ASSUME TypeInv, RunnerStep
    PROVE  TypeInv' /\ UNCHANGED <<attempt, sess, charge, inbox, job>>
<1>1. CASE \E k \in Checkouts, e \in Entries : ReadLapsed(k, e)
  <2>1. checkout' \in [Checkouts -> SingleCall]
    BY <1>1 DEF ReadLapsed, TypeInv, TypeOK, SingleCall, RegStatus
  <2> QED BY <1>1, <2>1 DEF ReadLapsed, rowVars, TypeInv, TypeOK, CallsOK
<1>2. CASE \E k \in Checkouts : ExpireLapsedRow(k)
  <2>1. PICK k \in Checkouts : ExpireLapsedRow(k)
    BY <1>2
  <2>2. checkout[k].entry \in Entries
    BY <2>1 DEF ExpireLapsedRow, TypeInv, TypeOK, SingleCall, NoSingleCall
  <2>3. reg' \in [Entries -> RegStatus] /\ reg[checkout[k].entry] \in RegStatus
    BY <2>1, <2>2 DEF ExpireLapsedRow, TypeInv, TypeOK, RegStatus
  <2>4. checkout' \in [Checkouts -> SingleCall]
    BY <2>1, <2>2, <2>3 DEF ExpireLapsedRow, TypeInv, TypeOK, SingleCall
  <2> QED BY <2>1, <2>3, <2>4 DEF ExpireLapsedRow, TypeInv, TypeOK, CallsOK
<1> QED BY <1>1, <1>2 DEF RunnerStep

LEMMA PayDoes ==
    ASSUME SessionInv, NEW p \in Captures, NEW a \in Attempts, Pay(p, a)
    PROVE  /\ TypeInv' /\ charge' = [charge EXCEPT ![p] = charge'[p]]
           /\ charge[p] = NoCharge /\ attempt[a].dispatch = "ready"
           /\ charge'[p] \in Charge /\ charge'[p].att = a
<1>1. attempt[a].dispatch = "ready" /\ charge[p] = NoCharge
      /\ charge' = [charge EXCEPT ![p] = [att |-> a, late |-> lapsed[attempt[a].order]]]
  BY DEF Pay
<1>2. attempt[a].order \in Orders
  BY <1>1 DEF SessionInv, RowsOK, RowOK, TypeInv, TypeOK, AttemptRow
<1>3. lapsed[attempt[a].order] \in BOOLEAN
  BY <1>2 DEF SessionInv, TypeInv, TypeOK
<1>4. [att |-> a, late |-> lapsed[attempt[a].order]] \in Charge
  BY <1>3 DEF Charge
<1>5. /\ charge' \in [Captures -> Charge] /\ charge' = [charge EXCEPT ![p] = charge'[p]]
      /\ charge'[p] \in Charge /\ charge'[p].att = a
  BY <1>1, <1>4 DEF SessionInv, TypeInv, TypeOK
<1> QED BY <1>1, <1>5 DEF Pay, rowVars, SessionInv, TypeInv, TypeOK, CallsOK

LEMMA SessionExpiresDoes ==
    ASSUME TypeInv, NEW a \in Attempts, SessionExpires(a)
    PROVE  TypeInv'
<1>1. sess' \in [Attempts -> {"none", "open", "closed"}]
  BY DEF SessionExpires, TypeInv, TypeOK
<1> QED BY <1>1 DEF SessionExpires, rowVars, TypeInv, TypeOK, CallsOK

-----------------------------------------------------------------------------
(* The second layer: attempts, their sessions and captures, and the calls. *)

\* What no step takes back from an attempt, but for the calls that dispatch it.
Kept(a) ==
    /\ attempt'[a].dispatch = attempt[a].dispatch
    /\ attempt[a].order # None => attempt'[a].order = attempt[a].order
    /\ sess'[a] = sess[a] \/ (sess[a] = "open" /\ sess'[a] = "closed")
    /\ PaidOn(a) \subseteq PaidOn(a)'

\* A call that does not move still knows what it has seen.
LEMMA JobKept ==
    ASSUME TypeInv, NEW v \in Workers, JobOK(v), job'[v] = job[v],
           job[v].pc \in Dispatching \cup Asking => Kept(job[v].att)
    PROVE  JobOK(v)'
<1> DEFINE a == job[v].att
<1>1. job[v].pc \in Dispatching \cup Asking => a \in Attempts
  BY DEF TypeInv, CallsOK
<1>2. job[v].pc \in {"expire", "close"} => job[v].order # None
  BY GroupAssumption DEF TypeInv, CallsOK, ForOrder
<1>3. job[v].pc \in {"observe", "confirm"} => job[v].todo \subseteq PaidOn(a)'
  BY DEF JobOK, Kept, Asking
<1> QED BY <1>1, <1>2, <1>3 DEF JobOK, Kept, Dispatching, Asking

\* When one call moves, the others keep what they know.
LEMMA JobsAfter ==
    ASSUME SessionInv, NEW w \in Workers, CallsKept(w), JobOK(w)',
           \A v \in Workers \ {w} : job[v].pc \in Dispatching \cup Asking => Kept(job[v].att),
           job'[w].pc \in Dispatching =>
               \A v \in Workers \ {w} : job[v].pc \in Dispatching => job[v].att # job'[w].att
    PROVE  JobsOK'
<1>1. \A v \in Workers \ {w} : JobOK(v)'
  BY JobKept DEF SessionInv, JobsOK, CallsKept
<1>2. OneDispatcher'
  BY DEF SessionInv, JobsOK, OneDispatcher, CallsKept
<1> QED BY <1>1, <1>2 DEF JobsOK

LEMMA JobsIdle ==
    ASSUME SessionInv, NEW w \in Workers, Turns(w, NoJob),
           \A v \in Workers \ {w} : job[v].pc \in Dispatching \cup Asking => Kept(job[v].att)
    PROVE  JobsOK'
<1>1. job'[w].pc = "idle" /\ CallsKept(w)
  BY DEF Turns, NoJob
<1>2. JobOK(w)'
  BY <1>1 DEF JobOK, Asking
<1> QED BY <1>1, <1>2, JobsAfter DEF Dispatching

LEMMA JobsReturn ==
    ASSUME SessionInv, NEW w \in Workers, Returns(w), \A a \in Attempts : Kept(a)
    PROVE  JobsOK'
<1>1. \A v \in Workers \ {w} : job[v].pc \in Dispatching \cup Asking => Kept(job[v].att)
  BY DEF SessionInv, TypeInv, CallsOK
<1>2. CASE Turns(w, NoJob)
  BY <1>1, <1>2, JobsIdle
<1>3. CASE Turns(w, [pc |-> "batch", att |-> None, order |-> job[w].order, todo |-> {}])
  <2>1. job'[w].pc = "batch" /\ CallsKept(w)
    BY <1>3 DEF Turns
  <2>2. JobOK(w)'
    BY <2>1 DEF JobOK, Asking
  <2> QED BY <1>1, <2>1, <2>2, JobsAfter DEF Dispatching
<1> QED BY <1>2, <1>3 DEF Returns

\* When no call moves.
LEMMA JobsStay ==
    ASSUME SessionInv, job' = job, \A a \in Attempts : Kept(a)
    PROVE  JobsOK'
<1>1. \A v \in Workers : JobOK(v)'
  BY JobKept DEF SessionInv, JobsOK, TypeInv, CallsOK
<1> QED BY <1>1 DEF SessionInv, JobsOK, OneDispatcher

\* A call goes on with its attempt.
LEMMA JobsContinue ==
    ASSUME SessionInv, NEW w \in Workers, NEW pc, NEW todo, Continues(w, pc, todo),
           \A a \in Attempts : Kept(a), JobOK(w)', pc \in Dispatching => job[w].pc \in Dispatching
    PROVE  JobsOK'
<1>1. \A v \in Workers \ {w} : job[v].pc \in Dispatching \cup Asking => Kept(job[v].att)
  BY DEF SessionInv, TypeInv, CallsOK
<1>2. CallsKept(w) /\ job'[w].pc = pc /\ job'[w].att = job[w].att
  BY DEF Continues
<1>3. job'[w].pc \in Dispatching =>
          \A v \in Workers \ {w} : job[v].pc \in Dispatching => job[v].att # job'[w].att
  BY <1>2 DEF SessionInv, JobsOK, OneDispatcher
<1> QED BY <1>1, <1>2, <1>3, JobsAfter

\* Nothing happens to attempts, sessions and captures.
LEMMA AllKept ==
    ASSUME UNCHANGED <<attempt, sess, charge>>
    PROVE  /\ \A a \in Attempts : Kept(a)
           /\ RowsOK => RowsOK'
           /\ ChargesOK /\ inbox' = inbox => ChargesOK'
<1>1. \A a : PaidOn(a)' = PaidOn(a)
  BY DEF PaidOn
<1>2. \A a \in Attempts : Kept(a)
  BY <1>1 DEF Kept
<1>3. RowsOK => RowsOK'
  BY <1>1 DEF RowsOK, SessionOK, RowOK
<1> QED BY <1>2, <1>3 DEF ChargesOK

\* Prepared attempts are voided.
LEMMA VoidsKeep ==
    ASSUME SessionInv, NEW A, Voids(A), \A b \in Attempts : b \in A => attempt[b].status = "prepared",
           UNCHANGED <<sess, charge, inbox>>
    PROVE  (\A a \in Attempts : Kept(a)) /\ RowsOK' /\ ChargesOK'
<1>1. \A a : PaidOn(a)' = PaidOn(a)
  BY DEF PaidOn
<1>2. \A a \in Attempts : Kept(a)
  BY <1>1 DEF Kept, Voids
<1>3. RowsOK'
  <2> SUFFICES ASSUME NEW a \in Attempts PROVE RowOK(attempt[a])' /\ SessionOK(a)'
    BY DEF RowsOK
  <2>1. RowOK(attempt[a]) /\ SessionOK(a) /\ (a \in A => attempt[a].status = "prepared")
    BY DEF SessionInv, RowsOK
  <2> QED BY <1>1, <2>1 DEF Voids, RowOK, SessionOK
<1>4. \A p \in Captures : charge[p].att = None \/ charge[p].att \in Attempts
  BY DEF SessionInv, TypeInv, TypeOK, Charge
<1>5. ChargesOK'
  BY <1>4 DEF SessionInv, ChargesOK, Voids
<1> QED BY <1>2, <1>3, <1>5

\* The status of an attempt is set, as its dispatch and its session allow.
LEMMA SetsKeeps ==
    ASSUME SessionInv, NEW a \in Attempts, NEW s \in {"paid", "expired", "reconciliation_required"},
           Sets(a, s, attempt[a].dispatch), UNCHANGED <<sess, charge>>,
           \/ attempt[a].dispatch = "none" /\ attempt[a].status = "prepared" /\ s = "paid"
           \/ /\ attempt[a].dispatch = "ready"
              /\ IF s = "expired" THEN sess[a] = "closed" ELSE PaidOn(a) # {}
    PROVE  (\A b \in Attempts : Kept(b)) /\ RowsOK'
           /\ \A p \in Captures : charge[p].att # None => attempt'[charge[p].att].dispatch = "ready"
<1>1. \A b : PaidOn(b)' = PaidOn(b)
  BY DEF PaidOn
<1>2. \A b \in Attempts : attempt'[b].dispatch = attempt[b].dispatch /\ attempt'[b].order = attempt[b].order
  BY DEF Sets, OthersKept
<1>3. \A b \in Attempts : Kept(b)
  BY <1>1, <1>2 DEF Kept
<1>4. RowsOK'
  <2> SUFFICES ASSUME NEW b \in Attempts PROVE RowOK(attempt[b])' /\ SessionOK(b)'
    BY DEF RowsOK
  <2>1. RowOK(attempt[b]) /\ SessionOK(b)
    BY DEF SessionInv, RowsOK
  <2>2. CASE b # a
    BY <1>1, <2>1, <2>2 DEF RowOK, SessionOK, Sets, OthersKept
  <2>3. CASE b = a
    BY <1>1, <2>1, <2>3 DEF RowOK, SessionOK, Sets
  <2> QED BY <2>2, <2>3
<1>5. \A p \in Captures : charge[p].att = None \/ charge[p].att \in Attempts
  BY DEF SessionInv, TypeInv, TypeOK, Charge
<1>6. \A p \in Captures : charge[p].att # None => attempt'[charge[p].att].dispatch = "ready"
  BY <1>2, <1>5 DEF SessionInv, ChargesOK
<1> QED BY <1>3, <1>4, <1>6

\* The booker, the organizer, time and the provider leave what calls know of attempts.
LEMMA SessionOthers ==
    ASSUME SessionInv, BookerStep \/ RunnerStep \/ Environment
    PROVE  SessionInv'
<1>1. ASSUME UNCHANGED <<attempt, sess, charge, inbox, job>>, TypeInv' PROVE SessionInv'
  BY <1>1, AllKept, JobsStay DEF SessionInv
<1>2. ASSUME NEW A, Voids(A), \A b \in Attempts : b \in A => attempt[b].status = "prepared",
             UNCHANGED <<sess, charge, inbox, job>>, TypeInv'
      PROVE  SessionInv'
  BY <1>2, VoidsKeep, JobsStay DEF SessionInv
<1>3. CASE \E o \in Orders : Reserve(o)
  BY <1>1, <1>3, ReserveDoes DEF Reserve, restVars, SessionInv
<1>4. CASE \E o \in Orders : Cancel(o)
  <2>1. PICK o \in Orders : Cancel(o)
    BY <1>4
  <2>2. \A b \in Attempts : b \in PreparedOf(o) => attempt[b].status = "prepared"
    BY DEF PreparedOf
  <2> QED BY <1>2, <2>1, <2>2, CancelDoes DEF Cancel, CancelIf, restVars, SessionInv
<1>5. CASE \E o \in Orders, a \in Attempts : Prepare(o, a)
  <2>1. PICK o \in Orders, a \in Attempts : Prepare(o, a)
    BY <1>5
  <2>2. /\ TypeInv' /\ OthersKept(a) /\ attempt[a].status = "none" /\ o # None
        /\ attempt'[a].order = o /\ attempt'[a].status = "prepared" /\ attempt'[a].dispatch = "none"
        /\ UNCHANGED <<sess, charge, inbox, job>>
    <3>1. SessionInv => TypeInv
      BY DEF SessionInv
    <3>2. UNCHANGED <<sess, charge, inbox, job>> /\ o # None
      BY <2>1, GroupAssumption DEF Prepare, PrepareIf, restVars
    <3> QED BY <2>1, <3>1, <3>2, PrepareDoes
  <2>3. attempt[a].order = None /\ attempt[a].dispatch = "none"
    BY <2>2 DEF SessionInv, TypeInv, TypeOK, AttemptRow, RowsOK, RowOK
  <2>4. \A b : PaidOn(b)' = PaidOn(b)
    BY <2>2 DEF PaidOn
  <2>5. \A b \in Attempts : Kept(b)
    BY <2>2, <2>3, <2>4 DEF Kept, OthersKept
  <2>6. RowsOK'
    BY <2>2, <2>3, <2>4 DEF SessionInv, RowsOK, RowOK, SessionOK, OthersKept
  <2>7. ChargesOK'
    <3>1. \A p \in Captures : charge[p].att # None =>
              charge[p].att \in Attempts \ {a} /\ attempt[charge[p].att].dispatch = "ready"
      BY <2>3 DEF SessionInv, ChargesOK, TypeInv, TypeOK, Charge
    <3>2. \A p \in Captures : charge[p].att # None => attempt'[charge[p].att].dispatch = "ready"
      BY <2>2, <3>1 DEF OthersKept
    <3> QED BY <2>2, <3>2 DEF SessionInv, ChargesOK
  <2> QED BY <2>2, <2>5, <2>6, <2>7, JobsStay DEF SessionInv
<1>6. CASE \E o \in Orders, a \in Attempts : ConfirmFree(o, a)
  <2>1. PICK o \in Orders, a \in Attempts : ConfirmFree(o, a)
    BY <1>6
  <2>2. TypeInv' /\ Sets(a, "paid", attempt[a].dispatch) /\ attempt[a].status = "prepared"
        /\ UNCHANGED <<sess, charge, inbox, job>>
    BY <2>1, ConfirmFreeDoes DEF ConfirmFree, restVars, SessionInv
  <2>3. attempt[a].dispatch = "none"
    BY <2>2 DEF SessionInv, TypeInv, TypeOK, AttemptRow, RowsOK, RowOK
  <2>4. (\A b \in Attempts : Kept(b)) /\ RowsOK'
        /\ \A p \in Captures : charge[p].att # None => attempt'[charge[p].att].dispatch = "ready"
    BY <2>2, <2>3, SetsKeeps
  <2>5. ChargesOK'
    BY <2>2, <2>4 DEF SessionInv, ChargesOK
  <2> QED BY <2>2, <2>4, <2>5, JobsStay DEF SessionInv
<1>7. CASE \E e \in Entries, pr \in Prices : ApplyDiscount(e, pr)
  <2>1. PICK e \in Entries, pr \in Prices : ApplyDiscount(e, pr)
    BY <1>7
  <2>2. \A b \in Attempts : b \in PreparedOf(OrderOf[e]) => attempt[b].status = "prepared"
    BY DEF PreparedOf
  <2> QED BY <1>2, <2>1, <2>2, DiscountDoes DEF ApplyDiscount, ApplyDiscountIf, restVars, SessionInv
<1>8. CASE \E o \in Orders : Lapse(o)
  <2>1. TypeInv'
    BY <1>8 DEF Lapse, SessionInv, TypeInv, TypeOK, CallsOK, restVars
  <2> QED BY <1>1, <1>8, <2>1 DEF Lapse, restVars
<1>9. CASE Sweep \/ CloseEvent
  <2>1. PICK E : Drop(E) /\ eventOpen' \in BOOLEAN
    BY <1>9 DEF Sweep, CloseEvent, SessionInv, TypeInv, TypeOK
  <2> QED BY <1>1, <2>1, DropDoes DEF Drop, restVars, SessionInv
<1>10. CASE ReopenEvent
  <2>1. TypeInv'
    BY <1>10 DEF ReopenEvent, SessionInv, TypeInv, TypeOK, CallsOK, restVars
  <2> QED BY <1>1, <1>10, <2>1 DEF ReopenEvent, restVars
<1>11. CASE \E e \in Entries : AdminCancel(e)
  BY <1>1, <1>11, AdminCancelDoes DEF AdminCancel, restVars, SessionInv
<1>12. CASE \E p \in Captures, a \in Attempts : Pay(p, a)
  <2>1. PICK p \in Captures, a \in Attempts : Pay(p, a)
    BY <1>12
  <2>2. /\ TypeInv' /\ charge' = [charge EXCEPT ![p] = charge'[p]]
        /\ charge[p] = NoCharge /\ attempt[a].dispatch = "ready" /\ charge'[p].att = a
        /\ UNCHANGED <<attempt, sess, inbox, job>>
    BY <2>1, PayDoes DEF Pay, rowVars
  <2>3. \A q \in Captures : charge[q].att # None => charge'[q] = charge[q]
    BY <2>2 DEF NoCharge, SessionInv, TypeInv, TypeOK
  <2>4. \A b \in Attempts : PaidOn(b) \subseteq PaidOn(b)'
    BY <2>3, GroupAssumption DEF PaidOn
  <2>5. (\A b \in Attempts : Kept(b)) /\ RowsOK'
    BY <2>2, <2>4 DEF Kept, SessionInv, RowsOK, RowOK, SessionOK
  <2>6. ChargesOK'
    <3> SUFFICES ASSUME NEW q \in Captures
                 PROVE  /\ charge'[q].att = None => charge'[q] = NoCharge /\ inbox'[q] = "none"
                        /\ charge'[q].att # None => attempt'[charge'[q].att].dispatch = "ready"
      BY DEF ChargesOK
    <3>1. CASE q = p
      BY <2>2, <3>1, GroupAssumption
    <3>2. CASE q # p
      <4>1. charge'[q] = charge[q]
        BY <2>2, <3>2 DEF SessionInv, TypeInv, TypeOK
      <4> QED BY <2>2, <4>1 DEF SessionInv, ChargesOK
    <3> QED BY <3>1, <3>2
  <2> QED BY <2>2, <2>5, <2>6, JobsStay DEF SessionInv
<1>13. CASE \E a \in Attempts : SessionExpires(a)
  <2>1. PICK a \in Attempts : SessionExpires(a)
    BY <1>13
  <2>2. /\ TypeInv' /\ sess[a] = "open" /\ sess' = [sess EXCEPT ![a] = "closed"]
        /\ UNCHANGED <<attempt, charge, inbox, job>>
    BY <2>1, SessionExpiresDoes DEF SessionExpires, rowVars, SessionInv
  <2>3. \A b \in Attempts : /\ sess'[b] = sess[b] \/ (sess[b] = "open" /\ sess'[b] = "closed")
                            /\ PaidOn(b)' = PaidOn(b)
    BY <2>2 DEF PaidOn, SessionInv, TypeInv, TypeOK
  <2>4. (\A b \in Attempts : Kept(b)) /\ RowsOK' /\ ChargesOK'
    BY <2>2, <2>3 DEF Kept, SessionInv, RowsOK, RowOK, SessionOK, ChargesOK
  <2> QED BY <2>2, <2>4, JobsStay DEF SessionInv
<1>14. CASE RunnerStep
  BY <1>1, <1>14, RunnerDoes DEF SessionInv
<1> QED BY <1>3, <1>4, <1>5, <1>6, <1>7, <1>8, <1>9, <1>10, <1>11, <1>12, <1>13, <1>14
        DEF BookerStep, Environment

\* The attempt of a call that is under way was dispatched.
LEMMA CallDispatched ==
    ASSUME SessionInv, NEW v \in Workers, job[v].pc \in Dispatching \cup Asking
    PROVE  /\ job[v].att \in Attempts /\ attempt[job[v].att].dispatch \in {"creating", "ready"}
           /\ job[v].pc \in Asking => attempt[job[v].att].dispatch = "ready"
<1>1. JobOK(v) /\ job[v].att \in Attempts
  BY DEF SessionInv, JobsOK, TypeInv, CallsOK
<1> QED BY <1>1 DEF JobOK, Dispatching, Asking

\* The attempt of a capture was dispatched, too.
LEMMA ChargeDispatched ==
    ASSUME SessionInv, NEW p \in Captures, charge[p].att # None
    PROVE  charge[p].att \in Attempts /\ attempt[charge[p].att].dispatch = "ready"
BY DEF SessionInv, ChargesOK, TypeInv, TypeOK, Charge

\* One attempt changes its dispatch: what holds of the others stays.
LEMMA DispatchMoves ==
    ASSUME SessionInv, NEW a \in Attempts, OthersKept(a), UNCHANGED <<charge, inbox>>,
           \A b \in Attempts \ {a} : sess'[b] = sess[b],
           attempt[a].dispatch = "ready" => attempt'[a].dispatch = "ready",
           RowOK(attempt[a])', SessionOK(a)'
    PROVE  /\ \A b \in Attempts \ {a} : Kept(b)
           /\ RowsOK' /\ ChargesOK'
<1>1. \A b : PaidOn(b)' = PaidOn(b)
  BY DEF PaidOn
<1>2. \A b \in Attempts \ {a} : Kept(b)
  BY <1>1 DEF Kept, OthersKept
<1>3. RowsOK'
  BY <1>1 DEF SessionInv, RowsOK, RowOK, SessionOK, OthersKept
<1>4. \A p \in Captures : charge[p].att # None => attempt'[charge[p].att].dispatch = "ready"
  <2> SUFFICES ASSUME NEW p \in Captures, charge[p].att # None
               PROVE  attempt'[charge[p].att].dispatch = "ready"
    OBVIOUS
  <2> QED BY ChargeDispatched DEF OthersKept
<1> QED BY <1>2, <1>3, <1>4 DEF SessionInv, ChargesOK

LEMMA SessionClaim ==
    ASSUME SessionInv, NEW w \in Workers, NEW a \in Attempts, ClaimDispatch(w, a)
    PROVE  SessionInv'
<1>1. /\ TypeInv' /\ attempt[a].status = "prepared" /\ Sets(a, "creating", "creating")
      /\ Turns(w, [pc |-> "create", att |-> a, order |-> None, todo |-> {}])
  BY ClaimDoes DEF SessionInv
<1>2. UNCHANGED <<sess, charge, inbox>>
  BY DEF ClaimDispatch, ClaimDispatchIf, restVars
<1>3. attempt[a].dispatch = "none" /\ sess[a] = "none" /\ attempt[a].order # None
  BY <1>1 DEF SessionInv, TypeInv, TypeOK, AttemptRow, RowsOK, RowOK, SessionOK
<1>4. RowOK(attempt[a])' /\ SessionOK(a)'
  BY <1>1, <1>2, <1>3 DEF RowOK, SessionOK, Sets
<1>5. (\A b \in Attempts \ {a} : Kept(b)) /\ RowsOK' /\ ChargesOK'
  BY <1>1, <1>2, <1>3, <1>4, DispatchMoves DEF Sets
<1>6. \A v \in Workers : job[v].pc \in Dispatching \cup Asking => job[v].att \in Attempts \ {a}
  BY <1>3, CallDispatched
<1>7. job'[w].pc = "create" /\ job'[w].att = a /\ CallsKept(w)
  BY <1>1 DEF Turns
<1>8. attempt'[a].dispatch = "creating"
  BY <1>1 DEF Sets
<1>9. JobOK(w)'
  BY <1>2, <1>3, <1>7, <1>8 DEF JobOK, Asking
<1>10. JobsOK'
  BY <1>5, <1>6, <1>7, <1>9, JobsAfter
<1> QED BY <1>1, <1>5, <1>10 DEF SessionInv

LEMMA SessionCreate ==
    ASSUME SessionInv, NEW w \in Workers, CreateSession(w)
    PROVE  SessionInv'
<1>1. PICK a :
      /\ a = job[w].att
      /\ TypeInv' /\ job[w].pc = "create"
      /\ \/ sess' = [sess EXCEPT ![a] = "open"]
            /\ (Continues(w, "bind", job[w].todo) \/ Continues(w, "unknown", job[w].todo))
         \/ sess' = sess /\ Continues(w, "unknown", job[w].todo)
  BY CreateDoes DEF SessionInv
<1>2. UNCHANGED <<attempt, charge, inbox>>
  BY DEF CreateSession, rowVars
<1>3. a \in Attempts /\ attempt[a].dispatch = "creating" /\ sess[a] = "none"
  BY <1>1 DEF SessionInv, TypeInv, CallsOK, Dispatching, JobsOK, JobOK
<1>4. RowOK(attempt[a])' /\ SessionOK(a)' /\ \A b \in Attempts \ {a} : sess'[b] = sess[b]
  BY <1>1, <1>2, <1>3 DEF SessionInv, TypeInv, TypeOK, RowsOK, RowOK, SessionOK
<1>5. (\A b \in Attempts \ {a} : Kept(b)) /\ RowsOK' /\ ChargesOK'
  BY <1>2, <1>3, <1>4, DispatchMoves DEF OthersKept
<1>6. \A v \in Workers \ {w} : job[v].pc \in Dispatching \cup Asking => job[v].att \in Attempts \ {a}
  <2> SUFFICES ASSUME NEW v \in Workers \ {w}, job[v].pc \in Dispatching \cup Asking
               PROVE  job[v].att \in Attempts \ {a}
    OBVIOUS
  <2>1. CASE job[v].pc \in Dispatching
    BY <1>1, <2>1, CallDispatched DEF SessionInv, JobsOK, OneDispatcher, Dispatching
  <2>2. CASE job[v].pc \in Asking
    BY <1>3, <2>2, CallDispatched
  <2> QED BY <2>1, <2>2
<1>7. /\ CallsKept(w) /\ job'[w].att = a
      /\ job'[w].pc = "unknown" \/ (job'[w].pc = "bind" /\ sess'[a] = "open")
  BY <1>1, <1>3 DEF Continues, SessionInv, TypeInv, TypeOK
<1>8. JobOK(w)'
  BY <1>2, <1>3, <1>7 DEF JobOK, Asking
<1>9. \A v \in Workers \ {w} : job[v].pc \in Dispatching => job[v].att # job'[w].att
  BY <1>6, <1>7
<1>10. JobsOK'
  BY <1>5, <1>6, <1>7, <1>8, <1>9, JobsAfter
<1> QED BY <1>1, <1>5, <1>10 DEF SessionInv

LEMMA SessionBind ==
    ASSUME SessionInv, NEW w \in Workers, BindSession(w)
    PROVE  SessionInv'
<1>1. PICK a :
      /\ a = job[w].att
      /\ TypeInv' /\ job[w].pc = "bind" /\ a \in Attempts
      /\ Sets(a, IF attempt[a].status \in {"creating", "creation_unknown"} THEN "ready"
                 ELSE attempt[a].status, "ready")
      /\ Turns(w, NoJob) \/ Continues(w, "unknown", job[w].todo)
  BY BindDoes DEF SessionInv
<1>2. UNCHANGED <<sess, charge, inbox>>
  BY DEF BindSession, restVars
<1>3. attempt[a].dispatch = "creating" /\ sess[a] # "none" /\ attempt[a].status = "creating"
  BY <1>1 DEF SessionInv, JobsOK, JobOK, RowsOK, RowOK
<1>4. Sets(a, "ready", "ready") /\ attempt[a].order # None
  BY <1>1, <1>3 DEF SessionInv, RowsOK, RowOK
<1>5. RowOK(attempt[a])' /\ SessionOK(a)'
  BY <1>2, <1>3, <1>4 DEF RowOK, SessionOK, Sets
<1>6. (\A b \in Attempts \ {a} : Kept(b)) /\ RowsOK' /\ ChargesOK'
  BY <1>1, <1>2, <1>3, <1>4, <1>5, DispatchMoves DEF Sets
<1>7. \A v \in Workers \ {w} : job[v].pc \in Dispatching \cup Asking => job[v].att \in Attempts \ {a}
  <2> SUFFICES ASSUME NEW v \in Workers \ {w}, job[v].pc \in Dispatching \cup Asking
               PROVE  job[v].att \in Attempts \ {a}
    OBVIOUS
  <2>1. CASE job[v].pc \in Dispatching
    BY <1>1, <2>1, CallDispatched DEF SessionInv, JobsOK, OneDispatcher, Dispatching
  <2>2. CASE job[v].pc \in Asking
    BY <1>3, <2>2, CallDispatched
  <2> QED BY <2>1, <2>2
<1>8. JobsOK'
  <2>1. CASE Turns(w, NoJob)
    BY <1>6, <1>7, <2>1, JobsIdle
  <2>2. CASE Continues(w, "unknown", job[w].todo)
    <3>1. CallsKept(w) /\ job'[w].pc = "unknown" /\ job'[w].att = a /\ attempt'[a].dispatch = "ready"
      BY <1>1, <1>4, <2>2 DEF Continues, Sets
    <3>2. JobOK(w)'
      BY <3>1 DEF JobOK, Asking
    <3>3. \A v \in Workers \ {w} : job[v].pc \in Dispatching => job[v].att # job'[w].att
      BY <1>7, <3>1
    <3> QED BY <1>6, <1>7, <3>1, <3>2, <3>3, JobsAfter
  <2> QED BY <1>1, <2>1, <2>2
<1> QED BY <1>1, <1>6, <1>8 DEF SessionInv

LEMMA SessionUnknown ==
    ASSUME SessionInv, NEW w \in Workers, MarkUnknown(w)
    PROVE  SessionInv'
<1>1. PICK a :
      /\ a = job[w].att
      /\ TypeInv' /\ job[w].pc = "unknown" /\ a \in Attempts
      /\ \/ attempt[a].dispatch = "ready" /\ attempt' = attempt
         \/ /\ attempt[a].dispatch # "ready"
            /\ Sets(a, IF attempt[a].status = "creating" THEN "creation_unknown"
                       ELSE attempt[a].status, "unknown")
      /\ Turns(w, NoJob)
  BY UnknownDoes DEF SessionInv
<1>2. UNCHANGED <<sess, charge, inbox>>
  BY DEF MarkUnknown, restVars
<1>3. CASE attempt[a].dispatch = "ready" /\ attempt' = attempt
  <2>1. (\A b \in Attempts : Kept(b)) /\ RowsOK' /\ ChargesOK'
    BY <1>2, <1>3, AllKept DEF SessionInv
  <2>2. JobsOK'
    BY <1>1, <2>1, CallDispatched, JobsIdle
  <2> QED BY <1>1, <2>1, <2>2 DEF SessionInv
<1>4. CASE /\ attempt[a].dispatch # "ready"
           /\ Sets(a, IF attempt[a].status = "creating" THEN "creation_unknown"
                      ELSE attempt[a].status, "unknown")
  <2>1. attempt[a].dispatch = "creating" /\ attempt[a].status = "creating" /\ attempt[a].order # None
    BY <1>1, <1>4 DEF SessionInv, JobsOK, JobOK, RowsOK, RowOK
  <2>2. Sets(a, "creation_unknown", "unknown")
    BY <1>4, <2>1
  <2>3. RowOK(attempt[a])' /\ SessionOK(a)'
    BY <1>2, <2>1, <2>2 DEF RowOK, SessionOK, Sets
  <2>4. (\A b \in Attempts \ {a} : Kept(b)) /\ RowsOK' /\ ChargesOK'
    BY <1>1, <1>2, <2>1, <2>2, <2>3, DispatchMoves DEF Sets
  <2>5. \A v \in Workers \ {w} : job[v].pc \in Dispatching \cup Asking => job[v].att \in Attempts \ {a}
    <3> SUFFICES ASSUME NEW v \in Workers \ {w}, job[v].pc \in Dispatching \cup Asking
                 PROVE  job[v].att \in Attempts \ {a}
      OBVIOUS
    <3>1. CASE job[v].pc \in Dispatching
      BY <1>1, <3>1, CallDispatched DEF SessionInv, JobsOK, OneDispatcher, Dispatching
    <3>2. CASE job[v].pc \in Asking
      BY <1>4, <3>2, CallDispatched
    <3> QED BY <3>1, <3>2
  <2>6. JobsOK'
    BY <1>1, <2>4, <2>5, JobsIdle
  <2> QED BY <1>1, <2>4, <2>6 DEF SessionInv
<1> QED BY <1>1, <1>3, <1>4

\* A step that leaves attempts, sessions and captures alone.
LEMMA SessionQuiet ==
    ASSUME SessionInv, TypeInv', UNCHANGED <<attempt, sess, charge>>,
           \A p \in Captures : charge[p].att = None => inbox'[p] = "none", JobsOK'
    PROVE  SessionInv'
<1>1. RowsOK'
  BY AllKept DEF SessionInv
<1>2. ChargesOK'
  BY DEF SessionInv, ChargesOK
<1> QED BY <1>1, <1>2 DEF SessionInv

\* A call that looks at captures of a dispatched attempt.
LEMMA JobsLook ==
    ASSUME SessionInv, NEW w \in Workers, NEW a \in Attempts, attempt'[a].dispatch = "ready",
           \A b \in Attempts : Kept(b), NEW pc \in {"observe", "confirm"},
           NEW todo \in SUBSET PaidOn(a), NEW o,
           Turns(w, [pc |-> pc, att |-> a, order |-> o, todo |-> todo])
    PROVE  JobsOK'
<1>1. job'[w].pc = pc /\ job'[w].att = a /\ job'[w].todo = todo /\ CallsKept(w)
  BY DEF Turns
<1>2. job'[w].todo \subseteq PaidOn(a)'
  BY <1>1 DEF Kept
<1>3. JobOK(w)'
  BY <1>1, <1>2 DEF JobOK
<1>4. \A v \in Workers \ {w} : job[v].pc \in Dispatching \cup Asking => Kept(job[v].att)
  BY DEF SessionInv, TypeInv, CallsOK
<1> QED BY <1>1, <1>3, <1>4, JobsAfter DEF Dispatching

\* A call that goes through its captures.
LEMMA JobsThrough ==
    ASSUME SessionInv, NEW w \in Workers, job[w].pc \in {"observe", "confirm"},
           \A b \in Attempts : Kept(b), NEW pc \in {"observe", "confirm"},
           NEW todo \in SUBSET PaidOn(job[w].att), Continues(w, pc, todo)
    PROVE  JobsOK'
<1>1. PICK a \in Attempts : a = job[w].att /\ attempt[a].dispatch = "ready"
  BY CallDispatched DEF Asking
<1>2. job'[w].pc = pc /\ job'[w].att = a /\ job'[w].todo = todo
  BY <1>1 DEF Continues
<1>3. attempt'[a].dispatch = "ready" /\ todo \subseteq PaidOn(a)'
  BY <1>1 DEF Kept
<1>4. JobOK(w)'
  BY <1>2, <1>3 DEF JobOK
<1> QED BY <1>4, JobsContinue DEF Dispatching

LEMMA SessionVerify ==
    ASSUME SessionInv, NEW w \in Workers, NEW a \in Attempts, NEW r \in BOOLEAN, Verify(w, a, r)
    PROVE  SessionInv'
<1>1. /\ TypeInv' /\ attempt[a].dispatch = "ready"
      /\ \/ \E pc \in {"observe", "confirm"}, todo \in SUBSET PaidOn(a) :
               Turns(w, [pc |-> pc, att |-> a, order |-> None, todo |-> todo])
         \/ /\ sess[a] = "closed"
            /\ Turns(w, [pc |-> "retry", att |-> a, order |-> None, todo |-> {}])
  BY VerifyDoes DEF SessionInv
<1>2. UNCHANGED <<attempt, sess, charge, inbox>>
  BY DEF Verify, rowVars, restVars
<1>3. \A b \in Attempts : Kept(b)
  BY <1>2, AllKept
<1>4. JobsOK'
  <2>1. CASE \E pc \in {"observe", "confirm"}, todo \in SUBSET PaidOn(a) :
                 Turns(w, [pc |-> pc, att |-> a, order |-> None, todo |-> todo])
    BY <1>1, <1>2, <1>3, <2>1, JobsLook
  <2>2. CASE /\ sess[a] = "closed"
             /\ Turns(w, [pc |-> "retry", att |-> a, order |-> None, todo |-> {}])
    <3>1. job'[w].pc = "retry" /\ job'[w].att = a /\ CallsKept(w)
      BY <2>2 DEF Turns
    <3>2. JobOK(w)'
      BY <1>1, <1>2, <2>2, <3>1 DEF JobOK
    <3>3. \A v \in Workers \ {w} : job[v].pc \in Dispatching \cup Asking => Kept(job[v].att)
      BY <1>3 DEF SessionInv, TypeInv, CallsOK
    <3> QED BY <3>1, <3>2, <3>3, JobsAfter DEF Dispatching
  <2> QED BY <1>1, <2>1, <2>2
<1> QED BY <1>1, <1>2, <1>4, SessionQuiet DEF SessionInv, ChargesOK

LEMMA SessionObserve ==
    ASSUME SessionInv, NEW w \in Workers, NEW p \in Captures, Observe(w, p)
    PROVE  SessionInv'
<1>1. /\ TypeInv' /\ job[w].pc = "observe" /\ p \in job[w].todo
      /\ Continues(w, "observe", job[w].todo \ {p})
  BY ObserveDoes DEF SessionInv
<1>2. UNCHANGED <<attempt, sess, charge>> /\ inbox' = [inbox EXCEPT ![p] = IF @ = "none" THEN "received" ELSE @]
  BY DEF Observe, restVars
<1>3. job[w].todo \subseteq PaidOn(job[w].att) /\ job[w].att \in Attempts
  BY <1>1 DEF SessionInv, JobsOK, JobOK, TypeInv, CallsOK, Asking
<1>4. JobsOK'
  BY <1>1, <1>2, <1>3, AllKept, JobsThrough
<1>5. charge[p].att # None
  BY <1>1, <1>3, GroupAssumption DEF PaidOn
<1>6. \A q \in Captures : charge[q].att = None => inbox'[q] = "none"
  BY <1>2, <1>5 DEF SessionInv, ChargesOK, TypeInv, TypeOK
<1> QED BY <1>1, <1>2, <1>4, <1>6, SessionQuiet

LEMMA SessionObserved ==
    ASSUME SessionInv, NEW w \in Workers, Observed(w)
    PROVE  SessionInv'
<1>1. TypeInv' /\ job[w].pc = "observe" /\ Continues(w, "confirm", Received(job[w].att))
  BY ObservedDoes DEF SessionInv
<1>2. UNCHANGED <<attempt, sess, charge, inbox>>
  BY DEF Observed, rowVars, restVars
<1>3. Received(job[w].att) \subseteq PaidOn(job[w].att)
  BY DEF Received
<1>4. JobsOK'
  BY <1>1, <1>2, <1>3, AllKept, JobsThrough
<1> QED BY <1>1, <1>2, <1>4, SessionQuiet DEF SessionInv, ChargesOK

\* The capture a call confirms was taken on the attempt of the call.
LEMMA ConfirmsOwn ==
    ASSUME SessionInv, NEW w \in Workers, job[w].pc = "confirm", NEW p \in job[w].todo
    PROVE  /\ p \in Captures /\ charge[p].att = job[w].att /\ p \in PaidOn(job[w].att)
           /\ job[w].att \in Attempts /\ attempt[job[w].att].dispatch = "ready"
           /\ attempt[job[w].att].order \in Orders
<1>1. job[w].att \in Attempts /\ attempt[job[w].att].dispatch = "ready"
  BY CallDispatched DEF Asking
<1>2. p \in PaidOn(job[w].att)
  BY DEF SessionInv, JobsOK, JobOK
<1>3. attempt[job[w].att].order \in Orders
  BY <1>1 DEF SessionInv, TypeInv, TypeOK, AttemptRow, RowsOK, RowOK
<1> QED BY <1>1, <1>2, <1>3 DEF PaidOn

LEMMA SessionConfirm ==
    ASSUME SessionInv, NEW w \in Workers, NEW p \in Captures, Confirm(w, p)
    PROVE  SessionInv'
<1>1. PICK a :
      /\ a = job[w].att
      /\ TypeInv' /\ job[w].pc = "confirm" /\ p \in job[w].todo /\ a \in Attempts
      /\ Continues(w, "confirm", job[w].todo \ {p})
      /\ UNCHANGED <<eventOpen, price, lapsed, free, sess, charge>>
      /\ Confirming(p, a, attempt[a].order)
  BY ConfirmDoes DEF SessionInv
<1>2. charge[p].att = a /\ p \in PaidOn(a) /\ attempt[a].dispatch = "ready" /\ a # None
  BY <1>1, ConfirmsOwn, GroupAssumption
<1>3. attempt' = attempt \/ Sets(a, "paid", attempt[a].dispatch)
          \/ Sets(a, "reconciliation_required", attempt[a].dispatch)
  BY <1>1 DEF Confirming
<1>4. (\A b \in Attempts : Kept(b)) /\ RowsOK'
      /\ \A q \in Captures : charge[q].att # None => attempt'[charge[q].att].dispatch = "ready"
  <2>1. CASE attempt' = attempt
    BY <1>1, <2>1, AllKept, ChargeDispatched DEF SessionInv
  <2>2. CASE Sets(a, "paid", attempt[a].dispatch)
    BY <1>1, <1>2, <2>2, SetsKeeps
  <2>3. CASE Sets(a, "reconciliation_required", attempt[a].dispatch)
    BY <1>1, <1>2, <2>3, SetsKeeps
  <2> QED BY <1>3, <2>1, <2>2, <2>3
<1>5. inbox' = inbox \/ \E s : inbox' = [inbox EXCEPT ![p] = s]
  BY <1>1 DEF Confirming
<1>6. \A q \in Captures : charge[q].att = None => inbox'[q] = "none"
  BY <1>2, <1>5 DEF SessionInv, ChargesOK, TypeInv, TypeOK
<1>7. ChargesOK'
  BY <1>1, <1>4, <1>6 DEF SessionInv, ChargesOK
<1>8. job[w].todo \ {p} \subseteq PaidOn(job[w].att)
  BY <1>1, ConfirmsOwn
<1>9. JobsOK'
  BY <1>1, <1>4, <1>8, JobsThrough
<1> QED BY <1>1, <1>4, <1>7, <1>9 DEF SessionInv

LEMMA SessionRefused ==
    ASSUME SessionInv, NEW w \in Workers, NEW p \in Captures, ConfirmRefused(w, p)
    PROVE  SessionInv'
<1>1. TypeInv' /\ job[w].pc = "confirm" /\ Continues(w, "confirm", job[w].todo \ {p})
  BY RefusedDoes DEF SessionInv
<1>2. UNCHANGED <<attempt, sess, charge, inbox>>
  BY DEF ConfirmRefused, rowVars, restVars
<1>3. job[w].todo \ {p} \subseteq PaidOn(job[w].att)
  BY <1>1, ConfirmsOwn
<1>4. JobsOK'
  BY <1>1, <1>2, <1>3, AllKept, JobsThrough
<1> QED BY <1>1, <1>2, <1>4, SessionQuiet DEF SessionInv, ChargesOK

LEMMA SessionConfirmed ==
    ASSUME SessionInv, NEW w \in Workers, Confirmed(w) \/ WorkerDies(w)
    PROVE  SessionInv'
<1>1. TypeInv' /\ Returns(w)
  BY ConfirmedDoes, DiesDoes DEF SessionInv, Returns
<1>2. UNCHANGED <<attempt, sess, charge, inbox>>
  BY DEF Confirmed, WorkerDies, rowVars, restVars
<1>3. JobsOK'
  BY <1>1, <1>2, AllKept, JobsReturn
<1> QED BY <1>1, <1>2, <1>3, SessionQuiet DEF SessionInv, ChargesOK

LEMMA SessionRetry ==
    ASSUME SessionInv, NEW w \in Workers, RetryExpired(w)
    PROVE  SessionInv'
<1>1. PICK a :
      /\ a = job[w].att
      /\ TypeInv' /\ job[w].pc = "retry" /\ a \in Attempts /\ Turns(w, NoJob)
      /\ attempt' = attempt \/ Sets(a, "expired", attempt[a].dispatch)
  BY RetryDoes DEF SessionInv
<1>2. UNCHANGED <<sess, charge, inbox>>
  BY DEF RetryExpired, restVars
<1>3. attempt[a].dispatch = "ready" /\ sess[a] = "closed"
  BY <1>1 DEF SessionInv, JobsOK, JobOK, Asking
<1>4. (\A b \in Attempts : Kept(b)) /\ RowsOK' /\ ChargesOK'
  <2>1. CASE attempt' = attempt
    BY <1>2, <2>1, AllKept DEF SessionInv
  <2>2. CASE Sets(a, "expired", attempt[a].dispatch)
    BY <1>1, <1>2, <1>3, <2>2, SetsKeeps DEF SessionInv, ChargesOK
  <2> QED BY <1>1, <2>1, <2>2
<1>5. JobsOK'
  BY <1>1, <1>4, CallDispatched, JobsIdle
<1> QED BY <1>1, <1>4, <1>5 DEF SessionInv

LEMMA SessionStart ==
    ASSUME SessionInv, NEW w \in Workers, NEW o \in Orders, StartExpiry(w, o)
    PROVE  SessionInv'
<1>1. /\ TypeInv'
      /\ \/ \E a \in Attempts :
               /\ attempt[a].order = o /\ attempt[a].dispatch = "ready"
               /\ Turns(w, [pc |-> "expire", att |-> a, order |-> o, todo |-> {}])
         \/ \E pc \in {"batch", "finish"} :
               Turns(w, [pc |-> pc, att |-> None, order |-> o, todo |-> {}])
  BY StartDoes DEF SessionInv
<1>2. UNCHANGED <<attempt, sess, charge, inbox>>
  BY DEF StartExpiry, rowVars, restVars
<1>3. \A v \in Workers \ {w} : job[v].pc \in Dispatching \cup Asking => Kept(job[v].att)
  BY <1>2, AllKept, CallDispatched
<1>4. JobsOK'
  <2>1. CASE \E a \in Attempts :
                 /\ attempt[a].order = o /\ attempt[a].dispatch = "ready"
                 /\ Turns(w, [pc |-> "expire", att |-> a, order |-> o, todo |-> {}])
    <3>1. PICK a \in Attempts :
                 /\ attempt[a].order = o /\ attempt[a].dispatch = "ready"
                 /\ Turns(w, [pc |-> "expire", att |-> a, order |-> o, todo |-> {}])
      BY <2>1
    <3>2. job'[w].pc = "expire" /\ job'[w].att = a /\ job'[w].order = o /\ CallsKept(w)
      BY <3>1 DEF Turns
    <3>3. JobOK(w)'
      BY <1>2, <3>1, <3>2 DEF JobOK
    <3> QED BY <1>3, <3>2, <3>3, JobsAfter DEF Dispatching
  <2>2. CASE \E pc \in {"batch", "finish"} :
                 Turns(w, [pc |-> pc, att |-> None, order |-> o, todo |-> {}])
    <3>1. job'[w].pc \in {"batch", "finish"} /\ CallsKept(w)
      BY <2>2 DEF Turns
    <3>2. JobOK(w)'
      BY <3>1 DEF JobOK, Asking
    <3> QED BY <1>3, <3>1, <3>2, JobsAfter DEF Dispatching
  <2> QED BY <1>1, <2>1, <2>2
<1> QED BY <1>1, <1>2, <1>4, SessionQuiet DEF SessionInv, ChargesOK

LEMMA SessionClose ==
    ASSUME SessionInv, NEW w \in Workers, CloseSession(w)
    PROVE  SessionInv'
<1>1. PICK a :
      /\ a = job[w].att
      /\ TypeInv' /\ job[w].pc = "expire" /\ a \in Attempts
      /\ \/ /\ sess' = sess
            /\ \E pc \in {"observe", "confirm"}, todo \in SUBSET PaidOn(a) :
                  Turns(w, [pc |-> pc, att |-> a, order |-> job[w].order, todo |-> todo])
         \/ /\ PaidOn(a) = {} /\ sess' = [sess EXCEPT ![a] = "closed"]
            /\ Continues(w, "close", job[w].todo)
  BY CloseDoes DEF SessionInv
<1>2. UNCHANGED <<attempt, charge, inbox>>
  BY DEF CloseSession, rowVars
<1>3. attempt[a].dispatch = "ready" /\ attempt[a].order = job[w].order /\ sess[a] # "none"
  BY <1>1 DEF SessionInv, JobsOK, JobOK, RowsOK, SessionOK, Asking
<1>4. CASE /\ sess' = sess
           /\ \E pc \in {"observe", "confirm"}, todo \in SUBSET PaidOn(a) :
                 Turns(w, [pc |-> pc, att |-> a, order |-> job[w].order, todo |-> todo])
  <2>1. \A b \in Attempts : Kept(b)
    BY <1>2, <1>4, AllKept
  <2>2. JobsOK'
    BY <1>1, <1>2, <1>3, <1>4, <2>1, JobsLook
  <2> QED BY <1>1, <1>2, <1>4, <2>2, SessionQuiet DEF SessionInv, ChargesOK
<1>5. CASE /\ PaidOn(a) = {} /\ sess' = [sess EXCEPT ![a] = "closed"]
           /\ Continues(w, "close", job[w].todo)
  <2>1. /\ sess'[a] = "closed" /\ sess[a] \in {"open", "closed"}
        /\ \A b \in Attempts \ {a} : sess'[b] = sess[b]
    BY <1>1, <1>3, <1>5 DEF SessionInv, TypeInv, TypeOK
  <2>2. RowOK(attempt[a])' /\ SessionOK(a)'
    <3>1. PaidOn(a)' = PaidOn(a)
      BY <1>2 DEF PaidOn
    <3>2. RowOK(attempt[a]) /\ SessionOK(a)
      BY <1>1 DEF SessionInv, RowsOK
    <3> QED BY <1>2, <1>3, <2>1, <3>1, <3>2 DEF RowOK, SessionOK
  <2>3. (\A b \in Attempts \ {a} : Kept(b)) /\ RowsOK' /\ ChargesOK'
    BY <1>1, <1>2, <2>1, <2>2, DispatchMoves DEF OthersKept
  <2>4. Kept(a)
    BY <1>2, <2>1 DEF Kept, PaidOn
  <2>5. job'[w].pc = "close" /\ job'[w].att = a /\ job'[w].order = job[w].order
    BY <1>1, <1>5 DEF Continues
  <2>6. JobOK(w)'
    BY <1>2, <1>3, <2>1, <2>5 DEF JobOK
  <2>7. \A b \in Attempts : Kept(b)
    BY <2>3, <2>4
  <2>8. JobsOK'
    BY <1>5, <2>6, <2>7, JobsContinue DEF Dispatching
  <2> QED BY <1>1, <2>3, <2>8 DEF SessionInv
<1> QED BY <1>1, <1>4, <1>5

LEMMA SessionExpireAttempt ==
    ASSUME SessionInv, NEW w \in Workers, ExpireAttempt(w)
    PROVE  SessionInv'
<1>1. PICK a :
      /\ a = job[w].att
      /\ TypeInv' /\ job[w].pc = "close" /\ a \in Attempts
      /\ \/ Returns(w) /\ attempt' = attempt
         \/ Continues(w, "finish", job[w].todo) /\ Sets(a, "expired", attempt[a].dispatch)
  BY ExpireAttemptDoes DEF SessionInv
<1>2. UNCHANGED <<sess, charge, inbox>>
  BY DEF ExpireAttempt, restVars
<1>3. attempt[a].dispatch = "ready" /\ sess[a] = "closed"
  BY <1>1 DEF SessionInv, JobsOK, JobOK, Asking
<1>4. CASE Returns(w) /\ attempt' = attempt
  BY <1>1, <1>2, <1>4, AllKept, JobsReturn, SessionQuiet DEF SessionInv, ChargesOK
<1>5. CASE Continues(w, "finish", job[w].todo) /\ Sets(a, "expired", attempt[a].dispatch)
  <2>1. (\A b \in Attempts : Kept(b)) /\ RowsOK' /\ ChargesOK'
    BY <1>1, <1>2, <1>3, <1>5, SetsKeeps DEF SessionInv, ChargesOK
  <2>2. job'[w].pc = "finish"
    BY <1>5 DEF Continues
  <2>3. JobOK(w)'
    BY <2>2 DEF JobOK, Asking
  <2>4. JobsOK'
    BY <1>5, <2>1, <2>3, JobsContinue DEF Dispatching
  <2> QED BY <1>1, <2>1, <2>4 DEF SessionInv
<1> QED BY <1>1, <1>4, <1>5

LEMMA SessionFinish ==
    ASSUME SessionInv, NEW w \in Workers, FinishOrder(w) \/ FinishBatch(w)
    PROVE  SessionInv'
<1>1. /\ TypeInv' /\ Returns(w)
      /\ attempt' = attempt \/ Voids(PreparedOf(job[w].order))
  BY FinishOrderDoes, FinishBatchDoes DEF SessionInv, Returns
<1>2. UNCHANGED <<sess, charge, inbox>>
  BY DEF FinishOrder, FinishBatch, FinishBatchIf, restVars
<1>3. \A b \in Attempts : b \in PreparedOf(job[w].order) => attempt[b].status = "prepared"
  BY DEF PreparedOf
<1>4. (\A b \in Attempts : Kept(b)) /\ RowsOK' /\ ChargesOK'
  BY <1>1, <1>2, <1>3, AllKept, VoidsKeep DEF SessionInv
<1> QED BY <1>1, <1>4, JobsReturn DEF SessionInv

\* What calls know, what the provider has and what the rows say of it agree, after every step.
LEMMA SessionsKept ==
    ASSUME SessionInv, [Next]_vars
    PROVE  SessionInv'
<1>1. CASE BookerStep \/ RunnerStep \/ Environment
  BY <1>1, SessionOthers
<1>2. CASE \E w \in Workers :
              \/ SessionStep(w) \/ ConfirmStep(w) \/ ExpiryStep(w) \/ WorkerDies(w)
              \/ \E a \in Attempts, r \in BOOLEAN : Verify(w, a, r)
              \/ \E o \in Orders : StartExpiry(w, o)
  BY <1>2, SessionClaim, SessionCreate, SessionBind, SessionUnknown, SessionVerify, SessionObserve,
     SessionObserved, SessionConfirm, SessionRefused, SessionConfirmed, SessionRetry, SessionStart,
     SessionClose, SessionExpireAttempt, SessionFinish
     DEF SessionStep, ConfirmStep, ExpiryStep
<1>3. CASE UNCHANGED vars
  <2>1. UNCHANGED <<attempt, sess, charge, inbox, job>> /\ TypeInv'
    BY <1>3 DEF vars, SessionInv, TypeInv, TypeOK, CallsOK
  <2>2. \A a \in Attempts : Kept(a)
    BY <2>1, AllKept
  <2> QED BY <2>1, <2>2, JobsStay, SessionQuiet DEF SessionInv, ChargesOK
<1> QED BY <1>1, <1>2, <1>3 DEF Next

\* The calls, the provider and the rows agree in every state: what a call has seen of its attempt
\* still holds when it acts on it, whatever other calls, the booker and the provider did meanwhile.
THEOREM GroupSessions == Spec => []SessionInv
<1>1. Init => SessionInv
  <2> SUFFICES ASSUME Init PROVE SessionInv
    OBVIOUS
  <2>1. NoJob \in JobCall /\ NoAttempt \in AttemptRow /\ NoCharge \in Charge
        /\ NoSingleCall \in SingleCall
    BY DEF NoJob, JobCall, JobPc, NoAttempt, AttemptRow, AttemptStatus, NoCharge, Charge, SingleCall
  <2>2. \A w \in Workers : job[w].pc = "idle"
    BY DEF Init, NoJob
  <2>3. CallsOK /\ JobsOK
    BY <2>2 DEF CallsOK, JobsOK, JobOK, OneDispatcher, Dispatching, Asking, ForOrder
  <2>4. TypeOK
    BY <2>1, GroupAssumption DEF Init, TypeOK, OrderStatus, RegStatus, BatchStatus, CaptureState
  <2>5. RowsOK
    BY DEF Init, RowsOK, RowOK, SessionOK, NoAttempt
  <2>6. ChargesOK
    BY DEF Init, ChargesOK, NoCharge
  <2> QED BY <2>3, <2>4, <2>5, <2>6 DEF SessionInv, TypeInv
<1>2. SessionInv /\ [Next]_vars => SessionInv'
  BY SessionsKept
<1> QED BY <1>1, <1>2, PTL DEF Spec

\* The group checkout keeps its types: a call, an attempt and a capture always name what exists.
THEOREM GroupTypeCorrect == Spec => []TypeOK
<1>1. SessionInv => TypeOK
  BY DEF SessionInv, TypeInv
<1> QED BY <1>1, GroupSessions, PTL

-----------------------------------------------------------------------------
(* What a step does to the rows, in one of a few ways. *)

\* An attempt is dispatched, or the call that dispatched it goes on.
Dispatches(a) ==
    LET o == attempt[a].order IN
    /\ o \in Orders
    /\ \E s \in InFlight, d \in {"creating", "unknown", "ready"} : Sets(a, s, d)
    /\ \/ attempt[a].status = "prepared" /\ Payable(o) /\ Untouched(o) /\ ~HasCapture(o)
       \/ attempt[a].status \in InFlight /\ attempt[a].dispatch # "none"
    /\ UNCHANGED <<order, reg, price, lapsed, batch, free, inbox, slots, sess, charge>>

\* A received capture of an attempt admits the party, or is taken into review with the order.
TakenOn(p, a) ==
    /\ attempt[a].order \in Orders /\ charge[p].att = a /\ attempt[a].dispatch = "ready"
    /\ inbox[p] = "received"
    /\ UNCHANGED <<price, lapsed, free, sess, charge>>

Admits(p, a) ==
    /\ TakenOn(p, a) /\ Fulfils(p)
    /\ Admit(attempt[a].order, a) /\ Sets(a, "paid", attempt[a].dispatch)
    /\ inbox' = [inbox EXCEPT ![p] = "fulfilled"]

Reviews(p, a) ==
    /\ TakenOn(p, a)
    /\ order[attempt[a].order] # "paid"
    /\ order' = [order EXCEPT ![attempt[a].order] = "reconciliation_required"]
    /\ Sets(a, "reconciliation_required", attempt[a].dispatch)
    /\ inbox' = [inbox EXCEPT ![p] = "reconciliation_required"]
    /\ UNCHANGED <<reg, batch, slots>>

\* An attempt whose session the provider closed is given up, and with the last one its order.
GivesUp(a) ==
    LET o == attempt[a].order IN
    /\ o \in Orders /\ order[o] = "pending"
    /\ attempt[a].dispatch = "ready" /\ sess[a] = "closed" /\ attempt[a].status # "paid"
    /\ Sets(a, "expired", "ready")
    /\ \/ Unsettled(o) \subseteq {a} /\ Expire(o)
       \/ UNCHANGED <<order, reg>>
    /\ UNCHANGED <<price, lapsed, batch, free, inbox, slots, sess, charge>>

\* The hold of an order without money and without a session runs out.
Releases(o) ==
    /\ ~HasCapture(o) /\ order[o] \notin {"paid", "reconciliation_required"} /\ Unsettled(o) = {}
    /\ Voids(PreparedOf(o)) /\ reg' = SetReg(PendingOf(o), "expired")
    /\ order' = IF order[o] = "pending" THEN [order EXCEPT ![o] = "expired"] ELSE order
    /\ batch' = batch \/ batch' = [batch EXCEPT ![o] = "expired"]
    /\ UNCHANGED <<price, lapsed, free, inbox, slots, sess, charge>>

\* Nothing but what is known of captures and sessions changes.
Quiet ==
    /\ UNCHANGED <<order, reg, price, lapsed, batch, attempt, free, slots>>
    /\ \A p \in Captures : /\ charge[p].att # None => charge'[p] = charge[p]
                           /\ inbox'[p] = "fulfilled" <=> inbox[p] = "fulfilled"
    /\ \A a \in Attempts : sess'[a] = "open" /\ PaidOn(a) # {} => sess[a] = "open"

Cancels(o) == Cancel(o) /\ Voids(PreparedOf(o))
Discounts(e, pr) == ApplyDiscount(e, pr) /\ Voids(PreparedOf(OrderOf[e]))
Prepares(o, a) ==
    /\ Prepare(o, a) /\ OthersKept(a) /\ attempt[a].status = "none" /\ attempt[a].order = None
    /\ attempt'[a].order = o /\ attempt'[a].quote = Quote(o)
    /\ attempt'[a].status = "prepared" /\ attempt'[a].dispatch = "none"
ConfirmsFree(o, a) == ConfirmFree(o, a) /\ Sets(a, "paid", attempt[a].dispatch)

RowStep ==
    \/ \E o \in Orders : Reserve(o) \/ Cancels(o) \/ Releases(o) \/ Lapse(o)
    \/ \E e \in Entries : (\E pr \in Prices : Discounts(e, pr)) \/ AdminCancel(e)
    \/ \E o \in Orders, a \in Attempts : Prepares(o, a) \/ ConfirmsFree(o, a)
    \/ \E a \in Attempts : Dispatches(a) \/ GivesUp(a)
    \/ \E p \in Captures, a \in Attempts : Admits(p, a) \/ Reviews(p, a)
    \/ \E E : Drop(E)
    \/ Quiet

\* Nothing changes but calls.
LEMMA CallsOnly == ASSUME UNCHANGED <<rowVars, sess, charge>> PROVE Quiet
BY DEF rowVars, Quiet

LEMMA DispatchSteps ==
    ASSUME SessionInv, NEW w \in Workers, SessionStep(w)
    PROVE  RowStep
<1>1. CASE \E a \in Attempts : ClaimDispatch(w, a)
  <2>1. PICK a \in Attempts : ClaimDispatch(w, a)
    BY <1>1
  <2>2. attempt[a].status = "prepared" /\ Sets(a, "creating", "creating")
    BY <2>1, ClaimDoes DEF SessionInv
  <2>3. attempt[a].order \in Orders
    BY <2>2 DEF SessionInv, TypeInv, TypeOK, AttemptRow, RowsOK, RowOK
  <2>4. Dispatches(a)
    BY <2>1, <2>2, <2>3 DEF Dispatches, ClaimDispatch, ClaimDispatchIf, InFlight, restVars
  <2> QED BY <2>4 DEF RowStep
<1>2. CASE CreateSession(w)
  <2>1. PICK a : a = job[w].att /\ job[w].pc = "create" /\ a \in Attempts /\ attempt[a].dispatch = "creating"
    BY <1>2 DEF CreateSession, SessionInv, TypeInv, CallsOK, Dispatching, JobsOK, JobOK
  <2>2. \A b \in Attempts \ {a} : sess'[b] = sess[b]
    BY <1>2, <2>1 DEF CreateSession, SessionInv, TypeInv, TypeOK
  <2>3. PaidOn(a) = {}
    BY <2>1, ChargeDispatched, GroupAssumption DEF PaidOn
  <2>4. Quiet
    BY <1>2, <2>2, <2>3 DEF CreateSession, rowVars, Quiet
  <2> QED BY <2>4 DEF RowStep
<1>3. CASE BindSession(w)
  <2>1. PICK a :
        /\ a = job[w].att /\ job[w].pc = "bind" /\ a \in Attempts
        /\ Sets(a, IF attempt[a].status \in {"creating", "creation_unknown"} THEN "ready"
                   ELSE attempt[a].status, "ready")
    BY <1>3, BindDoes DEF SessionInv
  <2>2. attempt[a].dispatch = "creating" /\ attempt[a].status = "creating"
    BY <2>1 DEF SessionInv, JobsOK, JobOK, RowsOK, RowOK
  <2>3. Sets(a, "ready", "ready") /\ attempt[a].order \in Orders
    BY <2>1, <2>2 DEF SessionInv, TypeInv, TypeOK, AttemptRow, RowsOK, RowOK
  <2>4. Dispatches(a)
    BY <1>3, <2>2, <2>3 DEF Dispatches, BindSession, InFlight, restVars
  <2> QED BY <2>1, <2>4 DEF RowStep
<1>4. CASE MarkUnknown(w)
  <2>1. PICK a :
        /\ a = job[w].att /\ job[w].pc = "unknown" /\ a \in Attempts
        /\ \/ attempt' = attempt
           \/ /\ attempt[a].dispatch # "ready"
              /\ Sets(a, IF attempt[a].status = "creating" THEN "creation_unknown"
                         ELSE attempt[a].status, "unknown")
    BY <1>4, UnknownDoes DEF SessionInv
  <2>2. CASE attempt' = attempt
    <3>1. Quiet
      BY <1>4, <2>2 DEF MarkUnknown, restVars, Quiet
    <3> QED BY <3>1 DEF RowStep
  <2>3. CASE /\ attempt[a].dispatch # "ready"
             /\ Sets(a, IF attempt[a].status = "creating" THEN "creation_unknown"
                        ELSE attempt[a].status, "unknown")
    <3>1. attempt[a].dispatch = "creating" /\ attempt[a].status = "creating"
      BY <2>1, <2>3 DEF SessionInv, JobsOK, JobOK, RowsOK, RowOK
    <3>2. Sets(a, "creation_unknown", "unknown") /\ attempt[a].order \in Orders
      BY <2>1, <2>3, <3>1 DEF SessionInv, TypeInv, TypeOK, AttemptRow, RowsOK, RowOK
    <3>3. Dispatches(a)
      BY <1>4, <3>1, <3>2 DEF Dispatches, MarkUnknown, InFlight, restVars
    <3> QED BY <2>1, <3>3 DEF RowStep
  <2> QED BY <2>1, <2>2, <2>3
<1> QED BY <1>1, <1>2, <1>3, <1>4 DEF SessionStep

LEMMA ConfirmSteps ==
    ASSUME SessionInv, NEW w \in Workers, ConfirmStep(w)
    PROVE  RowStep
<1>1. CASE Observed(w) \/ Confirmed(w) \/ \E p \in Captures : ConfirmRefused(w, p)
  BY <1>1, CallsOnly DEF Observed, Confirmed, ConfirmRefused, restVars, RowStep
<1>2. CASE \E p \in Captures : Observe(w, p)
  <2>1. PICK p \in Captures : Observe(w, p)
    BY <1>2
  <2>2. \A q \in Captures : inbox'[q] = "fulfilled" <=> inbox[q] = "fulfilled"
    BY <2>1 DEF Observe, SessionInv, TypeInv, TypeOK
  <2>3. Quiet
    BY <2>1, <2>2 DEF Observe, restVars, Quiet
  <2> QED BY <2>3 DEF RowStep
<1>3. CASE RetryExpired(w)
  <2>1. PICK a :
        /\ a = job[w].att /\ job[w].pc = "retry" /\ a \in Attempts
        /\ \/ attempt' = attempt
           \/ /\ order[attempt[a].order] = "pending" /\ attempt[a].status \in InFlight
              /\ Sets(a, "expired", attempt[a].dispatch)
    BY <1>3, RetryDoes DEF SessionInv
  <2>2. attempt[a].dispatch = "ready" /\ sess[a] = "closed"
    BY <2>1 DEF SessionInv, JobsOK, JobOK, Asking
  <2>3. attempt[a].order \in Orders
    BY <2>1, <2>2 DEF SessionInv, TypeInv, TypeOK, AttemptRow, RowsOK, RowOK
  <2>4. CASE attempt' = attempt
    <3>1. Quiet
      BY <1>3, <2>4 DEF RetryExpired, restVars, Quiet
    <3> QED BY <3>1 DEF RowStep
  <2>5. CASE /\ order[attempt[a].order] = "pending" /\ attempt[a].status \in InFlight
             /\ Sets(a, "expired", attempt[a].dispatch)
    <3>1. GivesUp(a)
      BY <1>3, <2>2, <2>3, <2>5 DEF GivesUp, RetryExpired, restVars, InFlight
    <3> QED BY <2>1, <3>1 DEF RowStep
  <2> QED BY <2>1, <2>4, <2>5
<1>4. CASE \E p \in Captures : Confirm(w, p)
  <2>1. PICK p \in Captures : Confirm(w, p)
    BY <1>4
  <2>2. PICK a :
        /\ a = job[w].att /\ job[w].pc = "confirm" /\ p \in job[w].todo /\ a \in Attempts
        /\ UNCHANGED <<price, lapsed, free, sess, charge>>
        /\ Confirming(p, a, attempt[a].order)
    BY <2>1, ConfirmDoes DEF SessionInv
  <2>3. charge[p].att = a /\ attempt[a].dispatch = "ready" /\ attempt[a].order \in Orders
    BY <2>2, ConfirmsOwn
  <2>4. CASE inbox[p] # "received" /\ UNCHANGED <<order, reg, batch, attempt, inbox, slots>>
    <3>1. Quiet
      BY <2>2, <2>4 DEF Quiet
    <3> QED BY <3>1 DEF RowStep
  <2>5. CASE /\ inbox[p] = "received" /\ Fulfils(p)
             /\ Admit(attempt[a].order, a) /\ Sets(a, "paid", attempt[a].dispatch)
             /\ inbox' = [inbox EXCEPT ![p] = "fulfilled"]
    <3>1. Admits(p, a)
      BY <2>2, <2>3, <2>5 DEF Admits, TakenOn
    <3> QED BY <2>2, <3>1 DEF RowStep
  <2>6. CASE /\ inbox[p] = "received" /\ order' = order /\ attempt' = attempt
             /\ inbox' = [inbox EXCEPT ![p] = "reconciliation_required"]
             /\ UNCHANGED <<reg, batch, slots>>
    <3>1. \A q \in Captures : inbox'[q] = "fulfilled" <=> inbox[q] = "fulfilled"
      BY <2>6 DEF SessionInv, TypeInv, TypeOK
    <3>2. Quiet
      BY <2>2, <2>6, <3>1 DEF Quiet
    <3> QED BY <3>2 DEF RowStep
  <2>7. CASE /\ inbox[p] = "received" /\ order[attempt[a].order] # "paid"
             /\ order' = [order EXCEPT ![attempt[a].order] = "reconciliation_required"]
             /\ Sets(a, "reconciliation_required", attempt[a].dispatch)
             /\ inbox' = [inbox EXCEPT ![p] = "reconciliation_required"]
             /\ UNCHANGED <<reg, batch, slots>>
    <3>1. Reviews(p, a)
      BY <2>2, <2>3, <2>7 DEF Reviews, TakenOn
    <3> QED BY <2>2, <3>1 DEF RowStep
  <2> QED BY <2>2, <2>4, <2>5, <2>6, <2>7 DEF Confirming
<1> QED BY <1>1, <1>2, <1>3, <1>4 DEF ConfirmStep

LEMMA ExpirySteps ==
    ASSUME SessionInv, NEW w \in Workers, ExpiryStep(w)
    PROVE  RowStep
<1>1. CASE CloseSession(w)
  <2>1. \A a \in Attempts : sess'[a] = "open" => sess[a] = "open"
    BY <1>1 DEF CloseSession, SessionInv, TypeInv, TypeOK
  <2>2. Quiet
    BY <1>1, <2>1 DEF CloseSession, rowVars, Quiet
  <2> QED BY <2>2 DEF RowStep
<1>2. CASE ExpireAttempt(w)
  <2>1. PICK a :
        /\ a = job[w].att /\ job[w].pc = "close" /\ a \in Attempts /\ job[w].order \in Orders
        /\ \/ attempt' = attempt /\ UNCHANGED <<order, reg>>
           \/ LET o == job[w].order IN
              /\ Sets(a, "expired", attempt[a].dispatch)
              /\ order[o] = "pending" /\ attempt[a].status # "paid"
              /\ \/ Unsettled(o) \subseteq {a} /\ Expire(o)
                 \/ UNCHANGED <<order, reg>>
    BY <1>2, ExpireAttemptDoes DEF SessionInv
  <2>2. attempt[a].dispatch = "ready" /\ sess[a] = "closed" /\ attempt[a].order = job[w].order
    BY <2>1 DEF SessionInv, JobsOK, JobOK, Asking
  <2>3. CASE attempt' = attempt /\ UNCHANGED <<order, reg>>
    <3>1. Quiet
      BY <1>2, <2>3 DEF ExpireAttempt, restVars, Quiet
    <3> QED BY <3>1 DEF RowStep
  <2>4. CASE LET o == job[w].order IN
              /\ Sets(a, "expired", attempt[a].dispatch)
              /\ order[o] = "pending" /\ attempt[a].status # "paid"
              /\ \/ Unsettled(o) \subseteq {a} /\ Expire(o)
                 \/ UNCHANGED <<order, reg>>
    <3>1. GivesUp(a)
      BY <1>2, <2>1, <2>2, <2>4 DEF GivesUp, ExpireAttempt, restVars
    <3> QED BY <2>1, <3>1 DEF RowStep
  <2> QED BY <2>1, <2>3, <2>4
<1>3. CASE FinishOrder(w)
  <2>1. PICK o \in Orders :
        \/ attempt' = attempt /\ UNCHANGED <<order, reg>>
        \/ /\ order[o] = "pending" /\ Unsettled(o) = {} /\ ~HasCapture(o)
           /\ Expire(o) /\ Voids(PreparedOf(o))
    BY <1>3, FinishOrderDoes DEF SessionInv
  <2>2. Quiet \/ Releases(o)
    BY <1>3, <2>1 DEF FinishOrder, restVars, Quiet, Releases, Expire
  <2> QED BY <2>2 DEF RowStep
<1>4. CASE FinishBatch(w)
  <2>1. PICK o \in Orders :
        \/ attempt' = attempt /\ UNCHANGED <<reg, order, batch>>
        \/ /\ ~HasCapture(o) /\ order[o] \notin {"paid", "reconciliation_required"}
           /\ Unsettled(o) = {} /\ Voids(PreparedOf(o))
           /\ reg' = SetReg(PendingOf(o), "expired")
           /\ order' = IF order[o] = "pending" THEN [order EXCEPT ![o] = "expired"] ELSE order
           /\ batch' = [batch EXCEPT ![o] = "expired"]
    BY <1>4, FinishBatchDoes DEF SessionInv
  <2>2. Quiet \/ Releases(o)
    BY <1>4, <2>1 DEF FinishBatch, FinishBatchIf, restVars, Quiet, Releases
  <2> QED BY <2>2 DEF RowStep
<1> QED BY <1>1, <1>2, <1>3, <1>4 DEF ExpiryStep

LEMMA OtherSteps ==
    ASSUME SessionInv, BookerStep \/ Environment
    PROVE  RowStep
<1>1. CASE \E o \in Orders : Reserve(o) \/ Lapse(o)
  BY <1>1 DEF RowStep
<1>2. CASE \E o \in Orders : Cancel(o)
  BY <1>2, CancelDoes DEF RowStep, Cancels, SessionInv
<1>3. CASE \E o \in Orders, a \in Attempts : Prepare(o, a)
  <2>1. PICK o \in Orders, a \in Attempts : Prepare(o, a)
    BY <1>3
  <2>2. Prepares(o, a)
    BY <2>1, PrepareDoes DEF Prepares, SessionInv, RowsOK, RowOK
  <2> QED BY <2>2 DEF RowStep
<1>4. CASE \E o \in Orders, a \in Attempts : ConfirmFree(o, a)
  BY <1>4, ConfirmFreeDoes DEF RowStep, ConfirmsFree, SessionInv
<1>5. CASE \E e \in Entries, pr \in Prices : ApplyDiscount(e, pr)
  BY <1>5, DiscountDoes DEF RowStep, Discounts, SessionInv
<1>6. CASE Sweep \/ CloseEvent
  <2>1. \E E : Drop(E)
    BY <1>6 DEF Sweep, CloseEvent
  <2> QED BY <2>1 DEF RowStep
<1>7. CASE ReopenEvent
  <2>1. Quiet
    BY <1>7 DEF ReopenEvent, restVars, Quiet
  <2> QED BY <2>1 DEF RowStep
<1>8. CASE \E e \in Entries : AdminCancel(e)
  BY <1>8 DEF RowStep
<1>9. CASE \E p \in Captures, a \in Attempts : Pay(p, a)
  <2>1. PICK p \in Captures, a \in Attempts : Pay(p, a)
    BY <1>9
  <2>2. charge[p] = NoCharge /\ charge' = [charge EXCEPT ![p] = charge'[p]]
    BY <2>1, PayDoes
  <2>3. \A q \in Captures : charge[q].att # None => charge'[q] = charge[q]
    BY <2>2 DEF NoCharge, SessionInv, TypeInv, TypeOK
  <2>4. Quiet
    BY <2>1, <2>3 DEF Pay, rowVars, Quiet
  <2> QED BY <2>4 DEF RowStep
<1>10. CASE \E a \in Attempts : SessionExpires(a)
  <2>1. \A a \in Attempts : sess'[a] = "open" => sess[a] = "open"
    BY <1>10 DEF SessionExpires, SessionInv, TypeInv, TypeOK
  <2>2. Quiet
    BY <1>10, <2>1 DEF SessionExpires, rowVars, Quiet
  <2> QED BY <2>2 DEF RowStep
<1> QED BY <1>1, <1>2, <1>3, <1>4, <1>5, <1>6, <1>7, <1>8, <1>9, <1>10 DEF BookerStep, Environment

\* The entries a runner's own checkout has read, or has written over.
Looked == {checkout[k].entry : k \in {c \in Checkouts : checkout[c].pc # "idle"}}

\* No checkout writes; one may read a pending entry.
NoneWritten ==
    /\ \A s : WrittenOver(s)' = WrittenOver(s)
    /\ \A e \in Looked' : e \in Looked \/ (e \in Entries /\ reg[e] = "pending")

\* A checkout writes over entry e, which it has read.
Overwrites(e) ==
    /\ e \in Looked
    /\ reg'[e] = "expired" /\ \A t \in Entries \ {e} : reg'[t] = reg[t]
    /\ \A s : WrittenOver(s)' = IF s = reg[e] THEN WrittenOver(s) \cup {e} ELSE WrittenOver(s)
    /\ Looked' = Looked
    /\ UNCHANGED <<order, price, lapsed, batch, attempt, free, inbox, slots, sess, charge>>

LEMMA NoCheckout == ASSUME checkout' = checkout PROVE NoneWritten
BY DEF NoneWritten, WrittenOver, Looked

\* A checkout that reads writes nothing.
LEMMA ReadSteps ==
    ASSUME SessionInv, NEW k \in Checkouts, NEW e \in Entries, ReadLapsed(k, e)
    PROVE  RowStep /\ NoneWritten
<1>1. /\ checkout[k].pc = "idle" /\ reg[e] = "pending"
      /\ checkout' = [checkout EXCEPT ![k] = [pc |-> "read", entry |-> e, over |-> "none"]]
      /\ UNCHANGED <<rowVars, sess, charge>>
  BY DEF ReadLapsed
<1>2. /\ checkout'[k] = [pc |-> "read", entry |-> e, over |-> "none"]
      /\ \A c \in Checkouts \ {k} : checkout'[c] = checkout[c]
  BY <1>1 DEF SessionInv, TypeInv, TypeOK
<1>3. \A s, t : /\ checkout[k] # [pc |-> "wrote", entry |-> t, over |-> s]
               /\ checkout'[k] # [pc |-> "wrote", entry |-> t, over |-> s]
  BY <1>1, <1>2
<1>4. \A s : WrittenOver(s)' = WrittenOver(s)
  BY <1>2, <1>3 DEF WrittenOver
<1>5. \A t \in Looked' : t \in Looked \/ t = e
  BY <1>2 DEF Looked
<1>6. RowStep
  BY <1>1, CallsOnly DEF RowStep
<1> QED BY <1>1, <1>4, <1>5, <1>6 DEF NoneWritten

\* A checkout that writes writes over one entry, whatever it has become.
LEMMA WriteSteps ==
    ASSUME SessionInv, NEW k \in Checkouts, ExpireLapsedRow(k)
    PROVE  \E e \in Entries : Overwrites(e)
<1> DEFINE e == checkout[k].entry
<1>1. /\ checkout[k].pc = "read" /\ reg' = [reg EXCEPT ![e] = "expired"]
      /\ checkout' = [checkout EXCEPT ![k] = [pc |-> "wrote", entry |-> e, over |-> reg[e]]]
      /\ UNCHANGED <<order, price, lapsed, batch, attempt, free, inbox, slots, sess, charge>>
  BY DEF ExpireLapsedRow
<1>2. e \in Entries
  BY <1>1 DEF SessionInv, TypeInv, TypeOK, SingleCall, NoSingleCall
<1>3. reg'[e] = "expired" /\ \A t \in Entries \ {e} : reg'[t] = reg[t]
  BY <1>1, <1>2 DEF SessionInv, TypeInv, TypeOK
<1>4. /\ checkout'[k] = [pc |-> "wrote", entry |-> e, over |-> reg[e]]
      /\ \A c \in Checkouts \ {k} : checkout'[c] = checkout[c]
  BY <1>1 DEF SessionInv, TypeInv, TypeOK
<1>5. ASSUME NEW s PROVE WrittenOver(s)' = IF s = reg[e] THEN WrittenOver(s) \cup {e} ELSE WrittenOver(s)
  <2>1. \A t : checkout[k] # [pc |-> "wrote", entry |-> t, over |-> s]
    BY <1>1
  <2>2. \A t : checkout'[k] = [pc |-> "wrote", entry |-> t, over |-> s] <=> t = e /\ s = reg[e]
    BY <1>4
  <2> QED BY <1>2, <1>4, <2>1, <2>2 DEF WrittenOver
<1>6. e \in Looked
  BY <1>1 DEF Looked
<1>7. ASSUME NEW t PROVE t \in Looked' <=> t \in Looked
  BY <1>1, <1>4 DEF Looked
<1>8. Looked' = Looked
  BY <1>7
<1> QED BY <1>1, <1>2, <1>3, <1>5, <1>6, <1>8 DEF Overwrites

\* The other actors leave the checkouts of runners alone.
LEMMA OthersAside ==
    ASSUME BookerStep \/ Environment
    PROVE  checkout' = checkout
<1>1. CASE BookerStep
  BY <1>1 DEF BookerStep, Reserve, Cancel, CancelIf, Prepare, PrepareIf, ConfirmFree, ApplyDiscount,
              ApplyDiscountIf, restVars
<1>2. CASE Environment
  BY <1>2 DEF Environment, Lapse, Sweep, CloseEvent, Drop, ReopenEvent, AdminCancel, Pay,
              SessionExpires, restVars
<1> QED BY <1>1, <1>2

LEMMA WorkersAside ==
    ASSUME NEW w \in Workers,
           \/ SessionStep(w) \/ ConfirmStep(w) \/ ExpiryStep(w) \/ WorkerDies(w)
           \/ \E a \in Attempts, r \in BOOLEAN : Verify(w, a, r)
           \/ \E o \in Orders : StartExpiry(w, o)
    PROVE  checkout' = checkout
<1>1. CASE SessionStep(w)
  BY <1>1 DEF SessionStep, ClaimDispatch, ClaimDispatchIf, CreateSession, BindSession, MarkUnknown, restVars
<1>2. CASE ConfirmStep(w)
  BY <1>2 DEF ConfirmStep, Observe, Observed, Confirm, ConfirmRefused, Confirmed, RetryExpired, restVars
<1>3. CASE ExpiryStep(w)
  BY <1>3 DEF ExpiryStep, CloseSession, ExpireAttempt, FinishOrder, FinishBatch, FinishBatchIf, restVars
<1>4. CASE WorkerDies(w) \/ (\E a \in Attempts, r \in BOOLEAN : Verify(w, a, r))
           \/ \E o \in Orders : StartExpiry(w, o)
  BY <1>4 DEF WorkerDies, Verify, StartExpiry, restVars
<1> QED BY <1>1, <1>2, <1>3, <1>4

\* Every step does one of these things to the rows, or writes over an entry.
LEMMA RowSteps ==
    ASSUME SessionInv, [Next]_vars
    PROVE  (RowStep /\ NoneWritten) \/ \E e \in Entries : Overwrites(e)
<1>1. ASSUME NEW w \in Workers, NEW a \in Attempts, NEW r \in BOOLEAN, Verify(w, a, r)
      PROVE  RowStep /\ NoneWritten
  BY <1>1, CallsOnly, WorkersAside, NoCheckout DEF Verify, restVars, RowStep
<1>2. ASSUME NEW w \in Workers, NEW o \in Orders, StartExpiry(w, o) PROVE RowStep /\ NoneWritten
  BY <1>2, CallsOnly, WorkersAside, NoCheckout DEF StartExpiry, restVars, RowStep
<1>3. ASSUME NEW w \in Workers, WorkerDies(w) PROVE RowStep /\ NoneWritten
  BY <1>3, CallsOnly, WorkersAside, NoCheckout DEF WorkerDies, restVars, RowStep
<1>4. CASE UNCHANGED vars
  BY <1>4, CallsOnly, NoCheckout DEF vars, rowVars, RowStep
<1>5. ASSUME NEW w \in Workers, SessionStep(w) \/ ConfirmStep(w) \/ ExpiryStep(w)
      PROVE  RowStep /\ NoneWritten
  BY <1>5, DispatchSteps, ConfirmSteps, ExpirySteps, WorkersAside, NoCheckout
<1>6. CASE BookerStep \/ Environment
  BY <1>6, OtherSteps, OthersAside, NoCheckout
<1>7. CASE RunnerStep
  BY <1>7, ReadSteps, WriteSteps DEF RunnerStep
<1> QED BY <1>1, <1>2, <1>3, <1>4, <1>5, <1>6, <1>7 DEF Next

(* The third layer: an order, its entries and its attempts. *)

Sold == {e \in Entries : reg[e] = "paid"}
Live(e) == reg[e] \in {"pending", "paid"}

ReservedTogether == \A e \in Entries : reg[e] = "none" <=> order[OrderOf[e]] = "none"

\* registrations_one_live_per_event
OneLive ==
    \A e, t \in Entries : PassportOf[e] = PassportOf[t] /\ Live(e) /\ Live(t) => e = t

\* What a runner's own checkout has read was reserved, and a ticket it wrote over stays expired.
ReadsReserved == \A e \in Looked : e \in Entries /\ reg[e] # "none"
LostTickets == \A e \in WrittenOver("paid") : reg[e] = "expired" /\ order[OrderOf[e]] = "paid"

EntriesOK ==
    /\ ReservedTogether /\ AllOrNone /\ OneLive /\ PaidWithinCapacity
    /\ ReadsReserved /\ LostTickets

Standing == {"prepared"} \cup InFlight

PricesOf(o, pr) == {<<e, pr[e]>> : e \in EntriesOf[o]}

\* What an order and its prices say about an attempt: it is paid only with its order; what it may
\* still charge is what the entries cost now; nothing is payable once the order was given up.
Fits(r, ord, pr) ==
    r.order # None =>
        /\ ord[r.order] # "none"
        /\ r.status = "paid" => ord[r.order] = "paid"
        /\ r.status \in Standing \cup {"paid"} => r.quote = PricesOf(r.order, pr)
        /\ ord[r.order] \in {"cancelled", "expired"} => r.status \in {"prepared", "expired"}

\* Of two attempts of an order, one is settled.
OneStanding ==
    \A a, b \in Attempts :
        a # b /\ attempt[a].order = attempt[b].order /\ attempt[a].order # None =>
            attempt[a].status \notin Standing \/ attempt[b].status \notin Standing

OrdersOK == (\A a \in Attempts : Fits(attempt[a], order, price)) /\ OneStanding

BookInv == EntriesOK /\ OrdersOK

\* Sets of entries are finite, and larger with more entries in them.
LEMMA Counting ==
    ASSUME NEW S \in SUBSET Entries, NEW T \in SUBSET S
    PROVE  /\ IsFiniteSet(S) /\ IsFiniteSet(T)
           /\ Cardinality(S) \in Nat /\ Cardinality(T) \in Nat
           /\ Cardinality(T) <= Cardinality(S)
<1>1. IsFiniteSet(S)
  BY FS_Subset, GroupAssumption
<1>2. IsFiniteSet(T) /\ Cardinality(T) <= Cardinality(S)
  BY <1>1, FS_Subset
<1> QED BY <1>1, <1>2, FS_CardinalityType

\* Entries written over stay what they are while no checkout writes.
LEMMA LookedKept ==
    ASSUME EntriesOK, NoneWritten,
           \A e \in Entries : reg[e] # "none" => reg'[e] # "none",
           \A e \in Entries : reg[e] = "expired" /\ order[OrderOf[e]] = "paid" =>
                                 reg'[e] = "expired" /\ order'[OrderOf[e]] = "paid"
    PROVE  ReadsReserved' /\ LostTickets' /\ WrittenOver("paid")' = WrittenOver("paid")
<1>1. WrittenOver("paid")' = WrittenOver("paid") /\ WrittenOver("paid") \subseteq Entries
  BY DEF NoneWritten, WrittenOver
<1>2. LostTickets'
  BY <1>1 DEF LostTickets, EntriesOK
<1>3. ReadsReserved'
  <2>1. ASSUME NEW e \in Looked' PROVE e \in Entries /\ reg[e] # "none"
    BY <2>1 DEF NoneWritten, EntriesOK, ReadsReserved
  <2> QED BY <2>1 DEF ReadsReserved
<1> QED BY <1>1, <1>2, <1>3

\* What is not a ticket ends, and the prices of tickets stay.
LEMMA EntriesEnd ==
    ASSUME EntriesOK, NoneWritten, slots' = slots,
           \A e \in Entries : \/ reg'[e] = reg[e]
                              \/ reg[e] = "pending" /\ reg'[e] \in {"expired", "cancelled"}
                              \/ /\ reg[e] = "expired" /\ reg'[e] = "cancelled"
                                 /\ order[OrderOf[e]] # "paid",
           \A o \in Orders : \/ order'[o] = order[o]
                             \/ order[o] \notin {"none", "paid"} /\ order'[o] \notin {"none", "paid"},
           \A e \in Entries : price'[e] = price[e] \/ reg[e] = "pending"
    PROVE  EntriesOK'
<1>1. \A e \in Entries : OrderOf[e] \in Orders
  BY GroupAssumption
<1>2. ReservedTogether'
  BY <1>1 DEF EntriesOK, ReservedTogether
<1>3. ReadsReserved' /\ LostTickets' /\ WrittenOver("paid")' = WrittenOver("paid")
  BY <1>1, LookedKept
<1>4. AllOrNone'
  BY <1>1, <1>3 DEF EntriesOK, AllOrNone
<1>5. OneLive'
  BY DEF EntriesOK, OneLive, Live
<1>6. {e \in Entries : reg'[e] = "paid"} = {e \in Entries : reg[e] = "paid"}
  OBVIOUS
<1>7. PaidWithinCapacity'
  BY <1>3, <1>6 DEF EntriesOK, PaidWithinCapacity
<1> QED BY <1>2, <1>3, <1>4, <1>5, <1>7 DEF EntriesOK

\* The entries of a new order are the only live ones of their runners.
LEMMA EntriesReserve ==
    ASSUME TypeOK, EntriesOK, NoneWritten, NEW o \in Orders, Reserve(o)
    PROVE  EntriesOK'
<1> DEFINE Same == {t \in Entries : \E e \in EntriesOf[o] : PassportOf[e] = PassportOf[t]}
           Swept == {t \in Same : reg[t] = "pending" /\ lapsed[OrderOf[t]]}
<1>1. /\ order[o] = "none" /\ order' = [order EXCEPT ![o] = "pending"]
      /\ price' = price /\ slots' = slots
      /\ \A t \in Same \ Swept : ~Live(t)
      /\ reg' = [e \in Entries |-> IF e \in EntriesOf[o] THEN "pending"
                                   ELSE IF e \in Swept THEN "expired" ELSE reg[e]]
  BY DEF Reserve, Live
<1>2. /\ \A e \in Entries : e \in EntriesOf[o] <=> OrderOf[e] = o
      /\ \A e \in Entries : OrderOf[e] \in Orders
      /\ \A e \in EntriesOf[o] : e \in Entries /\ reg[e] = "none"
  BY <1>1, GroupAssumption DEF EntriesOf, EntriesOK, ReservedTogether
<1>3. /\ \A e \in EntriesOf[o] : reg'[e] = "pending"
      /\ \A e \in Entries \ EntriesOf[o] : e \notin Swept => reg'[e] = reg[e]
      /\ \A e \in Entries \ EntriesOf[o] : e \in Swept => reg'[e] = "expired" /\ reg[e] = "pending"
      /\ order'[o] = "pending" /\ \A q \in Orders \ {o} : order'[q] = order[q]
  <2>1. \A e \in Swept : reg[e] = "pending"
    OBVIOUS
  <2> HIDE DEF Swept
  <2> QED BY <1>1, <1>2, <2>1 DEF TypeOK
<1>4. ReservedTogether'
  BY <1>2, <1>3 DEF EntriesOK, ReservedTogether
<1>5. ReadsReserved' /\ LostTickets' /\ WrittenOver("paid")' = WrittenOver("paid")
  <2>1. \A e \in Entries : reg[e] # "none" => reg'[e] # "none"
    BY <1>3
  <2>2. ASSUME NEW e \in Entries, reg[e] = "expired", order[OrderOf[e]] = "paid"
        PROVE  reg'[e] = "expired" /\ order'[OrderOf[e]] = "paid"
    BY <1>1, <1>2, <1>3, <2>2
  <2> QED BY <2>1, <2>2, LookedKept
<1>6. AllOrNone'
  <2>1. ASSUME NEW e \in Entries, reg'[e] = "paid" PROVE order'[OrderOf[e]] = "paid"
    <3>1. e \notin EntriesOf[o] /\ reg[e] = "paid"
      BY <1>3, <2>1
    <3> QED BY <1>2, <1>3, <3>1 DEF EntriesOK, AllOrNone
  <2>2. ASSUME NEW e \in Entries, order'[OrderOf[e]] = "paid"
        PROVE  \/ reg'[e] = "paid"
               \/ reg'[e] \in {"cancelled", "expired"} /\ price'[e] = "free"
               \/ reg'[e] = "expired" /\ e \in WrittenOver("paid")
    <3>1. OrderOf[e] # o /\ order[OrderOf[e]] = "paid" /\ e \notin EntriesOf[o]
      BY <1>2, <1>3, <2>2
    <3>2. reg[e] # "pending"
      BY <3>1 DEF EntriesOK, AllOrNone
    <3>3. reg'[e] = reg[e] /\ price'[e] = price[e]
      BY <1>1, <1>3, <3>1, <3>2
    <3> QED BY <3>1, <3>3 DEF EntriesOK, AllOrNone
  <2> QED BY <1>5, <2>1, <2>2 DEF AllOrNone
<1>7. OneLive'
  <2>1. ASSUME NEW e \in Entries, NEW t \in Entries, PassportOf[e] = PassportOf[t],
               e \in EntriesOf[o], t \notin EntriesOf[o]
        PROVE  reg'[t] \notin {"pending", "paid"}
    BY <1>1, <1>3, <2>1 DEF Live
  <2>2. ASSUME NEW e \in EntriesOf[o], NEW t \in EntriesOf[o], PassportOf[e] = PassportOf[t]
        PROVE  e = t
    BY <1>2, <2>2, GroupAssumption DEF EntriesOf
  <2>3. ASSUME NEW e \in Entries, NEW t \in Entries, PassportOf[e] = PassportOf[t],
               e \notin EntriesOf[o], t \notin EntriesOf[o],
               reg'[e] \in {"pending", "paid"}, reg'[t] \in {"pending", "paid"}
        PROVE  e = t
    BY <1>3, <2>3 DEF EntriesOK, OneLive, Live
  <2> QED BY <2>1, <2>2, <2>3 DEF OneLive, Live
<1>8. PaidWithinCapacity'
  <2>1. {e \in Entries : reg'[e] = "paid"} = {e \in Entries : reg[e] = "paid"}
    BY <1>2, <1>3
  <2> QED BY <1>1, <1>5, <2>1 DEF EntriesOK, PaidWithinCapacity
<1> QED BY <1>4, <1>5, <1>6, <1>7, <1>8 DEF EntriesOK

\* A party is admitted: nobody in it has another live entry, and each has a place.
LEMMA EntriesAdmit ==
    ASSUME TypeOK, EntriesOK, NoneWritten, NEW o \in Orders, NEW a, Admit(o, a), price' = price,
           order[o] \in {"pending", "expired"},
           \A e \in EntriesOf[o] : reg[e] \in {"pending", "expired"},
           \A t \in Entries \ EntriesOf[o], e \in EntriesOf[o] : PassportOf[e] = PassportOf[t] => ~Live(t),
           Cardinality(Sold \cup EntriesOf[o]) <= Capacity
    PROVE  EntriesOK'
<1>1. /\ \A e \in Entries : e \in EntriesOf[o] <=> OrderOf[e] = o
      /\ \A e \in Entries : OrderOf[e] \in Orders
      /\ EntriesOf[o] \subseteq Entries
  BY GroupAssumption DEF EntriesOf
<1>2. /\ \A e \in EntriesOf[o] : reg'[e] = "paid"
      /\ \A e \in Entries \ EntriesOf[o] : reg'[e] = reg[e]
      /\ order'[o] = "paid" /\ \A q \in Orders \ {o} : order'[q] = order[q]
      /\ slots' = slots + Cardinality(EntriesOf[o])
  BY <1>1 DEF Admit, SetReg, TypeOK
<1>3. ReservedTogether'
  BY <1>1, <1>2 DEF EntriesOK, ReservedTogether
<1>4. ReadsReserved' /\ LostTickets' /\ WrittenOver("paid")' = WrittenOver("paid")
  BY <1>1, <1>2, LookedKept
<1>5. AllOrNone'
  BY <1>1, <1>2, <1>4 DEF EntriesOK, AllOrNone
<1>6. OneLive'
  <2>1. ASSUME NEW e \in EntriesOf[o], NEW t \in EntriesOf[o], PassportOf[e] = PassportOf[t]
        PROVE  e = t
    BY <1>1, <2>1, GroupAssumption
  <2>2. ASSUME NEW e \in Entries, NEW t \in Entries, PassportOf[e] = PassportOf[t],
               e \notin EntriesOf[o], t \notin EntriesOf[o],
               reg'[e] \in {"pending", "paid"}, reg'[t] \in {"pending", "paid"}
        PROVE  e = t
    BY <1>2, <2>2 DEF EntriesOK, OneLive, Live
  <2>3. ASSUME NEW e \in EntriesOf[o], NEW t \in Entries \ EntriesOf[o], PassportOf[e] = PassportOf[t]
        PROVE  reg'[t] \notin {"pending", "paid"}
    BY <1>2, <2>3 DEF Live
  <2> QED BY <2>1, <2>2, <2>3 DEF OneLive, Live
<1>7. PaidWithinCapacity'
  <2>1. Sold \in SUBSET Entries /\ EntriesOf[o] \in SUBSET Entries /\ Sold \cap EntriesOf[o] = {}
    BY <1>1 DEF Sold
  <2>2. {e \in Entries : reg'[e] = "paid"} = Sold \cup EntriesOf[o]
    BY <1>1, <1>2 DEF Sold
  <2>3. IsFiniteSet(Sold) /\ IsFiniteSet(EntriesOf[o]) /\ Cardinality(Sold) \in Nat
        /\ Cardinality(EntriesOf[o]) \in Nat
    BY <2>1, Counting
  <2>4. Cardinality(Sold \cup EntriesOf[o])
            = Cardinality(Sold) + Cardinality(EntriesOf[o]) - Cardinality(Sold \cap EntriesOf[o])
    BY <2>3, FS_Union
  <2>5. Cardinality(Sold \cap EntriesOf[o]) = 0
    BY <2>1, FS_EmptySet
  <2>6. slots = Cardinality(Sold) + Cardinality(WrittenOver("paid"))
        /\ Cardinality(WrittenOver("paid")) \in Nat
    BY Counting DEF EntriesOK, PaidWithinCapacity, Sold, WrittenOver
  <2>7. slots' = Cardinality(Sold \cup EntriesOf[o]) + Cardinality(WrittenOver("paid"))
    BY <1>2, <2>3, <2>4, <2>5, <2>6
  <2> QED BY <1>4, <2>2, <2>7 DEF PaidWithinCapacity
<1> QED BY <1>3, <1>4, <1>5, <1>6, <1>7 DEF EntriesOK

\* An organizer takes a ticket back that cost nothing.
LEMMA EntriesGiveBack ==
    ASSUME TypeOK, EntriesOK, NoneWritten, NEW e \in Entries, AdminCancel(e), reg[e] = "paid"
    PROVE  EntriesOK'
<1>1. /\ price[e] = "free" /\ slots' = (IF slots = 0 THEN 0 ELSE slots - 1)
      /\ reg' = [reg EXCEPT ![e] = "cancelled"] /\ UNCHANGED <<order, price>>
  BY DEF AdminCancel
<1>2. reg'[e] = "cancelled" /\ \A t \in Entries \ {e} : reg'[t] = reg[t]
  BY <1>1 DEF TypeOK
<1>3. ReservedTogether'
  BY <1>1, <1>2 DEF EntriesOK, ReservedTogether
<1>4. ReadsReserved' /\ LostTickets' /\ WrittenOver("paid")' = WrittenOver("paid")
  BY <1>1, <1>2, LookedKept
<1>5. AllOrNone'
  BY <1>1, <1>2, <1>4 DEF EntriesOK, AllOrNone
<1>6. OneLive'
  BY <1>2 DEF EntriesOK, OneLive, Live
<1>7. PaidWithinCapacity'
  <2>1. e \in Sold /\ Sold \in SUBSET Entries
    BY DEF Sold
  <2>2. IsFiniteSet(Sold) /\ Cardinality(Sold) \in Nat
    BY <2>1, Counting
  <2>3. Cardinality(Sold \ {e}) = Cardinality(Sold) - 1
    BY <2>1, <2>2, FS_RemoveElement
  <2>4. Cardinality(Sold \ {e}) \in Nat /\ Cardinality(Sold \ {e}) <= Cardinality(Sold)
    BY <2>1, Counting
  <2>5. /\ slots = Cardinality(Sold) + Cardinality(WrittenOver("paid"))
        /\ Cardinality(WrittenOver("paid")) \in Nat /\ Cardinality(Sold) <= Capacity
    BY Counting DEF EntriesOK, PaidWithinCapacity, Sold, WrittenOver
  <2>6. {t \in Entries : reg'[t] = "paid"} = Sold \ {e}
    BY <1>2 DEF Sold
  <2>7. /\ slots' = Cardinality(Sold \ {e}) + Cardinality(WrittenOver("paid"))
        /\ Cardinality(Sold \ {e}) <= Capacity
    BY <1>1, <2>2, <2>3, <2>4, <2>5, GroupAssumption
  <2> QED BY <1>4, <2>6, <2>7 DEF PaidWithinCapacity
<1> QED BY <1>3, <1>4, <1>5, <1>6, <1>7 DEF EntriesOK

\* A checkout writes over an entry: what it held is free, and a ticket is counted as lost.
LEMMA EntriesOverwritten ==
    ASSUME EntriesOK, NEW e \in Entries, Overwrites(e)
    PROVE  EntriesOK'
<1>1. /\ reg'[e] = "expired" /\ \A t \in Entries \ {e} : reg'[t] = reg[t]
      /\ WrittenOver("paid")' = IF reg[e] = "paid" THEN WrittenOver("paid") \cup {e} ELSE WrittenOver("paid")
      /\ e \in Looked /\ Looked' = Looked /\ UNCHANGED <<order, price, slots>>
  BY DEF Overwrites
<1>2. reg[e] # "none" /\ WrittenOver("paid") \subseteq Entries /\ OrderOf[e] \in Orders
  BY <1>1, GroupAssumption DEF EntriesOK, ReadsReserved, WrittenOver
<1>3. ReservedTogether'
  BY <1>1, <1>2 DEF EntriesOK, ReservedTogether
<1>4. ReadsReserved'
  BY <1>1 DEF EntriesOK, ReadsReserved
<1>5. LostTickets'
  BY <1>1, <1>2 DEF EntriesOK, LostTickets, AllOrNone
<1>6. AllOrNone'
  BY <1>1, <1>2 DEF EntriesOK, AllOrNone
<1>7. OneLive'
  BY <1>1 DEF EntriesOK, OneLive, Live
<1>8. PaidWithinCapacity'
  <2> DEFINE lost == WrittenOver("paid")
  <2>1. /\ IsFiniteSet(Sold) /\ Cardinality(Sold) \in Nat
        /\ IsFiniteSet(lost) /\ Cardinality(lost) \in Nat
    BY <1>2, Counting DEF Sold
  <2>2. slots = Cardinality(Sold) + Cardinality(lost) /\ Cardinality(Sold) <= Capacity
    BY DEF EntriesOK, PaidWithinCapacity, Sold
  <2>3. CASE reg[e] = "paid"
    <3>1. e \in Sold /\ e \notin lost
      BY <2>3 DEF Sold, EntriesOK, LostTickets
    <3>2. {t \in Entries : reg'[t] = "paid"} = Sold \ {e}
      BY <1>1 DEF Sold
    <3>3. Cardinality(Sold \ {e}) = Cardinality(Sold) - 1 /\ Cardinality(lost \cup {e}) = Cardinality(lost) + 1
      BY <2>1, <3>1, FS_RemoveElement, FS_AddElement
    <3>4. WrittenOver("paid")' = lost \cup {e} /\ slots' = slots
      BY <1>1, <2>3
    <3>5. slots = Cardinality(Sold \ {e}) + Cardinality(lost \cup {e}) /\ Cardinality(Sold \ {e}) <= Capacity
      BY <2>1, <2>2, <3>3, GroupAssumption
    <3> HIDE DEF lost
    <3> QED BY <3>2, <3>4, <3>5 DEF PaidWithinCapacity
  <2>4. CASE reg[e] # "paid"
    <3>1. {t \in Entries : reg'[t] = "paid"} = {t \in Entries : reg[t] = "paid"}
      BY <1>1, <2>4
    <3> QED BY <1>1, <2>4, <3>1 DEF EntriesOK, PaidWithinCapacity
  <2> QED BY <2>3, <2>4
<1> QED BY <1>3, <1>4, <1>5, <1>6, <1>7, <1>8 DEF EntriesOK

\* A party that costs nothing has its places, and no runner twice.
LEMMA FreeParty ==
    ASSUME EntriesOK, NEW o \in Orders, \A e \in EntriesOf[o] : reg[e] = "pending", ~lapsed[o],
           Cardinality(Holding) <= Capacity
    PROVE  /\ \A t \in Entries \ EntriesOf[o], e \in EntriesOf[o] : PassportOf[e] = PassportOf[t] => ~Live(t)
           /\ Cardinality(Sold \cup EntriesOf[o]) <= Capacity
<1>1. \A e \in EntriesOf[o] : e \in Entries /\ OrderOf[e] = o
  BY DEF EntriesOf
<1>2. \A t \in Entries \ EntriesOf[o], e \in EntriesOf[o] : PassportOf[e] = PassportOf[t] => ~Live(t)
  BY <1>1 DEF EntriesOK, OneLive, Live
<1>3. (Sold \cup EntriesOf[o]) \in SUBSET Holding /\ Holding \in SUBSET Entries
  BY <1>1 DEF Sold, Holding
<1>4. Cardinality(Sold \cup EntriesOf[o]) <= Capacity
  BY <1>3, Counting, GroupAssumption
<1> QED BY <1>2, <1>4

\* So has a party whose capture is fulfilled.
LEMMA PaidParty ==
    ASSUME NEW o \in Orders, Rivals(o) = {}, Cardinality(Holding \cup EntriesOf[o]) <= Capacity
    PROVE  /\ \A t \in Entries \ EntriesOf[o], e \in EntriesOf[o] : PassportOf[e] = PassportOf[t] => ~Live(t)
           /\ Cardinality(Sold \cup EntriesOf[o]) <= Capacity
<1>1. \A t \in Entries \ EntriesOf[o], e \in EntriesOf[o] : PassportOf[e] = PassportOf[t] => ~Live(t)
  BY DEF Rivals, Live
<1>2. (Sold \cup EntriesOf[o]) \in SUBSET (Holding \cup EntriesOf[o])
      /\ (Holding \cup EntriesOf[o]) \in SUBSET Entries
  BY GroupAssumption DEF Sold, Holding, EntriesOf
<1>3. Cardinality(Sold \cup EntriesOf[o]) <= Capacity
  BY <1>2, Counting, GroupAssumption
<1> QED BY <1>1, <1>3

LEMMA EntriesFree ==
    ASSUME TypeOK, EntriesOK, NoneWritten, NEW o \in Orders, NEW a, ConfirmFree(o, a)
    PROVE  EntriesOK'
<1>1. /\ order[o] = "pending" /\ ~lapsed[o] /\ Admit(o, a) /\ price' = price
      /\ \A e \in EntriesOf[o] : reg[e] = "pending"
      /\ Cardinality(Holding) <= Capacity
  BY DEF ConfirmFree, Payable, Untouched
<1> QED BY <1>1, FreeParty, EntriesAdmit

LEMMA EntriesFulfil ==
    ASSUME TypeOK, EntriesOK, NoneWritten, NEW p \in Captures, NEW a \in Attempts, Admits(p, a)
    PROVE  EntriesOK'
<1>1. PICK o \in Orders : o = attempt[a].order
  BY DEF Admits, TakenOn
<1>2. /\ order[o] \in {"pending", "expired"} /\ Admit(o, a) /\ price' = price
      /\ \A e \in EntriesOf[o] : reg[e] \in {"pending", "expired"}
      /\ Rivals(o) = {} /\ Cardinality(Holding \cup EntriesOf[o]) <= Capacity
  BY <1>1 DEF Admits, TakenOn, Fulfils, PlacesFor
<1> QED BY <1>2, PaidParty, EntriesAdmit

\* Orders and entries agree after every step.
LEMMA EntriesKept ==
    ASSUME SessionInv, BookInv, RowStep, NoneWritten
    PROVE  EntriesOK'
<1> USE DEF BookInv, SessionInv, TypeInv
<1>1. ASSUME NEW o \in Orders, Reserve(o) PROVE EntriesOK'
  BY <1>1, EntriesReserve
<1>2. ASSUME NEW o \in Orders, Cancels(o) PROVE EntriesOK'
  <2>1. /\ order[o] = "pending" /\ order' = [order EXCEPT ![o] = "cancelled"]
        /\ \A e \in EntriesOf[o] : reg[e] \in {"pending", "expired"}
        /\ reg' = SetReg(EntriesOf[o], "cancelled") /\ UNCHANGED <<price, slots>>
    BY <1>2 DEF Cancels, Cancel, CancelIf
  <2>2. \A e \in Entries : \/ reg'[e] = reg[e]
                           \/ /\ reg[e] \in {"pending", "expired"} /\ reg'[e] = "cancelled"
                              /\ order[OrderOf[e]] = "pending"
    BY <2>1 DEF SetReg, EntriesOf
  <2>3. order'[o] = "cancelled" /\ \A q \in Orders \ {o} : order'[q] = order[q]
    BY <2>1 DEF TypeOK
  <2> QED BY <2>1, <2>2, <2>3, EntriesEnd
<1>3. ASSUME NEW o \in Orders, order' = (IF order[o] = "pending" THEN [order EXCEPT ![o] = "expired"] ELSE order),
             reg' = SetReg(PendingOf(o), "expired"), UNCHANGED <<price, slots>>
      PROVE  EntriesOK'
  <2>1. \A e \in Entries : reg'[e] = reg[e] \/ (reg[e] = "pending" /\ reg'[e] = "expired")
    BY <1>3 DEF SetReg, PendingOf
  <2>2. \A q \in Orders : order'[q] = order[q] \/ (order[q] = "pending" /\ order'[q] = "expired")
    BY <1>3 DEF TypeOK
  <2> QED BY <1>3, <2>1, <2>2, EntriesEnd
<1>4. ASSUME UNCHANGED <<order, reg, price, slots>> PROVE EntriesOK'
  BY <1>4, EntriesEnd
<1>5. ASSUME NEW e \in Entries, NEW pr \in Prices, Discounts(e, pr) PROVE EntriesOK'
  <2>1. /\ reg[e] = "pending" /\ price' = [price EXCEPT ![e] = pr] /\ UNCHANGED <<order, reg, slots>>
    BY <1>5 DEF Discounts, ApplyDiscount, ApplyDiscountIf
  <2>2. \A t \in Entries : price'[t] = price[t] \/ reg[t] = "pending"
    BY <2>1 DEF TypeOK
  <2> QED BY <2>1, <2>2, EntriesEnd
<1>6. ASSUME NEW e \in Entries, AdminCancel(e) PROVE EntriesOK'
  <2>1. CASE reg[e] = "paid"
    BY <1>6, <2>1, EntriesGiveBack
  <2>2. CASE reg[e] # "paid"
    <3>1. reg[e] = "pending" /\ reg' = [reg EXCEPT ![e] = "cancelled"] /\ UNCHANGED <<order, price, slots>>
      BY <1>6, <2>2 DEF AdminCancel
    <3>2. reg'[e] = "cancelled" /\ \A t \in Entries \ {e} : reg'[t] = reg[t]
      BY <3>1 DEF TypeOK
    <3> QED BY <3>1, <3>2, EntriesEnd
  <2> QED BY <2>1, <2>2
<1>7. ASSUME NEW E, Drop(E) PROVE EntriesOK'
  <2>1. \A e \in Entries : reg'[e] = reg[e] \/ (reg[e] = "pending" /\ reg'[e] = "expired")
    BY <1>7 DEF Drop, SetReg
  <2> QED BY <1>7, <2>1, EntriesEnd DEF Drop
<1>8. ASSUME NEW a \in Attempts, GivesUp(a) PROVE EntriesOK'
  <2>1. PICK o \in Orders : o = attempt[a].order
    BY <1>8 DEF GivesUp
  <2>2. CASE UNCHANGED <<order, reg>>
    BY <1>4, <1>8, <2>2 DEF GivesUp
  <2>3. CASE Expire(o)
    <3>1. order[o] = "pending" /\ reg' = SetReg(PendingOf(o), "expired") /\ UNCHANGED <<price, slots>>
          /\ order' = [order EXCEPT ![o] = "expired"]
      BY <1>8, <2>1, <2>3 DEF GivesUp, Expire
    <3> QED BY <1>3, <3>1
  <2> QED BY <1>8, <2>1, <2>2, <2>3 DEF GivesUp
<1>9. ASSUME NEW p \in Captures, NEW a \in Attempts, Reviews(p, a) PROVE EntriesOK'
  <2>1. PICK o \in Orders : o = attempt[a].order
    BY <1>9 DEF Reviews, TakenOn
  <2>2. order[o] # "none" /\ order[o] # "paid"
    BY <1>9, <2>1, GroupAssumption DEF Reviews, OrdersOK, Fits
  <2>3. /\ order' = [order EXCEPT ![o] = "reconciliation_required"] /\ UNCHANGED <<reg, price, slots>>
    BY <1>9, <2>1 DEF Reviews, TakenOn
  <2>4. order'[o] = "reconciliation_required" /\ \A q \in Orders \ {o} : order'[q] = order[q]
    BY <2>3 DEF TypeOK
  <2> QED BY <2>2, <2>3, <2>4, EntriesEnd
<1>10. ASSUME NEW o \in Orders, Releases(o) PROVE EntriesOK'
  BY <1>3, <1>10 DEF Releases
<1>11. ASSUME NEW o \in Orders, Lapse(o) PROVE EntriesOK'
  BY <1>4, <1>11 DEF Lapse
<1>12. ASSUME NEW o \in Orders, NEW a \in Attempts, Prepares(o, a) PROVE EntriesOK'
  BY <1>4, <1>12 DEF Prepares, Prepare, PrepareIf
<1>13. ASSUME NEW o \in Orders, NEW a \in Attempts, ConfirmsFree(o, a) PROVE EntriesOK'
  BY <1>13, EntriesFree DEF ConfirmsFree
<1>14. ASSUME NEW a \in Attempts, Dispatches(a) PROVE EntriesOK'
  BY <1>4, <1>14 DEF Dispatches
<1>15. ASSUME NEW p \in Captures, NEW a \in Attempts, Admits(p, a) PROVE EntriesOK'
  BY <1>15, EntriesFulfil
<1>16. ASSUME Quiet PROVE EntriesOK'
  BY <1>4, <1>16 DEF Quiet
<1> QED BY <1>1, <1>2, <1>5, <1>6, <1>7, <1>8, <1>9, <1>10, <1>11, <1>12, <1>13, <1>14, <1>15, <1>16
        DEF RowStep

LEMMA Quoted == ASSUME NEW o PROVE Quote(o) = PricesOf(o, price)
BY DEF Quote, PricesOf

\* The prices of an order are those of its entries.
LEMMA PricesKept ==
    ASSUME NEW o \in Orders \cup {None}, NEW pr, NEW qr, \A e \in Entries : OrderOf[e] = o => qr[e] = pr[e]
    PROVE  PricesOf(o, qr) = PricesOf(o, pr)
<1>1. \A e \in EntriesOf[o] : qr[e] = pr[e]
  BY DEF EntriesOf
<1> QED BY <1>1 DEF PricesOf

\* An attempt fits as before when its order and its prices say the same.
LEMMA FitsKept ==
    ASSUME SessionInv, NEW a \in Attempts, Fits(attempt[a], order, price), NEW r,
           r.order = attempt[a].order, r.quote = attempt[a].quote,
           NEW ord, NEW pr,
           \A e \in Entries : OrderOf[e] = r.order => pr[e] = price[e],
           r.order \in Orders => ord[r.order] # "none" /\ (order[r.order] = "paid" => ord[r.order] = "paid"),
           r.status = attempt[a].status,
           r.order \in Orders /\ ord[r.order] \in {"cancelled", "expired"} => r.status \in {"prepared", "expired"}
    PROVE  Fits(r, ord, pr)
<1>1. r.order \in Orders \cup {None}
  BY DEF SessionInv, TypeInv, TypeOK, AttemptRow
<1>2. PricesOf(r.order, pr) = PricesOf(r.order, price)
  BY <1>1, PricesKept
<1> QED BY <1>1, <1>2 DEF Fits

\* An attempt that is over fits any order in use that is not about to be paid.
LEMMA FitsOver ==
    ASSUME NEW r, NEW ord, NEW pr, r.status = "expired", r.order # None => ord[r.order] # "none"
    PROVE  Fits(r, ord, pr)
BY DEF Fits, Standing, InFlight

\* Prepared attempts of an order are voided; none of its attempts stands after that.
LEMMA OrdersVoid ==
    ASSUME SessionInv, OrdersOK, NEW o \in Orders, Voids(PreparedOf(o)), Unsettled(o) = {},
           order[o] # "paid", order'[o] # "none" \/ order[o] = "none",
           \A q \in Orders \ {o} : order'[q] = order[q],
           \A e \in Entries : OrderOf[e] # o => price'[e] = price[e]
    PROVE  OrdersOK'
<1>1. ASSUME NEW a \in Attempts PROVE Fits(attempt'[a], order', price')
  <2>1. Fits(attempt[a], order, price) /\ attempt[a].order \in Orders \cup {None}
    BY DEF OrdersOK, SessionInv, TypeInv, TypeOK, AttemptRow
  <2>2. attempt'[a].order = attempt[a].order /\ attempt'[a].quote = attempt[a].quote
    BY DEF Voids
  <2>3. CASE attempt[a].order = o
    <3>1. attempt[a].status \in Over /\ attempt[a].status # "none"
      BY <2>3, GroupAssumption DEF Unsettled, AttemptsOf, SessionInv, RowsOK, RowOK
    <3>2. attempt'[a].status = "expired"
      BY <2>3, <3>1 DEF Voids, PreparedOf, AttemptsOf, Over
    <3> QED BY <2>1, <2>2, <2>3, <3>2, FitsOver, GroupAssumption DEF Fits
  <2>4. CASE attempt[a].order # o
    <3>1. attempt'[a].status = attempt[a].status
      BY <2>4 DEF Voids, PreparedOf, AttemptsOf
    <3> QED BY <2>1, <2>2, <2>4, <3>1, FitsKept, GroupAssumption DEF Fits
  <2> QED BY <2>3, <2>4
<1>2. \A a \in Attempts : attempt'[a].status \in Standing => attempt[a].status \in Standing
  BY DEF Voids, Standing, InFlight
<1>3. OneStanding'
  BY <1>2 DEF OrdersOK, OneStanding, Voids
<1> QED BY <1>1, <1>3 DEF OrdersOK

\* An attempt is settled: the others of its order fit as before.
LEMMA OrdersSettle ==
    ASSUME SessionInv, OrdersOK, NEW a \in Attempts,
           NEW s \in {"paid", "expired", "reconciliation_required"}, NEW d, Sets(a, s, d),
           attempt[a].order \in Orders, price' = price, order[attempt[a].order] # "paid",
           order'[attempt[a].order] # "none",
           \A q \in Orders \ {attempt[a].order} : order'[q] = order[q],
           s = "paid" => /\ order'[attempt[a].order] = "paid"
                         /\ attempt[a].quote = Quote(attempt[a].order),
           order'[attempt[a].order] \in {"cancelled", "expired"} =>
               s = "expired" /\ (\/ Unsettled(attempt[a].order) \subseteq {a}
                                \/ order'[attempt[a].order] = order[attempt[a].order])
    PROVE  OrdersOK'
<1> DEFINE o == attempt[a].order
<1>1. ASSUME NEW b \in Attempts \ {a} PROVE Fits(attempt'[b], order', price')
  <2>1. attempt'[b] = attempt[b] /\ Fits(attempt[b], order, price) /\ attempt[b].order \in Orders \cup {None}
    BY DEF Sets, OthersKept, OrdersOK, SessionInv, TypeInv, TypeOK, AttemptRow
  <2>2. attempt[b].order = o /\ order'[o] \in {"cancelled", "expired"} => attempt[b].status \in {"prepared", "expired"}
    <3>1. ASSUME attempt[b].order = o, Unsettled(o) \subseteq {a} PROVE attempt[b].status \in {"prepared", "expired"}
      BY <3>1, GroupAssumption DEF Unsettled, AttemptsOf, Over, SessionInv, RowsOK, RowOK
    <3>2. ASSUME attempt[b].order = o, order'[o] \in {"cancelled", "expired"}, order'[o] = order[o]
          PROVE  attempt[b].status \in {"prepared", "expired"}
      BY <2>1, <3>2, GroupAssumption DEF Fits
    <3> QED BY <3>1, <3>2
  <2> QED BY <2>1, <2>2, FitsKept, GroupAssumption DEF Fits
<1>2. Fits(attempt'[a], order', price')
  <2>1. attempt'[a].status = s /\ attempt'[a].order = o /\ attempt'[a].quote = attempt[a].quote
    BY DEF Sets
  <2>2. CASE s = "expired"
    BY <2>1, <2>2, FitsOver
  <2>3. CASE s = "paid"
    BY <2>1, <2>3, Quoted DEF Fits
  <2>4. CASE s = "reconciliation_required"
    BY <2>1, <2>4 DEF Fits, Standing, InFlight
  <2> QED BY <2>2, <2>3, <2>4
<1>3. OneStanding'
  <2>1. /\ attempt'[a].status \notin Standing
        /\ \A b \in Attempts \ {a} : attempt'[b] = attempt[b]
    BY DEF Sets, OthersKept, Standing, InFlight
  <2> QED BY <2>1 DEF OrdersOK, OneStanding
<1> QED BY <1>1, <1>2, <1>3 DEF OrdersOK

\* Attempts and their prices stay; an order changes that has no attempt, or nothing does.
LEMMA OrdersSame ==
    ASSUME SessionInv, OrdersOK, attempt' = attempt, price' = price,
           order' = order \/ \E o \in Orders, s \in {"pending"} : order[o] = "none" /\ order' = [order EXCEPT ![o] = s]
    PROVE  OrdersOK'
<1>1. ASSUME NEW a \in Attempts PROVE Fits(attempt'[a], order', price')
  <2>1. Fits(attempt[a], order, price) /\ attempt[a].order \in Orders \cup {None}
    BY DEF OrdersOK, SessionInv, TypeInv, TypeOK, AttemptRow
  <2>2. attempt[a].order # None => order'[attempt[a].order] = order[attempt[a].order]
    BY <2>1 DEF Fits, SessionInv, TypeInv, TypeOK
  <2> QED BY <2>1, <2>2 DEF Fits
<1> QED BY <1>1 DEF OrdersOK, OneStanding

LEMMA OrdersDispatch ==
    ASSUME SessionInv, OrdersOK, NEW a \in Attempts, Dispatches(a)
    PROVE  OrdersOK'
<1>1. PICK s \in InFlight, d \in {"creating", "unknown", "ready"} : Sets(a, s, d)
  BY DEF Dispatches
<1>2. attempt[a].status \in Standing /\ s \in Standing /\ s # "paid" /\ s \notin {"prepared", "expired"}
  BY DEF Dispatches, Standing, InFlight
<1>3. attempt[a].order \in Orders /\ order[attempt[a].order] \notin {"cancelled", "expired"}
  <2>1. Fits(attempt[a], order, price) /\ attempt[a].order \in Orders
    BY DEF OrdersOK, Dispatches
  <2> QED BY <2>1, GroupAssumption DEF Dispatches, Payable, Fits, InFlight
<1>4. UNCHANGED <<order, price>>
  BY DEF Dispatches
<1>5. ASSUME NEW b \in Attempts PROVE Fits(attempt'[b], order', price')
  <2>1. Fits(attempt[b], order, price)
    BY DEF OrdersOK
  <2>2. CASE b = a
    BY <1>1, <1>2, <1>3, <1>4, <2>1, <2>2 DEF Sets, Fits
  <2>3. CASE b # a
    BY <1>1, <1>4, <2>1, <2>3 DEF Sets, OthersKept
  <2> QED BY <2>2, <2>3
<1>6. \A b \in Attempts : /\ attempt'[b].order = attempt[b].order
                          /\ attempt'[b].status \in Standing => attempt[b].status \in Standing
  BY <1>1, <1>2 DEF Sets, OthersKept
<1>7. OneStanding'
  BY <1>6 DEF OrdersOK, OneStanding
<1> QED BY <1>5, <1>7 DEF OrdersOK

LEMMA OrdersPrepare ==
    ASSUME SessionInv, OrdersOK, NEW o \in Orders, NEW a \in Attempts, Prepares(o, a)
    PROVE  OrdersOK'
<1>1. /\ OthersKept(a) /\ attempt'[a].order = o /\ attempt'[a].quote = Quote(o)
      /\ attempt'[a].status = "prepared" /\ UNCHANGED <<order, price>> /\ order[o] = "pending"
      /\ \A b \in Attempts : attempt[b].order = o => attempt[b].status = "expired"
      /\ attempt[a].order = None
  BY DEF Prepares, Prepare, PrepareIf, Payable, AttemptsOf
<1>2. ASSUME NEW b \in Attempts PROVE Fits(attempt'[b], order', price')
  <2>1. CASE b = a
    BY <1>1, <2>1, Quoted DEF Fits
  <2>2. CASE b # a
    BY <1>1, <2>2 DEF OthersKept, OrdersOK
  <2> QED BY <2>1, <2>2
<1>3. OneStanding'
  <2>1. \A b \in Attempts \ {a} : attempt'[b] = attempt[b] /\ (attempt[b].order = o => attempt[b].status \notin Standing)
    BY <1>1 DEF OthersKept, Standing, InFlight
  <2> QED BY <1>1, <2>1 DEF OrdersOK, OneStanding
<1> QED BY <1>2, <1>3 DEF OrdersOK

\* Orders and attempts agree after every step.
LEMMA OrdersKept ==
    ASSUME SessionInv, BookInv, RowStep
    PROVE  OrdersOK'
<1> USE DEF BookInv
<1>1. ASSUME attempt' = attempt, price' = price, order' = order PROVE OrdersOK'
  BY <1>1, OrdersSame
<1>2. ASSUME NEW o \in Orders, Reserve(o) PROVE OrdersOK'
  BY <1>2, OrdersSame DEF Reserve
<1>3. ASSUME NEW o \in Orders, Cancels(o) PROVE OrdersOK'
  <2>1. Unsettled(o) = {} /\ order[o] = "pending"
    BY <1>3 DEF Cancels, Cancel, CancelIf, Unsettled
  <2>2. order' = [order EXCEPT ![o] = "cancelled"] /\ price' = price /\ Voids(PreparedOf(o))
    BY <1>3 DEF Cancels, Cancel, CancelIf
  <2>3. order'[o] = "cancelled" /\ \A q \in Orders \ {o} : order'[q] = order[q]
    BY <2>2 DEF SessionInv, TypeInv, TypeOK
  <2> QED BY <2>1, <2>2, <2>3, OrdersVoid
<1>4. ASSUME NEW o \in Orders, Releases(o) PROVE OrdersOK'
  <2>1. /\ \A q \in Orders \ {o} : order'[q] = order[q]
        /\ order'[o] # "none" \/ order[o] = "none"
    BY <1>4 DEF Releases, SessionInv, TypeInv, TypeOK
  <2> QED BY <1>4, <2>1, OrdersVoid DEF Releases
<1>5. ASSUME NEW e \in Entries, NEW pr \in Prices, Discounts(e, pr) PROVE OrdersOK'
  <2>1. OrderOf[e] \in Orders
    BY GroupAssumption
  <2>2. /\ \A a \in AttemptsOf(OrderOf[e]) : attempt[a].status \in Over
        /\ price' = [price EXCEPT ![e] = pr] /\ order' = order /\ Voids(PreparedOf(OrderOf[e]))
        /\ reg[e] = "pending"
    BY <1>5 DEF Discounts, ApplyDiscount, ApplyDiscountIf
  <2>3. Unsettled(OrderOf[e]) = {} /\ \A t \in Entries : OrderOf[t] # OrderOf[e] => price'[t] = price[t]
    BY <2>2 DEF Unsettled, SessionInv, TypeInv, TypeOK
  <2>4. order[OrderOf[e]] # "paid"
    BY <2>2 DEF EntriesOK, AllOrNone
  <2> QED BY <2>1, <2>2, <2>3, <2>4, OrdersVoid
<1>6. ASSUME NEW o \in Orders, NEW a \in Attempts, Prepares(o, a) PROVE OrdersOK'
  BY <1>6, OrdersPrepare
<1>7. ASSUME NEW o \in Orders, NEW a \in Attempts, ConfirmsFree(o, a) PROVE OrdersOK'
  <2>1. /\ attempt[a].order = o /\ attempt[a].status = "prepared" /\ order[o] = "pending"
        /\ order' = [order EXCEPT ![o] = "paid"] /\ price' = price
        /\ Sets(a, "paid", attempt[a].dispatch)
    BY <1>7 DEF ConfirmsFree, ConfirmFree, Payable, Admit
  <2>2. order'[o] = "paid" /\ \A q \in Orders \ {o} : order'[q] = order[q]
    BY <2>1 DEF SessionInv, TypeInv, TypeOK
  <2>3. attempt[a].quote = Quote(o)
    BY <2>1, Quoted, GroupAssumption DEF OrdersOK, Fits, Standing
  <2> QED BY <2>1, <2>2, <2>3, OrdersSettle
<1>8. ASSUME NEW a \in Attempts, Dispatches(a) PROVE OrdersOK'
  BY <1>8, OrdersDispatch
<1>9. ASSUME NEW a \in Attempts, GivesUp(a) PROVE OrdersOK'
  <2>1. PICK o \in Orders : o = attempt[a].order
    BY <1>9 DEF GivesUp
  <2>2. order[o] = "pending" /\ price' = price /\ Sets(a, "expired", "ready")
    BY <1>9, <2>1 DEF GivesUp
  <2>3. CASE order' = order
    BY <2>1, <2>2, <2>3, OrdersSettle
  <2>4. CASE Unsettled(o) \subseteq {a} /\ order' = [order EXCEPT ![o] = "expired"]
    <3>1. order'[o] = "expired" /\ \A q \in Orders \ {o} : order'[q] = order[q]
      BY <2>4 DEF SessionInv, TypeInv, TypeOK
    <3> QED BY <2>1, <2>2, <2>4, <3>1, OrdersSettle
  <2> QED BY <1>9, <2>1, <2>3, <2>4 DEF GivesUp, Expire
<1>10. ASSUME NEW p \in Captures, NEW a \in Attempts, Admits(p, a) PROVE OrdersOK'
  <2>1. PICK o \in Orders : o = attempt[a].order
    BY <1>10 DEF Admits, TakenOn
  <2>2. /\ order[o] \in {"pending", "expired"} /\ attempt[a].quote = Quote(o) /\ price' = price
        /\ order' = [order EXCEPT ![o] = "paid"] /\ Sets(a, "paid", attempt[a].dispatch)
    BY <1>10, <2>1 DEF Admits, TakenOn, Fulfils, Admit
  <2>3. order'[o] = "paid" /\ \A q \in Orders \ {o} : order'[q] = order[q]
    BY <2>2 DEF SessionInv, TypeInv, TypeOK
  <2> QED BY <2>1, <2>2, <2>3, OrdersSettle
<1>11. ASSUME NEW p \in Captures, NEW a \in Attempts, Reviews(p, a) PROVE OrdersOK'
  <2>1. PICK o \in Orders : o = attempt[a].order
    BY <1>11 DEF Reviews, TakenOn
  <2>2. /\ order[o] # "paid" /\ price' = price
        /\ order' = [order EXCEPT ![o] = "reconciliation_required"]
        /\ Sets(a, "reconciliation_required", attempt[a].dispatch)
    BY <1>11, <2>1 DEF Reviews, TakenOn
  <2>3. order'[o] = "reconciliation_required" /\ \A q \in Orders \ {o} : order'[q] = order[q]
    BY <2>2 DEF SessionInv, TypeInv, TypeOK
  <2> QED BY <2>1, <2>2, <2>3, OrdersSettle
<1>12. ASSUME NEW o \in Orders, Lapse(o) PROVE OrdersOK'
  BY <1>1, <1>12 DEF Lapse
<1>13. ASSUME NEW e \in Entries, AdminCancel(e) PROVE OrdersOK'
  BY <1>1, <1>13 DEF AdminCancel
<1>14. ASSUME NEW E, Drop(E) PROVE OrdersOK'
  BY <1>1, <1>14 DEF Drop
<1>15. ASSUME Quiet PROVE OrdersOK'
  BY <1>1, <1>15 DEF Quiet
<1> QED BY <1>2, <1>3, <1>4, <1>5, <1>6, <1>7, <1>8, <1>9, <1>10, <1>11, <1>12, <1>13, <1>14, <1>15
        DEF RowStep

\* In every state orders, entries and attempts agree: what an attempt may still charge is what the
\* entries cost now, at most one attempt of an order stands, no runner is live twice.
THEOREM GroupBooks == Spec => []BookInv
<1>1. Init => BookInv
  <2> SUFFICES ASSUME Init PROVE BookInv
    OBVIOUS
  <2>1. /\ \A a \in Attempts : attempt[a].order = None
        /\ \A e \in Entries : reg[e] = "none" /\ order[OrderOf[e]] = "none"
        /\ slots = 0
    BY GroupAssumption DEF Init, NoAttempt
  <2>2. OrdersOK
    BY <2>1 DEF OrdersOK, Fits, OneStanding
  <2>3. {e \in Entries : reg[e] = "paid"} = {}
    BY <2>1
  <2>4. Looked = {} /\ WrittenOver("paid") = {}
    BY DEF Init, NoSingleCall, Looked, WrittenOver
  <2>5. PaidWithinCapacity
    <3>1. Cardinality({}) = 0 /\ Capacity \in Nat
      BY FS_EmptySet, GroupAssumption
    <3> QED BY <2>1, <2>3, <2>4, <3>1 DEF PaidWithinCapacity
  <2>6. EntriesOK
    BY <2>1, <2>4, <2>5
       DEF EntriesOK, ReservedTogether, AllOrNone, OneLive, Live, ReadsReserved, LostTickets
  <2> QED BY <2>2, <2>6 DEF BookInv
<1>2. SessionInv /\ BookInv /\ [Next]_vars => BookInv'
  <2> SUFFICES ASSUME SessionInv, BookInv, [Next]_vars PROVE BookInv'
    OBVIOUS
  <2>1. CASE RowStep /\ NoneWritten
    BY <2>1, EntriesKept, OrdersKept DEF BookInv
  <2>2. ASSUME NEW e \in Entries, Overwrites(e) PROVE BookInv'
    <3>1. EntriesOK'
      BY <2>2, EntriesOverwritten DEF BookInv
    <3>2. OrdersOK'
      BY <2>2, OrdersSame DEF Overwrites, BookInv
    <3> QED BY <3>1, <3>2 DEF BookInv
  <2> QED BY <2>1, <2>2, RowSteps
<1> QED BY <1>1, <1>2, GroupSessions, PTL DEF Spec

-----------------------------------------------------------------------------
(* What follows for tickets and sessions. *)

\* A party is paid exactly when its entries are, but for free tickets the organizer took back
\* and those a runner's own registrations-checkout wrote over after they were paid:
\* booking_payment_confirm admits all of them or, behind its triggers, none.
THEOREM WholeParties == Spec => []AllOrNone
<1>1. BookInv => AllOrNone
  BY DEF BookInv, EntriesOK
<1> QED BY <1>1, GroupBooks, PTL

\* The category's counter is the number of its tickets and of those written over by a runner's
\* own registrations-checkout, which nothing counts back; the tickets fit in its places.
THEOREM TicketsHavePlaces == Spec => []PaidWithinCapacity
<1>1. BookInv => PaidWithinCapacity
  BY DEF BookInv, EntriesOK
<1> QED BY <1>1, GroupBooks, PTL

\* What can be charged stands.
LEMMA ChargeableStands ==
    ASSUME SessionInv, NEW a \in Attempts, Chargeable(a)
    PROVE  attempt[a].status = "ready" /\ attempt[a].order \in Orders
<1>1. attempt[a].dispatch = "ready" /\ sess[a] = "open" /\ PaidOn(a) = {}
  BY DEF Chargeable
<1>2. attempt[a].status = "ready"
  BY <1>1 DEF SessionInv, RowsOK, RowOK, SessionOK
<1> QED BY <1>2 DEF SessionInv, RowsOK, RowOK, TypeInv, TypeOK, AttemptRow

\* The booker can pay an order in one session at a time, and in none once it was cancelled or
\* expired: attempts, sessions and orders change in calls of their own.
THEOREM OneSessionPays == Spec => []OneChargeableAttempt
<1>1. SessionInv /\ BookInv => OneChargeableAttempt
  <2> SUFFICES ASSUME SessionInv, BookInv, NEW a \in Attempts, Chargeable(a)
               PROVE  /\ order[attempt[a].order] \notin {"cancelled", "expired"}
                      /\ \A b \in Attempts \ {a} : Chargeable(b) => attempt[b].order # attempt[a].order
    BY DEF OneChargeableAttempt
  <2>1. attempt[a].status = "ready" /\ attempt[a].order # None
    BY ChargeableStands, GroupAssumption
  <2>2. order[attempt[a].order] \notin {"cancelled", "expired"}
    BY <2>1 DEF BookInv, OrdersOK, Fits
  <2>3. ASSUME NEW b \in Attempts \ {a}, Chargeable(b) PROVE attempt[b].order # attempt[a].order
    BY <2>1, <2>3, ChargeableStands DEF BookInv, OrdersOK, OneStanding, Standing, InFlight
  <2> QED BY <2>2, <2>3
<1> QED BY <1>1, GroupSessions, GroupBooks, PTL

\* What a session charges is what the entries cost now: discount codes come before the dispatch.
THEOREM SessionsChargeNow == Spec => []ChargeableIsCurrent
<1>1. SessionInv /\ BookInv => ChargeableIsCurrent
  <2> SUFFICES ASSUME SessionInv, BookInv, NEW a \in Attempts, Chargeable(a)
               PROVE  attempt[a].quote = Quote(attempt[a].order)
    BY DEF ChargeableIsCurrent
  <2>1. attempt[a].status = "ready" /\ attempt[a].order # None
    BY ChargeableStands, GroupAssumption
  <2> QED BY <2>1, Quoted DEF BookInv, OrdersOK, Fits, Standing, InFlight
<1> QED BY <1>1, GroupSessions, GroupBooks, PTL

-----------------------------------------------------------------------------
(* Evidence pins an order. *)

\* A session is dispatched only for an order without evidence.
LEMMA DispatchesBare ==
    ASSUME SessionInv, RowStep, NEW a \in Attempts, attempt[a].order # None,
           attempt[a].dispatch = "none", attempt'[a].dispatch # "none"
    PROVE  ~HasCapture(attempt[a].order)
<1>1. \A b \in Attempts : \A s : ~Sets(b, s, attempt[b].dispatch)
  BY DEF Sets, OthersKept
<1>2. \A A : ~Voids(A)
  BY DEF Voids
<1>3. attempt' # attempt
  OBVIOUS
<1>4. ASSUME NEW b \in Attempts, Dispatches(b) PROVE ~HasCapture(attempt[a].order)
  <2>1. b = a
    BY <1>4 DEF Dispatches, Sets, OthersKept
  <2> QED BY <1>4, <2>1 DEF Dispatches
<1>5. \A o \in Orders, b \in Attempts : ~Prepares(o, b)
  BY DEF Prepares, OthersKept
<1>6. \A b \in Attempts : ~GivesUp(b)
  BY DEF GivesUp, Sets, OthersKept
<1>7. \A o \in Orders, b \in Attempts : ~ConfirmsFree(o, b)
  BY <1>1 DEF ConfirmsFree
<1>8. \A p \in Captures, b \in Attempts : ~Admits(p, b) /\ ~Reviews(p, b)
  BY <1>1 DEF Admits, Reviews
<1>9. \A o \in Orders : ~Reserve(o) /\ ~Cancels(o) /\ ~Releases(o) /\ ~Lapse(o)
  BY <1>2, <1>3 DEF Reserve, Cancels, Releases, Lapse
<1>10. \A e \in Entries : ~AdminCancel(e) /\ \A pr \in Prices : ~Discounts(e, pr)
  BY <1>2, <1>3 DEF AdminCancel, Discounts
<1>11. ~Quiet /\ \A E : ~Drop(E)
  BY <1>3 DEF Quiet, Drop
<1> QED BY <1>4, <1>5, <1>6, <1>7, <1>8, <1>9, <1>10, <1>11 DEF RowStep

\* Prices change only for an order without evidence.
LEMMA PricesBare ==
    ASSUME SessionInv, RowStep, NEW t \in Entries, price'[t] # price[t]
    PROVE  ~HasCapture(OrderOf[t])
<1>1. ASSUME NEW e \in Entries, NEW pr \in Prices, Discounts(e, pr) PROVE ~HasCapture(OrderOf[t])
  <2>1. price' = [price EXCEPT ![e] = pr] /\ ~HasCapture(OrderOf[e])
    BY <1>1 DEF Discounts, ApplyDiscount, ApplyDiscountIf
  <2>2. t = e
    BY <2>1 DEF SessionInv, TypeInv, TypeOK
  <2> QED BY <2>1, <2>2
<1>2. price' # price
  OBVIOUS
<1>3. \A o \in Orders : ~Reserve(o) /\ ~Cancels(o) /\ ~Releases(o) /\ ~Lapse(o)
  BY <1>2 DEF Reserve, Cancels, Cancel, CancelIf, Releases, Lapse
<1>4. \A o \in Orders, a \in Attempts : ~Prepares(o, a) /\ ~ConfirmsFree(o, a)
  BY <1>2 DEF Prepares, Prepare, PrepareIf, ConfirmsFree, ConfirmFree
<1>5. \A a \in Attempts : ~Dispatches(a) /\ ~GivesUp(a)
  BY <1>2 DEF Dispatches, GivesUp
<1>6. \A p \in Captures, a \in Attempts : ~Admits(p, a) /\ ~Reviews(p, a)
  BY <1>2 DEF Admits, Reviews, TakenOn
<1>7. ~Quiet /\ (\A E : ~Drop(E)) /\ \A e \in Entries : ~AdminCancel(e)
  BY <1>2 DEF Quiet, Drop, AdminCancel
<1> QED BY <1>1, <1>3, <1>4, <1>5, <1>6, <1>7 DEF RowStep

\* An order is given up only without evidence, or with evidence from closed sessions.
LEMMA ReleasesBare ==
    ASSUME SessionInv, BookInv, RowStep, NEW q \in Orders, order[q] = "pending",
           order'[q] \in {"expired", "cancelled"}
    PROVE  ~TakenInTime(q)
<1>1. \A p \in Captures : OrderPaidBy(p) = q =>
          /\ charge[p].att \in Attempts /\ attempt[charge[p].att].order = q
          /\ attempt[charge[p].att].dispatch = "ready"
  BY GroupAssumption DEF OrderPaidBy, SessionInv, ChargesOK, TypeInv, TypeOK, Charge
<1>2. ASSUME NEW o \in Orders, Cancels(o) PROVE ~TakenInTime(q)
  <2>1. /\ order' = [order EXCEPT ![o] = "cancelled"]
        /\ \A a \in AttemptsOf(o) : attempt[a].dispatch = "none"
    BY <1>2 DEF Cancels, Cancel, CancelIf
  <2>2. o = q
    BY <2>1 DEF SessionInv, TypeInv, TypeOK
  <2> QED BY <1>1, <2>1, <2>2 DEF TakenInTime, AttemptsOf
<1>3. ASSUME NEW o \in Orders, Releases(o) PROVE ~TakenInTime(q)
  <2>1. ~HasCapture(o) /\ order' \in {order, [order EXCEPT ![o] = "expired"]}
    BY <1>3 DEF Releases
  <2>2. o = q
    BY <2>1 DEF SessionInv, TypeInv, TypeOK
  <2> QED BY <2>1, <2>2 DEF TakenInTime, HasCapture
<1>4. ASSUME NEW a \in Attempts, GivesUp(a) PROVE ~TakenInTime(q)
  <2>1. PICK o \in Orders : o = attempt[a].order
    BY <1>4 DEF GivesUp
  <2>2. Unsettled(o) \subseteq {a} /\ order' = [order EXCEPT ![o] = "expired"] /\ sess[a] = "closed"
    BY <1>4, <2>1 DEF GivesUp, Expire
  <2>3. o = q
    BY <2>2 DEF SessionInv, TypeInv, TypeOK
  <2>4. ASSUME NEW p \in Captures, OrderPaidBy(p) = q PROVE sess[charge[p].att] = "closed"
    <3>1. PICK b \in Attempts : b = charge[p].att
      BY <1>1, <2>4
    <3>2. attempt[b].order = q /\ attempt[b].dispatch = "ready"
      BY <1>1, <2>4, <3>1
    <3>3. CASE b = a
      BY <2>2, <3>1, <3>3
    <3>4. CASE b # a
      <4>1. attempt[b].status \in Over
        BY <2>2, <2>3, <3>2, <3>4 DEF Unsettled, AttemptsOf
      <4>2. attempt[b].status = "expired"
        BY <3>2, <4>1 DEF Over, SessionInv, RowsOK, RowOK
      <4> QED BY <3>1, <3>2, <4>2 DEF SessionInv, RowsOK, SessionOK
    <3> QED BY <3>3, <3>4
  <2> QED BY <2>4 DEF TakenInTime
<1>5. order' # order
  OBVIOUS
<1>6. \A o \in Orders : ~Reserve(o) /\ ~Lapse(o)
  BY <1>5 DEF Reserve, Lapse, SessionInv, TypeInv, TypeOK
<1>7. \A o \in Orders, a \in Attempts : ~Prepares(o, a) /\ ~ConfirmsFree(o, a)
  BY <1>5 DEF Prepares, Prepare, PrepareIf, ConfirmsFree, ConfirmFree, Admit, SessionInv, TypeInv, TypeOK
<1>8. \A a \in Attempts : ~Dispatches(a)
  BY <1>5 DEF Dispatches
<1>9. \A p \in Captures, a \in Attempts : ~Admits(p, a) /\ ~Reviews(p, a)
  BY <1>5 DEF Admits, Reviews, TakenOn, Admit, SessionInv, TypeInv, TypeOK
<1>10. ~Quiet /\ (\A E : ~Drop(E)) /\ \A e \in Entries : ~AdminCancel(e) /\ \A pr \in Prices : ~Discounts(e, pr)
  BY <1>5 DEF Quiet, Drop, AdminCancel, Discounts, ApplyDiscount, ApplyDiscountIf
<1> QED BY <1>2, <1>3, <1>4, <1>6, <1>7, <1>8, <1>9, <1>10 DEF RowStep

\* Once a capture is on record, nothing is dispatched for its order and its prices stay; the order
\* is not released either, unless the capture came from a session that was closed.
THEOREM EvidenceHolds == Spec => EvidencePins
<1> DEFINE Pin(o) ==
        /\ HasCapture(o) =>
              /\ \A a \in AttemptsOf(o) : attempt[a].dispatch = "none" => attempt'[a].dispatch = "none"
              /\ \A e \in EntriesOf[o] : price'[e] = price[e]
        /\ order[o] = "pending" /\ TakenInTime(o) => order'[o] \notin {"expired", "cancelled"}
<1>1. SessionInv /\ BookInv /\ [Next]_vars => \A o \in Orders : Pin(o)
  <2> SUFFICES ASSUME SessionInv, BookInv, [Next]_vars, NEW o \in Orders PROVE Pin(o)
    OBVIOUS
  <2>1. RowStep \/ UNCHANGED <<order, price, attempt>>
    BY RowSteps DEF Overwrites
  <2>2. ASSUME HasCapture(o), NEW a \in AttemptsOf(o), attempt[a].dispatch = "none"
        PROVE  attempt'[a].dispatch = "none"
    BY <2>1, <2>2, DispatchesBare, GroupAssumption DEF AttemptsOf
  <2>3. ASSUME HasCapture(o), NEW e \in EntriesOf[o] PROVE price'[e] = price[e]
    <3>1. e \in Entries /\ OrderOf[e] = o
      BY DEF EntriesOf
    <3> QED BY <2>1, <2>3, <3>1, PricesBare
  <2>4. ASSUME order[o] = "pending", TakenInTime(o) PROVE order'[o] \notin {"expired", "cancelled"}
    BY <2>1, <2>4, ReleasesBare
  <2> QED BY <2>2, <2>3, <2>4
<1> QED BY <1>1, GroupSessions, GroupBooks, PTL DEF Spec, EvidencePins

-----------------------------------------------------------------------------
(* A paid order was paid once. *)

By(o) == {p \in Captures : inbox[p] = "fulfilled" /\ OrderPaidBy(p) = o}

PaidAt(o) ==
    IF order[o] # "paid" THEN By(o) = {} /\ ~free[o]
    ELSE /\ IF free[o] THEN By(o) = {} ELSE Cardinality(By(o)) = 1
         /\ \A p \in By(o) : attempt[charge[p].att].status = "paid"
                             /\ attempt[charge[p].att].quote = Quote(o)

\* A capture pays for an order with an attempt of it that was dispatched.
LEMMA PaysWith ==
    ASSUME SessionInv, NEW p \in Captures, charge[p].att # None
    PROVE  /\ charge[p].att \in Attempts /\ attempt[charge[p].att].dispatch = "ready"
           /\ OrderPaidBy(p) = attempt[charge[p].att].order /\ OrderPaidBy(p) \in Orders
<1>1. charge[p].att \in Attempts /\ attempt[charge[p].att].dispatch = "ready"
  BY DEF SessionInv, ChargesOK, TypeInv, TypeOK, Charge
<1>2. attempt[charge[p].att].order \in Orders
  BY <1>1 DEF SessionInv, RowsOK, RowOK, TypeInv, TypeOK, AttemptRow
<1> QED BY <1>1, <1>2 DEF OrderPaidBy

\* What a step keeps of captures and attempts, but for the inbox of the captures of one order.
Faithful ==
    /\ \A p \in Captures : charge[p].att # None => charge'[p] = charge[p]
    /\ \A a \in Attempts : attempt[a].order # None =>
          attempt'[a].order = attempt[a].order /\ attempt'[a].quote = attempt[a].quote

\* Captures keep the order they pay for.
LEMMA PaysStill ==
    ASSUME SessionInv, Faithful, NEW p \in Captures, charge[p].att # None
    PROVE  OrderPaidBy(p)' = OrderPaidBy(p)
<1>1. charge[p].att \in Attempts /\ attempt[charge[p].att].order # None /\ charge'[p] = charge[p]
  BY PaysWith, GroupAssumption DEF Faithful
<1>2. attempt'[charge[p].att].order = attempt[charge[p].att].order
  BY <1>1 DEF Faithful
<1> QED BY <1>1, <1>2 DEF OrderPaidBy

\* An order the step does not concern was paid as before.
LEMMA PaidStays ==
    ASSUME SessionInv, Faithful, NEW o \in Orders, PaidAt(o), free'[o] = free[o],
           order'[o] = "paid" <=> order[o] = "paid",
           \A p \in Captures : \/ inbox'[p] = "fulfilled" <=> inbox[p] = "fulfilled"
                               \/ charge[p].att # None /\ OrderPaidBy(p) # o,
           \A a \in Attempts : attempt[a].order = o /\ attempt[a].status = "paid" => attempt'[a].status = "paid",
           order[o] = "paid" => \A e \in EntriesOf[o] : price'[e] = price[e]
    PROVE  PaidAt(o)'
<1>1. ASSUME NEW p \in Captures PROVE p \in By(o)' <=> p \in By(o)
  <2>1. CASE charge[p].att = None
    BY <2>1 DEF By, SessionInv, ChargesOK
  <2>2. CASE charge[p].att # None
    BY <2>2, PaysStill DEF By
  <2> QED BY <2>1, <2>2
<1>2. By(o)' = By(o)
  BY <1>1 DEF By
<1>3. ASSUME order[o] = "paid" PROVE Quote(o)' = Quote(o)
  BY <1>3 DEF Quote
<1>4. ASSUME NEW p \in By(o), order[o] = "paid"
      PROVE  /\ charge'[p] = charge[p]
             /\ attempt'[charge[p].att].status = "paid"
             /\ attempt'[charge[p].att].quote = Quote(o)
  <2>1. p \in Captures /\ charge[p].att # None
    BY DEF By, SessionInv, ChargesOK
  <2>2. PICK b \in Attempts : b = charge[p].att
    BY <2>1, PaysWith
  <2>3. attempt[b].order = o /\ attempt[b].status = "paid" /\ attempt[b].quote = Quote(o)
    BY <1>4, <2>1, <2>2, PaysWith DEF PaidAt, By
  <2> QED BY <2>1, <2>2, <2>3, GroupAssumption DEF Faithful
<1> QED BY <1>2, <1>3, <1>4 DEF PaidAt

\* A complimentary confirmation pays its order once.
LEMMA PaidFree ==
    ASSUME SessionInv, BookInv, PaidOnce, NEW o \in Orders, NEW a \in Attempts, ConfirmsFree(o, a)
    PROVE  PaidOnce'
<1>1. /\ order[o] = "pending" /\ order' = [order EXCEPT ![o] = "paid"] /\ free' = [free EXCEPT ![o] = TRUE]
      /\ attempt[a].order = o /\ attempt[a].status = "prepared" /\ Sets(a, "paid", attempt[a].dispatch)
      /\ UNCHANGED <<price, inbox, charge>>
  BY DEF ConfirmsFree, ConfirmFree, Payable, Admit, restVars
<1>2. /\ order'[o] = "paid" /\ \A q \in Orders \ {o} : order'[q] = order[q]
      /\ free'[o] /\ \A q \in Orders \ {o} : free'[q] = free[q]
  BY <1>1 DEF SessionInv, TypeInv, TypeOK
<1>3. Faithful
  BY <1>1 DEF Faithful, Sets, OthersKept
<1>4. \A q \in Orders : PaidAt(q)
  BY DEF PaidOnce, PaidAt, By
<1>5. ASSUME NEW q \in Orders \ {o} PROVE PaidAt(q)'
  <2>1. \A b \in Attempts : attempt[b].status = "paid" => attempt'[b].status = "paid"
    BY <1>1 DEF Sets, OthersKept
  <2> QED BY <1>1, <1>2, <1>3, <1>4, <2>1, PaidStays
<1>6. By(o)' = {}
  <2>1. By(o) = {}
    BY <1>1, <1>4 DEF PaidAt
  <2>2. ASSUME NEW p \in Captures PROVE p \notin By(o)'
    <3>1. CASE charge[p].att = None
      BY <1>1, <3>1 DEF By, SessionInv, ChargesOK
    <3>2. CASE charge[p].att # None
      BY <1>1, <1>3, <2>1, <3>2, PaysStill DEF By
    <3> QED BY <3>1, <3>2
  <2> QED BY <2>2 DEF By
<1>7. PaidAt(o)'
  BY <1>2, <1>6 DEF PaidAt
<1>8. \A q \in Orders : PaidAt(q)'
  BY <1>5, <1>7
<1> QED BY <1>8 DEF PaidOnce, PaidAt, By

\* A fulfilled capture pays its order once.
LEMMA PaidFulfil ==
    ASSUME SessionInv, BookInv, PaidOnce, NEW p \in Captures, NEW a \in Attempts, Admits(p, a)
    PROVE  PaidOnce'
<1>1. PICK o \in Orders : o = attempt[a].order
  BY DEF Admits, TakenOn
<1>2. /\ order[o] \in {"pending", "expired"} /\ order' = [order EXCEPT ![o] = "paid"]
      /\ charge[p].att = a /\ attempt[a].quote = Quote(o) /\ Sets(a, "paid", attempt[a].dispatch)
      /\ inbox' = [inbox EXCEPT ![p] = "fulfilled"]
      /\ UNCHANGED <<price, free, charge>>
  BY <1>1 DEF Admits, TakenOn, Fulfils, Admit
<1>3. /\ order'[o] = "paid" /\ \A q \in Orders \ {o} : order'[q] = order[q]
      /\ inbox'[p] = "fulfilled" /\ \A r \in Captures \ {p} : inbox'[r] = inbox[r]
  BY <1>2 DEF SessionInv, TypeInv, TypeOK
<1>4. Faithful
  BY <1>2 DEF Faithful, Sets, OthersKept
<1>5. \A q \in Orders : PaidAt(q)
  BY DEF PaidOnce, PaidAt, By
<1>6. charge[p].att # None /\ OrderPaidBy(p) = o
  BY <1>1, <1>2, GroupAssumption DEF OrderPaidBy
<1>7. ASSUME NEW q \in Orders \ {o} PROVE PaidAt(q)'
  <2>1. \A b \in Attempts : attempt[b].status = "paid" => attempt'[b].status = "paid"
    BY <1>2 DEF Sets, OthersKept
  <2> QED BY <1>2, <1>3, <1>4, <1>5, <1>6, <2>1, PaidStays
<1>8. By(o)' = {p}
  <2>1. By(o) = {}
    BY <1>2, <1>5 DEF PaidAt
  <2>2. ASSUME NEW r \in Captures \ {p} PROVE r \notin By(o)'
    <3>1. CASE charge[r].att = None
      BY <1>3, <3>1 DEF By, SessionInv, ChargesOK
    <3>2. CASE charge[r].att # None
      BY <1>3, <1>4, <2>1, <3>2, PaysStill DEF By
    <3> QED BY <3>1, <3>2
  <2>3. p \in By(o)'
    BY <1>3, <1>4, <1>6, PaysStill DEF By
  <2> QED BY <2>2, <2>3 DEF By
<1>9. PaidAt(o)'
  <2>1. ~free'[o] /\ Quote(o)' = Quote(o)
    BY <1>2, <1>5 DEF PaidAt, Quote
  <2>2. Cardinality({p}) = 1
    BY FS_Singleton
  <2>3. charge'[p].att = a /\ attempt'[a].status = "paid" /\ attempt'[a].quote = Quote(o)
    BY <1>2 DEF Sets
  <2> QED BY <1>3, <1>8, <2>1, <2>2, <2>3 DEF PaidAt
<1>10. \A q \in Orders : PaidAt(q)'
  BY <1>7, <1>9
<1> QED BY <1>10 DEF PaidOnce, PaidAt, By

\* Paid orders stay paid once after every step.
LEMMA PaidKept ==
    ASSUME SessionInv, BookInv, PaidOnce, RowStep
    PROVE  PaidOnce'
<1>1. ASSUME Faithful, UNCHANGED <<free, price>>,
             \A o \in Orders : order'[o] = "paid" <=> order[o] = "paid",
             \A p \in Captures : inbox'[p] = "fulfilled" <=> inbox[p] = "fulfilled",
             \A a \in Attempts : attempt[a].status = "paid" => attempt'[a].status = "paid"
      PROVE  PaidOnce'
  <2>1. \A o \in Orders : PaidAt(o)
    BY DEF PaidOnce, PaidAt, By
  <2>2. \A o \in Orders : PaidAt(o)'
    BY <1>1, <2>1, PaidStays
  <2> QED BY <2>2 DEF PaidOnce, PaidAt, By
<1>2. ASSUME attempt' = attempt, UNCHANGED <<free, price, inbox, charge>>,
             \A o \in Orders : order'[o] = "paid" <=> order[o] = "paid"
      PROVE  PaidOnce'
  BY <1>1, <1>2 DEF Faithful
<1>3. ASSUME NEW A, Voids(A), UNCHANGED charge
      PROVE  Faithful /\ \A a \in Attempts : a \notin A => attempt'[a].status = attempt[a].status
  BY <1>3 DEF Faithful, Voids
<1>4. ASSUME NEW o \in Orders, Voids(PreparedOf(o)), UNCHANGED charge
      PROVE  Faithful /\ \A a \in Attempts : attempt[a].status = "paid" => attempt'[a].status = "paid"
  BY <1>3, <1>4 DEF PreparedOf
<1>5. ASSUME NEW o \in Orders, Reserve(o) PROVE PaidOnce'
  BY <1>2, <1>5 DEF Reserve, restVars, SessionInv, TypeInv, TypeOK
<1>6. ASSUME NEW o \in Orders, Cancels(o) PROVE PaidOnce'
  <2>1. /\ order[o] = "pending" /\ order' = [order EXCEPT ![o] = "cancelled"] /\ Voids(PreparedOf(o))
        /\ UNCHANGED <<free, price, inbox, charge>>
    BY <1>6 DEF Cancels, Cancel, CancelIf, restVars
  <2>2. \A q \in Orders : order'[q] = "paid" <=> order[q] = "paid"
    BY <2>1 DEF SessionInv, TypeInv, TypeOK
  <2> QED BY <1>1, <1>4, <2>1, <2>2
<1>7. ASSUME NEW o \in Orders, Releases(o) PROVE PaidOnce'
  <2>1. /\ order' \in {order, [order EXCEPT ![o] = "expired"]} /\ order[o] # "paid"
        /\ Voids(PreparedOf(o)) /\ UNCHANGED <<free, price, inbox, charge>>
    BY <1>7 DEF Releases
  <2>2. \A q \in Orders : order'[q] = "paid" <=> order[q] = "paid"
    BY <2>1 DEF SessionInv, TypeInv, TypeOK
  <2> QED BY <1>1, <1>4, <2>1, <2>2
<1>8. ASSUME NEW e \in Entries, NEW pr \in Prices, Discounts(e, pr) PROVE PaidOnce'
  <2>1. /\ reg[e] = "pending" /\ price' = [price EXCEPT ![e] = pr] /\ Voids(PreparedOf(OrderOf[e]))
        /\ UNCHANGED <<order, free, inbox, charge>>
    BY <1>8 DEF Discounts, ApplyDiscount, ApplyDiscountIf, restVars
  <2>2. OrderOf[e] \in Orders /\ order[OrderOf[e]] # "paid"
    BY <2>1, GroupAssumption DEF BookInv, EntriesOK, AllOrNone
  <2>3. \A t \in Entries : t # e => price'[t] = price[t]
    BY <2>1 DEF SessionInv, TypeInv, TypeOK
  <2>4. \A o \in Orders : order[o] = "paid" => \A t \in EntriesOf[o] : price'[t] = price[t]
    BY <2>2, <2>3 DEF EntriesOf
  <2>5. \A o \in Orders : PaidAt(o)
    BY DEF PaidOnce, PaidAt, By
  <2>6. Faithful /\ \A a \in Attempts : attempt[a].status = "paid" => attempt'[a].status = "paid"
    BY <1>4, <2>1, <2>2
  <2>7. \A o \in Orders : PaidAt(o)'
    BY <2>1, <2>4, <2>5, <2>6, PaidStays
  <2> QED BY <2>7 DEF PaidOnce, PaidAt, By
<1>9. ASSUME NEW o \in Orders, NEW a \in Attempts, Prepares(o, a) PROVE PaidOnce'
  <2>1. /\ OthersKept(a) /\ attempt[a].status = "none" /\ attempt[a].order = None
        /\ UNCHANGED <<order, free, price, inbox, charge>>
    BY <1>9 DEF Prepares, Prepare, PrepareIf, restVars
  <2>2. Faithful /\ \A b \in Attempts : attempt[b].status = "paid" => attempt'[b].status = "paid"
    BY <2>1 DEF Faithful, OthersKept
  <2> QED BY <1>1, <2>1, <2>2
<1>10. ASSUME NEW a \in Attempts, NEW s, NEW d, Sets(a, s, d), attempt[a].status # "paid", UNCHANGED charge
       PROVE  Faithful /\ \A b \in Attempts : attempt[b].status = "paid" => attempt'[b].status = "paid"
  BY <1>10 DEF Faithful, Sets, OthersKept
<1>11. ASSUME NEW a \in Attempts, Dispatches(a) PROVE PaidOnce'
  <2>1. attempt[a].status # "paid" /\ UNCHANGED <<order, free, price, inbox, charge>>
    BY <1>11 DEF Dispatches, InFlight
  <2>2. Faithful /\ \A b \in Attempts : attempt[b].status = "paid" => attempt'[b].status = "paid"
    BY <1>10, <1>11, <2>1 DEF Dispatches
  <2> QED BY <1>1, <2>1, <2>2
<1>12. ASSUME NEW a \in Attempts, GivesUp(a) PROVE PaidOnce'
  <2>1. PICK o \in Orders : o = attempt[a].order
    BY <1>12 DEF GivesUp
  <2>2. /\ attempt[a].status # "paid" /\ order[o] = "pending" /\ UNCHANGED <<free, price, inbox, charge>>
        /\ order' \in {order, [order EXCEPT ![o] = "expired"]}
    BY <1>12, <2>1 DEF GivesUp, Expire
  <2>3. Faithful /\ \A b \in Attempts : attempt[b].status = "paid" => attempt'[b].status = "paid"
    BY <1>10, <1>12, <2>2 DEF GivesUp
  <2>4. \A q \in Orders : order'[q] = "paid" <=> order[q] = "paid"
    BY <2>2 DEF SessionInv, TypeInv, TypeOK
  <2> QED BY <1>1, <2>2, <2>3, <2>4
<1>13. ASSUME NEW p \in Captures, NEW a \in Attempts, Reviews(p, a) PROVE PaidOnce'
  <2>1. PICK o \in Orders : o = attempt[a].order
    BY <1>13 DEF Reviews, TakenOn
  <2>2. /\ order[o] # "paid" /\ inbox[p] = "received" /\ UNCHANGED <<free, price, charge>>
        /\ order' = [order EXCEPT ![o] = "reconciliation_required"]
        /\ inbox' = [inbox EXCEPT ![p] = "reconciliation_required"]
    BY <1>13, <2>1 DEF Reviews, TakenOn
  <2>3. attempt[a].status # "paid"
    BY <2>1, <2>2, GroupAssumption DEF BookInv, OrdersOK, Fits
  <2>4. Faithful /\ \A b \in Attempts : attempt[b].status = "paid" => attempt'[b].status = "paid"
    BY <1>10, <1>13, <2>2, <2>3 DEF Reviews
  <2>5. /\ \A q \in Orders : order'[q] = "paid" <=> order[q] = "paid"
        /\ \A r \in Captures : inbox'[r] = "fulfilled" <=> inbox[r] = "fulfilled"
    BY <2>2 DEF SessionInv, TypeInv, TypeOK
  <2> QED BY <1>1, <2>2, <2>4, <2>5
<1>14. ASSUME NEW o \in Orders, Lapse(o) PROVE PaidOnce'
  BY <1>2, <1>14 DEF Lapse, restVars
<1>15. ASSUME NEW e \in Entries, AdminCancel(e) PROVE PaidOnce'
  BY <1>2, <1>15 DEF AdminCancel, restVars
<1>16. ASSUME NEW E, Drop(E) PROVE PaidOnce'
  BY <1>2, <1>16 DEF Drop, restVars
<1>17. ASSUME Quiet PROVE PaidOnce'
  BY <1>1, <1>17 DEF Quiet, Faithful
<1>18. ASSUME NEW o \in Orders, NEW a \in Attempts, ConfirmsFree(o, a) PROVE PaidOnce'
  BY <1>18, PaidFree
<1>19. ASSUME NEW p \in Captures, NEW a \in Attempts, Admits(p, a) PROVE PaidOnce'
  BY <1>19, PaidFulfil
<1> QED BY <1>5, <1>6, <1>7, <1>8, <1>9, <1>11, <1>12, <1>13, <1>14, <1>15, <1>16, <1>17, <1>18, <1>19
        DEF RowStep

\* Writing over an entry leaves its order, its price and its captures alone.
LEMMA PaidOverwritten ==
    ASSUME SessionInv, PaidOnce, NEW e \in Entries, Overwrites(e)
    PROVE  PaidOnce'
<1>1. UNCHANGED <<order, price, attempt, free, inbox, charge>>
  BY DEF Overwrites
<1>2. Faithful
  BY <1>1 DEF Faithful
<1>3. \A o \in Orders : PaidAt(o)
  BY DEF PaidOnce, PaidAt, By
<1>4. \A o \in Orders : PaidAt(o)'
  BY <1>1, <1>2, <1>3, PaidStays
<1> QED BY <1>4 DEF PaidOnce, PaidAt, By

\* However many captures arrive, and however often each is confirmed, a paid order has one that is
\* fulfilled, or a complimentary one, of a paid attempt that quoted the prices of its tickets.
THEOREM GroupPaidOnce == Spec => []PaidOnce
<1>1. Init => PaidOnce
  <2> SUFFICES ASSUME Init PROVE PaidOnce
    OBVIOUS
  <2>1. \A o \in Orders : order[o] = "none" /\ ~free[o]
    BY DEF Init
  <2>2. \A p \in Captures : inbox[p] = "none"
    BY DEF Init
  <2> QED BY <2>1, <2>2 DEF PaidOnce
<1>2. SessionInv /\ BookInv /\ PaidOnce /\ [Next]_vars => PaidOnce'
  BY RowSteps, PaidKept, PaidOverwritten
<1> QED BY <1>1, <1>2, GroupSessions, GroupBooks, PTL DEF Spec

-----------------------------------------------------------------------------
(* The places promised fit in the category. *)

InTime == \A p \in Captures : charge[p] # NoCharge => sess[charge[p].att] = "open"

Blocking(a) == attempt[a].status \in InFlight \cup {"reconciliation_required"}

\* Places are claimed by nobody but those who claimed them and those who were counted.
LEMMA ClaimsWithin ==
    ASSUME NEW N \in SUBSET Entries, Cardinality(Claims \cup N) <= Capacity,
           \A e \in Entries \ (Claims \cup N) :
              /\ \/ reg'[e] = reg[e] \/ reg'[e] = "cancelled"
                 \/ reg[e] = "pending" /\ reg'[e] = "expired"
              /\ lapsed[OrderOf[e]] => lapsed'[OrderOf[e]]
              /\ batch'[OrderOf[e]] = "ready" => batch[OrderOf[e]] = "ready"
              /\ reg'[e] \in {"pending", "expired"} =>
                    \A a \in Attempts : attempt'[a].order = OrderOf[e] /\ Blocking(a)' =>
                                            attempt[a].order = OrderOf[e] /\ Blocking(a)
    PROVE  Cardinality(Claims)' <= Capacity
<1>1. ASSUME NEW e \in Entries \ (Claims \cup N) PROVE e \notin Claims'
  <2>1. /\ reg[e] # "paid" /\ ~(reg[e] = "pending" /\ ~lapsed[OrderOf[e]])
        /\ reg[e] \in {"pending", "expired"} =>
              \A a \in Attempts : attempt[a].order = OrderOf[e] => ~Blocking(a)
        /\ batch[OrderOf[e]] # "ready"
    BY DEF Claims, EntryClaims, Holding, AttemptsOf, Blocking
  <2>2. /\ reg'[e] # "paid" /\ ~(reg'[e] = "pending" /\ ~lapsed'[OrderOf[e]])
        /\ batch'[OrderOf[e]] # "ready"
    BY <2>1
  <2>3. ASSUME reg'[e] \in {"pending", "expired"}, NEW a \in Attempts, attempt'[a].order = OrderOf[e]
        PROVE  ~Blocking(a)'
    BY <2>1, <2>3
  <2> QED BY <2>2, <2>3 DEF Claims, EntryClaims, Holding, AttemptsOf, Blocking
<1>2. Claims' \in SUBSET (Claims \cup N) /\ (Claims \cup N) \in SUBSET Entries
  BY <1>1 DEF Claims, EntryClaims, Holding
<1>3. Cardinality(Claims') <= Cardinality(Claims \cup N)
      /\ Cardinality(Claims') \in Nat /\ Cardinality(Claims \cup N) \in Nat
  BY <1>2, Counting
<1> QED BY <1>3, GroupAssumption

\* Places are claimed by nobody but those who claimed them.
LEMMA ClaimsShrink ==
    ASSUME Cardinality(Claims) <= Capacity,
           \A e \in Entries \ Claims :
              /\ \/ reg'[e] = reg[e] \/ reg'[e] = "cancelled"
                 \/ reg[e] = "pending" /\ reg'[e] = "expired"
              /\ lapsed[OrderOf[e]] => lapsed'[OrderOf[e]]
              /\ batch'[OrderOf[e]] = "ready" => batch[OrderOf[e]] = "ready"
              /\ reg'[e] \in {"pending", "expired"} =>
                    \A a \in Attempts : attempt'[a].order = OrderOf[e] /\ Blocking(a)' =>
                                            attempt[a].order = OrderOf[e] /\ Blocking(a)
    PROVE  Cardinality(Claims)' <= Capacity
<1> DEFINE N == {}
<1>1. N \in SUBSET Entries /\ Claims \cup N = Claims
  OBVIOUS
<1>2. Cardinality(Claims \cup N) <= Capacity /\ Entries \ (Claims \cup N) = Entries \ Claims
  BY <1>1
<1> HIDE DEF N
<1> QED BY <1>1, <1>2, ClaimsWithin

\* Sessions that are open with money on them were open before.
LEMMA InTimeBefore ==
    ASSUME SessionInv, RowStep, InTime'
    PROVE  InTime
<1>1. ASSUME UNCHANGED <<sess, charge>> PROVE InTime
  BY <1>1 DEF InTime
<1>2. ASSUME Quiet PROVE InTime
  <2> SUFFICES ASSUME NEW p \in Captures, charge[p] # NoCharge PROVE sess[charge[p].att] = "open"
    BY DEF InTime
  <2>1. charge[p].att \in Attempts /\ charge'[p] = charge[p] /\ PaidOn(charge[p].att) # {}
    BY <1>2, PaysWith DEF Quiet, SessionInv, ChargesOK, PaidOn
  <2>2. sess'[charge[p].att] = "open"
    BY <2>1 DEF InTime
  <2> QED BY <1>2, <2>1, <2>2 DEF Quiet
<1>3. ASSUME NEW o \in Orders, Reserve(o) \/ Cancels(o) \/ Releases(o) \/ Lapse(o) PROVE InTime
  BY <1>1, <1>3 DEF Reserve, Cancels, Cancel, CancelIf, Releases, Lapse, restVars
<1>4. ASSUME NEW e \in Entries, AdminCancel(e) \/ \E pr \in Prices : Discounts(e, pr) PROVE InTime
  BY <1>1, <1>4 DEF AdminCancel, Discounts, ApplyDiscount, ApplyDiscountIf, restVars
<1>5. ASSUME NEW o \in Orders, NEW a \in Attempts, Prepares(o, a) \/ ConfirmsFree(o, a) PROVE InTime
  BY <1>1, <1>5 DEF Prepares, Prepare, PrepareIf, ConfirmsFree, ConfirmFree, restVars
<1>6. ASSUME NEW a \in Attempts, Dispatches(a) \/ GivesUp(a) PROVE InTime
  BY <1>1, <1>6 DEF Dispatches, GivesUp
<1>7. ASSUME NEW p \in Captures, NEW a \in Attempts, Admits(p, a) \/ Reviews(p, a) PROVE InTime
  BY <1>1, <1>7 DEF Admits, Reviews, TakenOn
<1>8. ASSUME NEW E, Drop(E) PROVE InTime
  BY <1>1, <1>8 DEF Drop, restVars
<1> QED BY <1>2, <1>3, <1>4, <1>5, <1>6, <1>7, <1>8 DEF RowStep

\* The claims of a party that is admitted, with or without money, are places that exist.
LEMMA PlacesAdmit ==
    ASSUME TypeOK, NEW o \in Orders, NEW a \in Attempts, Admit(o, a), Sets(a, "paid", attempt[a].dispatch),
           UNCHANGED lapsed,
           \/ EntriesOf[o] \subseteq Claims /\ Cardinality(Claims) <= Capacity
           \/ Cardinality(Claims \cup EntriesOf[o]) <= Capacity
    PROVE  Cardinality(Claims)' <= Capacity
<1>1. EntriesOf[o] \in SUBSET Entries
  BY GroupAssumption DEF EntriesOf
<1>2. Cardinality(Claims \cup EntriesOf[o]) <= Capacity
  <2>1. CASE EntriesOf[o] \subseteq Claims /\ Cardinality(Claims) <= Capacity
    <3>1. Claims \cup EntriesOf[o] = Claims
      BY <2>1
    <3> QED BY <2>1, <3>1
  <2> QED BY <2>1
<1>3. /\ \A e \in Entries \ EntriesOf[o] : reg'[e] = reg[e]
      /\ \A q \in Orders : batch'[q] = "ready" => batch[q] = "ready"
  BY DEF Admit, SetReg, TypeOK
<1>4. \A b \in Attempts : Blocking(b)' => Blocking(b) /\ attempt'[b].order = attempt[b].order
  BY DEF Sets, OthersKept, Blocking, InFlight
<1>5. \A e \in Entries : OrderOf[e] \in Orders
  BY GroupAssumption
<1> QED BY <1>1, <1>2, <1>3, <1>4, <1>5, ClaimsWithin

\* The places fit after every step, while no closed session is paid.
LEMMA PlacesKept ==
    ASSUME SessionInv, BookInv, InTime, Cardinality(Claims) <= Capacity, RowStep
    PROVE  Cardinality(Claims)' <= Capacity
<1> DEFINE Same == \A a \in Attempts : Blocking(a)' => Blocking(a) /\ attempt'[a].order = attempt[a].order
<1>1. \A e \in Entries : OrderOf[e] \in Orders
  BY GroupAssumption
<1>2. ASSUME Same,
             \A e \in Entries : \/ reg'[e] = reg[e] \/ reg'[e] = "cancelled"
                                \/ reg[e] = "pending" /\ reg'[e] = "expired",
             \A o \in Orders : /\ lapsed[o] => lapsed'[o]
                               /\ batch'[o] = "ready" => batch[o] = "ready"
      PROVE  Cardinality(Claims)' <= Capacity
  BY <1>1, <1>2, ClaimsShrink
<1>3. \A E : reg' = SetReg(E, "cancelled") => \A e \in Entries : reg'[e] = reg[e] \/ reg'[e] = "cancelled"
  BY DEF SetReg
<1>4. \A E : reg' = SetReg({e \in E : reg[e] = "pending"}, "expired") =>
          \A e \in Entries : reg'[e] = reg[e] \/ (reg[e] = "pending" /\ reg'[e] = "expired")
  BY DEF SetReg
<1>5. ASSUME NEW o \in Orders, Reserve(o) PROVE Cardinality(Claims)' <= Capacity
  <2>1. /\ Cardinality(Claims \cup EntriesOf[o]) <= Capacity /\ UNCHANGED <<lapsed, batch, attempt>>
        /\ \A e \in Entries \ EntriesOf[o] : reg'[e] = reg[e] \/ (reg[e] = "pending" /\ reg'[e] = "expired")
    BY <1>5 DEF Reserve, HasPlaces
  <2>2. EntriesOf[o] \in SUBSET Entries
    BY GroupAssumption DEF EntriesOf
  <2>3. \A a \in Attempts : Blocking(a)' => Blocking(a)
    BY <2>1 DEF Blocking
  <2> QED BY <2>1, <2>2, <2>3, ClaimsWithin
<1>6. ASSUME NEW A, Voids(A) PROVE Same
  BY <1>6 DEF Voids, Blocking, InFlight
<1>7. ASSUME NEW o \in Orders, Cancels(o) PROVE Cardinality(Claims)' <= Capacity
  <2>1. /\ reg' = SetReg(EntriesOf[o], "cancelled") /\ lapsed' = lapsed /\ Voids(PreparedOf(o))
        /\ batch' = IF batch[o] = "ready" THEN [batch EXCEPT ![o] = "cancelled"] ELSE batch
    BY <1>7 DEF Cancels, Cancel, CancelIf
  <2>2. \A q \in Orders : batch'[q] = "ready" => batch[q] = "ready"
    BY <2>1 DEF SessionInv, TypeInv, TypeOK
  <2> QED BY <1>2, <1>3, <1>6, <2>1, <2>2
<1>8. ASSUME NEW o \in Orders, Releases(o) PROVE Cardinality(Claims)' <= Capacity
  <2>1. /\ reg' = SetReg({e \in EntriesOf[o] : reg[e] = "pending"}, "expired") /\ lapsed' = lapsed
        /\ Voids(PreparedOf(o)) /\ batch' \in {batch, [batch EXCEPT ![o] = "expired"]}
    BY <1>8 DEF Releases, PendingOf
  <2>2. \A q \in Orders : batch'[q] = "ready" => batch[q] = "ready"
    BY <2>1 DEF SessionInv, TypeInv, TypeOK
  <2> QED BY <1>2, <1>4, <1>6, <2>1, <2>2
<1>9. ASSUME attempt' = attempt PROVE Same
  BY <1>9 DEF Blocking
<1>10. ASSUME NEW o \in Orders, Lapse(o) PROVE Cardinality(Claims)' <= Capacity
  <2>1. UNCHANGED <<reg, batch, attempt>> /\ lapsed' = [lapsed EXCEPT ![o] = TRUE]
    BY <1>10 DEF Lapse
  <2>2. \A q \in Orders : lapsed[q] => lapsed'[q]
    BY <2>1 DEF SessionInv, TypeInv, TypeOK
  <2> QED BY <1>2, <1>9, <2>1, <2>2
<1>11. ASSUME NEW e \in Entries, NEW pr \in Prices, Discounts(e, pr) PROVE Cardinality(Claims)' <= Capacity
  <2>1. UNCHANGED <<reg, lapsed, batch>> /\ Voids(PreparedOf(OrderOf[e]))
    BY <1>11 DEF Discounts, ApplyDiscount, ApplyDiscountIf
  <2> QED BY <1>2, <1>6, <2>1
<1>12. ASSUME NEW e \in Entries, AdminCancel(e) PROVE Cardinality(Claims)' <= Capacity
  <2>1. UNCHANGED <<lapsed, batch, attempt>> /\ reg' = [reg EXCEPT ![e] = "cancelled"]
    BY <1>12 DEF AdminCancel
  <2>2. \A t \in Entries : reg'[t] = reg[t] \/ reg'[t] = "cancelled"
    BY <2>1 DEF SessionInv, TypeInv, TypeOK
  <2> QED BY <1>2, <1>9, <2>1, <2>2
<1>13. ASSUME NEW o \in Orders, NEW a \in Attempts, Prepares(o, a) PROVE Cardinality(Claims)' <= Capacity
  <2>1. UNCHANGED <<reg, lapsed, batch>> /\ OthersKept(a) /\ attempt'[a].status = "prepared"
    BY <1>13 DEF Prepares, Prepare, PrepareIf
  <2>2. Same
    BY <2>1 DEF OthersKept, Blocking, InFlight
  <2> QED BY <1>2, <2>1, <2>2
<1>14. ASSUME NEW a \in Attempts, GivesUp(a) PROVE Cardinality(Claims)' <= Capacity
  <2>1. PICK o \in Orders : o = attempt[a].order
    BY <1>14 DEF GivesUp
  <2>2. UNCHANGED <<lapsed, batch>> /\ Sets(a, "expired", "ready")
    BY <1>14 DEF GivesUp
  <2>3. reg' = reg \/ reg' = SetReg({e \in EntriesOf[o] : reg[e] = "pending"}, "expired")
    BY <1>14, <2>1 DEF GivesUp, Expire, PendingOf
  <2>4. Same
    BY <2>2 DEF Sets, OthersKept, Blocking, InFlight
  <2>5. \A e \in Entries : reg'[e] = reg[e] \/ (reg[e] = "pending" /\ reg'[e] = "expired")
    BY <1>4, <2>3
  <2> QED BY <1>2, <2>2, <2>4, <2>5
<1>15. ASSUME NEW a \in Attempts, Dispatches(a) PROVE Cardinality(Claims)' <= Capacity
  <2>1. PICK o \in Orders : o = attempt[a].order
    BY <1>15 DEF Dispatches
  <2>2. UNCHANGED <<reg, lapsed, batch>> /\ OthersKept(a) /\ attempt'[a].order = o
    BY <1>15, <2>1 DEF Dispatches, Sets
  <2>3. CASE attempt[a].status \in InFlight
    <3>1. Same
      BY <2>1, <2>2, <2>3 DEF OthersKept, Blocking
    <3> QED BY <1>2, <2>2, <3>1
  <2>4. CASE ~lapsed[o] /\ Untouched(o)
    <3>1. EntriesOf[o] \subseteq Claims
      BY <2>4 DEF Untouched, EntriesOf, Claims, EntryClaims, Holding
    <3>2. \A e \in Entries \ Claims : OrderOf[e] # o
      BY <3>1, <2>1 DEF EntriesOf
    <3>3. \A b \in Attempts \ {a} : attempt'[b] = attempt[b]
      BY <2>2 DEF OthersKept
    <3>4. ASSUME NEW e \in Entries \ Claims, NEW b \in Attempts, attempt'[b].order = OrderOf[e], Blocking(b)'
          PROVE  attempt[b].order = OrderOf[e] /\ Blocking(b)
      BY <2>2, <3>2, <3>3, <3>4 DEF Blocking
    <3> QED BY <1>1, <2>2, <3>4, ClaimsShrink
  <2> QED BY <1>15, <2>1, <2>3, <2>4 DEF Dispatches, Payable
<1>16. ASSUME NEW p \in Captures, NEW a \in Attempts, Reviews(p, a) PROVE Cardinality(Claims)' <= Capacity
  <2>1. /\ charge[p].att = a /\ attempt[a].dispatch = "ready" /\ attempt[a].order \in Orders
        /\ order[attempt[a].order] # "paid"
        /\ UNCHANGED <<reg, lapsed, batch>> /\ Sets(a, "reconciliation_required", attempt[a].dispatch)
    BY <1>16 DEF Reviews, TakenOn
  <2>2. sess[a] = "open"
    BY <2>1, GroupAssumption DEF InTime, NoCharge
  <2>3. attempt[a].status \in {"ready", "paid", "reconciliation_required"}
    BY <2>1, <2>2 DEF SessionInv, RowsOK, RowOK, SessionOK
  <2>4. attempt[a].status # "paid"
    BY <2>1, GroupAssumption DEF BookInv, OrdersOK, Fits
  <2>5. Same
    BY <2>1, <2>3, <2>4 DEF Sets, OthersKept, Blocking, InFlight
  <2> QED BY <1>2, <2>1, <2>5
<1>17. ASSUME NEW o \in Orders, NEW a \in Attempts, ConfirmsFree(o, a) PROVE Cardinality(Claims)' <= Capacity
  <2>1. /\ Admit(o, a) /\ Sets(a, "paid", attempt[a].dispatch) /\ lapsed' = lapsed
        /\ Untouched(o) /\ ~lapsed[o]
    BY <1>17 DEF ConfirmsFree, ConfirmFree, Payable
  <2>2. EntriesOf[o] \subseteq Claims
    BY <2>1 DEF Untouched, EntriesOf, Claims, EntryClaims, Holding
  <2> QED BY <2>1, <2>2, PlacesAdmit DEF SessionInv, TypeInv
<1>18. ASSUME NEW p \in Captures, NEW a \in Attempts, Admits(p, a) PROVE Cardinality(Claims)' <= Capacity
  <2>1. PICK o \in Orders : o = attempt[a].order
    BY <1>18 DEF Admits, TakenOn
  <2>2. /\ Admit(o, a) /\ Sets(a, "paid", attempt[a].dispatch) /\ lapsed' = lapsed
        /\ PlacesFor(o)
    BY <1>18, <2>1 DEF Admits, TakenOn, Fulfils
  <2>3. \/ EntriesOf[o] \subseteq Claims
        \/ Cardinality(Claims \cup EntriesOf[o]) <= Capacity
    BY <2>2 DEF PlacesFor, Claims
  <2> QED BY <2>2, <2>3, PlacesAdmit DEF SessionInv, TypeInv
<1>19. ASSUME NEW E, Drop(E) PROVE Cardinality(Claims)' <= Capacity
  <2>1. UNCHANGED <<lapsed, batch, attempt>>
        /\ \A e \in Entries : reg'[e] = reg[e] \/ (reg[e] = "pending" /\ reg'[e] = "expired")
    BY <1>19 DEF Drop, SetReg
  <2> QED BY <1>2, <1>9, <2>1
<1>20. ASSUME Quiet PROVE Cardinality(Claims)' <= Capacity
  BY <1>2, <1>9, <1>20 DEF Quiet
<1> QED BY <1>5, <1>7, <1>8, <1>10, <1>11, <1>12, <1>13, <1>14, <1>15, <1>16, <1>17, <1>18, <1>19, <1>20
        DEF RowStep

\* Writing over an entry claims nothing, unless it was cancelled.
LEMMA PlacesOverwritten ==
    ASSUME TypeOK, BookInv, Cardinality(Claims) <= Capacity, NEW e \in Entries, Overwrites(e),
           WrittenOver("cancelled")' = {}
    PROVE  Cardinality(Claims)' <= Capacity
<1>1. /\ reg'[e] = "expired" /\ \A t \in Entries \ {e} : reg'[t] = reg[t]
      /\ UNCHANGED <<lapsed, batch, attempt>>
  BY DEF Overwrites
<1>2. reg[e] # "cancelled"
  BY DEF Overwrites
<1>3. e \in Claims \/ reg[e] # "paid"
  BY DEF Claims, EntryClaims, Holding
<1>4. e \notin Claims => reg[e] \in {"pending", "expired"}
  BY <1>2, <1>3 DEF TypeOK, RegStatus, Overwrites, BookInv, EntriesOK, ReadsReserved
<1>5. \A a \in Attempts : Blocking(a)' <=> Blocking(a)
  BY <1>1 DEF Blocking
<1> QED BY <1>1, <1>4, <1>5, ClaimsShrink

\* The places promised fit in the category, whoever promised them: a hold, a session that may still
\* be paid, a screening batch, a ticket; until a session that was closed is paid after all, or a
\* runner's own registrations-checkout writes over an entry that staff had cancelled.
THEOREM GroupPlacesFit == Spec => []PlacesFit
<1>1. Init => PlacesFit
  <2> SUFFICES ASSUME Init PROVE Cardinality(Claims) <= Capacity
    BY DEF PlacesFit
  <2>1. /\ \A e \in Entries : reg[e] = "none" /\ OrderOf[e] \in Orders
        /\ \A o \in Orders : batch[o] = "ready" <=> o \in Screened
    BY GroupAssumption DEF Init
  <2>2. Claims = {e \in Entries : OrderOf[e] \in Screened}
    BY <2>1 DEF Claims, EntryClaims, Holding
  <2> QED BY <2>2, GroupAssumption
<1>2. SessionInv /\ BookInv /\ PlacesFit /\ [Next]_vars => PlacesFit'
  <2> SUFFICES ASSUME SessionInv, BookInv, PlacesFit, [Next]_vars, InTime', WrittenOver("cancelled")' = {}
               PROVE  Cardinality(Claims)' <= Capacity
    BY DEF PlacesFit, InTime
  <2>1. CASE RowStep /\ NoneWritten
    <3>1. InTime
      BY <2>1, InTimeBefore
    <3>2. WrittenOver("cancelled") = {}
      BY <2>1 DEF NoneWritten
    <3>3. Cardinality(Claims) <= Capacity
      BY <3>1, <3>2 DEF PlacesFit, InTime
    <3> QED BY <2>1, <3>1, <3>3, PlacesKept
  <2>2. ASSUME NEW e \in Entries, Overwrites(e) PROVE Cardinality(Claims)' <= Capacity
    <3>1. InTime
      BY <2>2 DEF Overwrites, InTime
    <3>2. WrittenOver("cancelled") \subseteq WrittenOver("cancelled")'
      BY <2>2 DEF Overwrites
    <3>3. Cardinality(Claims) <= Capacity
      BY <3>1, <3>2 DEF PlacesFit, InTime
    <3> QED BY <2>2, <3>3, PlacesOverwritten DEF SessionInv, TypeInv
  <2> QED BY <2>1, <2>2, RowSteps
<1> QED BY <1>1, <1>2, GroupSessions, GroupBooks, PTL DEF Spec

-----------------------------------------------------------------------------
(* Group checkout implements PartyAdmission. *)

PartySame == order' = order /\ Sold' = Sold

\* An order moves, and its tickets do not.
LEMMA PartyMoves ==
    ASSUME NEW o \in Orders, Sold' = Sold,
           \/ order[o] = "none" /\ order' = [order EXCEPT ![o] = "pending"]
           \/ order[o] = "pending" /\ order' = [order EXCEPT ![o] = "expired"]
           \/ order[o] = "pending" /\ order' = [order EXCEPT ![o] = "cancelled"]
           \/ /\ order[o] \in {"pending", "expired", "cancelled"}
              /\ order' = [order EXCEPT ![o] = "reconciliation_required"]
    PROVE  Party!Next
<1>1. Party!Hold(o) \/ Party!Release(o) \/ Party!Review(o)
  BY DEF Sold, Party!Hold, Party!Release, Party!Review, Party!Move
<1> QED BY <1>1 DEF Party!Next

\* PartyAdmission counts as GroupOrder does.
LEMMA SameCount == \A S : Party!Cardinality(S) = Cardinality(S)
BY DEF Party!Cardinality, Cardinality

\* A party is admitted.
LEMMA PartyAdmitted ==
    ASSUME TypeOK, EntriesOK, NEW o \in Orders, NEW a, Admit(o, a),
           order[o] \in {"pending", "expired"},
           \A e \in EntriesOf[o] : reg[e] \in {"pending", "expired"},
           \A t \in Entries \ EntriesOf[o], e \in EntriesOf[o] : PassportOf[e] = PassportOf[t] => ~Live(t),
           Cardinality(Sold \cup EntriesOf[o]) <= Capacity
    PROVE  Party!Next
<1>1. Party!EntriesOf(o) = EntriesOf[o] /\ EntriesOf[o] \in SUBSET Entries
  BY DEF Party!EntriesOf, EntriesOf
<1>2. Sold' = Sold \cup EntriesOf[o]
  BY <1>1 DEF Sold, Admit, SetReg
<1>3. \A e \in EntriesOf[o], t \in Sold : PassportOf[e] # PassportOf[t]
  BY <1>1 DEF Sold, Live
<1>4. order' = [order EXCEPT ![o] = "paid"]
  BY DEF Admit
<1>5. Party!Cardinality(Sold \cup Party!EntriesOf(o)) <= Capacity
  BY <1>1, <1>2, SameCount
<1>6. Party!Admit(o)
  BY <1>1, <1>2, <1>3, <1>4, <1>5 DEF Party!Admit, Party!Move, Sold
<1> QED BY <1>6 DEF Party!Next

\* Every step is one of PartyAdmission, or none.
LEMMA PartySteps ==
    ASSUME SessionInv, BookInv, RowStep
    PROVE  Party!Next \/ PartySame
<1> USE DEF BookInv, SessionInv, TypeInv
<1>1. ASSUME \A e \in Entries : reg'[e] = "paid" <=> reg[e] = "paid" PROVE Sold' = Sold
  BY <1>1 DEF Sold
<1>2. ASSUME UNCHANGED <<order, reg>> PROVE PartySame
  BY <1>2 DEF PartySame, Sold
<1>3. \A E, s : s # "paid" /\ (\A e \in E \cap Entries : reg[e] # "paid") /\ reg' = SetReg(E, s) => Sold' = Sold
  BY <1>1 DEF SetReg
<1>4. ASSUME NEW o \in Orders, Reserve(o) PROVE Party!Next
  <2>1. order[o] = "none" /\ order' = [order EXCEPT ![o] = "pending"]
    BY <1>4 DEF Reserve
  <2>2. \A e \in Entries : e \in EntriesOf[o] => reg[e] = "none"
    BY <2>1, GroupAssumption DEF EntriesOf, EntriesOK, ReservedTogether
  <2>3. \A e \in Entries : reg'[e] = reg[e] \/ (reg[e] # "paid" /\ reg'[e] # "paid")
    BY <1>4, <2>2 DEF Reserve
  <2> QED BY <1>1, <2>1, <2>3, PartyMoves
<1>5. ASSUME NEW o \in Orders, Cancels(o) PROVE Party!Next
  <2>1. /\ order[o] = "pending" /\ order' = [order EXCEPT ![o] = "cancelled"]
        /\ reg' = SetReg(EntriesOf[o], "cancelled") /\ \A e \in EntriesOf[o] : reg[e] # "paid"
    BY <1>5 DEF Cancels, Cancel, CancelIf
  <2> QED BY <1>3, <2>1, PartyMoves
<1>6. \A E : reg' = SetReg({e \in E : reg[e] = "pending"}, "expired") => Sold' = Sold
  BY <1>3
<1>7. ASSUME NEW o \in Orders, Releases(o) PROVE Party!Next \/ PartySame
  <2>1. Sold' = Sold
    BY <1>6, <1>7 DEF Releases, PendingOf
  <2>2. order' = order \/ (order[o] = "pending" /\ order' = [order EXCEPT ![o] = "expired"])
    BY <1>7 DEF Releases
  <2> QED BY <2>1, <2>2, PartyMoves DEF PartySame
<1>8. ASSUME NEW e \in Entries, AdminCancel(e) PROVE Party!Next \/ PartySame
  <2>1. /\ order' = order /\ reg'[e] = "cancelled"
        /\ \A t \in Entries \ {e} : reg'[t] = reg[t]
    BY <1>8 DEF AdminCancel, TypeOK
  <2>2. CASE reg[e] = "paid"
    <3>1. e \in Sold /\ Sold' = Sold \ {e}
      BY <2>1, <2>2 DEF Sold
    <3>2. Party!GiveBack(e)
      BY <2>1, <3>1 DEF Party!GiveBack, Sold
    <3> QED BY <3>2 DEF Party!Next
  <2>3. CASE reg[e] # "paid"
    BY <1>1, <2>1, <2>3 DEF PartySame
  <2> QED BY <2>2, <2>3
<1>9. ASSUME NEW o \in Orders, NEW a \in Attempts, ConfirmsFree(o, a) PROVE Party!Next
  <2>1. /\ order[o] = "pending" /\ ~lapsed[o] /\ Admit(o, a)
        /\ \A e \in EntriesOf[o] : reg[e] = "pending"
        /\ Cardinality(Holding) <= Capacity
    BY <1>9 DEF ConfirmsFree, ConfirmFree, Payable, Untouched
  <2> QED BY <2>1, FreeParty, PartyAdmitted
<1>10. ASSUME NEW p \in Captures, NEW a \in Attempts, Admits(p, a) PROVE Party!Next
  <2>1. PICK o \in Orders : o = attempt[a].order
    BY <1>10 DEF Admits, TakenOn
  <2>2. /\ order[o] \in {"pending", "expired"} /\ Admit(o, a)
        /\ \A e \in EntriesOf[o] : reg[e] \in {"pending", "expired"}
        /\ Rivals(o) = {} /\ Cardinality(Holding \cup EntriesOf[o]) <= Capacity
    BY <1>10, <2>1 DEF Admits, TakenOn, Fulfils, PlacesFor
  <2> QED BY <2>2, PaidParty, PartyAdmitted
<1>11. ASSUME NEW a \in Attempts, GivesUp(a) PROVE Party!Next \/ PartySame
  <2>1. PICK o \in Orders : o = attempt[a].order
    BY <1>11 DEF GivesUp
  <2>2. CASE UNCHANGED <<order, reg>>
    BY <1>2, <2>2
  <2>3. CASE Expire(o)
    <3>1. Sold' = Sold /\ order[o] = "pending" /\ order' = [order EXCEPT ![o] = "expired"]
      BY <1>6, <1>11, <2>1, <2>3 DEF Expire, PendingOf, GivesUp
    <3> QED BY <3>1, PartyMoves
  <2> QED BY <1>11, <2>1, <2>2, <2>3 DEF GivesUp
<1>12. ASSUME NEW p \in Captures, NEW a \in Attempts, Reviews(p, a) PROVE Party!Next \/ PartySame
  <2>1. PICK o \in Orders : o = attempt[a].order
    BY <1>12 DEF Reviews, TakenOn
  <2>2. order[o] \in {"pending", "expired", "cancelled", "reconciliation_required"}
    BY <1>12, <2>1, GroupAssumption DEF Reviews, OrdersOK, Fits, TypeOK, OrderStatus
  <2>3. reg' = reg /\ order' = [order EXCEPT ![o] = "reconciliation_required"]
    BY <1>12, <2>1 DEF Reviews
  <2>4. CASE order[o] = "reconciliation_required"
    <3>1. order' = order
      BY <2>3, <2>4 DEF TypeOK
    <3> QED BY <1>2, <2>3, <3>1
  <2>5. CASE order[o] # "reconciliation_required"
    <3>1. Sold' = Sold
      BY <1>1, <2>3
    <3> QED BY <2>2, <2>3, <2>5, <3>1, PartyMoves
  <2> QED BY <2>4, <2>5
<1>13. ASSUME NEW E, Drop(E) PROVE PartySame
  <2>1. \A e \in Entries : reg'[e] = "paid" <=> reg[e] = "paid"
    BY <1>13 DEF Drop, SetReg
  <2> QED BY <1>1, <1>13, <2>1 DEF Drop, PartySame
<1>14. ASSUME NEW o \in Orders, Lapse(o) PROVE PartySame
  BY <1>2, <1>14 DEF Lapse
<1>15. ASSUME NEW e \in Entries, NEW pr \in Prices, Discounts(e, pr) PROVE PartySame
  BY <1>2, <1>15 DEF Discounts, ApplyDiscount, ApplyDiscountIf
<1>16. ASSUME NEW o \in Orders, NEW a \in Attempts, Prepares(o, a) PROVE PartySame
  BY <1>2, <1>16 DEF Prepares, Prepare, PrepareIf
<1>17. ASSUME NEW a \in Attempts, Dispatches(a) PROVE PartySame
  BY <1>2, <1>17 DEF Dispatches
<1>18. ASSUME Quiet PROVE PartySame
  BY <1>2, <1>18 DEF Quiet
<1> QED BY <1>4, <1>5, <1>7, <1>8, <1>9, <1>10, <1>11, <1>12, <1>13, <1>14, <1>15, <1>16, <1>17, <1>18
        DEF RowStep

\* A ticket written over is given back; any other entry was no ticket.
LEMMA PartyOverwritten ==
    ASSUME NEW e \in Entries, Overwrites(e)
    PROVE  Party!Next \/ PartySame
<1>1. reg'[e] = "expired" /\ (\A t \in Entries \ {e} : reg'[t] = reg[t]) /\ order' = order
  BY DEF Overwrites
<1>2. Sold' = Sold \ {e}
  BY <1>1 DEF Sold
<1>3. CASE e \in Sold
  <2>1. Party!GiveBack(e)
    BY <1>1, <1>2, <1>3 DEF Party!GiveBack, Sold
  <2> QED BY <2>1 DEF Party!Next
<1>4. CASE e \notin Sold
  BY <1>1, <1>2, <1>4 DEF PartySame
<1> QED BY <1>3, <1>4

\* The checkout implements PartyAdmission: through reservations, sessions, captures in any order
\* and expiry runs, a party is admitted as a whole, once, into places that exist.
THEOREM GroupAdmitsParties == Spec => AdmitsParties
<1>1. Init => Party!Init
  BY GroupAssumption DEF Init, Party!Init
<1>2. SessionInv /\ BookInv /\ [Next]_vars => [Party!Next]_(Party!vars)
  <2> SUFFICES ASSUME SessionInv, BookInv, [Next]_vars PROVE [Party!Next]_(Party!vars)
    OBVIOUS
  <2>1. Party!Next \/ PartySame
    BY RowSteps, PartySteps, PartyOverwritten
  <2> QED BY <2>1 DEF PartySame, Sold, Party!vars
<1> QED BY <1>1, <1>2, GroupSessions, GroupBooks, PTL DEF Spec, AdmitsParties, Party!Spec
-----------------------------------------------------------------------------
(* What PartyAdmission promises, and group checkout keeps. *)

\* PartyAdmission's sets are as finite as GroupOrder's.
LEMMA SameFinite == \A S : Party!IsFiniteSet(S) <=> IsFiniteSet(S)
BY DEF Party!IsFiniteSet, IsFiniteSet

\* Safe, and what it takes to be inductive: the states an order can be in.
PromiseInv ==
    /\ order \in [Orders -> {"none", "pending", "paid", "expired", "cancelled",
                            "reconciliation_required"}]
    /\ Party!Safe

\* Moving an order that is not paid leaves the admitted parties admitted.
LEMMA PromiseMoves ==
    ASSUME Party!WellFormed, PromiseInv, NEW o \in Orders,
           NEW to \in {"pending", "paid", "expired", "cancelled", "reconciliation_required"},
           order[o] # "paid", order' = [order EXCEPT ![o] = to]
    PROVE  /\ order' \in [Orders -> {"none", "pending", "paid", "expired", "cancelled",
                                     "reconciliation_required"}]
           /\ \A e \in Sold : order'[OrderOf[e]] = "paid"
<1>1. \A e \in Sold : OrderOf[e] \in Orders /\ OrderOf[e] # o
  BY DEF PromiseInv, Party!Safe, Party!TicketsFit, Party!OnlyAdmitted, Party!WellFormed, Sold
<1> QED BY <1>1 DEF PromiseInv, Party!Safe, Party!OnlyAdmitted, Sold

\* An admitted party joins the tickets.
LEMMA PromiseAdmits ==
    ASSUME Party!WellFormed, PromiseInv, NEW o \in Orders, Party!Admit(o)
    PROVE  PromiseInv'
<1>1. /\ order[o] # "paid" /\ order' = [order EXCEPT ![o] = "paid"]
      /\ Sold' = Sold \cup Party!EntriesOf(o)
      /\ Cardinality(Sold') <= Capacity
      /\ \A e \in Party!EntriesOf(o), t \in Sold : PassportOf[e] # PassportOf[t]
  BY SameCount DEF Party!Admit, Party!Move, Sold
<1>2. order' \in [Orders -> {"none", "pending", "paid", "expired", "cancelled",
                             "reconciliation_required"}]
      /\ \A e \in Sold : order'[OrderOf[e]] = "paid"
  BY <1>1, PromiseMoves
<1>3. Party!TicketsFit'
  BY <1>1, SameCount DEF PromiseInv, Party!Safe, Party!TicketsFit, Party!EntriesOf, Sold
<1>4. Party!OneTicketPerRunner'
  <2>1. ASSUME NEW e \in Sold', NEW t \in Sold', PassportOf[e] = PassportOf[t] PROVE e = t
    <3>1. CASE e \in Sold /\ t \in Sold
      BY <2>1, <3>1 DEF PromiseInv, Party!Safe, Party!OneTicketPerRunner, Sold
    <3>2. CASE e \in Party!EntriesOf(o) /\ t \in Party!EntriesOf(o)
      BY <2>1, <3>2 DEF Party!EntriesOf, Party!WellFormed
    <3> QED BY <1>1, <2>1, <3>1, <3>2
  <2> QED BY <2>1 DEF Party!OneTicketPerRunner, Sold
<1>5. Party!OnlyAdmitted'
  BY <1>1, <1>2 DEF Party!OnlyAdmitted, Party!EntriesOf, PromiseInv, Sold
<1> QED BY <1>2, <1>3, <1>4, <1>5 DEF PromiseInv, Party!Safe

\* Dropping a ticket leaves room.
LEMMA PromiseGivesBack ==
    ASSUME Party!WellFormed, PromiseInv, NEW e \in Entries, Party!GiveBack(e)
    PROVE  PromiseInv'
<1>1. Sold' = Sold \ {e} /\ order' = order
  BY DEF Party!GiveBack, Sold
<1>2. IsFiniteSet(Sold)
  BY FS_Subset, SameFinite DEF Party!WellFormed, PromiseInv, Party!Safe, Party!TicketsFit, Sold
<1>3. Cardinality(Sold') \in Nat /\ Cardinality(Sold') <= Cardinality(Sold)
  BY <1>1, <1>2, FS_Subset, FS_CardinalityType
<1>4. Cardinality(Sold) \in Nat
  BY <1>2, FS_CardinalityType
<1>5. Party!TicketsFit'
  BY <1>1, <1>3, <1>4, SameCount DEF PromiseInv, Party!Safe, Party!TicketsFit, Party!WellFormed,
                                     Sold
<1> QED BY <1>1, <1>5 DEF PromiseInv, Party!Safe, Party!OneTicketPerRunner, Party!OnlyAdmitted, Sold

\* PartyAdmission admits no runner twice, sells no place twice, and admits whole parties only: what
\* the group checkout inherits as its refinement (booking_payment_confirm, 20261016110000:107).
THEOREM PartiesSafe == ASSUME Party!WellFormed PROVE Party!Spec => []Party!Safe
<1>1. Party!Init => PromiseInv
  BY FS_EmptySet, SameCount DEF Party!WellFormed, Party!Init, PromiseInv, Party!Safe,
                                Party!OneTicketPerRunner, Party!TicketsFit, Party!OnlyAdmitted, Sold
<1>2. PromiseInv /\ [Party!Next]_Party!vars => PromiseInv'
  <2> SUFFICES ASSUME PromiseInv, [Party!Next]_Party!vars PROVE PromiseInv'
    OBVIOUS
  <2>1. CASE \E o \in Orders : Party!Hold(o)
    <3>1. PICK o \in Orders : Party!Hold(o)
      BY <2>1
    <3> QED BY <3>1, PromiseMoves DEF Party!Hold, Party!Move, PromiseInv, Party!Safe,
                                      Party!OneTicketPerRunner, Party!TicketsFit, Party!OnlyAdmitted, Sold
  <2>2. CASE \E o \in Orders : Party!Admit(o)
    BY <2>2, PromiseAdmits
  <2>3. CASE \E o \in Orders : Party!Release(o)
    <3>1. PICK o \in Orders : Party!Release(o)
      BY <2>3
    <3>2. order[o] # "paid" /\ Sold' = Sold
          /\ \E to \in {"expired", "cancelled"} : order' = [order EXCEPT ![o] = to]
      BY <3>1 DEF Party!Release, Party!Move, Sold
    <3> QED BY <3>2, PromiseMoves DEF PromiseInv, Party!Safe, Party!OneTicketPerRunner,
                                      Party!TicketsFit, Party!OnlyAdmitted, Sold
  <2>4. CASE \E o \in Orders : Party!Review(o)
    <3>1. PICK o \in Orders : Party!Review(o)
      BY <2>4
    <3> QED BY <3>1, PromiseMoves DEF Party!Review, Party!Move, PromiseInv, Party!Safe,
                                      Party!OneTicketPerRunner, Party!TicketsFit, Party!OnlyAdmitted, Sold
  <2>5. CASE \E e \in Entries : Party!GiveBack(e)
    BY <2>5, PromiseGivesBack
  <2>6. CASE UNCHANGED Party!vars
    BY <2>6 DEF Party!vars, PromiseInv, Party!Safe, Party!OneTicketPerRunner, Party!TicketsFit,
                Party!OnlyAdmitted, Sold
  <2> QED BY <2>1, <2>2, <2>3, <2>4, <2>5, <2>6 DEF Party!Next
<1>3. PromiseInv => Party!Safe
  BY DEF PromiseInv
<1> QED BY <1>1, <1>2, <1>3, PTL DEF Party!Spec

\* Through reservations, lost answers, captures in any order and expiry runs, no runner holds two
\* tickets of an event, no category is oversold and nobody outside an admitted party has a ticket
\* (booking_payment_confirm).
THEOREM GroupPartiesSafe == Spec => []Party!Safe
<1>1. Party!WellFormed
  BY GroupAssumption, SameFinite DEF Party!WellFormed
<1> QED BY <1>1, PartiesSafe, GroupAdmitsParties, PTL DEF AdmitsParties
=============================================================================
