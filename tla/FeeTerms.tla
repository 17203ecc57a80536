------------------------------ MODULE FeeTerms ------------------------------
(***************************************************************************)
(* The money of one paid order, in centavos: what its entries are quoted   *)
(* at, what the provider reports of the capture, and what the ledger rows  *)
(* say.  A single entry is an order of one line.  The terms and the rates  *)
(* are in basis points, and every rounding of the code is kept.            *)
(***************************************************************************)
EXTENDS Integers, FiniteSets, Functions

CONSTANTS
    Lines,      \* line numbers, standing for registration ids in their order
    Bases,      \* entry prices
    Commissions, \* commission terms: [type : {"fixed", "percent"}, value : flat cents or bps]
    Rates,      \* processor rates: [percent_bps : 0..9999, fixed_cents : Nat]
    Charged,    \* what a session whose amount the program sets may yet be captured at
    MinCharge,  \* smallest balance charged, 100 in the program
    None

VARIABLES
    order,   \* the entries and the terms frozen for them
    capture, \* what the provider reports: amount and fee
    state,   \* where the order stands
    ledger   \* the rows of its lines: payments, or booking_payment_allocations

vars == <<order, capture, state, ledger>>

\* unmanaged: a single entry passed on in a session whose amount the provider does not manage.
Modes == {"absorb", "managed", "unmanaged"}
Orders == [lines : (SUBSET Lines) \ {{}}, base : [Lines -> Bases], mode : Modes,
           commission : Commissions, rate : Rates]
Single == Cardinality(order.lines) = 1
PassOn == order.mode # "absorb"
Shares == [gross : Nat, platform : Nat, processor : Nat, net : Nat]

\* The order, the report and the ledger keep their types; no line is settled at a loss.
TypeOK ==
    /\ order \in Orders
    /\ capture = None \/ capture \in [amount : Nat, fee : Nat]
    /\ state \in {"open", "refused", "review", "settled"}
    /\ ledger = None \/ (state = "settled" /\ ledger \in [order.lines -> Shares])

Total(f, S) == SumFunctionOnSet(f, S)
----------------------------------------------------------------------------
(* Quoting. *)

Half(n) == (n + 5000) \div 10000
Up(n, d) == (n + d - 1) \div d
AtMost(n, m) == IF n < m THEN n ELSE m

\* computeFee, feeOn, the commission of booking_payment_prepare: never more than the entry.
Commission(base) ==
    AtMost(IF order.commission.type = "fixed" THEN order.commission.value
           ELSE Half(base * order.commission.value), base)

\* predictProcessorFee
Predicted(amount, rate) ==
    IF amount = 0 THEN 0 ELSE Half(amount * rate.percent_bps) + rate.fixed_cents

\* grossUpCharge
GrossUp(target, rate) ==
    IF target = 0 THEN 0 ELSE Up((target + rate.fixed_cents) * 10000, 10000 - rate.percent_bps)

Platform == [l \in Lines |-> Commission(order.base[l])]
\* gross_cents of a quoted line, before the processor's part.
Payable == [l \in Lines |-> order.base[l] + IF PassOn THEN Platform[l] ELSE 0]
Target == Total(Payable, order.lines)

\* What booking_payment_prepare refuses to quote.
Refused ==
    /\ ~Single
    /\ \/ Target > 0 /\ Target < MinCharge
       \/ ~PassOn /\ Target - Total(Platform, order.lines) - Predicted(Target, order.rate) < 0
----------------------------------------------------------------------------
(* Settling. *)

\* Faulty: the lines are given whole centavos only, the rest is dropped.
RoundsDown(fee, l) == (fee * Payable[l]) \div Target

\* The processor's fee of a line: the quotient by its payable amount, and one of the centavos left
\* over for the largest remainders, ties in the order of the ids (allocateCents).
Share(fee, l) ==
    LET part == [m \in Lines |-> (fee * Payable[m]) \div Target]
        rem == [m \in Lines |-> (fee * Payable[m]) % Target]
        before == {m \in order.lines : rem[m] > rem[l] \/ (rem[m] = rem[l] /\ m < l)}
    IN part[l] + IF Cardinality(before) < fee - Total(part, order.lines) THEN 1 ELSE 0

\* The line that takes what the provider's rounding left above the quote.
TakesExcess(l) ==
    /\ order.mode = "managed" /\ Payable[l] > 0
    /\ \A m \in order.lines : Payable[m] > 0 => l <= m

\* Faulty: the fee a managed checkout charged on top is not credited to the lines that bear it.
QuotedOnly == [l \in order.lines |->
    [gross |-> Payable[l], platform |-> Platform[l], processor |-> Share(capture.fee, l),
     net |-> Payable[l] - Platform[l] - Share(capture.fee, l)]]

\* What a fulfilled capture writes: booking_payment_allocations of a group, the payments row of a
\* single entry, whose amount and fee are the reported ones.
Allocation == [l \in order.lines |->
    LET fee == Share(capture.fee, l)
        excess == capture.amount - capture.fee - Target
        gross == IF Single THEN capture.amount
                 ELSE Payable[l] + (IF PassOn THEN fee ELSE 0) + IF TakesExcess(l) THEN excess ELSE 0
    IN [gross |-> gross, platform |-> Platform[l], processor |-> fee,
        net |-> gross - Platform[l] - fee]]

\* One centavo of rounding is accepted above what a provider-managed checkout promised.
PromiseKept(net) == order.mode = "managed" => net \in {Target, Target + 1}

\* Faulty: a row is written whatever is left of it.
AcceptableAtLoss ==
    /\ PromiseKept(capture.amount - capture.fee)
    /\ order.mode = "absorb" => capture.amount = Target

\* confirm.ts for a single entry, booking_payment_confirm for a group: the amount is the agreed
\* one, and no row leaves the organizer owing, for a group by a constraint of the table.
Acceptable ==
    /\ PromiseKept(capture.amount - capture.fee)
    /\ order.mode = "absorb" => capture.amount = Target
    /\ capture.fee <= capture.amount
    /\ \A l \in order.lines : Allocation[l].net >= 0
----------------------------------------------------------------------------
\* The checkout is quoted, or refused; nothing is charged of a free order.
Quote ==
    /\ state = "open" /\ capture = None /\ Refused
    /\ state' = "refused"
    /\ UNCHANGED <<order, capture, ledger>>

\* What the provider may report at a rate of its own, which it rounds as it likes.  In a managed
\* checkout it picks the amount, to leave from one centavo less to two more than the quote; any
\* other session may be captured at an amount that is not the quoted one.
FeesAt(amount, rate) ==
    {fee + rate.fixed_cents : fee \in {(amount * rate.percent_bps) \div 10000,
                                       Up(amount * rate.percent_bps, 10000)}}
Reports(rate) ==
    IF order.mode = "managed"
    THEN {[amount |-> GrossUp(Target, rate) + 2, fee |-> GrossUp(Target, rate) - Target + off] :
             off \in 0..3}
    ELSE UNION {{[amount |-> amount, fee |-> fee] : fee \in FeesAt(amount, rate)} :
                    amount \in {Target} \cup Charged}

\* The provider charges and reports.
Charge ==
    /\ state = "open" /\ capture = None /\ ~Refused /\ Target > 0
    /\ \E rate \in Rates : capture' \in Reports(rate)
    /\ UNCHANGED <<order, state, ledger>>

\* The capture is entered in the ledger, or parked.
Settle ==
    /\ state = "open" /\ capture # None
    /\ state' = IF Acceptable THEN "settled" ELSE "review"
    /\ ledger' = IF Acceptable THEN Allocation ELSE None
    /\ UNCHANGED <<order, capture>>

Init ==
    /\ order \in {o \in Orders : o.mode = "unmanaged" => Cardinality(o.lines) = 1}
    /\ capture = None /\ state = "open" /\ ledger = None

Next == Quote \/ Charge \/ Settle

Spec == Init /\ [][Next]_vars
----------------------------------------------------------------------------
Column(name) == Total([l \in order.lines |-> ledger[l][name]], order.lines)

\* Whatever was reported, the ledger rows of a capture add up to it: amount, processing fee,
\* commission and organizer net, and each line bears the fee in proportion to what it paid, to the
\* centavo (20261016110000:178-197, groupPricing.ts allocateCents).
LedgerAddsUp == state = "settled" =>
    /\ Column("gross") = capture.amount /\ Column("processor") = capture.fee
    /\ Column("net") = capture.amount - capture.fee - Total(Platform, order.lines)
    /\ \A l \in order.lines :
           LET quota == capture.fee * Payable[l] - ledger[l].processor * Target
           IN -Target < quota /\ quota < Target

\* When the provider manages the charge and leaves what it promised, no rounding of the fee over
\* the lines sends the paid order to review: each line is credited with the share it bears, so
\* the constraint on its net cannot fail (20261016110000:182-197, 20260930053856:782).
ManagedIsFulfilled == order.mode = "managed" =>
    /\ state = "review" => ~PromiseKept(capture.amount - capture.fee)
    /\ state = "settled" => \A l \in order.lines : ledger[l].net >= order.base[l]
=============================================================================
