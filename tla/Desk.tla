-------------------------------- MODULE Desk --------------------------------
(***************************************************************************)
(* The components beside the checkouts of entries, side by side, each with *)
(* variables of its own: payout statements, race-kit pickup, coming-soon   *)
(* reservations, the e-mail outboxes, the money of an order, the refunds   *)
(* of a group.  part names the one that moves; what holds of it in every   *)
(* behaviour of its own holds here.                                        *)
(***************************************************************************)
EXTENDS PayoutStatement

CONSTANTS
    Entries, GroupEntries, Desks, Admins, Requests, Sizes, Names, Tries,      \* RaceDay
    Reservations, Slots, MaxGeneration, Checkouts, Expirers, Hooks, LateCapture, \* EventReservation
    Notices, Screenings, Receipts, Tickets, LifecycleWorkers, ComingWorkers, TicketWorkers,
    MaxAttempts, MaxClaims, MaxResends,                                       \* EmailOutbox
    Lines, Bases, Commissions, Rates, Charged, MinCharge,                     \* FeeTerms
    Members, Nets, CaptureAmount, RefundFees, MinRefund, GroupRequests, GroupCalls,
    LateSuccess                                                               \* GroupRefund

VARIABLES
    part,
    entry, addon, entryRefund, release, desk, calls,                     \* RaceDay
    reservation, due, hold, history, captures, session, notice, running, \* EventReservation
    job, moot, mail, worker,                                             \* EmailOutbox
    order, charge, standing, rows,                                       \* FeeTerms
    ticket, sold, giveBack, paidBack, refundCall                         \* GroupRefund

kitVars == <<entry, addon, entryRefund, release, desk, calls>>
comingVars == <<reservation, due, hold, history, captures, session, notice, running>>
mailVars == <<job, moot, mail, worker>>
feesVars == <<order, charge, standing, rows>>
backVars == <<ticket, sold, giveBack, paidBack, refundCall>>

deskVars == <<part, vars, kitVars, comingVars, mailVars, feesVars, backVars>>
----------------------------------------------------------------------------
(* The components.  Three of them come with their theorems. *)

Kit == INSTANCE RaceDay WITH Grouped <- GroupEntries, refund <- entryRefund

Coming == INSTANCE EventReservation_proofs WITH
    Calls <- Checkouts, Workers <- Expirers,
    payment <- hold, ledger <- captures, job <- running

Mail == INSTANCE EmailOutbox

Fees == INSTANCE FeeTerms_proofs WITH capture <- charge, state <- standing, ledger <- rows

Back == INSTANCE GroupRefund_proofs WITH
    Entries <- Members, Captured <- CaptureAmount,
    Requests <- GroupRequests, Calls <- GroupCalls,
    reg <- ticket, slots <- sold, request <- giveBack, refund <- paidBack, call <- refundCall
----------------------------------------------------------------------------
\* What the theorems assume of the constants.
KitSetting == Tries \in Nat /\ None \notin Entries \cup Requests
OutboxSetting ==
    /\ MaxClaims \in Nat /\ MaxResends \in Nat
    /\ Tickets \cap Screenings = {}
    /\ None \notin Mail!Jobs \cup Mail!Lease
DeskSetting ==
    KitSetting /\ Coming!Setting /\ OutboxSetting /\ Fees!FeeSetting /\ Back!RefundSetting
----------------------------------------------------------------------------
Parts == {"payout", "kit", "reservation", "mail", "fees", "refunds"}

DeskInit ==
    /\ part \in Parts
    /\ Init /\ Kit!Init /\ Coming!Init /\ Mail!Init /\ Fees!Init /\ Back!Init

\* Only the variables of one component change.
Moves(one) ==
    /\ part = one
    /\ one # "payout" => UNCHANGED vars
    /\ one # "kit" => UNCHANGED kitVars
    /\ one # "reservation" => UNCHANGED comingVars
    /\ one # "mail" => UNCHANGED mailVars
    /\ one # "fees" => UNCHANGED feesVars
    /\ one # "refunds" => UNCHANGED backVars
    /\ UNCHANGED part

DeskNext ==
    \/ Moves("payout") /\ Next
    \/ Moves("kit") /\ Kit!Next
    \/ Moves("reservation") /\ Coming!Next
    \/ Moves("mail") /\ Mail!Next
    \/ Moves("fees") /\ Fees!Next
    \/ Moves("refunds") /\ Back!Next

DeskSpec == DeskInit /\ [][DeskNext]_deskVars
----------------------------------------------------------------------------
\* The component that moves keeps its types, and no single entry is settled at a loss.
DeskTypeOK ==
    /\ part = "payout" => TypeOK
    /\ part = "kit" => Kit!TypeOK
    /\ part = "reservation" => Coming!TypeOK
    /\ part = "mail" => Mail!TypeOK
    /\ part = "fees" => Fees!TypeOK
    /\ part = "refunds" => Back!TypeOK

\* RaceDay: a kit that is out is the reviewed one, the entry's, and the only one.
KitsMatch == Kit!KitsMatch

\* EventReservation: a place paid for or given back is not payable, and no capture is lost.
SettledIsUnpayable == Coming!SettledIsUnpayable
CapturesAreKept == Coming!CapturesAreKept

\* EmailOutbox: one claim at a time, one copy of a delivery, no ticket mail dropped.
OneSender == Mail!OneSender
OneCopy == Mail!OneCopy
TicketsAreSent == Mail!TicketsAreSent

\* FeeTerms: the ledger adds up to what was captured, centavo by centavo.
LedgerAddsUp == Fees!LedgerAddsUp
\* FeeTerms: a managed charge that keeps its promise is never parked for one of its lines.
ManagedIsFulfilled == Fees!ManagedIsFulfilled

\* GroupRefund: no entry's money is given back twice.
EntriesRefundedOnce == Back!EntriesRefundedOnce
=============================================================================
