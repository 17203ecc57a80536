---------------------------- MODULE PartyAdmission ----------------------------
(***************************************************************************)
(* What a group booking promises: a party is admitted as a whole, by one   *)
(* payment, into places that exist, and no runner is admitted twice.  How  *)
(* the money arrives is GroupOrder's business, which implements this.      *)
(***************************************************************************)
EXTENDS Naturals, FiniteSets

CONSTANTS
    Orders,     \* booking orders
    Entries,    \* registrations of group orders
    OrderOf,    \* the order an entry belongs to
    PassportOf, \* the runner an entry is for
    Capacity    \* places of the category

\* What a booking system may take for granted of its parties.
WellFormed ==
    /\ IsFiniteSet(Entries)
    /\ OrderOf \in [Entries -> Orders]
    /\ \A e, t \in Entries :  \* a request names each passport once
          OrderOf[e] = OrderOf[t] /\ PassportOf[e] = PassportOf[t] => e = t
    /\ Capacity \in Nat

VARIABLES
    party,  \* booking_orders.status
    tickets \* the entries that hold a ticket

vars == <<party, tickets>>

EntriesOf(o) == {e \in Entries : OrderOf[e] = o}

Init ==
    /\ party = [o \in Orders |-> "none"]
    /\ tickets = {}

Move(o, from, to) == party[o] \in from /\ party' = [party EXCEPT ![o] = to]

\* The booker reserves; nobody has a ticket yet.
Hold(o) == Move(o, {"none"}, "pending") /\ UNCHANGED tickets

\* The party is admitted: every entry at once, a place for each, no runner twice.
Admit(o) ==
    /\ Move(o, {"pending", "expired"}, "paid")
    /\ \A e \in EntriesOf(o), t \in tickets : PassportOf[e] # PassportOf[t]
    /\ Cardinality(tickets \cup EntriesOf(o)) <= Capacity
    /\ tickets' = tickets \cup EntriesOf(o)

\* The hold runs out, or the booker gives it up.
Release(o) ==
    /\ Move(o, {"pending"}, "expired") \/ Move(o, {"pending"}, "cancelled")
    /\ UNCHANGED tickets

\* Money arrived that cannot be turned into tickets: a person decides.
Review(o) ==
    /\ Move(o, {"pending", "expired", "cancelled"}, "reconciliation_required")
    /\ UNCHANGED tickets

\* One ticket goes: an organizer takes back what cost nothing, or the runner's own checkout writes
\* over an entry it had read before it was paid.  The order stays paid.
GiveBack(e) == e \in tickets /\ tickets' = tickets \ {e} /\ UNCHANGED party

Next ==
    \/ \E o \in Orders : Hold(o) \/ Admit(o) \/ Release(o) \/ Review(o)
    \/ \E e \in Entries : GiveBack(e)

Spec == Init /\ [][Next]_vars

-----------------------------------------------------------------------------
\* No runner holds two tickets of the event, through however many orders.
OneTicketPerRunner ==
    \A e, t \in tickets : PassportOf[e] = PassportOf[t] => e = t

\* The category is never oversold.
TicketsFit == tickets \subseteq Entries /\ Cardinality(tickets) <= Capacity

\* A ticket exists only in a party that was admitted.
OnlyAdmitted == \A e \in tickets : party[OrderOf[e]] = "paid"

Safe == OneTicketPerRunner /\ TicketsFit /\ OnlyAdmitted
=============================================================================
