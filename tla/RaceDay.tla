------------------------------- MODULE RaceDay -------------------------------
(***************************************************************************)
(* Race-kit pickup.  A desk reviews an entry's kit, confirms it with a     *)
(* request id of its own, and retries when no answer arrives, while shirts *)
(* are edited, add-ons renamed and refunds claimed and answered.  Every    *)
(* SQL function locks the registration and is one action; a call sent to   *)
(* the kit-release function may be lost, or run after the desk gave up.    *)
(***************************************************************************)
EXTENDS Naturals

CONSTANTS
    Entries,  \* paid registrations of the event
    Grouped,  \* those bought in a group order: their refunds are booking_refund_requests
    Desks,    \* stations at pickup
    Admins,   \* desks run by an organizer admin, who may reverse a release
    Requests, \* request ids, the keys of kit_releases
    Sizes,    \* shirt sizes
    Names,    \* names the add-on of the kit may have
    Tries,    \* submissions of one review
    None

VARIABLES
    entry,    \* registrations: status and shirt size
    addon,    \* addons.name
    refund,   \* the refund of each entry: refund_requests, or a line of booking_refund_requests
    release,  \* kit_releases, and the kit its desk had reviewed
    desk,     \* the review dialog of each station
    calls     \* calls to the kit-release function on their way

vars == <<entry, addon, refund, release, desk, calls>>

Kits == [shirt : Sizes, addon : Names]
NoRelease == [entry |-> None, kit |-> None, reviewed |-> None, reversed |-> FALSE]
NoReview == [entry |-> None, kit |-> None, release |-> None, request |-> None,
             try |-> 0, busy |-> FALSE]
Calls == [entry : Entries, kit : Kits, release : Requests \cup {None}, request : Requests,
          try : 1..Tries]

\* The columns, the dialogs and the calls keep their types.
TypeOK ==
    /\ entry \in [Entries -> [status : {"paid", "refunded"}, shirt : Sizes]]
    /\ addon \in Names
    /\ refund \in [Entries -> {"none", "open", "review", "failed", "succeeded"}]
    /\ release \in [Requests -> {NoRelease} \cup
                        [entry : Entries, kit : Kits, reviewed : Kits, reversed : BOOLEAN]]
    /\ desk \in [Desks -> {NoReview} \cup
                     [entry : Entries, kit : Kits, release : Requests \cup {None},
                      request : Requests, try : 0..Tries, busy : BOOLEAN]]
    /\ calls \subseteq Calls

\* kit_snapshot
Snapshot(e) == [shirt |-> entry[e].shirt, addon |-> addon]

Active(q) == release[q] # NoRelease /\ ~release[q].reversed
ActiveOf(e) == {q \in Requests : Active(q) /\ release[q].entry = e}

\* What kit_release_tx and the roster call a pending refund: refund_requests and the refund noted
\* on the payment, which a group entry has not.
RefundPending(e) == e \notin Grouped /\ refund[e] \in {"open", "review"}
----------------------------------------------------------------------------
(* The entry, as its runner, the organizer and the payment provider change it. *)

\* Faulty: a collected shirt can still be edited.
EditableAnytime(e) == entry[e].status = "paid"

\* A collected kit is reversed before its shirt changes; admins are not bound by the deadline.
Editable(e) == entry[e].status = "paid" /\ ActiveOf(e) = {}

\* update_registration_fields_tx
EditShirt(e) ==
    /\ Editable(e)
    /\ \E size \in Sizes : entry' = [entry EXCEPT ![e].shirt = size]
    /\ UNCHANGED <<addon, refund, release, desk, calls>>

\* The organizer renames an add-on.
RenameAddon ==
    /\ addon' \in Names
    /\ UNCHANGED <<entry, refund, release, desk, calls>>

\* refund_request_claim, booking_refund_claim
ClaimRefund(e) ==
    /\ entry[e].status = "paid" /\ refund[e] \in {"none", "failed"}
    /\ refund' = [refund EXCEPT ![e] = "open"]
    /\ UNCHANGED <<entry, addon, release, desk, calls>>

\* refund_request_apply_event, booking_refund_apply
AnswerRefund(e) ==
    /\ refund[e] = "open"
    /\ \E st \in {"succeeded", "failed", "review"} :
           /\ refund' = [refund EXCEPT ![e] = st]
           /\ entry' = [entry EXCEPT ![e].status = IF st = "succeeded" THEN "refunded" ELSE @]
    /\ UNCHANGED <<addon, release, desk, calls>>
----------------------------------------------------------------------------
(* The kit-release function. *)

\* Faulty: the desk's review is not compared with the kit.
MatchesAnything(e, kit) == TRUE

\* The reviewed kit is still the kit.
Matches(e, kit) == Snapshot(e) = kit

\* Faulty: the lookup of another desk's release is left out.
ReleasedByRequest(e, q) == Active(q)

\* The release of this request, or the active one of the entry: answered "already".
Released(e, q) == release[q] # NoRelease \/ ActiveOf(e) # {}

\* kit_release_tx; the index kit_releases_active backs the lookup under the lock.
ReleaseKit(c) ==
    /\ ~Released(c.entry, c.request)
    /\ entry[c.entry].status = "paid" /\ ~RefundPending(c.entry)
    /\ Matches(c.entry, c.kit)
    /\ release' = [release EXCEPT ![c.request] =
                      [entry |-> c.entry, kit |-> Snapshot(c.entry), reviewed |-> c.kit,
                       reversed |-> FALSE]]

\* kit_release_reverse_tx: of the release the desk saw, once.
ReverseRelease(c) ==
    /\ Active(c.release)
    /\ release' = [release EXCEPT ![c.release].reversed = TRUE]

Refused(c) ==
    /\ IF c.release # None THEN ~Active(c.release)
       ELSE \/ Released(c.entry, c.request)
            \/ entry[c.entry].status # "paid" \/ RefundPending(c.entry)
            \/ ~Matches(c.entry, c.kit)
    /\ UNCHANGED release

\* Answered "ok", or "already": the release or the reversal is on record.
Answered(c) ==
    \/ release' # release
    \/ c.release # None
    \/ Active(c.request)
    \/ release[c.request] = NoRelease /\ ActiveOf(c.entry) # {}

\* The call runs; its answer reaches a desk that still waits for it, or is lost.
Run(c) ==
    /\ c \in calls
    /\ \/ c.release = None /\ ReleaseKit(c)
       \/ c.release # None /\ ReverseRelease(c)
       \/ Refused(c)
    /\ calls' = calls \ {c}
    /\ \/ UNCHANGED desk
       \/ \E d \in Desks :
              /\ desk[d].busy /\ desk[d].request = c.request /\ desk[d].try = c.try
              /\ desk' = [desk EXCEPT ![d] =
                             IF Answered(c) THEN NoReview ELSE [@ EXCEPT !.busy = FALSE]]
    /\ UNCHANGED <<entry, addon, refund>>

Lose(c) ==
    /\ c \in calls
    /\ calls' = calls \ {c}
    /\ UNCHANGED <<entry, addon, refund, release, desk>>
----------------------------------------------------------------------------
(* The station. *)

\* A request id nobody has sent.
Fresh(q) ==
    /\ release[q] = NoRelease
    /\ \A c \in calls : c.request # q
    /\ \A d \in Desks : desk[d].request # q

\* The dialog opens on a row of the roster: the frozen kit of a release, or the kit of an entry
\* that can be picked up.
Open(d, e) ==
    /\ desk[d] = NoReview
    /\ \E q \in Requests :
           /\ Fresh(q)
           /\ \/ /\ d \in Admins
                 /\ \E r \in ActiveOf(e) :
                        desk' = [desk EXCEPT ![d] = [entry |-> e, kit |-> release[r].kit,
                                    release |-> r, request |-> q, try |-> 0, busy |-> FALSE]]
              \/ /\ ActiveOf(e) = {} /\ entry[e].status = "paid" /\ ~RefundPending(e)
                 /\ desk' = [desk EXCEPT ![d] = [entry |-> e, kit |-> Snapshot(e),
                                release |-> None, request |-> q, try |-> 0, busy |-> FALSE]]
    /\ UNCHANGED <<entry, addon, refund, release, calls>>

\* submit: the same request again after an error.
Submit(d) ==
    /\ desk[d] # NoReview /\ ~desk[d].busy /\ desk[d].try < Tries
    /\ desk' = [desk EXCEPT ![d].busy = TRUE, ![d].try = @ + 1]
    /\ calls' = calls \cup
           {[entry |-> desk[d].entry, kit |-> desk[d].kit, release |-> desk[d].release,
             request |-> desk[d].request, try |-> desk[d].try + 1]}
    /\ UNCHANGED <<entry, addon, refund, release>>

\* "The request did not finish."
GiveUp(d) ==
    /\ desk[d].busy
    /\ desk' = [desk EXCEPT ![d].busy = FALSE]
    /\ UNCHANGED <<entry, addon, refund, release, calls>>

Close(d) ==
    /\ desk[d] # NoReview /\ ~desk[d].busy
    /\ desk' = [desk EXCEPT ![d] = NoReview]
    /\ UNCHANGED <<entry, addon, refund, release, calls>>
----------------------------------------------------------------------------
Init ==
    /\ entry \in [Entries -> [status : {"paid"}, shirt : Sizes]]
    /\ addon \in Names
    /\ refund = [e \in Entries |-> "none"]
    /\ release = [q \in Requests |-> NoRelease]
    /\ desk = [d \in Desks |-> NoReview]
    /\ calls = {}

EntryStep ==
    RenameAddon \/ \E e \in Entries : EditShirt(e) \/ ClaimRefund(e) \/ AnswerRefund(e)

CallStep == \E c \in calls : Run(c) \/ Lose(c)

DeskStep ==
    \E d \in Desks : Submit(d) \/ GiveUp(d) \/ Close(d) \/ \E e \in Entries : Open(d, e)

Next == EntryStep \/ CallStep \/ DeskStep

Spec == Init /\ [][Next]_vars
----------------------------------------------------------------------------
(* Properties. *)

\* A kit that is out is the kit its desk reviewed, with the shirt the entry still has, and it is
\* the only one out for the entry, however many desks, retries and edits raced (kit_release_tx).
KitsMatch ==
    \A q \in Requests : Active(q) =>
        /\ release[q].kit = release[q].reviewed
        /\ release[q].kit.shirt = entry[release[q].entry].shirt
        /\ ActiveOf(release[q].entry) = {q}

\* "Pending, unknown, submitting or review-required refunds block pickup"
\* (docs/specs/race-kit-release.md:7).
PendingRefundBlocksPickup ==
    [][\A q \in Requests : release[q] = NoRelease /\ release'[q] # NoRelease =>
           refund[release'[q].entry] \notin {"open", "review"}]_vars
=============================================================================
