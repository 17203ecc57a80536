-------------------------------- MODULE MCDesk --------------------------------
(* The components beside the checkouts of entries, one run for the sum of      *)
(* their reachable states.                                                     *)
EXTENDS Desk, TLC

CONSTANTS
    res1, res2,   \* bookers' requests
    call1, call2, \* reservation-checkout calls
    kit1, kit2,   \* request ids of kit releases, and of refunds of a group
    s1, s2        \* payout statements

SomeCommissions == {[type |-> "fixed", value |-> 4], [type |-> "percent", value |-> 1500]}
SomeRates == {[percent_bps |-> 350, fixed_cents |-> 0], [percent_bps |-> 2230, fixed_cents |-> 2]}
SomeNets == [e \in Members |-> IF e = "e1" THEN 2 ELSE 5]

\* The theorems' assumptions hold of these constants.
ASSUME DeskSetting
----------------------------------------------------------------------------
SomeEntry == [e \in Entries |-> [status |-> "paid", shirt |-> "S"]]
SomeOrder == [lines |-> {1}, base |-> [l \in Lines |-> 0], mode |-> "absorb",
              commission |-> CHOOSE c \in Commissions : TRUE, rate |-> CHOOSE r \in Rates : TRUE]

\* Components that do not move have one first state.
MCInit ==
    /\ part \in Parts
    /\ part # "kit" => entry = SomeEntry /\ addon = "A"
    /\ part # "fees" => order = SomeOrder
    /\ DeskInit

MCSpec == MCInit /\ [][DeskNext]_deskVars

\* Calls, statements and request ids come in interchangeable pairs.  One permutation swaps them
\* all: of the pairs, only that of the part that moves can be told from its first state.
Pairs == {{call1, call2}, {s1, s2}, {kit1, kit2}}
Symmetry ==
    {f \in Permutations(UNION Pairs) :
        \/ \A x \in UNION Pairs : f[x] = x
        \/ \A p \in Pairs : \A x \in p : p = {x, f[x]}}

\* The booker of the second place makes one call at a time, up to its first checkout.
SecondBooker ==
    \/ reservation[res2] = "none"
    \/ /\ \E c \in Checkouts : running[c].pc = "idle"
       /\ hold[res2].gen = 0 /\ res2 \notin due /\ ~hold[res2].request

\* The transactional jobs move, or the ticket deliveries.
Untouched(jobs) ==
    \A j \in jobs : job[j].claims = 0 /\ job[j].delivery = 0 /\ ~moot[j]
OneOutbox == Untouched(Tickets) \/ Untouched(Notices \cup Screenings)
=============================================================================
