------------------------------ MODULE MCPlaces ------------------------------
(* Two questions about places, asked of the entries of one category in one *)
(* run: two entries of one runner where there is room for both, and two    *)
(* runners where there is room for one.  A runner who holds one ticket     *)
(* takes one place and a single place is one ticket, so both properties    *)
(* are checked of both.                                                    *)
EXTENDS RegistrationPayment, TLC

CONSTANT runner1

VARIABLE part \* "room" or "rivals"

\* Every registration is of the same runner; each is of its own.
SameRunner == [r \in Regs |-> runner1]
OwnRunner == [r \in Regs |-> r]

Room == INSTANCE RegistrationPayment WITH Capacity <- 2
Rivals == INSTANCE RegistrationPayment WITH Passports <- Regs, PassportOf <- OwnRunner

PlacesInit == part \in {"room", "rivals"} /\ Init

PlacesNext ==
    /\ UNCHANGED part
    /\ \/ part = "room" /\ Room!Next
       \/ part = "rivals" /\ Rivals!Next

PlacesSpec == PlacesInit /\ [][PlacesNext]_<<part, vars>>

\* Sessions, captures, calls and entries are interchangeable.
Symmetry ==
    Permutations(Sessions) \cup Permutations(Captures) \cup Permutations(Workers)
    \cup Permutations(Regs)

\* A checkout is not restarted or repriced: each session is an entry's only one.
OneSessionEach ==
    \A s, t \in Sessions : sess[s].owner # None /\ sess[s].owner = sess[t].owner => s = t
=============================================================================
