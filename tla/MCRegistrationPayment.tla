----------------------- MODULE MCRegistrationPayment -----------------------
(* Instances of RegistrationPayment for TLC. *)
EXTENDS RegistrationPayment, TLC

CONSTANTS runner1, runner2,
          first \* a registration

\* Every registration is of the same runner.
SameRunner == [r \in Regs |-> runner1]

\* Sessions, captures and workers are interchangeable.
Symmetry == Permutations(Sessions) \cup Permutations(Captures) \cup Permutations(Workers)

AtMostOne(S) == \A x, y \in S : x = y

\* One entry, whose event is open while it has two captures; or two of the runner, with one call,
\* one session and one capture.
Scenarios ==
    LET oneCapture == AtMostOne({p \in Captures : charge[p] # None}) IN
    \/ /\ \A r \in Regs \ {first} : checkout[r] = NoCheckout
       /\ eventOpen \/ oneCapture
    \/ /\ AtMostOne({w \in Workers : job[w] # NoJob})
       /\ AtMostOne({s \in Sessions : sess[s].owner # None})
       /\ oneCapture
=============================================================================
