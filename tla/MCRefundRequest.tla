--------------------------- MODULE MCRefundRequest ---------------------------
(* Instances of RefundRequest for TLC. *)
EXTENDS RefundRequest, TLC

\* Requests, calls and the refunds nobody parked are interchangeable.
Symmetry == Permutations(Reqs) \cup Permutations(Refunds \ {Legacy}) \cup Permutations(Workers)

\* Two calls at once and two requests, or a change of the API key, but not both.
Scenarios ==
    rotated => /\ \A v, w \in Workers : v # w => NoJob \in {job[v], job[w]}
               /\ \A p, q \in Reqs : p # q => NoRequest \in {req[p], req[q]}
=============================================================================
