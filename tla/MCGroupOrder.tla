----------------------------- MODULE MCGroupOrder -----------------------------
(* Instances of GroupOrder for TLC.  A constraint keeps to the scenarios   *)
(* worth their states: one of its disjuncts holds throughout.              *)
EXTENDS GroupOrder, TLC

CONSTANTS pair, rival, other, screened,
          e1, e2, e3, e4, e5, r1, r2, r3, r4, p1, p2, wrong

\* Two runners together, one of them alone, and two others.
PartyOrders == e1 :> pair @@ e2 :> pair @@ e3 :> rival @@ e4 :> other @@ e5 :> other
PartyRunners == e1 :> r1 @@ e2 :> r2 @@ e3 :> r1 @@ e4 :> r3 @@ e5 :> r4

\* Two runners together; two runners who were screened.
TwoOrders == e1 :> pair @@ e2 :> pair @@ e4 :> screened @@ e5 :> screened
FourRunners == e1 :> r1 @@ e2 :> r2 @@ e4 :> r3 @@ e5 :> r4

\* The screened runners.
ScreenedOrders == e4 :> screened @@ e5 :> screened
ScreenedRunners == e4 :> r3 @@ e5 :> r4

FullOnly == {"full"}
AllPrices == {"full", "cut", "free"}

\* Attempts, calls, and the captures of the right amount are interchangeable.
Symmetry == Permutations(Attempts) \cup Permutations(Workers) \cup Permutations(Sound)

InUse(o) == order[o] # "none" \/ lapsed[o]
Late == \E p \in Captures : charge[p] # NoCharge /\ sess[charge[p].att] = "closed"
OneCall == \E w \in Workers : \A v \in Workers \ {w} : job[v] = NoJob
OnceEach == \A p, q \in Captures : OrderPaidBy(p) # None /\ OrderPaidBy(p) = OrderPaidBy(q) => p = q
OneCapture == \A p, q \in Captures : charge[p] # NoCharge /\ charge[q] # NoCharge => p = q

\* Rivals for a runner, or for places in an event that stays open, each paid once; or one order and
\* a payment of a wrong amount.  The runner who also calls for himself is that of e1.
PartyScenarios ==
    /\ \A k \in Checkouts : checkout[k].entry \in {None, e1}
    /\ \/ ~InUse(other) /\ charge[wrong] = NoCharge /\ OnceEach
       \/ ~InUse(rival) /\ charge[wrong] = NoCharge /\ OnceEach /\ eventOpen
       \/ ~InUse(other) /\ ~InUse(rival)

PricesIn(S) == \A e \in Entries : price[e] \in S

\* One call at a time and two payments, or a discount and one payment, for the plain order; one
\* payment, and two calls at once while the provider keeps its word, for the screened one.
OrderScenarios ==
    \/ ~InUse(screened) /\ OneCall /\ PricesIn({"full", "cut"}) /\ (PricesIn({"full"}) \/ OneCapture)
    \/ ~InUse(pair) /\ PricesIn({"full", "free"}) /\ OneCapture /\ (OneCall \/ ~Late)
=============================================================================
