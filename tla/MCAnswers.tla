------------------------------- MODULE MCAnswers -------------------------------
(* Whether money is answered, asked of single entries and of refunds in one  *)
(* run: a behaviour is about one of them, and the variables of the other     *)
(* keep their initial values.                                                *)
EXTENDS Naturals, FiniteSets, TLC

CONSTANTS None, Sessions, Captures, Workers,
          late, successor, rival, runner1, runner2,
          request1, request2, refund1, refund2

VARIABLES
    part, \* the entry that may exist beside late, or "refund"
    sOpen, sReg, sLapsed, sPay, sPrep, sAttempt, sSlots, sCheckout, sSess, sCharge, sInbox, sJob,
    fRotated, fPayment, fParked, fReq, fEvent, fRefund, fKeyed, fJob

singleVars == <<sOpen, sReg, sLapsed, sPay, sPrep, sAttempt, sSlots, sCheckout, sSess, sCharge,
                sInbox, sJob>>
refundVars == <<fRotated, fPayment, fParked, fReq, fEvent, fRefund, fKeyed, fJob>>

\* One place, and a late payment that meets a successor of the same runner, or another runner who
\* took the place.
Single == INSTANCE RegistrationPayment
    WITH Regs <- {late, successor, rival}, Passports <- {runner1, runner2},
         PassportOf <- late :> runner1 @@ successor :> runner1 @@ rival :> runner2,
         Capacity <- 1, LateCapture <- FALSE,
         eventOpen <- sOpen, reg <- sReg, lapsed <- sLapsed, pay <- sPay, prep <- sPrep,
         attempt <- sAttempt, slots <- sSlots, checkout <- sCheckout, sess <- sSess,
         charge <- sCharge, inbox <- sInbox, job <- sJob

\* Two requests and two provider refunds of one entry, which may both succeed.
Refund == INSTANCE RefundRequest
    WITH Reqs <- {request1, request2}, Refunds <- {refund1, refund2}, Legacy <- refund1,
         LateSuccess <- TRUE, KeyRotates <- FALSE,
         rotated <- fRotated, payment <- fPayment, parked <- fParked, req <- fReq,
         event <- fEvent, refund <- fRefund, keyed <- fKeyed, job <- fJob

Init ==
    /\ part \in {successor, rival, "refund"}
    /\ Single!Init /\ Refund!Init
    /\ fParked.id = None

\* The entry that can be charged is called late.  Requests and refunds nobody parked are
\* interchangeable: the first is used first.
Next ==
    /\ UNCHANGED part
    /\ \/ /\ part \in {successor, rival} /\ UNCHANGED refundVars /\ Single!Next
          /\ \A r \in {successor, rival} \ {part} : sCheckout'[r] = Single!NoCheckout
          /\ \A s \in Sessions : sSess'[s].owner \in {None, late}
       \/ /\ part = "refund" /\ UNCHANGED singleVars /\ Refund!Next
          /\ (fReq'[request1] = Refund!NoRequest) => (fReq'[request2] = Refund!NoRequest)
          /\ (fRefund'[refund1] = Refund!NoRefund) => (fRefund'[refund2] = Refund!NoRefund)

\* What nobody does in the initial state needs no condition on part.
FairSpec ==
    /\ Init /\ [][Next]_<<part, singleVars, refundVars>>
    /\ Single!Fairness /\ Refund!Fairness

EveryDebitNoticed == Refund!EveryDebitNoticed
=============================================================================
