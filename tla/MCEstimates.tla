------------------------------ MODULE MCEstimates ------------------------------
(* A small instance of Estimates for TLC. *)
EXTENDS Estimates

\* A hundred rupees up to five kilometres.
MCPrice ==
  {[journey |-> "FourWay", fixDistance |-> 5000, fixPrice |-> 10000, extraPrice |-> 1500]}

\* POST /voucher/calculate: "Calculate final price and taxes when a voucher is applied".
\* The price that the app was shown is what an order with the voucher charges, if the app
\* sends back what it was answered.
VoucherPrice ==
  order # None /\ shown # None /\ order.percent = shown.percent /\ order.sent \in Answered
    => order.final = shown.quote.grand
=============================================================================
