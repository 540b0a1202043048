-------------------------------- MODULE Estimates --------------------------------
(***************************************************************************)
(* What a customer is told and what an order charges: the estimate of      *)
(* LocationService with the arrival that DispatchService finds, the price  *)
(* with a voucher that VoucherService calculates, and the amounts that     *)
(* OrderService stores.                                                    *)
(*                                                                         *)
(* Between these calls nothing is kept: the app is to send back, with the  *)
(* order and with the voucher, the estimate that it was answered.  Nobody  *)
(* compares: an order takes the totals of any object, or of none.          *)
(*                                                                         *)
(* Amounts are in paise and distances in metres; the code has rupees and   *)
(* kilometres in floating point and rounds amounts to two decimals, where  *)
(* a tie may fall either way.                                              *)
(***************************************************************************)
EXTENDS Integers, FiniteSets

CONSTANTS
  Driver,    \* drivers with a start location
  Price,     \* rows of sub_service: journey_type, fix_distance, fix_price, extra_price
  Distance,  \* metres of road between breakdown and drop-off; 0 without a drop-off
  Percent,   \* voucher.discount_percent
  Foreign,   \* totals that a body may name though no answer of these calls gave them
  Straight,  \* distances of a driver as the crow flies
  Seconds,   \* durations of a route
  Limit,     \* PROXIMITY_PRE_FILTER_LIMIT
  None       \* no answer, SQL NULL

VARIABLES
  price,     \* the sub-service of the order, as the table has it
  fleet,     \* per driver: available and offering the service, distance as the crow flies,
             \* and the seconds on the road, or None if there is no route
  estimate,  \* the answer to the app: the priced sub-service
  arrival,   \* the same answer: the nearest driver's seconds
  shown,     \* the price with a voucher that the app has been told
  order      \* amounts of the order

vars == <<price, fleet, estimate, arrival, shown, order>>

-----------------------------------------------------------------------------
(* Pricing *)

\* n \div d to the nearest integer: parseFloat(x.toFixed(2)) of an amount.
Rounded(n, d) == (2 * n + d) \div (2 * d)

AtLeastZero(n) == IF n < 0 THEN 0 ELSE n

\* 9 % each.
Gst(amount) == Rounded(amount * 9, 100)

\* final_amount_int, cgst_int, sgst_int and grand_total_int.
Priced(base, amount) ==
  [base |-> base, cgst |-> Gst(amount), sgst |-> Gst(amount),
   grand |-> amount + 2 * Gst(amount)]

\* Mutant of Total: the distance that the fixed price includes is charged, too.
TotalOfAll(p, metres) == p.fixPrice + Rounded(metres * p.extraPrice, 1000)

\* The price before taxes; a three-way journey has no drop-off to be charged for.
Total(p, metres) ==
  LET driven == IF p.journey = "ThreeWay" THEN 0 ELSE metres
      extra == AtLeastZero(driven - p.fixDistance) IN
  p.fixPrice + Rounded(extra * p.extraPrice, 1000)

\* discount_amount, here and in OrderService, is of the price before taxes.
Discount(quote, percent) == Rounded(quote.base * percent, 100)

-----------------------------------------------------------------------------
(* Dispatch *)

Available == {d \in Driver : fleet[d].available}

\* The candidates: as many of the available drivers as the limit admits, the nearest by
\* straight distance; among equals any.
IsNearest(near) ==
  /\ near \subseteq Available
  /\ Cardinality(near) = IF Cardinality(Available) < Limit THEN Cardinality(Available)
                         ELSE Limit
  /\ \A d \in near, e \in Available \ near : fleet[d].linear <= fleet[e].linear

Routed(near) == {d \in near : fleet[d].seconds # None}

\* Mutant of Best: a candidate without a route ends the search.
BestOfRouted(near) ==
  IF near = {} \/ Routed(near) # near THEN None
  ELSE CHOOSE s \in {fleet[d].seconds : d \in near} :
         \A d \in near : s <= fleet[d].seconds

\* The least seconds among the candidates with a route.
Best(near) ==
  IF Routed(near) = {} THEN None
  ELSE CHOOSE s \in {fleet[d].seconds : d \in Routed(near)} :
         \A d \in Routed(near) : s <= fleet[d].seconds

-----------------------------------------------------------------------------
(* Calls *)

\* POST /location/estimate, whose answer replaces what the app had.
GetEstimate(metres, near) ==
  /\ order = None
  /\ IsNearest(near)
  /\ LET total == Total(price, metres) IN estimate' = Priced(total, total)
  /\ arrival' = Best(near)
  /\ shown' = None
  /\ UNCHANGED <<price, fleet, order>>

\* POST /voucher/calculate with the estimate: taxes are taken of what the discount leaves.
\* The answer keeps final_amount_int.
CalculateDiscount(percent) ==
  /\ order = None
  /\ estimate # None
  /\ shown = None
  /\ LET left == AtLeastZero(estimate.base - Discount(estimate, percent)) IN
     shown' = [percent |-> percent, quote |-> Priced(estimate.base, left)]
  /\ UNCHANGED <<price, fleet, estimate, arrival, order>>

\* Mutant of Net: Math.max is left out.
NetUnclamped(quote, discount) == quote.grand - discount

\* Mutant of Net: the discount is subtracted twice.
NetTwice(quote, discount) == AtLeastZero(quote.grand - 2 * discount)

\* final_amount: the discount is subtracted from the total with taxes.
Net(quote, discount) == AtLeastZero(quote.grand - discount)

\* What the app has been answered.
Answered == {estimate, IF shown = None THEN None ELSE shown.quote} \ {None}

\* POST /order without a voucher: the total of the body.  Zero, and that of a body without
\* an estimate, is stored as NULL.
CreateOrder(quote) ==
  /\ order = None
  /\ order' = [discount |-> 0, percent |-> None, sent |-> quote,
               final |-> IF quote.grand = 0 THEN None ELSE quote.grand]
  /\ UNCHANGED <<price, fleet, estimate, arrival, shown>>

\* POST /order with a voucher, whether or not its discount was asked for before.  A body
\* without an estimate counts as one of zeros.
CreateOrderWithVoucher(quote, percent) ==
  /\ order = None
  /\ LET discount == Discount(quote, percent) IN
     order' = [discount |-> discount, percent |-> percent, sent |-> quote,
               final |-> Net(quote, discount)]
  /\ UNCHANGED <<price, fleet, estimate, arrival, shown>>

\* PUT /service/sub-service/:id: the estimates that were answered stay as they are.
SetPrice(p) ==
  /\ price' = p
  /\ UNCHANGED <<fleet, estimate, arrival, shown, order>>

-----------------------------------------------------------------------------

Init ==
  /\ price \in Price
  /\ fleet \in [Driver ->
       [available : BOOLEAN, linear : Straight, seconds : Seconds \cup {None}]]
  /\ estimate = None
  /\ arrival = None
  /\ shown = None
  /\ order = None

Next ==
  \/ \E metres \in Distance, near \in SUBSET Driver : GetEstimate(metres, near)
  \/ \E percent \in Percent : CalculateDiscount(percent)
  \/ \E quote \in Answered \cup Foreign : CreateOrder(quote)
  \/ \E quote \in Answered \cup Foreign, percent \in Percent :
       CreateOrderWithVoucher(quote, percent)
  \/ \E p \in Price : SetPrice(p)

Spec == Init /\ [][Next]_vars

-----------------------------------------------------------------------------
(* Properties *)

Quote == [base : Nat, cgst : Nat, sgst : Nat, grand : Nat]

\* Answers and amounts have their types; nothing that is answered is negative, nor what an
\* order with a voucher charges, whatever totals its body names.
TypeOK ==
  /\ price \in Price
  /\ arrival \in Nat \cup {None}
  /\ estimate \in Quote \cup {None}
  /\ shown = None \/ (shown.quote \in Quote /\ shown.percent \in Percent)
  /\ order = None \/
       /\ order.sent \in Quote \cup Foreign
       /\ order.percent \in Percent \cup {None} /\ order.discount \in Int
       /\ order.final \in IF order.percent = None THEN Int \cup {None} ELSE Nat

\* "extra_km = max(0, actual_km - fix_distance), total_price = fix_price + extra_km * extra
\* price": every estimate is, within half a paisa, the dearer of the fixed price and the
\* line through it, for some price and distance; and its taxes are 18 % within a paisa.
EstimateIsLinear ==
  estimate # None =>
    /\ \E p \in Price, m \in Distance :
         LET line == 1000 * p.fixPrice + (m - p.fixDistance) * p.extraPrice
             due == IF p.journey = "ThreeWay" \/ line < 1000 * p.fixPrice
                    THEN 1000 * p.fixPrice ELSE line IN
         1000 * estimate.base - due \in -500..500
    /\ 100 * (estimate.grand - estimate.base) - 18 * estimate.base \in -100..100

\* An order with what the app was answered charges no more than the estimate, whatever
\* the price is by then, and just that without a voucher or an updated quote.  From what
\* was told with the order's voucher it differs in one of two ways: with the estimate it
\* charges the taxes of the discount, too, and with the updated quote less by a second
\* discount at most.
ChargedAsEstimated ==
  order # None /\ order.sent \in Answered =>
    LET due == IF order.final = None THEN 0 ELSE order.final
        beyond == due - shown.quote.grand
    IN
    /\ due \in 0..estimate.grand
    /\ order.percent = None /\ order.sent = estimate => due = estimate.grand
    /\ shown # None /\ order.percent = shown.percent /\ order.discount <= estimate.base =>
         \/ order.sent = estimate /\ 100 * beyond - 18 * order.discount \in -200..200
         \/ order.sent = shown.quote /\ beyond \in (-order.discount)..0

\* The two phases of the search find the quickest of the nearest: a driver who could be
\* there sooner than the arrival that is told, or at all when none is told, has Limit
\* available drivers that are no farther away.
ArrivalIsQuickest ==
  estimate # None =>
    /\ arrival = None \/ \E d \in Available : fleet[d].seconds = arrival
    /\ \A d \in Available :
         (fleet[d].seconds # None /\ (arrival = None \/ fleet[d].seconds < arrival))
           => Cardinality({e \in Available \ {d} : fleet[e].linear <= fleet[d].linear}) >= Limit
=============================================================================
