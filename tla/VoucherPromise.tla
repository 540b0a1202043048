--------------------------- MODULE VoucherPromise ---------------------------
(***************************************************************************)
(* What a referral voucher promises, whatever requests are in flight: it   *)
(* is issued to one customer, and spent at most once, by somebody else, on *)
(* exactly one order that spends no other voucher.  Redemption and order   *)
(* are one step: there is no state in between.                             *)
(***************************************************************************)
CONSTANTS Voucher, Customer, Order, None

VARIABLES
  owner,    \* whose referral a voucher is; None before it is issued
  spender,  \* who spent it; None before
  spent     \* pairs <<voucher, order it was spent on>>

vars == <<owner, spender, spent>>

Init ==
  /\ owner = [v \in Voucher |-> None]
  /\ spender = [v \in Voucher |-> None]
  /\ spent = {}

Issue(v, c) ==
  /\ owner[v] = None
  /\ owner' = [owner EXCEPT ![v] = c]
  /\ UNCHANGED <<spender, spent>>

Spend(v, c, o) ==
  /\ owner[v] \notin {None, c}
  /\ spender[v] = None
  /\ \A p \in spent : p[1] # v /\ p[2] # o
  /\ spender' = [spender EXCEPT ![v] = c]
  /\ spent' = spent \cup {<<v, o>>}
  /\ UNCHANGED owner

Next ==
  \E v \in Voucher, c \in Customer :
    \/ Issue(v, c)
    \/ \E o \in Order : Spend(v, c, o)

Spec == Init /\ [][Next]_vars
=============================================================================
