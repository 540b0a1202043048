-------------------------- MODULE MCOrderLifecycle --------------------------
(* Small instances of OrderLifecycle for TLC. *)
EXTENDS OrderLifecycle, TLC

CONSTANTS d1, d2

\* d1's profile has both locations, any other driver's a start or none at all.
MCPlacesOf ==
  [d \in Driver |-> IF d = d1 THEN {{"Start", "End"}} ELSE {{"Start"}, {}}]

\* Nothing tells two requests, customers, codes, orders or vouchers apart.
CreateSymmetry ==
  Permutations(Request) \cup Permutations(Customer)
    \cup Permutations(Order) \cup Permutations(Voucher)

LifecycleSymmetry == Permutations(Request) \cup Permutations(Code)
=============================================================================
