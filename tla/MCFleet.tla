------------------------------- MODULE MCFleet -------------------------------
(* A small instance of Fleet for TLC. *)
EXTENDS Fleet, TLC

\* Where every vehicle is contested the invariants say nothing, and contested never
\* shrinks: nothing is lost by not going on from there.
SomeUncontested == contested # Vehicle

FleetSymmetry ==
  Permutations(Driver) \cup Permutations(Vehicle) \cup Permutations(Request)
=============================================================================
