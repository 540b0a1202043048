------------------------ MODULE MCContactVerification ------------------------
(* A small instance of ContactVerification for TLC. *)
EXTENDS ContactVerification, TLC

\* One account at a time: what one does cannot be told from what strangers do.
MCInit ==
  Init /\ Cardinality(active) = 1 /\ \A a, b \in Account : contact[a] = contact[b]

MCSpec == MCInit /\ [][Next]_vars

\* Bound: an account that is deleted is left alone.
DeletedKept ==
  /\ \A a \in Account \ active : contact'[a] = contact[a]
  /\ \A r \in Request : req'[r].who \in active \cup {None, req[r].who}

ContactSymmetry == Permutations(Number) \cup Permutations(Request)
=============================================================================
