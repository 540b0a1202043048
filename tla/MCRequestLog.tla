---------------------------- MODULE MCRequestLog ----------------------------
(* A small instance of RequestLog for TLC. *)
EXTENDS RequestLog

\* Tokens matter on guarded routes.
MCInit == Init /\ \A r \in Request \ Guarded : req[r].token = "none"

MCSpec == MCInit /\ [][Next]_vars /\ Fairness

=============================================================================
