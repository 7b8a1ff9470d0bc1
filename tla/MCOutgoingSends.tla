-------------------------- MODULE MCOutgoingSends --------------------------
(* Small instances of OutgoingSends for TLC. *)
EXTENDS OutgoingSends, TLC

\* Messages are alike, and so are the handlers of requests.
Symmetry == Permutations(Ids) \cup Permutations(Callers)

=============================================================================
