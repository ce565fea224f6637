----------------------------- MODULE MCMbedTLS -----------------------------
(* Instances of MbedTLS for TLC. *)
EXTENDS MbedTLS, TLC

CONSTANTS c1, c2

\* The connections are interchangeable.
ConnSymmetry == Permutations(Conns)

=============================================================================
