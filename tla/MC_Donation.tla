---------------------------- MODULE MC_Donation ----------------------------
(* Model-checking instance of the donation protocol. *)
EXTENDS Donation, TLC

\* CPUs are interchangeable, and so are borrowers.
Symmetry == Permutations(Cpus) \cup Permutations(Guests)

=============================================================================
