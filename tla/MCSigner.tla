------------------------------ MODULE MCSigner ------------------------------
(* Instances of the signing service for TLC; the bounds are in the .cfg files. *)
EXTENDS SignerProperties, TLC

CONSTANTS r1, r2, w1, w2, j1, j2

\* Requests, workers and job ids are interchangeable.
Symmetry ==
    Permutations({r1, r2} \cap Requests) \cup Permutations({w1, w2} \cap Workers)
        \cup Permutations({j1, j2} \cap Jobs)
=============================================================================
