------------------------------ MODULE MCIdentity ------------------------------
(* Identity for TLC: the callers are interchangeable. *)
EXTENDS Identity, TLC

CallerSymmetry == Permutations(Callers)

==============================================================================
