------------------------------ MODULE MCCoreStop ------------------------------
(* CoreStop for TLC: the callers are interchangeable. *)
EXTENDS CoreStop, TLC

CallerSymmetry == Permutations(Callers)

==============================================================================
