------------------------------ MODULE MCMacProxy ------------------------------
(* MacProxy for TLC: the callers are interchangeable. *)
EXTENDS MacProxy, TLC

CallerSymmetry == Permutations(Callers)
MCSettings ==
  {[mode |-> "manual", active |-> "NO"], [mode |-> "auto", active |-> "NO"],
   [mode |-> "disabled", active |-> "YES"]}

==============================================================================
