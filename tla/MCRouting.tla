------------------------------ MODULE MCRouting ------------------------------
(***************************************************************************)
(* RoutingCoordinator for TLC.  The workers are interchangeable and appear *)
(* in no property by name, so safety is checked up to their permutation.   *)
(***************************************************************************)
EXTENDS RoutingInvariants, TLC

WorkerSymmetry == Permutations(Workers)

\* An envelope written while the core's listener was gone, which is not what is
\* desired in the end.  As long as any failure is possible the two policies of
\* one set of rules behave alike, so it stands for the other as well.
OldEnvelope == [config : Configs, proxy : {NO}]

OldOrNone == OldEnvelope \cup {NoPolicy}

\* The pane's variables are read by no other action, by one invariant, and not
\* by the mapping to the promise, so states that differ in them alone count once
\* where that invariant is not checked.
BesidePane == <<sysVars, flagVars, workVars, coordVars>>

==============================================================================
