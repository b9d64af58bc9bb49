------------------------------- MODULE Verdict -------------------------------
(***************************************************************************)
(* What a caller may conclude from the answer about a program it had run:  *)
(* the promise of core_validation.rs, of the readers of system utilities   *)
(* and of the administrator's shell, without threads, pipes or polling.    *)
(* BoundedRun is shown to implement it.                                    *)
(***************************************************************************)

VARIABLES
  program,   \* absent, running, succeeded, failed or killed
  output,    \* what is known of its output: open, whole or excessive
  time,      \* within the deadline or over it
  verdict    \* none until the call has answered

vars == <<program, output, time, verdict>>

Init ==
  /\ program \in {"absent", "running"}
  /\ output \in {"open", "whole"}   \* a program whose output nobody wants has none
  /\ time \in {"within", "over"}
  /\ verdict = "none"

Started ==
  /\ program = "absent" /\ verdict = "none"
  /\ program' = "running"
  /\ UNCHANGED <<output, time, verdict>>

Exited ==
  /\ program = "running"
  /\ program' \in {"succeeded", "failed"}
  /\ UNCHANGED <<output, time, verdict>>

\* An excess is final, and so is an end of the output.
Read ==
  /\ output = "open"
  /\ output' \in {"whole", "excessive"}
  /\ UNCHANGED <<program, time, verdict>>

Over ==
  /\ time' = "over"
  /\ UNCHANGED <<program, output, verdict>>

\* The answers the facts justify.
Justified ==
  {v \in {"valid", "invalid", "limit", "timeout", "unavailable"} :
     /\ v = "valid" => program = "succeeded" /\ output = "whole"
     /\ v = "invalid" => program = "failed"
     /\ v = "limit" => output = "excessive"
     /\ v = "timeout" => time = "over"
     /\ v = "unavailable" => program = "absent"}

\* Whatever has not ended by itself is killed with the answer.
Answer ==
  /\ verdict = "none"
  /\ verdict' \in Justified
  /\ program' = IF program = "running" THEN "killed" ELSE program
  /\ UNCHANGED <<output, time>>

Next == Started \/ Exited \/ Read \/ Over \/ Answer

Spec == Init /\ [][Next]_vars

==============================================================================
