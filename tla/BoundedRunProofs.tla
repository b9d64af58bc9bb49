--------------------------- MODULE BoundedRunProofs ---------------------------
(***************************************************************************)
(* BoundedRun leaves no child and implements Verdict, for any sizes of the *)
(* pipes, of the output and of the limit.                                  *)
(***************************************************************************)
EXTENDS BoundedRun, TLAPS

\* How the caller, the program and its status go together.
ChildInv ==
  /\ main = "start" => child = "absent"
  /\ main \notin {"start", "done"} => child # "absent"
  /\ main # "done" => answer = "none"
  /\ child \in {"absent", "running"} <=> status = "none"
  /\ status = "killed" => main = "done"
  /\ main = "collect" => form = "command" /\ child = "reaped" /\ status = "success"
  /\ NoChildLeft

\* What the caller knows of the readers is true of them.
ReaderInv ==
  /\ \A p \in Pipes : reader[p] # "reading" => p \in PipesOf(form)
  /\ \A i \in 1..Len(mail) : reader[mail[i]] # "reading"
  /\ \A p \in received : reader[p] = "complete"
  /\ main = "stop" => \E p \in Pipes : reader[p] = "over"

Inv == TypeOK /\ ChildInv /\ ReaderInv

USE RunAssumption

\* Nothing has been started.
LEMMA InitInv == Init => Inv
  BY SMT DEF Init, Inv, TypeOK, ChildInv, ReaderInv, NoChildLeft, Pipes, Answers, RunAssumption

\* The program's steps.
LEMMA ChildInvariant ==
  ASSUME Inv, ChildSteps \/ ChildFails \/ HeirEnds \/ Tick PROVE Inv'
<1> USE DEF Inv, TypeOK, ChildInv, ReaderInv, NoChildLeft, RunAssumption,
            readerVars, callVars, programVars
<1>1. CASE ChildTurns
  BY <1>1, SMT DEF ChildTurns
<1>2. CASE ChildWrites
  BY <1>2, SMT DEF ChildWrites
<1>3. CASE ChildBreaks
  BY <1>3, SMT DEF ChildBreaks
<1>4. CASE ChildEnds
  BY <1>4, SMT DEF ChildEnds
<1>5. CASE ChildFails
  BY <1>5, SMT DEF ChildFails
<1>6. CASE HeirEnds
  BY <1>6, SMT DEF HeirEnds
<1>7. CASE Tick
  BY <1>7, SMT DEF Tick
<1> QED
  BY <1>1, <1>2, <1>3, <1>4, <1>5, <1>6, <1>7 DEF ChildSteps

\* A message more, and the first message and those that are left.
LEMMA AppendLemma ==
  ASSUME NEW s \in Seq(Pipes), NEW p \in Pipes
  PROVE  /\ Append(s, p) \in Seq(Pipes)
         /\ \A i \in 1..Len(Append(s, p)) :
              Append(s, p)[i] = p \/ (i \in 1..Len(s) /\ Append(s, p)[i] = s[i])
  BY SMT DEF Pipes

LEMMA MailLemma ==
  ASSUME Inv, mail # <<>>
  PROVE  /\ Head(mail) \in Pipes /\ reader[Head(mail)] # "reading"
         /\ Tail(mail) \in Seq(Pipes)
         /\ \A i \in 1..Len(Tail(mail)) : reader[Tail(mail)[i]] # "reading"
<1>1. mail \in Seq(Pipes) /\ \A i \in 1..Len(mail) : reader[mail[i]] # "reading"
  BY DEF Inv, TypeOK, ReaderInv
<1>2. Len(mail) \in Nat \ {0} /\ Head(mail) = mail[1] /\ mail[1] \in Pipes
  BY <1>1, SMT DEF Pipes
<1>3. /\ Tail(mail) \in Seq(Pipes) /\ Len(Tail(mail)) = Len(mail) - 1
      /\ \A i \in 1..(Len(mail) - 1) : Tail(mail)[i] = mail[i + 1]
  BY <1>1, SMT DEF Pipes
<1> QED
  BY <1>1, <1>2, <1>3, SMT

\* A reader ends once, with one message.
LEMMA ReaderInvariant ==
  ASSUME Inv, NEW p \in Pipes, ReaderReads(p) \/ ReaderEnds(p) PROVE Inv'
<1> USE DEF Inv
<1>1. ChildInv'
  BY SMT DEF ReaderReads, ReaderEnds, ChildInv, NoChildLeft, callVars, programVars
<1>2. ASSUME UNCHANGED mail, UNCHANGED reader PROVE ReaderInv'
  BY <1>2, SMT DEF ReaderInv, ReaderReads, ReaderEnds, callVars
<1>3. ASSUME mail' = Append(mail, p), NEW r \in {"complete", "over"}, reader' = [reader EXCEPT ![p] = r]
      PROVE  ReaderInv' /\ mail' \in Seq(Pipes) /\ reader' \in [Pipes -> {"reading", "complete", "over"}]
  <2>1. /\ mail \in Seq(Pipes) /\ reader \in [Pipes -> {"reading", "complete", "over"}]
        /\ reader[p] = "reading" /\ p \in PipesOf(form)
        /\ UNCHANGED <<form, received, main>> /\ reader'[p] = r
        /\ \A q \in Pipes : q # p => reader'[q] = reader[q]
    BY <1>3, SMT DEF TypeOK, ReaderReads, ReaderEnds, Reading, callVars
  <2>2. \A i \in 1..Len(mail') : reader'[mail'[i]] # "reading"
    BY <1>3, <2>1, AppendLemma DEF ReaderInv
  <2>3. p \notin received /\ received \subseteq Pipes
    BY <2>1 DEF ReaderInv, TypeOK
  <2> QED
    BY <1>3, <2>1, <2>2, <2>3, AppendLemma DEF ReaderInv
<1>4. pipe' \in [Pipes -> 0..PipeSize] /\ got' \in [Pipes -> 0..Limit]
  <2>1. pipe \in [Pipes -> 0..PipeSize] /\ got \in [Pipes -> 0..Limit]
    BY DEF TypeOK
  <2>2. CASE ReaderEnds(p)
    BY <2>1, <2>2 DEF ReaderEnds
  <2>3. CASE ReaderReads(p)
    <3>1. pipe[p] - 1 \in 0..PipeSize
      BY <2>1, <2>3, RunAssumption, SMT DEF ReaderReads, RunAssumption
    <3>2. got[p] < Limit => got[p] + 1 \in 0..Limit
      BY <2>1, RunAssumption, SMT DEF RunAssumption
    <3> QED
      BY <2>1, <2>3, <3>1, <3>2 DEF ReaderReads
  <2> QED
    BY <2>2, <2>3
<1>5. \/ UNCHANGED mail /\ UNCHANGED reader
      \/ mail' = Append(mail, p) /\ \E r \in {"complete", "over"} : reader' = [reader EXCEPT ![p] = r]
  BY DEF ReaderReads, ReaderEnds
<1>6. UNCHANGED <<form, programVars, expired, callVars>>
  BY DEF ReaderReads, ReaderEnds
<1>7. mail' \in Seq(Pipes) /\ reader' \in [Pipes -> {"reading", "complete", "over"}]
  BY <1>3, <1>5 DEF TypeOK
<1>8. TypeOK'
  BY <1>4, <1>6, <1>7 DEF TypeOK, programVars, callVars
<1> QED
  BY <1>1, <1>2, <1>3, <1>5, <1>8

\* The caller's steps.
LEMMA CallInvariant == ASSUME Inv, CallSteps PROVE Inv'
<1> USE DEF Inv, TypeOK, ChildInv, ReaderInv, NoChildLeft,
            readerVars, callVars, programVars, Verdict, Collected, Answers
<1>1. CASE Start
  BY <1>1, SMT DEF Start
<1>2. CASE Drain
  <2>1. CASE mail = <<>>
    BY <1>2, <2>1, SMT DEF Drain
  <2>2. CASE mail # <<>>
    <3> DEFINE m == Head(mail)
    <3>1. /\ m \in Pipes /\ reader[m] \in {"complete", "over"}
          /\ mail' \in Seq(Pipes) /\ \A i \in 1..Len(mail') : reader[mail'[i]] # "reading"
      BY <1>2, <2>2, MailLemma DEF Drain
    <3>2. /\ main = "drain" /\ UNCHANGED <<form, programVars, pipe, readerVars, expired, answer>>
          /\ IF reader[m] = "over"
             THEN main' = "stop" /\ UNCHANGED received
             ELSE received' = received \cup {m} /\ UNCHANGED main
      BY <1>2, <2>2 DEF Drain
    <3> HIDE DEF m
    <3>3. TypeOK'
      BY <3>1, <3>2
    <3>4. ChildInv'
      BY <3>2
    <3>5. ReaderInv'
      BY <3>1, <3>2
    <3> QED
      BY <3>3, <3>4, <3>5
  <2> QED
    BY <2>1, <2>2
<1>3. CASE LookValidation
  BY <1>3, SMT DEF LookValidation
<1>4. CASE LookCommand
  BY <1>4, SMT DEF LookCommand
<1>5. CASE LookShell
  BY <1>5, SMT DEF LookShell
<1>6. CASE Clock
  <2>1. CASE Killed("timeout")
    BY <1>6, <2>1, SMT DEF Clock, Killed
  <2>2. CASE /\ main' = IF form = "validation" THEN "drain" ELSE "look"
             /\ UNCHANGED <<form, programVars, pipe, readerVars, mail, expired, received, answer>>
    BY <1>6, <2>2, SMT DEF Clock
  <2> QED
    BY <1>6, <2>1, <2>2 DEF Clock
<1>7. CASE StopExcess
  BY <1>7, SMT DEF StopExcess, Killed
<1>8. CASE Collect
  <2>1. CASE mail = <<>>
    BY <1>8, <2>1, SMT DEF Collect
  <2>2. CASE mail # <<>> /\ mail' = Tail(mail)
    <3> DEFINE m == Head(mail)
    <3>1. /\ m \in Pipes /\ reader[m] \in {"complete", "over"}
          /\ mail' \in Seq(Pipes) /\ \A i \in 1..Len(mail') : reader[mail'[i]] # "reading"
      BY <1>8, <2>2, MailLemma DEF Collect
    <3>2. /\ main = "collect" /\ UNCHANGED <<form, programVars, pipe, readerVars, expired>>
          /\ IF reader[m] = "over"
             THEN Verdict("limit") /\ UNCHANGED received
             ELSE Verdict("valid") /\ received' = received \cup {m}
      BY <1>8, <2>2 DEF Collect
    <3> HIDE DEF m
    <3>3. TypeOK'
      BY <3>1, <3>2
    <3>4. ChildInv'
      BY <3>2
    <3>5. ReaderInv'
      BY <3>1, <3>2
    <3> QED
      BY <3>3, <3>4, <3>5
  <2> QED
    BY <1>8, <2>1, <2>2 DEF Collect
<1> QED
  BY <1>1, <1>2, <1>3, <1>4, <1>5, <1>6, <1>7, <1>8 DEF CallSteps

\* The inductive invariant of a bounded run.
THEOREM RunInvariant == Spec => []Inv
<1>1. Inv /\ [Next]_vars => Inv'
  <2>1. ASSUME Inv, UNCHANGED vars PROVE Inv'
    BY <2>1, SMT DEF Inv, TypeOK, ChildInv, ReaderInv, NoChildLeft,
         vars, readerVars, callVars, programVars
  <2> QED
    BY <2>1, ChildInvariant, ReaderInvariant, CallInvariant DEF Next
<1> QED
  BY InitInv, <1>1, PTL DEF Spec

\* Pipes and readers stay within their limits (106, 44, 151).
THEOREM RunTypes == Spec => []TypeOK
<1>1. Inv => TypeOK
  BY DEF Inv
<1> QED
  BY RunInvariant, <1>1, PTL

\* No call returns while the program it started is running or a zombie (147-148).
THEOREM ChildCollected == Spec => []NoChildLeft
<1>1. Inv => NoChildLeft
  BY DEF Inv, ChildInv
<1> QED
  BY RunInvariant, <1>1, PTL

------------------------------------------------------------------------------

\* The run starts where the promise does.
LEMMA PromiseInit == Init => Promise!Init
  BY SMT DEF Init, Promise!Init, ProgramNow, OutputNow, Pipes, PipesOf

\* What a step leaves of the four facts.
LEMMA Same ==
  /\ UNCHANGED <<child, status>> => UNCHANGED ProgramNow
  /\ UNCHANGED <<form, reader>> => UNCHANGED OutputNow
  BY DEF ProgramNow, OutputNow

\* The program and the clock: Exited, Over or nothing.
LEMMA ChildPromise ==
  ASSUME Inv, ChildSteps \/ ChildFails \/ HeirEnds \/ Tick
  PROVE  [Promise!Next]_Promise!vars
<1> USE DEF Promise!vars, readerVars, callVars, programVars
<1>1. CASE ChildTurns \/ ChildWrites \/ HeirEnds
  <2>1. UNCHANGED <<child, status, form, reader, expired, answer>>
        \/ (UNCHANGED <<child, status, form, expired, answer>> /\ UNCHANGED reader)
    BY <1>1 DEF ChildTurns, ChildWrites, HeirEnds
  <2> QED
    BY <2>1, Same
<1>2. CASE ChildBreaks \/ ChildEnds \/ ChildFails
  <2>1. /\ child = "running" /\ child' = "exited" /\ status' \in {"success", "failure"}
        /\ UNCHANGED <<form, reader, expired, answer>>
    BY <1>2, SMT DEF ChildBreaks, ChildEnds, ChildFails
  <2>2. ProgramNow = "running" /\ ProgramNow' \in {"succeeded", "failed"}
    BY <2>1, SMT DEF ProgramNow
  <2> QED
    BY <2>1, <2>2, Same DEF Promise!Next, Promise!Exited
<1>3. CASE Tick
  BY <1>3, Same DEF Tick, Promise!Next, Promise!Over
<1> QED
  BY <1>1, <1>2, <1>3 DEF ChildSteps

\* A reader: Read, or nothing once the output is known to be excessive.
LEMMA ReaderPromise ==
  ASSUME Inv, NEW p \in Pipes, ReaderReads(p) \/ ReaderEnds(p)
  PROVE  [Promise!Next]_Promise!vars
<1>1. UNCHANGED <<child, status, form, expired, answer>> /\ reader[p] = "reading"
      /\ p \in PipesOf(form) /\ reader' \in [Pipes -> {"reading", "complete", "over"}]
      /\ \A q \in Pipes : q # p => reader'[q] = reader[q]
  <2>1. reader \in [Pipes -> {"reading", "complete", "over"}]
    BY DEF Inv, TypeOK
  <2>2. \/ UNCHANGED reader
        \/ \E r \in {"complete", "over"} : reader' = [reader EXCEPT ![p] = r]
    BY DEF ReaderReads, ReaderEnds
  <2>3. UNCHANGED <<child, status, form, expired, answer>> /\ Reading(p)
    BY DEF ReaderReads, ReaderEnds, programVars, callVars
  <2> QED
    BY <2>1, <2>2, <2>3 DEF Reading
<1>2. OutputNow # "whole"
  BY <1>1, SMT DEF OutputNow
<1>3. OutputNow \in {"open", "whole", "excessive"} /\ OutputNow' \in {"open", "whole", "excessive"}
  BY DEF OutputNow
<1>4. OutputNow = "excessive" => OutputNow' = "excessive"
  BY <1>1, SMT DEF OutputNow
<1> QED
  BY <1>1, <1>2, <1>3, <1>4, Same DEF Promise!Next, Promise!Read, Promise!vars

\* An answer is a step of the promise when the facts justify it.
LEMMA AnswerPromise ==
  ASSUME answer = "none", UNCHANGED <<form, reader, expired>>,
         answer' \in {"valid", "invalid", "limit", "timeout", "unavailable"},
         answer' = "valid" => ProgramNow = "succeeded" /\ OutputNow = "whole",
         answer' = "invalid" => ProgramNow = "failed",
         answer' = "limit" => OutputNow = "excessive",
         answer' = "timeout" => expired = "YES",
         answer' = "unavailable" => ProgramNow = "absent",
         ProgramNow' = IF ProgramNow = "running" THEN "killed" ELSE ProgramNow
  PROVE  Promise!Next
  BY Same, SMT DEF Promise!Next, Promise!Answer, Promise!Justified

\* What the readers' messages are worth.
LEMMA OutputFacts ==
  ASSUME Inv
  PROVE  /\ received = PipesOf(form) => OutputNow = "whole"
         /\ (\E p \in Pipes : reader[p] = "over") => OutputNow = "excessive"
         /\ form = "shell" => OutputNow = "whole"
         /\ form = "command" /\ reader["out"] = "complete" => OutputNow = "whole"
  BY SMT DEF Inv, TypeOK, ReaderInv, OutputNow, PipesOf, Pipes

\* How the state of the child shows in the promise.
LEMMA ProgramFacts ==
  ASSUME Inv
  PROVE  /\ child \in {"exited", "reaped"} /\ status = "success" => ProgramNow = "succeeded"
         /\ child \in {"exited", "reaped"} /\ status \notin {"success", "killed"} => ProgramNow = "failed"
         /\ child = "absent" <=> ProgramNow = "absent"
         /\ child = "running" <=> ProgramNow = "running"
         /\ child = "exited" /\ child' = "reaped" /\ status' = status => ProgramNow' = ProgramNow
  BY SMT DEF Inv, TypeOK, ChildInv, ProgramNow

\* The caller: Started, Answer or nothing.
LEMMA CallPromise == ASSUME Inv, CallSteps PROVE [Promise!Next]_Promise!vars
<1> USE DEF Promise!vars, readerVars, callVars, programVars
<1>1. CASE Start
  <2>1. child = "absent" /\ answer = "none" /\ ProgramNow = "absent"
        /\ UNCHANGED <<form, status, reader, expired>>
    BY <1>1, ProgramFacts DEF Start, Inv, ChildInv
  <2>2. CASE child' = child
    <3>1. answer' = "unavailable" \/ (answer' = "timeout" /\ expired = "YES")
      BY <1>1, <2>1, <2>2, SMT DEF Start, Verdict
    <3>2. UNCHANGED ProgramNow
      BY <2>1, <2>2, Same
    <3> QED
      BY <2>1, <3>1, <3>2, AnswerPromise
  <2>3. CASE child' # child
    <3>1. child' = "running" /\ answer' = answer
      BY <1>1, <2>3 DEF Start
    <3>2. ProgramNow' = "running"
      BY <3>1 DEF ProgramNow
    <3> QED
      BY <2>1, <3>1, <3>2, Same DEF Promise!Next, Promise!Started
  <2> QED
    BY <2>2, <2>3
<1>2. CASE Drain
  BY <1>2, Same DEF Drain
<1>3. ASSUME UNCHANGED <<form, reader, expired, status>>, Collected, child # "absent", UNCHANGED answer
      PROVE  UNCHANGED Promise!vars
  BY <1>3, Same, ProgramFacts DEF Collected
<1>4. ASSUME UNCHANGED <<form, reader, expired, status>>, Collected, main # "done",
             child \in {"exited", "reaped"}, NEW value, answer' = value,
             value = IF status = "success" THEN "valid" ELSE "invalid",
             status = "success" => OutputNow = "whole"
      PROVE  Promise!Next
  <2>1. answer = "none" /\ status # "killed"
    BY <1>4 DEF Inv, ChildInv
  <2>2. UNCHANGED ProgramNow
    BY <1>4, Same, ProgramFacts DEF Collected
  <2>3. ProgramNow = IF status = "success" THEN "succeeded" ELSE "failed"
    BY <1>4, <2>1, ProgramFacts
  <2> QED
    BY <1>4, <2>1, <2>2, <2>3, AnswerPromise
<1>5. CASE LookValidation
  <2>1. /\ UNCHANGED <<form, reader, expired, status>> /\ Collected
        /\ main = "look" /\ child # "absent" /\ child \in {"running", "exited", "reaped"}
    BY <1>5 DEF LookValidation, Inv, TypeOK, ChildInv
  <2> QED
    BY <1>3, <1>4, <1>5, <2>1, OutputFacts DEF LookValidation, Verdict
<1>6. CASE LookCommand
  <2>1. /\ UNCHANGED <<form, reader, expired, status>> /\ Collected
        /\ main = "look" /\ child # "absent"
    BY <1>6 DEF LookCommand, Inv, ChildInv
  <2> QED
    BY <1>3, <1>4, <1>6, <2>1 DEF LookCommand, Verdict
<1>7. CASE LookShell
  <2>1. /\ UNCHANGED <<form, reader, expired, status>> /\ Collected
        /\ main = "look" /\ child # "absent"
    BY <1>7 DEF LookShell, Inv, ChildInv
  <2> QED
    BY <1>3, <1>4, <1>7, <2>1, OutputFacts DEF LookShell, Verdict
<1>8. ASSUME NEW value \in {"timeout", "limit"}, Killed(value), main \in {"clock", "stop"},
             value = "timeout" => expired = "YES", value = "limit" => OutputNow = "excessive"
      PROVE  Promise!Next
  <2>1. answer = "none" /\ answer' = value /\ UNCHANGED <<form, reader, expired>>
    BY <1>8 DEF Killed, Verdict, Inv, ChildInv
  <2>2. ProgramNow' = IF ProgramNow = "running" THEN "killed" ELSE ProgramNow
    BY <1>8, SMT DEF Killed, ProgramNow, Inv, TypeOK, ChildInv
  <2> QED
    BY <1>8, <2>1, <2>2, AnswerPromise
<1>9. CASE Clock
  BY <1>8, <1>9, Same DEF Clock
<1>10. CASE StopExcess
  <2>1. OutputNow = "excessive" /\ main = "stop"
    BY <1>10, OutputFacts DEF StopExcess, Inv, ReaderInv
  <2> QED
    BY <1>8, <1>10, <2>1 DEF StopExcess
<1>11. CASE Collect
  <2>1. /\ UNCHANGED <<form, reader, expired, child, status>> /\ answer = "none"
        /\ form = "command" /\ ProgramNow = "succeeded"
    BY <1>11, ProgramFacts DEF Collect, Inv, ChildInv
  <2>2. UNCHANGED ProgramNow
    BY <2>1, Same
  <2>3. CASE mail # <<>>
    <3>1. Head(mail) = "out" /\ reader["out"] \in {"complete", "over"}
      BY <2>1, <2>3, MailLemma, SMT DEF Inv, TypeOK, ReaderInv, Pipes, PipesOf
    <3>2. answer' = IF reader["out"] = "over" THEN "limit" ELSE "valid"
      BY <1>11, <2>3, <3>1 DEF Collect, Verdict
    <3>3. OutputNow = IF reader["out"] = "over" THEN "excessive" ELSE "whole"
      BY <2>1, <3>1, OutputFacts DEF Pipes
    <3> QED
      BY <2>1, <2>2, <3>2, <3>3, AnswerPromise
  <2>4. CASE mail = <<>>
    <3>1. answer' = "timeout" /\ expired = "YES"
      BY <1>11, <2>4 DEF Collect, Verdict
    <3> QED
      BY <2>1, <2>2, <3>1, AnswerPromise
  <2> QED
    BY <2>3, <2>4
<1> QED
  BY <1>1, <1>2, <1>5, <1>6, <1>7, <1>9, <1>10, <1>11 DEF CallSteps

\* The run, with its threads, pipes and polling, implements what its callers are
\* promised: an answer is given once, and the program, its output or the time
\* justify it.
THEOREM KeepsPromise == Spec => ImplementsVerdict
<1>1. Inv /\ [Next]_vars => [Promise!Next]_Promise!vars
  <2>1. ASSUME UNCHANGED vars PROVE UNCHANGED Promise!vars
    BY <2>1, Same DEF vars, Promise!vars, readerVars, callVars, programVars
  <2> QED
    BY <2>1, ChildPromise, ReaderPromise, CallPromise DEF Next
<1> QED
  BY RunInvariant, PromiseInit, <1>1, PTL DEF Spec, ImplementsVerdict, Promise!Spec

==============================================================================
