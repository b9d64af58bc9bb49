----------------------------- MODULE BoundedRun -----------------------------
(***************************************************************************)
(* Running another program under a deadline, in the four forms the code    *)
(* has: "validation" of a core profile (src/core_validation.rs, standard   *)
(* output and error, each with a reader thread), a "command" of the proxy  *)
(* diagnostics and of the DNS diagnostics (linux_system_proxy.rs and       *)
(* system_dns.rs, output only), and the administrator's "shell"            *)
(* (privileged_operations.rs, no pipe).  Bytes are counted in chunks.      *)
(* That waiting for an own child fails is left out: it cannot on the       *)
(* systems concerned.                                                      *)
(***************************************************************************)
EXTENDS Naturals, Sequences

CONSTANTS
  Forms,     \* the forms of a run to consider
  PipeSize,  \* chunks a pipe holds before its writer blocks
  Limit,     \* chunks a reader accepts (MAX_OUTPUT, 65536 bytes)
  MaxOutput  \* bound: chunks the program writes to one pipe

ASSUME RunAssumption ==
  /\ Forms \subseteq {"validation", "command", "shell"}
  /\ PipeSize \in Nat \ {0} /\ Limit \in Nat /\ MaxOutput \in Nat

VARIABLES
  form,      \* the form of this run
  child,     \* absent, running, exited (not yet collected) or reaped
  status,    \* how it ended: none, success, failure or killed
  sound,     \* YES: it writes, ends and leaves no heir; NO: it may hang
  heir,      \* whether a process it started keeps the pipes open
  todo,      \* chunks it has still to write to each pipe
  next,      \* pipe it writes to now, and blocks on
  pipe,      \* chunks in each pipe
  reader,    \* each pipe's reader: reading, complete or over (ended)
  got,       \* chunks each reader has collected
  mail,      \* messages of the readers, by pipe
  received,  \* pipes whose whole output the caller has
  expired,   \* whether the deadline has passed
  main,      \* where the caller is
  answer     \* what the call returned

programVars == <<child, status, sound, heir, todo, next>>
readerVars  == <<reader, got>>
callVars    == <<received, main, answer>>
vars == <<form, programVars, pipe, readerVars, mail, expired, callVars>>

Pipes == {"out", "err"}
PipesOf(f) ==
  CASE f = "validation" -> Pipes
    [] f = "command"    -> {"out"}
    [] OTHER            -> {}
Answers == {"none", "valid", "invalid", "limit", "timeout", "unavailable"}

\* Types, and what a pipe or a reader can hold at most (106, 44, 151).
TypeOK ==
  /\ form \in Forms
  /\ child \in {"absent", "running", "exited", "reaped"}
  /\ status \in {"none", "success", "failure", "killed"}
  /\ sound \in {"YES", "NO"} /\ heir \in {"YES", "NO"}
  /\ todo \in [Pipes -> 0..MaxOutput] /\ next \in Pipes
  /\ pipe \in [Pipes -> 0..PipeSize]
  /\ reader \in [Pipes -> {"reading", "complete", "over"}]
  /\ got \in [Pipes -> 0..Limit]
  /\ mail \in Seq(Pipes) /\ received \subseteq Pipes
  /\ expired \in {"YES", "NO"}
  /\ main \in {"start", "drain", "look", "clock", "collect", "stop", "done"}
  /\ answer \in Answers

Init ==
  /\ form \in Forms
  /\ child = "absent" /\ status = "none" /\ heir = "NO"
  /\ sound \in {"YES", "NO"}
  /\ todo \in {t \in [Pipes -> 0..MaxOutput] : \A p \in Pipes \ PipesOf(form) : t[p] = 0}
  /\ next \in Pipes
  /\ pipe = [p \in Pipes |-> 0]
  /\ reader = [p \in Pipes |-> "reading"] /\ got = [p \in Pipes |-> 0]
  /\ mail = <<>> /\ received = {}
  /\ expired = "NO"
  /\ main = "start" /\ answer = "none"

------------------------------------------------------------------------------
(* The program *)

\* It turns to a pipe, in an order of its own.
ChildTurns ==
  /\ child = "running"
  /\ todo[next] = 0
  /\ next' \in {p \in Pipes : todo[p] > 0}
  /\ UNCHANGED <<form, child, status, sound, heir, todo, pipe, readerVars, mail, expired, callVars>>

ChildWrites ==
  /\ child = "running"
  /\ todo[next] > 0 /\ reader[next] = "reading" /\ pipe[next] < PipeSize
  /\ todo' = [todo EXCEPT ![next] = @ - 1]
  /\ pipe' = [pipe EXCEPT ![next] = @ + 1]
  /\ next' \in Pipes
  /\ UNCHANGED <<form, child, status, sound, heir, readerVars, mail, expired, callVars>>

\* A write to a pipe nobody reads any more ends it.
ChildBreaks ==
  /\ child = "running"
  /\ todo[next] > 0 /\ reader[next] # "reading"
  /\ child' = "exited" /\ status' = "failure"
  /\ UNCHANGED <<form, sound, heir, todo, next, pipe, readerVars, mail, expired, callVars>>

ChildEnds ==
  /\ child = "running"
  /\ \A p \in Pipes : todo[p] = 0
  /\ child' = "exited" /\ status' \in {"success", "failure"}
  /\ heir' \in {h \in {"YES", "NO"} : sound = "YES" => h = "NO"}
  /\ UNCHANGED <<form, sound, todo, next, pipe, readerVars, mail, expired, callVars>>

\* It may also fail with output unwritten.
ChildFails ==
  /\ child = "running" /\ sound = "NO"
  /\ child' = "exited" /\ status' = "failure"
  /\ todo' = [p \in Pipes |-> 0]
  /\ UNCHANGED <<form, sound, heir, next, pipe, readerVars, mail, expired, callVars>>

HeirEnds ==
  /\ heir = "YES"
  /\ heir' = "NO"
  /\ UNCHANGED <<form, child, status, sound, todo, next, pipe, readerVars, mail, expired, callVars>>

ChildSteps == ChildTurns \/ ChildWrites \/ ChildBreaks \/ ChildEnds

Tick ==
  /\ expired = "NO"
  /\ expired' = "YES"
  /\ UNCHANGED <<form, programVars, pipe, readerVars, mail, callVars>>

------------------------------------------------------------------------------
(* The reader threads *)

Reading(p) == p \in PipesOf(form) /\ child # "absent" /\ reader[p] = "reading"

\* Mutant: standard error is read when standard output has ended.
ReaderReadsInTurn(p) ==
  /\ Reading(p) /\ pipe[p] > 0
  /\ p = "err" => reader["out"] # "reading"
  /\ pipe' = [pipe EXCEPT ![p] = @ - 1]
  /\ IF got[p] < Limit
     THEN got' = [got EXCEPT ![p] = @ + 1] /\ UNCHANGED <<reader, mail>>
     ELSE /\ reader' = [reader EXCEPT ![p] = "over"] /\ mail' = Append(mail, p)
          /\ UNCHANGED got
  /\ UNCHANGED <<form, programVars, expired, callVars>>

\* Mutant: one chunk more is accepted.
ReaderReadsOneMore(p) ==
  /\ Reading(p) /\ pipe[p] > 0
  /\ pipe' = [pipe EXCEPT ![p] = @ - 1]
  /\ IF got[p] <= Limit
     THEN got' = [got EXCEPT ![p] = @ + 1] /\ UNCHANGED <<reader, mail>>
     ELSE /\ reader' = [reader EXCEPT ![p] = "over"] /\ mail' = Append(mail, p)
          /\ UNCHANGED got
  /\ UNCHANGED <<form, programVars, expired, callVars>>

\* What exceeds the limit ends the reader, and closes the pipe.
ReaderReads(p) ==
  /\ Reading(p) /\ pipe[p] > 0
  /\ pipe' = [pipe EXCEPT ![p] = @ - 1]
  /\ IF got[p] < Limit
     THEN got' = [got EXCEPT ![p] = @ + 1] /\ UNCHANGED <<reader, mail>>
     ELSE /\ reader' = [reader EXCEPT ![p] = "over"] /\ mail' = Append(mail, p)
          /\ UNCHANGED got
  /\ UNCHANGED <<form, programVars, expired, callVars>>

\* The pipe has no writer left.
ReaderEnds(p) ==
  /\ Reading(p) /\ pipe[p] = 0
  /\ child \in {"exited", "reaped"} /\ heir = "NO"
  /\ reader' = [reader EXCEPT ![p] = "complete"]
  /\ mail' = Append(mail, p)
  /\ UNCHANGED <<form, programVars, pipe, got, expired, callVars>>

------------------------------------------------------------------------------
(* The caller *)

Verdict(value) == main' = "done" /\ answer' = value

Collected == child' = IF child = "exited" THEN "reaped" ELSE child

\* kill and wait, and the answer
Killed(value) ==
  /\ child' = "reaped"
  /\ status' = IF child = "running" THEN "killed" ELSE status
  /\ Verdict(value)
  /\ UNCHANGED <<form, sound, heir, todo, next, pipe, readerVars, mail, expired, received>>

\* Paths are checked and the program is started; a command whose diagnosis is
\* already out of time is not.
Start ==
  /\ main = "start"
  /\ \/ Verdict("unavailable") /\ UNCHANGED child
     \/ /\ form = "command" /\ expired = "YES"
        /\ Verdict("timeout") /\ UNCHANGED child
     \/ /\ form = "command" => expired = "NO"
        /\ child' = "running"
        /\ main' = IF form = "validation" THEN "drain" ELSE "look"
        /\ UNCHANGED answer
  /\ UNCHANGED <<form, status, sound, heir, todo, next, pipe, readerVars, mail, expired, received>>

\* Validation takes every message there is before it looks at the program.
Drain ==
  /\ main = "drain"
  /\ IF mail = <<>>
     THEN main' = "look" /\ UNCHANGED <<mail, received>>
     ELSE /\ mail' = Tail(mail)
          /\ IF reader[Head(mail)] = "over"
             THEN main' = "stop" /\ UNCHANGED received
             ELSE received' = received \cup {Head(mail)} /\ UNCHANGED main
  /\ UNCHANGED <<form, programVars, pipe, readerVars, expired, answer>>

\* Mutant: the verdict does not wait for the readers.
LookValidationEarly ==
  /\ main = "look" /\ form = "validation"
  /\ IF child # "running"
     THEN /\ Verdict(IF status = "success" THEN "valid" ELSE "invalid")
     ELSE main' = "clock" /\ UNCHANGED answer
  /\ Collected
  /\ UNCHANGED <<form, status, sound, heir, todo, next, pipe, readerVars, mail, expired, received>>

\* Its verdict needs the end of the program and of both pipes.
LookValidation ==
  /\ main = "look" /\ form = "validation"
  /\ IF child # "running" /\ received = PipesOf(form)
     THEN Verdict(IF status = "success" THEN "valid" ELSE "invalid")
     ELSE main' = "clock" /\ UNCHANGED answer
  /\ Collected
  /\ UNCHANGED <<form, status, sound, heir, todo, next, pipe, readerVars, mail, expired, received>>

\* A command answers a failure at once and then waits for its output.
LookCommand ==
  /\ main = "look" /\ form = "command"
  /\ \/ child = "running" /\ main' = "clock" /\ UNCHANGED answer
     \/ child = "exited" /\ status # "success" /\ Verdict("invalid")
     \/ child = "exited" /\ status = "success" /\ main' = "collect" /\ UNCHANGED answer
  /\ Collected
  /\ UNCHANGED <<form, status, sound, heir, todo, next, pipe, readerVars, mail, expired, received>>

LookShell ==
  /\ main = "look" /\ form = "shell"
  /\ \/ child = "running" /\ main' = "clock" /\ UNCHANGED answer
     \/ child = "exited" /\ Verdict(IF status = "success" THEN "valid" ELSE "invalid")
  /\ Collected
  /\ UNCHANGED <<form, status, sound, heir, todo, next, pipe, readerVars, mail, expired, received>>

\* Mutant: a program that is out of time is left alone.
ClockLeaves ==
  /\ main = "clock"
  /\ IF expired = "YES"
     THEN Verdict("timeout")
     ELSE main' = (IF form = "validation" THEN "drain" ELSE "look") /\ UNCHANGED answer
  /\ UNCHANGED <<form, programVars, pipe, readerVars, mail, expired, received>>

\* The deadline is looked at after the program, which may have ended since.
Clock ==
  /\ main = "clock"
  /\ \/ expired = "YES" /\ Killed("timeout")
     \/ /\ expired = "NO"
        /\ main' = IF form = "validation" THEN "drain" ELSE "look"
        /\ UNCHANGED <<form, programVars, pipe, readerVars, mail, expired, received, answer>>

\* Too much output: validation kills the program.
StopExcess == main = "stop" /\ Killed("limit")

\* The rest of the time is for the reader; heirs of the program may use it up.
Collect ==
  /\ main = "collect"
  /\ \/ /\ mail # <<>>
        /\ mail' = Tail(mail)
        /\ IF reader[Head(mail)] = "over"
           THEN Verdict("limit") /\ UNCHANGED received
           ELSE Verdict("valid") /\ received' = received \cup {Head(mail)}
     \/ /\ mail = <<>> /\ expired = "YES"
        /\ Verdict("timeout") /\ UNCHANGED <<mail, received>>
  /\ UNCHANGED <<form, programVars, pipe, readerVars, expired>>

CallSteps ==
  Start \/ Drain \/ LookValidation \/ LookCommand \/ LookShell \/ Clock \/ StopExcess \/ Collect

Next ==
  \/ CallSteps
  \/ \E p \in Pipes : ReaderReads(p) \/ ReaderEnds(p)
  \/ ChildSteps \/ ChildFails \/ HeirEnds \/ Tick

\* The threads run, and so does a sound program; time need not pass.
Fairness ==
  /\ WF_vars(CallSteps)
  /\ \A p \in Pipes : WF_vars(ReaderReads(p) \/ ReaderEnds(p))
  /\ WF_vars(sound = "YES" /\ ChildSteps)

Spec == Init /\ [][Next]_vars /\ Fairness

------------------------------------------------------------------------------

\* No call returns while the program it started is running or a zombie (147-148).
NoChildLeft == main = "done" => child \in {"absent", "reaped"}

\* Past the deadline every call ends, whatever the program does; before it, a
\* sound program is never stuck on a full pipe and gets its answer (86-110).
RunEnds ==
  /\ expired = "YES" ~> main = "done"
  /\ sound = "YES" ~> (main = "done" \/ expired = "YES")

ProgramNow ==
  IF child \in {"absent", "running"} THEN child
  ELSE CASE status = "killed"  -> "killed"
         [] status = "success" -> "succeeded"
         [] OTHER              -> "failed"

OutputNow ==
  IF \E p \in Pipes : reader[p] = "over" THEN "excessive"
  ELSE IF \A p \in PipesOf(form) : reader[p] = "complete" THEN "whole" ELSE "open"

Promise == INSTANCE Verdict WITH
  program <- ProgramNow, output <- OutputNow,
  time <- IF expired = "YES" THEN "over" ELSE "within", verdict <- answer

\* The run implements what its callers are promised: every answer is justified
\* by the program, its output or the time, and none is ever taken back.
ImplementsVerdict == Promise!Spec

==============================================================================
