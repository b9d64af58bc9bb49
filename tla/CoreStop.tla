------------------------------- MODULE CoreStop -------------------------------
(***************************************************************************)
(* src/core_process.rs: stopping a Mihomo core whose process id may be     *)
(* given to another process at any time.  One process id is modelled, that *)
(* of the identity all calls are given; the processes that hold it in turn *)
(* are numbered, and the identity is that of process 1.                    *)
(***************************************************************************)
EXTENDS Naturals

CONSTANTS
  Callers,      \* worker threads that may be inside stopCoreProcess
  Platforms,    \* operating systems to consider
  MaxProcesses  \* bound: processes that hold the process id in turn

ASSUME CoreAssumption ==
  /\ Platforms \subseteq {"linux", "macos", "windows"}
  /\ MaxProcesses \in Nat \ {0}

VARIABLES
  platform,   \* the operating system
  holder,     \* process that has the process id now, 0 for none
  life,       \* whether that process is alive or exited and not yet reaped
  image,      \* whether it is the user's and runs from the expected path
  created,    \* processes created so far
  pc,         \* where each caller is
  stage,      \* which of the inspections it is in
  seen,       \* process whose first half of an inspection matched
  handle,     \* process its pidfd or handle is bound to, 0 for none
  signal,     \* SIGINT, SIGTERM, SIGKILL as 1, 2, 3
  answer,     \* what it returned: stopped (true), refused (false) or failed
  hits        \* processes that have been sent a signal (history)

tableVars  == <<platform, holder, life, image, created>>
callerVars == <<pc, stage, seen, handle, signal, answer>>
vars == <<tableVars, callerVars, hits>>

Target == 1
Processes == 1..MaxProcesses
None == 0

\* The types of the process table and of the calls; no call gets past the
\* third signal (110-130).
TypeOK ==
  /\ platform \in Platforms
  /\ holder \in {None} \cup Processes
  /\ life \in {"alive", "exited"}
  /\ image \in {"core", "other"}
  /\ created \in Processes
  /\ pc \in [Callers -> {"idle", "first", "second", "open", "bound", "signal", "wait"}]
  /\ stage \in [Callers -> {"entry", "bound", "before", "waiting"}]
  /\ seen \in [Callers -> {None} \cup Processes]
  /\ handle \in [Callers -> {None} \cup Processes]
  /\ signal \in [Callers -> 1..3]
  /\ answer \in [Callers -> {"none", "stopped", "refused", "failed"}]
  /\ hits \subseteq Processes

Init ==
  /\ platform \in Platforms
  /\ holder = Target /\ life = "alive" /\ image = "core" /\ created = Target
  /\ pc = [c \in Callers |-> "idle"] /\ stage = [c \in Callers |-> "entry"]
  /\ seen = [c \in Callers |-> None] /\ handle = [c \in Callers |-> None]
  /\ signal = [c \in Callers |-> 1] /\ answer = [c \in Callers |-> "none"]
  /\ hits = {}

------------------------------------------------------------------------------
(* The process table, and what may happen to it at any time *)

\* The executable is renamed or replaced while it runs.
Move ==
  /\ holder # None /\ image = "core"
  /\ image' = "other"
  /\ UNCHANGED <<platform, holder, life, created>>

Exit ==
  /\ holder # None /\ life = "alive"
  /\ life' = "exited"
  /\ UNCHANGED <<platform, holder, image, created>>

\* Windows keeps a process id as long as a handle to the process is open.
Reap ==
  /\ holder # None /\ life = "exited"
  /\ platform = "windows" => \A c \in Callers : handle[c] # holder
  /\ holder' = None
  /\ UNCHANGED <<platform, life, image, created>>

\* The process id is given out again.
Reuse ==
  /\ holder = None /\ created < MaxProcesses
  /\ created' = created + 1
  /\ holder' = created + 1
  /\ life' = "alive"
  /\ image' \in {"core", "other"}
  /\ UNCHANGED platform

------------------------------------------------------------------------------
(* Steps of a call *)

Go(c, target) == pc' = [pc EXCEPT ![c] = target]

Return(c, value) ==
  /\ Go(c, "idle")
  /\ answer' = [answer EXCEPT ![c] = value]
  /\ handle' = [handle EXCEPT ![c] = None]
  /\ seen' = [seen EXCEPT ![c] = None]
  /\ UNCHANGED <<stage, signal>>

Inspect(c, next) ==
  /\ Go(c, "first")
  /\ stage' = [stage EXCEPT ![c] = next]

\* stop_core_process
Call(c) ==
  /\ pc[c] = "idle"
  /\ Inspect(c, "entry")
  /\ signal' = [signal EXCEPT ![c] = 1]
  /\ answer' = [answer EXCEPT ![c] = "none"]
  /\ UNCHANGED <<seen, handle>>

\* The inspection has found the process of the identity.
Confirmed(c) ==
  \/ /\ stage[c] = "entry" /\ platform # "macos"
     /\ Go(c, "open") /\ UNCHANGED stage
  \/ /\ stage[c] = "entry" /\ platform = "macos"
     /\ Inspect(c, "before")
  \/ /\ stage[c] \in {"bound", "before"}
     /\ Go(c, "signal") /\ UNCHANGED stage
  \/ /\ stage[c] = "waiting"
     /\ Go(c, "wait") /\ UNCHANGED stage

\* It has found another process or none.
Mismatch(c) ==
  Return(c, IF stage[c] \in {"entry", "bound"} THEN "refused" ELSE "stopped")

\* First half of an inspection: owner and path on Linux, owner and creation
\* time on macOS.  Windows inspects through a handle, in one piece.
InspectFirst(c) ==
  /\ pc[c] = "first"
  /\ \/ Return(c, "failed")
     \/ /\ \/ holder = None \/ life = "exited" \/ image = "other"
           \/ platform = "windows" /\ holder # Target
        /\ Mismatch(c)
     \/ /\ holder # None /\ life = "alive"
        /\ IF platform = "windows"
           THEN holder = Target /\ image = "core" /\ Confirmed(c) /\ UNCHANGED seen
           ELSE /\ Go(c, "second") /\ UNCHANGED stage
                /\ seen' = [seen EXCEPT ![c] =
                     IF platform = "macos" \/ image = "core" THEN holder ELSE None]
        /\ UNCHANGED <<handle, signal, answer>>

\* Second half: creation time on Linux, path on macOS.  By now another process
\* may answer; one that is gone is an error.
Matches(c) ==
  IF platform = "linux" THEN seen[c] # None /\ holder = Target
                        ELSE seen[c] = Target /\ image = "core"

InspectSecond(c) ==
  /\ pc[c] = "second"
  /\ \/ Return(c, "failed")
     \/ /\ holder # None
        /\ platform = "macos" => life = "alive"
        /\ \/ Matches(c) /\ Confirmed(c) /\ UNCHANGED <<seen, handle, signal, answer>>
           \/ ~Matches(c) /\ Mismatch(c)

\* Mutant: the signal follows the handle without a second inspection.
OpenHandleTrusting(c) ==
  /\ pc[c] = "open" /\ holder # None
  /\ handle' = [handle EXCEPT ![c] = holder]
  /\ Go(c, "signal")
  /\ UNCHANGED <<stage, seen, signal, answer>>

\* pidfd_open and OpenProcess
OpenHandle(c) ==
  /\ pc[c] = "open"
  /\ \/ holder = None /\ Return(c, "failed")
     \/ /\ holder # None
        /\ handle' = [handle EXCEPT ![c] = holder]
        /\ IF platform = "linux" THEN Inspect(c, "bound")
                                 ELSE Go(c, "bound") /\ UNCHANGED stage
        /\ UNCHANGED <<seen, signal, answer>>

\* Windows reads the identity through the handle it will use.
CheckHandle(c) ==
  /\ pc[c] = "bound"
  /\ \/ /\ handle[c] = Target /\ image = "core"
        /\ Go(c, "signal")
        /\ UNCHANGED <<stage, seen, handle, signal, answer>>
     \/ /\ handle[c] # Target \/ image = "other"
        /\ Return(c, "refused")

\* What a signal of this call reaches: its handle, or on macOS the process id.
Addressee(c) == IF platform = "macos" THEN holder ELSE handle[c]

Waiting(c) ==
  /\ IF platform = "macos" THEN Inspect(c, "waiting") ELSE Go(c, "wait") /\ UNCHANGED stage
  /\ UNCHANGED <<seen, handle, signal, answer>>

SendSignal(c) ==
  /\ pc[c] = "signal"
  /\ \/ /\ platform # "windows"                       \* ESRCH
        /\ holder = None \/ Addressee(c) # holder
        /\ Return(c, "stopped")
        /\ UNCHANGED hits
     \/ /\ platform = "windows" /\ life = "exited"    \* nothing to terminate
        /\ Return(c, "failed")
        /\ UNCHANGED hits
     \/ /\ platform = "macos" /\ holder # None /\ image = "other"   \* EPERM
        /\ Return(c, "failed")
        /\ UNCHANGED hits
     \/ /\ holder # None /\ Addressee(c) = holder
        /\ platform = "windows" => life = "alive"
        /\ hits' = hits \cup {holder}
        /\ Waiting(c)

\* Mutant: the last signal is followed by another one.
TimedOutAgain(c) ==
  /\ signal' = [signal EXCEPT ![c] = signal[c] + 1]
  /\ IF platform = "macos" THEN Inspect(c, "before")
                           ELSE Go(c, "signal") /\ UNCHANGED stage
  /\ UNCHANGED <<seen, handle, answer>>

\* Mutant: the wait counts as an exit.
TimedOutStopped(c) == Return(c, "stopped")

\* The deadline has passed: the next signal, or give up.
TimedOut(c) ==
  IF signal[c] = 3 \/ platform = "windows"
  THEN Return(c, "failed")
  ELSE /\ signal' = [signal EXCEPT ![c] = signal[c] + 1]
       /\ IF platform = "macos" THEN Inspect(c, "before")
                                ELSE Go(c, "signal") /\ UNCHANGED stage
       /\ UNCHANGED <<seen, handle, answer>>

\* poll and WaitForSingleObject see the exit; macOS inspects every 50 ms.
Wait(c) ==
  /\ pc[c] = "wait"
  /\ \/ /\ platform # "macos"
        /\ handle[c] # holder \/ life = "exited"
        /\ Return(c, "stopped")
     \/ /\ platform # "macos" => handle[c] = holder /\ life = "alive"
        /\ TimedOut(c)
     \/ /\ platform = "macos"
        /\ Inspect(c, "waiting")
        /\ UNCHANGED <<seen, handle, signal, answer>>

Step(c) ==
  \/ (Call(c) \/ InspectFirst(c) \/ InspectSecond(c) \/ OpenHandle(c)
        \/ CheckHandle(c) \/ Wait(c)) /\ UNCHANGED hits
  \/ SendSignal(c)

Next ==
  \/ \E c \in Callers : Step(c) /\ UNCHANGED tableVars
  \/ (Move \/ Exit \/ Reap \/ Reuse) /\ UNCHANGED <<callerVars, hits>>

Spec == Init /\ [][Next]_vars

------------------------------------------------------------------------------

\* Where the kernel binds a handle to a process, no process but the one the
\* identity names is ever signalled, whoever gets the process id meanwhile
\* (1-2, 172-173, 304).
OnlyTargetSignalled == platform # "macos" => hits \subseteq {Target}

\* A call that reports success leaves nothing behind that the identity still
\* names: the core has exited or, on macOS, left its path (108-127, 208-211).
StoppedMeansGone ==
  \A c \in Callers : answer[c] = "stopped" =>
     ~(holder = Target /\ life = "alive" /\ (platform = "macos" => image = "core"))

\* What the macOS path does keep: each of the three signals has an inspection of
\* its own that saw the target, no verdict is carried from one to the next, and
\* so a process of a reused id is only ever hit when it took the place of the
\* target after that inspection began (105-118).
SignalsInspected ==
  [][ hits' # hits => \E c \in Callers :
        /\ pc[c] = "signal" /\ pc'[c] # "signal"
        /\ platform = "macos" => stage[c] = "before" /\ seen[c] = Target
        /\ platform # "macos" => handle[c] = Target ]_vars

\* The comment on the macOS path: "never escalate against a reused PID" (106).
NeverAgainstReusedPid == hits \subseteq {Target}

==============================================================================
