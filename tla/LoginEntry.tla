----------------------------- MODULE LoginEntry -----------------------------
(***************************************************************************)
(* Launch at login (src/platform.rs): a value of the Run key and, before   *)
(* 0.5.3, a task of the Task Scheduler on Windows; a desktop entry written *)
(* beside its place and renamed on Linux; a registration with              *)
(* SMAppService on macOS.  Every call that sets it answers with what it    *)
(* then finds.  Calls run on several workers without a lock, and the       *)
(* program may be killed between any two steps.                            *)
(***************************************************************************)
EXTENDS Desktop

VARIABLES
  system,   \* the operating system
  entry,    \* Run value, desktop entry or registration
  task,     \* the legacy task: none, plain or elevated
  temp,     \* Linux: the file to be renamed
  pc,       \* where each caller is
  want,     \* what it was asked for: on or off
  place,    \* Linux: where the file it has open is now
  sure,     \* no other call overlaps it and no query of it has failed (history)
  settled,  \* what the last such call was asked for and answered, wrong if it
            \* answered the opposite, none once anything else happens (history)
  raced     \* two calls have written the temporary file at once, and no call has
            \* since replaced the entry by itself (history)

loginVars == <<system, entry, task, temp, pc, want, place, sure, settled, raced>>

\* The types of the entry and of the calls.
LoginTypeOK ==
  /\ system \in Systems
  /\ entry \in {"absent", "empty", "stale", "current", "approval"}
  /\ task \in {"none", "plain", "elevated"}
  /\ temp \in {"absent", "empty", "current"}
  /\ pc \in [Callers -> {"idle", "query", "plain", "elevated", "write", "open", "fill",
                         "rename", "exists", "remove", "status", "register", "unregister",
                         "get", "get-task"}]
  /\ want \in [Callers -> {"on", "off"}]
  /\ place \in [Callers -> {"nowhere", "temp", "entry"}]
  /\ sure \in [Callers -> {"YES", "NO"}]
  /\ settled \in {"none", "on", "off", "wrong"}
  /\ raced \in {"YES", "NO"}

LoginInit ==
  /\ system \in Systems
  /\ entry \in IF system = "macos" THEN {"absent", "current", "approval"} ELSE {"absent", "stale"}
  /\ task \in IF system = "windows" THEN {"none", "plain", "elevated"} ELSE {"none"}
  /\ temp = "absent"
  /\ pc = [c \in Callers |-> "idle"] /\ want = [c \in Callers |-> "off"]
  /\ place = [c \in Callers |-> "nowhere"]
  /\ sure = [c \in Callers |-> "YES"]
  /\ settled = "none" /\ raced = "NO"

------------------------------------------------------------------------------
(* A call *)

Go(c, target) == pc' = [pc EXCEPT ![c] = target]

Step(c, from, to) == pc[c] = from /\ Go(c, to)

Quiet(c) == \A d \in Callers \ {c} : pc[d] = "idle"

Answers(c, value) ==
  /\ Go(c, "idle")
  /\ settled' = IF sure[c] = "NO" \/ ~Quiet(c) THEN "none"
                ELSE IF value = want[c] THEN value ELSE "wrong"

\* The call throws; what it has done so far stays.
Fails(c) ==
  /\ pc[c] # "idle"
  /\ Go(c, "idle")
  /\ place' = [place EXCEPT ![c] = "nowhere"]
  /\ settled' = "none"
  /\ UNCHANGED <<system, entry, task, temp, want, sure, raced>>

FirstStep(value) ==
  CASE system = "windows" -> IF value = "on" THEN "query" ELSE "remove"
    [] system = "linux"   -> IF value = "on" THEN "open" ELSE "exists"
    [] system = "macos"   -> "status"

\* An invalid identifier, name, path or argument changes nothing.
Call(c, value) ==
  /\ Step(c, "idle", FirstStep(value))
  /\ want' = [want EXCEPT ![c] = value]
  /\ sure' = [d \in Callers |-> IF Quiet(c) THEN "YES" ELSE "NO"]
  /\ settled' = "none"
  /\ UNCHANGED <<system, entry, task, temp, place, raced>>

\* Whether there is a task is asked of schtasks; that it fails to say so counts
\* as no.
QueryTask(c) ==
  /\ pc[c] = "query"
  /\ Go(c, IF task # "none" THEN "plain" ELSE IF want[c] = "on" THEN "write" ELSE "get")
  /\ UNCHANGED <<system, entry, task, temp, want, place, sure, settled, raced>>

QueryMisses(c) ==
  /\ pc[c] = "query" /\ task # "none"
  /\ Go(c, IF want[c] = "on" THEN "write" ELSE "get")
  /\ sure' = [sure EXCEPT ![c] = "NO"]
  /\ UNCHANGED <<system, entry, task, temp, want, place, settled, raced>>

\* Mutant: an elevated task is left where it is.
DeleteTaskPlain(c) ==
  /\ pc[c] = "plain"
  /\ task' = IF task = "plain" THEN "none" ELSE task
  /\ Go(c, IF want[c] = "on" THEN "write" ELSE "get")
  /\ UNCHANGED <<system, entry, temp, want, place, sure, settled, raced>>

\* Without elevation first: that cannot delete an elevated task, nor one that
\* another call has deleted by now.
DeleteTask(c) ==
  /\ pc[c] = "plain"
  /\ \/ /\ task = "plain"
        /\ task' = "none"
        /\ Go(c, IF want[c] = "on" THEN "write" ELSE "get")
     \/ Go(c, "elevated") /\ UNCHANGED task
  /\ UNCHANGED <<system, entry, temp, want, place, sure, settled, raced>>

DeleteTaskElevated(c) ==
  /\ pc[c] = "elevated" /\ task # "none"
  /\ task' = "none"
  /\ Go(c, IF want[c] = "on" THEN "write" ELSE "get")
  /\ UNCHANGED <<system, entry, temp, want, place, sure, settled, raced>>

WriteRunValue(c) ==
  /\ Step(c, "write", "get")
  /\ entry' = "current"
  /\ UNCHANGED <<system, task, temp, want, place, sure, settled, raced>>

\* The Run value is deleted before the task; Linux removes the desktop entry it
\* has just seen, and fails if another call was faster.
RemoveEntry(c) ==
  /\ Step(c, "remove", IF system = "windows" THEN "query" ELSE "get")
  /\ system = "linux" => entry # "absent"
  /\ entry' = "absent"
  /\ place' = [d \in Callers |-> IF place[d] = "entry" THEN "nowhere" ELSE place[d]]
  /\ UNCHANGED <<system, task, temp, want, sure, settled, raced>>

EntryExists(c) ==
  /\ Step(c, "exists", IF entry = "absent" THEN "get" ELSE "remove")
  /\ UNCHANGED <<system, entry, task, temp, want, place, sure, settled, raced>>

\* Another call has the temporary file under way.
Writing(c) == \E d \in Callers \ {c} : pc[d] \in {"fill", "rename"}

\* Mutant: the desktop entry is written in its place.
OpenInPlace(c) ==
  /\ Step(c, "open", "fill")
  /\ entry' = "empty"
  /\ place' = [place EXCEPT ![c] = "entry"]
  /\ raced' = IF Writing(c) THEN "YES" ELSE raced
  /\ UNCHANGED <<system, task, temp, want, sure, settled>>

\* fs::write creates or truncates the temporary file, named by the process and
\* so the same for all its calls, and fills it.
OpenTemporary(c) ==
  /\ Step(c, "open", "fill")
  /\ temp' = "empty"
  /\ place' = [place EXCEPT ![c] = "temp"]
  /\ raced' = IF Writing(c) THEN "YES" ELSE raced
  /\ UNCHANGED <<system, entry, task, want, sure, settled>>

FillTemporary(c) ==
  /\ Step(c, "fill", "rename")
  /\ temp' = IF place[c] = "temp" THEN "current" ELSE temp
  /\ entry' = IF place[c] = "entry" THEN "current" ELSE entry
  /\ UNCHANGED <<system, task, want, place, sure, settled, raced>>

\* The file others have open moves with it.
RenameTemporary(c) ==
  /\ Step(c, "rename", "get")
  /\ temp # "absent"
  /\ entry' = temp /\ temp' = "absent"
  /\ place' = [d \in Callers |-> IF d # c /\ place[d] = "temp" THEN "entry" ELSE "nowhere"]
  /\ raced' = IF temp = "current" /\ ~Writing(c) THEN "NO" ELSE raced
  /\ UNCHANGED <<system, task, want, sure, settled>>

MainAppStatus(c) ==
  /\ pc[c] = "status"
  /\ Go(c, CASE want[c] = "on" /\ entry = "absent"  -> "register"
             [] want[c] = "off" /\ entry # "absent" -> "unregister"
             [] OTHER                               -> "get")
  /\ UNCHANGED <<system, entry, task, temp, want, place, sure, settled, raced>>

\* A registration the user has to approve may also be reported as a failure.
Register(c) ==
  /\ pc[c] = "register"
  /\ entry' \in {"current", "approval"}
  /\ Go(c, "get")
  /\ UNCHANGED <<system, task, temp, want, place, sure, settled, raced>>

RegisterDenied(c) ==
  /\ Step(c, "register", "idle")
  /\ entry' = "approval"
  /\ settled' = "none"
  /\ UNCHANGED <<system, task, temp, want, place, sure, raced>>

Unregister(c) ==
  /\ Step(c, "unregister", "get")
  /\ entry' = "absent"
  /\ UNCHANGED <<system, task, temp, want, place, sure, settled, raced>>

\* The answer: the Run value or the task, the file, or the registration.
GetEntry(c) ==
  /\ pc[c] = "get"
  /\ IF system = "windows" /\ entry = "absent"
     THEN Go(c, "get-task") /\ UNCHANGED settled
     ELSE Answers(c, IF entry = "absent" THEN "off" ELSE "on")
  /\ UNCHANGED <<system, entry, task, temp, want, place, sure, raced>>

GetTask(c) ==
  /\ pc[c] = "get-task"
  /\ Answers(c, IF task = "none" THEN "off" ELSE "on")
  /\ UNCHANGED <<system, entry, task, temp, want, place, sure, raced>>

------------------------------------------------------------------------------

\* The program is killed and started again.
Killed ==
  /\ \E c \in Callers : pc[c] # "idle"
  /\ pc' = [c \in Callers |-> "idle"]
  /\ place' = [c \in Callers |-> "nowhere"]
  /\ sure' = [c \in Callers |-> "YES"]
  /\ settled' = "none"
  /\ UNCHANGED <<system, entry, task, temp, want, raced>>

\* The user approves, revokes or removes the entry in the system's settings.
UserChanges ==
  /\ system = "macos"
  /\ entry' \in {"absent", "current", "approval"} \ {entry}
  /\ sure' = [c \in Callers |-> "NO"]
  /\ settled' = "none"
  /\ UNCHANGED <<system, task, temp, pc, want, place, raced>>

LoginNext ==
  \/ \E c \in Callers :
       \/ \E value \in {"on", "off"} : Call(c, value)
       \/ QueryTask(c) \/ QueryMisses(c) \/ DeleteTask(c) \/ DeleteTaskElevated(c)
       \/ WriteRunValue(c) \/ RemoveEntry(c) \/ EntryExists(c)
       \/ OpenTemporary(c) \/ FillTemporary(c) \/ RenameTemporary(c)
       \/ MainAppStatus(c) \/ Register(c) \/ RegisterDenied(c) \/ Unregister(c)
       \/ GetEntry(c) \/ GetTask(c) \/ Fails(c)
  \/ Killed \/ UserChanges

LoginSpec == LoginInit /\ [][LoginNext]_loginVars

------------------------------------------------------------------------------

\* A call that no other overlapped answers what it was asked for, and it is so:
\* enabled, one way to be started at login and no legacy task that would start
\* the program twice or elevated; disabled, none at all (516-536).
LoginAsAnswered ==
  /\ settled # "wrong"
  /\ settled = "on" => entry \in {"current", "approval"} /\ task = "none"
  /\ settled = "off" => entry = "absent" /\ task = "none"

\* However calls end, are killed, follow or overlap each other, they leave no
\* desktop entry without its content, unless two wrote the temporary file at once
\* (197-200), and then only until the next that writes it by itself.
EntryWhole == entry = "empty" => raced = "YES"

==============================================================================
