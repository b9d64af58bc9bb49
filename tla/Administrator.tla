---------------------------- MODULE Administrator ----------------------------
(***************************************************************************)
(* Changes to files with the administrator's rights (src/privileges.rs and *)
(* src/privileged_operations.rs, Linux and macOS): the set-user-ID bit of  *)
(* the cores, the permissions of a managed file, the legacy service, the   *)
(* service program.  A job is a list of commands; pkexec or osascript asks *)
(* before a prompt's first command, and a failure ends the job.            *)
(* Calls run on several workers without a lock; a program that is killed   *)
(* leaves what a declined prompt leaves.                                   *)
(***************************************************************************)
EXTENDS Desktop, Sequences

CONSTANT Cores  \* files of the cores, at most eight

Folder == "folder"
Managed == "managed"
Legacy == "legacy"
Service == "service"

ASSUME CoresAssumption == {Folder, Managed, Legacy, Service} \cap Cores = {}

VARIABLES
  adminOS,   \* linux or macos
  files,     \* state of every file
  stand,     \* where each call is
  job,       \* its job, of operation and cores
  commands,  \* commands still to run, the current one first
  rest,      \* files the current command has still to change
  failed,    \* whether it has failed for one of them
  swapped,   \* cores Desktop has replaced half way through a grant (history)
  calm,      \* calls nothing has disturbed since they began (history)
  kept       \* the last job that ended well and nothing has disturbed (history)

adminVars == <<adminOS, files, stand, job, commands, rest, failed, swapped, calm, kept>>

Files == Cores \cup {Folder, Managed, Legacy, Service}
State == [owner : {"user", "root", "nobody"}, setuid : {"YES", "NO"}, usable : {"YES", "NO"}]
Missing == [owner |-> "nobody", setuid |-> "NO", usable |-> "NO"]
Fresh == [owner |-> "user", setuid |-> "NO", usable |-> "YES"]
Spoilt == [owner |-> "root", setuid |-> "NO", usable |-> "NO"]

Job == [operation : {"grant", "revoke", "repair", "cleanup", "service"}, cores : SUBSET Cores]
Jobs == {j \in Job : j.cores = {} <=> j.operation \notin {"grant", "revoke"}}
NoJob == [operation |-> "none", cores |-> {}]

Act == {"chown-root", "set-bit", "clear-bit", "mkdir", "chown-user", "allow", "remove", "run"}
Command == [act : Act, on : SUBSET Files, asks : {"YES", "NO"}]

\* The types of the files and the jobs.
AdminTypeOK ==
  /\ adminOS \in {"linux", "macos"}
  /\ files \in [Files -> State]
  /\ stand \in [Callers -> {"idle", "prompt", "run", "status"}]
  /\ job \in [Callers -> Job \cup {NoJob}]
  /\ commands \in [Callers -> Seq(Command)]
  /\ rest \in [Callers -> SUBSET Files] /\ failed \in [Callers -> {"YES", "NO"}]
  /\ swapped \subseteq Cores /\ calm \subseteq Callers
  /\ kept \in Job \cup {NoJob}

AdminInit ==
  /\ adminOS \in Systems \cap {"linux", "macos"}
  /\ \E folder, managed \in {Fresh, Spoilt, Missing} :
       /\ folder = Missing => managed = Missing
       /\ files = [f \in Files |-> CASE f \in Cores -> Fresh [] f = Folder -> folder
                                     [] f = Managed -> managed [] OTHER -> Spoilt]
  /\ stand = [c \in Callers |-> "idle"] /\ job = [c \in Callers |-> NoJob]
  /\ commands = [c \in Callers |-> <<>>]
  /\ rest = [c \in Callers |-> {}] /\ failed = [c \in Callers |-> "NO"]
  /\ swapped = {} /\ calm = {} /\ kept = NoJob

------------------------------------------------------------------------------

Asked(act, on) == [act |-> act, on |-> on, asks |-> "YES"]
Chained(act, on) == [act |-> act, on |-> on, asks |-> "NO"]

\* Mutant: the bit is set before the owner is.
ScriptSwapped(j) ==
  CASE j.operation = "grant" -> <<Asked("set-bit", j.cores), Chained("chown-root", j.cores)>>
    [] j.operation = "revoke" -> <<Asked("clear-bit", j.cores)>>
    [] j.operation = "repair" ->
         <<Asked("mkdir", {Folder}), Chained("chown-user", {Folder}), Chained("allow", {Folder}),
           Chained("chown-user", {Managed}), Chained("allow", {Managed})>>
    [] j.operation = "cleanup" -> <<Asked("remove", {Legacy})>>
    [] j.operation = "service" -> <<Asked("run", {Service})>>

\* Linux asks for each command of a grant, macOS once.
Script(j) ==
  CASE j.operation = "grant" ->
         <<Asked("chown-root", j.cores),
           IF adminOS = "linux" THEN Asked("set-bit", j.cores) ELSE Chained("set-bit", j.cores)>>
    [] j.operation = "revoke" -> <<Asked("clear-bit", j.cores)>>
    [] j.operation = "repair" ->
         <<Asked("mkdir", {Folder}), Chained("chown-user", {Folder}), Chained("allow", {Folder}),
           Chained("chown-user", {Managed}), Chained("allow", {Managed})>>
    [] j.operation = "cleanup" -> <<Asked("remove", {Legacy})>>
    [] j.operation = "service" -> <<Asked("run", {Service})>>

\* What a command makes of a file that is there; Linux clears the bit with the
\* owner.
Changed(act, state) ==
  CASE act \in {"chown-root", "chown-user"} ->
         [state EXCEPT !.owner = IF act = "chown-root" THEN "root" ELSE "user",
                       !.setuid = IF adminOS = "linux" THEN "NO" ELSE state.setuid]
    [] act = "set-bit"   -> [state EXCEPT !.setuid = "YES"]
    [] act = "clear-bit" -> [state EXCEPT !.setuid = "NO"]
    [] act = "allow"     -> [state EXCEPT !.usable = "YES"]
    [] act = "remove"    -> Missing
    [] OTHER             -> state

------------------------------------------------------------------------------

Touches(j) ==
  CASE j.operation \in {"grant", "revoke"} -> j.cores
    [] j.operation = "repair"              -> {Folder, Managed}
    [] OTHER                               -> {Legacy}

\* Whatever is changed disturbs the calls that work on it.
Disturbs(S) ==
  /\ calm' = {d \in calm : Touches(job[d]) \cap S = {}}
  /\ kept' = IF kept # NoJob /\ Touches(kept) \cap S # {} THEN NoJob ELSE kept

Leaves(c) ==
  /\ stand' = [stand EXCEPT ![c] = "idle"]
  /\ job' = [job EXCEPT ![c] = NoJob]
  /\ commands' = [commands EXCEPT ![c] = <<>>]
  /\ rest' = [rest EXCEPT ![c] = {}] /\ failed' = [failed EXCEPT ![c] = "NO"]

\* Cores that are missing or have another name, paths outside the managed root,
\* owners other than the user and fields out of place are refused before.
Begin(c, j) ==
  /\ stand[c] = "idle"
  /\ \A f \in j.cores : files[f] # Missing
  /\ j.operation = "cleanup" => adminOS = "macos"
  /\ stand' = [stand EXCEPT ![c] = "prompt"]
  /\ job' = [job EXCEPT ![c] = j]
  /\ commands' = [commands EXCEPT ![c] = Script(j)]
  /\ calm' = calm \cup {c}
  /\ UNCHANGED <<adminOS, files, rest, failed, swapped, kept>>

Approve(c) ==
  /\ stand[c] = "prompt"
  /\ stand' = [stand EXCEPT ![c] = "run"]
  /\ rest' = [rest EXCEPT ![c] = Head(commands[c]).on]
  /\ UNCHANGED <<adminOS, files, job, commands, failed, swapped, calm, kept>>

\* The prompt is declined, cannot be shown, or the command ends with an error.
Decline(c) ==
  /\ stand[c] \in {"prompt", "run"}
  /\ Leaves(c)
  /\ UNCHANGED <<adminOS, files, swapped, calm, kept>>

\* One file of a command; that it is missing is an error, but not when a folder
\* is made, a managed file is looked for or a legacy one is removed with -f.
ChangeFile(c, f) ==
  /\ stand[c] = "run" /\ f \in rest[c]
  /\ LET act == Head(commands[c]).act
         there == files[f] # Missing IN
     /\ files' = [files EXCEPT ![f] =
          IF there THEN Changed(act, files[f])
          ELSE IF act = "mkdir" THEN [Spoilt EXCEPT !.usable = "YES"] ELSE Missing]
     /\ failed' = [failed EXCEPT ![c] = IF there \/ f \notin Cores THEN @ ELSE "YES"]
     /\ calm' = IF files' = files THEN calm
                ELSE {d \in calm : d = c \/ f \notin Touches(job[d])}
     /\ kept' = IF files' # files /\ kept # NoJob /\ f \in Touches(kept) THEN NoJob ELSE kept
  /\ rest' = [rest EXCEPT ![c] = @ \ {f}]
  /\ UNCHANGED <<adminOS, stand, job, commands, swapped>>

\* && and the exit status of each prompt.
NextCommand(c) ==
  /\ stand[c] = "run" /\ rest[c] = {}
  /\ \/ failed[c] = "YES" /\ Leaves(c)
     \/ /\ failed[c] = "NO"
        /\ LET left == Tail(commands[c]) IN
           /\ commands' = [commands EXCEPT ![c] = left]
           /\ stand' = [stand EXCEPT ![c] =
                IF left = <<>> THEN "status"
                ELSE IF Head(left).asks = "YES" THEN "prompt" ELSE "run"]
           /\ rest' = [rest EXCEPT ![c] =
                IF left # <<>> /\ Head(left).asks = "NO" THEN Head(left).on ELSE {}]
        /\ UNCHANGED <<job, failed>>
  /\ UNCHANGED <<adminOS, files, swapped, calm, kept>>

\* A grant or a revocation looks at the bits again; the others just return.
Status(c) ==
  /\ stand[c] = "status"
  /\ kept' = IF c \in calm /\ \A f \in job[c].cores : files[f] # Missing THEN job[c] ELSE kept
  /\ Leaves(c)
  /\ UNCHANGED <<adminOS, files, swapped, calm>>

\* A grant has changed the owner of the core and not yet got the bit for all.
Halfway(c, f) ==
  /\ commands[c] # <<>> /\ f \in Head(commands[c]).on
  /\ \/ Head(commands[c]).act = "chown-root" /\ stand[c] = "run" /\ f \notin rest[c]
     \/ Head(commands[c]).act = "set-bit"

\* Desktop installs another version of a core, or takes it away.
ReplaceCore(f) ==
  /\ files' = [files EXCEPT ![f] = IF files[f] = Missing THEN Fresh ELSE Missing]
  /\ swapped' = IF \E c \in Callers : Halfway(c, f) THEN swapped \cup {f} ELSE swapped \ {f}
  /\ Disturbs({f})
  /\ UNCHANGED <<adminOS, stand, job, commands, rest, failed>>

AdminDoes(operations) ==
  \/ \E c \in Callers :
       \/ \E j \in Jobs : j.operation \in operations /\ Begin(c, j)
       \/ Approve(c) \/ Decline(c) \/ NextCommand(c) \/ Status(c)
       \/ \E f \in Files : ChangeFile(c, f)
  \/ \E f \in Cores : ReplaceCore(f)

AdminNext == AdminDoes({"grant", "revoke", "repair", "cleanup", "service"})

AdminSpec == AdminInit /\ [][AdminNext]_adminVars

------------------------------------------------------------------------------

\* A job that ended well has left what it is for, until others change it: cores
\* of root with the bit, cores without it, a folder and file the user can use.
AdminAsAnswered ==
  /\ kept.operation = "grant" =>
       \A f \in kept.cores : files[f].owner = "root" /\ files[f].setuid = "YES"
  /\ kept.operation = "revoke" => \A f \in kept.cores : files[f].setuid = "NO"
  /\ kept.operation = "repair" => files[Folder] = Fresh /\ files[Managed] \in {Fresh, Missing}
  /\ kept.operation = "cleanup" => files[Legacy] = Missing

\* However jobs interleave and fail, and whenever Desktop replaces a core before
\* its owner is changed or after the bit is set, a core has the bit only if root
\* owns it (privileges.rs 102-112).  Between the two the code has nothing to tell
\* the new file by.
SetuidMeansRoot ==
  \A f \in Cores \ swapped : files[f].setuid = "YES" => files[f].owner = "root"

==============================================================================
