---------------------------- MODULE PortableUpdater ----------------------------
(***************************************************************************)
(* The portable updater of Windows (portable-updater/src/main.rs): it      *)
(* waits for Desktop to exit, has 7za unpack the new version over the old  *)
(* one file by file, and starts the application.  The user may start it    *)
(* meanwhile, Desktop's process id may pass to another process, and any of *)
(* the processes may be killed.                                            *)
(***************************************************************************)

CONSTANT Parts  \* files of the application

VARIABLES
  holder,    \* process that has Desktop's id: desktop, nobody or another
  running,   \* whether the application runs, Desktop or started since
  updater,   \* where the updater is
  waitsFor,  \* process it has opened
  old,       \* files that are not of the new version
  hindered,  \* whether 7za has failed to write one
  loaded     \* what the running application was started from: whole or mixed files

updateVars == <<holder, running, updater, waitsFor, old, hindered, loaded>>

\* The types of the processes and the files.
UpdateTypeOK ==
  /\ holder \in {"desktop", "nobody", "another"}
  /\ running \in {"YES", "NO"}
  /\ updater \in {"none", "open", "wait", "extract", "restart"}
  /\ waitsFor \in {"nobody", "desktop", "another"}
  /\ old \subseteq Parts
  /\ hindered \in {"YES", "NO"} /\ loaded \in {"whole", "mixed"}

UpdateInit ==
  /\ holder = "desktop" /\ running = "YES"
  /\ updater = "none" /\ waitsFor = "nobody"
  /\ old = Parts /\ hindered = "NO" /\ loaded = "whole"

Condition == IF old \in {{}, Parts} THEN "whole" ELSE "mixed"

------------------------------------------------------------------------------
(* Desktop and the user *)

\* Desktop starts the updater with its own id; the archive holds another version.
StartUpdate ==
  /\ holder = "desktop" /\ running = "YES" /\ updater = "none"
  /\ updater' = "open" /\ old' = Parts /\ hindered' = "NO"
  /\ UNCHANGED <<holder, running, waitsFor, loaded>>

DesktopExits ==
  /\ holder = "desktop"
  /\ holder' = "nobody" /\ running' = "NO"
  /\ UNCHANGED <<updater, waitsFor, old, hindered, loaded>>

IdPasses ==
  /\ holder # "desktop"
  /\ holder' = IF holder = "nobody" THEN "another" ELSE "nobody"
  /\ UNCHANGED <<running, updater, waitsFor, old, hindered, loaded>>

\* The user starts the application; a mixture of files may not start.
UserStarts ==
  /\ running = "NO"
  /\ running' = "YES" /\ loaded' = Condition
  /\ holder' = IF updater = "none" THEN "desktop" ELSE holder
  /\ UNCHANGED <<updater, waitsFor, old, hindered>>

\* The application the user started while an update was on ends.
ApplicationExits ==
  /\ running = "YES" /\ holder # "desktop"
  /\ running' = "NO"
  /\ UNCHANGED <<holder, updater, waitsFor, old, hindered, loaded>>

------------------------------------------------------------------------------
(* The updater *)

Stops == updater' = "none" /\ waitsFor' = "nobody"

\* Arguments and paths are checked, and the process is opened: no such process
\* means that Desktop has exited, any other error ends the update.
OpenDesktop ==
  /\ updater = "open"
  /\ \/ /\ updater' = IF holder = "nobody" THEN "extract" ELSE "wait"
        /\ waitsFor' = holder
     \/ Stops
  /\ UNCHANGED <<holder, running, old, hindered, loaded>>

\* Mutant: after two minutes the update goes on.
WaitAnyway ==
  /\ updater = "wait"
  /\ updater' = "extract"
  /\ UNCHANGED <<holder, running, waitsFor, old, hindered, loaded>>

\* It exits, or the two minutes are over.
WaitForDesktop ==
  /\ updater = "wait"
  /\ \/ holder # waitsFor /\ updater' = "extract" /\ UNCHANGED waitsFor
     \/ Stops
  /\ UNCHANGED <<holder, running, old, hindered, loaded>>

\* 7za overwrites a file, or cannot while the application runs and goes on.
ExtractFile(p) ==
  /\ updater = "extract" /\ p \in old
  /\ \/ old' = old \ {p} /\ UNCHANGED hindered
     \/ hindered' = "YES" /\ UNCHANGED old
  /\ UNCHANGED <<holder, running, updater, waitsFor, loaded>>

\* An error of 7za ends the update and leaves what is there.
ExtractionEnds ==
  /\ updater = "extract"
  /\ \/ old = {} /\ hindered = "NO" /\ updater' = "restart" /\ UNCHANGED waitsFor
     \/ Stops
  /\ UNCHANGED <<holder, running, old, hindered, loaded>>

RestartApplication ==
  /\ updater = "restart"
  /\ running' = "YES" /\ loaded' = Condition
  /\ holder' = IF running = "NO" THEN "desktop" ELSE holder
  /\ Stops
  /\ UNCHANGED <<old, hindered>>

UpdaterKilled ==
  /\ updater # "none"
  /\ Stops
  /\ UNCHANGED <<holder, running, old, hindered, loaded>>

UpdateNext ==
  \/ StartUpdate \/ DesktopExits \/ IdPasses \/ UserStarts \/ ApplicationExits
  \/ OpenDesktop \/ WaitForDesktop \/ (\E p \in Parts : ExtractFile(p))
  \/ ExtractionEnds \/ RestartApplication \/ UpdaterKilled

UpdateSpec == UpdateInit /\ [][UpdateNext]_updateVars

------------------------------------------------------------------------------

\* No file is replaced before the Desktop that asked for the update has exited,
\* and the updater starts the application only once every file is of the new
\* version (121-150).
UpdateInOrder ==
  /\ updater \in {"extract", "restart"} => holder # "desktop"
  /\ updater = "restart" => old = {}

==============================================================================
