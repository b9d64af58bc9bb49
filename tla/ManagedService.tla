---------------------------- MODULE ManagedService ----------------------------
(***************************************************************************)
(* The LaunchDaemon of macOS (src/macos_service.rs), registered, removed   *)
(* and registered anew through SMAppService.  Calls run on the thread of   *)
(* Node.js one after the other, but the user changes the same registration *)
(* in System Settings, and the program may be killed between two steps.    *)
(***************************************************************************)

VARIABLES
  daemon,   \* the registration
  task,     \* what the call under way is to do, or none
  phase,    \* where it is
  meddled,  \* whether the user has changed the registration since it began (history)
  replied,  \* the last call that ended well and undisturbed, wrong if it
            \* answered a status it was not asked for (history)
  renewed   \* whether the last call has registered the service anew (history)

serviceVars == <<daemon, task, phase, meddled, replied, renewed>>

Registered == {"enabled", "requires-approval"}
Unregistered == {"not-registered", "not-found"}

\* The types of the registration and the call.
ServiceTypeOK ==
  /\ daemon \in Registered \cup Unregistered \cup {"unknown"}
  /\ task \in {"none", "register", "unregister", "reload"}
  /\ phase \in {"idle", "inspect", "remove", "add", "added", "refused", "removed"}
  /\ meddled \in {"YES", "NO"} /\ renewed \in {"YES", "NO"}
  /\ replied \in {"none", "register", "unregister", "reload", "wrong"}
  /\ task = "none" <=> phase = "idle"

ServiceInit ==
  /\ daemon \in Registered \cup Unregistered \cup {"unknown"}
  /\ task = "none" /\ phase = "idle"
  /\ meddled = "NO" /\ replied = "none" /\ renewed = "NO"

------------------------------------------------------------------------------

Wanted(t) == IF t = "unregister" THEN Unregistered ELSE Registered

\* The call ends, with the status it has read or with an error.
Reply(status) ==
  /\ task' = "none" /\ phase' = "idle" /\ meddled' = "NO"
  /\ replied' = IF meddled = "YES" THEN "none"
                ELSE IF status \in Wanted(task) THEN task ELSE "wrong"

\* Mutant: the call is left as it was.
GiveUpBusy ==
  /\ phase' = "idle" /\ replied' = "none" /\ UNCHANGED <<task, meddled>>

GiveUp ==
  /\ task' = "none" /\ phase' = "idle" /\ meddled' = "NO" /\ replied' = "none"

\* A plist name that is not a safe basename, or an older macOS, is refused.
Request(t) ==
  /\ task = "none"
  /\ task' = t /\ phase' = "inspect" /\ replied' = "none" /\ renewed' = "NO"
  /\ UNCHANGED <<daemon, meddled>>

\* Mutant: a reload takes an enabled service for done.
InspectReloadIdle ==
  /\ phase = "inspect"
  /\ \/ /\ daemon \in Wanted(task)
        /\ Reply(daemon)
     \/ /\ daemon \notin Wanted(task)
        /\ phase' = IF task = "register" THEN "add" ELSE "remove"
        /\ UNCHANGED <<task, meddled, replied>>
  /\ UNCHANGED <<daemon, renewed>>

\* What is so already is the answer; a reload has to remove what is enabled and
\* leaves what awaits approval.
InspectStatus ==
  /\ phase = "inspect"
  /\ \/ /\ \/ task # "reload" /\ daemon \in Wanted(task)
           \/ task = "reload" /\ daemon = "requires-approval"
        /\ Reply(daemon)
     \/ /\ task # "reload" => daemon \notin Wanted(task)
        /\ task = "reload" => daemon # "requires-approval"
        /\ phase' = IF task = "register" \/ (task = "reload" /\ daemon # "enabled")
                    THEN "add" ELSE "remove"
        /\ UNCHANGED <<task, meddled, replied>>
  /\ UNCHANGED <<daemon, renewed>>

RemoveRegistration ==
  /\ phase = "remove"
  /\ \/ /\ daemon' = "not-registered"
        /\ phase' = IF task = "reload" THEN "add" ELSE "removed"
        /\ UNCHANGED <<task, meddled, replied>>
     \/ GiveUp /\ UNCHANGED daemon
  /\ UNCHANGED renewed

AddRegistration ==
  /\ phase = "add"
  /\ \/ daemon' \in Registered /\ phase' = "added" /\ renewed' = "YES"
     \/ daemon' \in {daemon, "requires-approval"} /\ phase' = "refused" /\ UNCHANGED renewed
  /\ UNCHANGED <<task, meddled, replied>>

\* The status is read again; a refusal is one unless approval is what is missing.
ReadStatus ==
  /\ phase \in {"added", "removed", "refused"}
  /\ IF phase = "refused" /\ daemon # "requires-approval"
     THEN GiveUp
     ELSE Reply(daemon)
  /\ UNCHANGED <<daemon, renewed>>

------------------------------------------------------------------------------

UserDecides ==
  /\ daemon' \in (Registered \cup {"not-registered"}) \ {daemon}
  /\ meddled' = IF task = "none" THEN "NO" ELSE "YES"
  /\ replied' = "none"
  /\ UNCHANGED <<task, phase, renewed>>

ServiceKilled ==
  /\ task # "none"
  /\ GiveUp
  /\ UNCHANGED <<daemon, renewed>>

ServiceNext ==
  \/ \E t \in {"register", "unregister", "reload"} : Request(t)
  \/ InspectStatus \/ RemoveRegistration \/ AddRegistration \/ ReadStatus
  \/ UserDecides \/ ServiceKilled

ServiceSpec == ServiceInit /\ [][ServiceNext]_serviceVars

------------------------------------------------------------------------------

\* Until the user decides otherwise, a call that ended well has left what it
\* answered, registered or not, and after a reload an enabled service is the one
\* of this application; a call cut short by an error or a kill promises nothing.
ServiceAsAnswered ==
  /\ replied # "wrong"
  /\ replied = "reload" /\ daemon = "enabled" => renewed = "YES"
  /\ replied \in {"register", "reload"} => daemon \in Registered
  /\ replied = "unregister" => daemon \in Unregistered

==============================================================================
