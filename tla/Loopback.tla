------------------------------- MODULE Loopback -------------------------------
(***************************************************************************)
(* The loopback exemptions of Windows (src/windows/uwp_loopback.rs), one   *)
(* list for all programs: a call looks for the app container, reads the    *)
(* list, changes it and writes it back as a whole.  A process makes one    *)
(* such call at a time; other processes, KokoroBox's or not, do the same.  *)
(***************************************************************************)
EXTENDS Desktop

CONSTANT Apps  \* app containers

VARIABLES
  installed,  \* app containers that exist
  exempt,     \* those with an exemption
  listAt,     \* each process: idle, or with the containers or the list read
  change,     \* the exemption it is to change
  list,       \* the list it has read
  others,     \* exemptions changed by others since it read the list (history)
  exempted    \* the last change that ended well, and holds until disturbed (history)

listVars == <<installed, exempt, listAt, change, list, others, exempted>>

Change == [app : Apps, enabled : {"YES", "NO"}]
NoChange == [app |-> None, enabled |-> "NO"]

\* The types of the list and of the calls.
ListTypeOK ==
  /\ installed \subseteq Apps /\ exempt \subseteq Apps
  /\ listAt \in [Callers -> {"idle", "containers", "read"}]
  /\ change \in [Callers -> Change \cup {NoChange}]
  /\ list \in [Callers -> SUBSET Apps] /\ others \in [Callers -> SUBSET Apps]
  /\ exempted \in Change \cup {NoChange}

ListInit ==
  /\ installed = Apps /\ exempt = {}
  /\ listAt = [c \in Callers |-> "idle"] /\ change = [c \in Callers |-> NoChange]
  /\ list = [c \in Callers |-> {}] /\ others = [c \in Callers |-> {}]
  /\ exempted = NoChange

------------------------------------------------------------------------------

FindContainer(c, wanted) ==
  /\ listAt[c] = "idle" /\ wanted.app \in installed
  /\ listAt' = [listAt EXCEPT ![c] = "containers"]
  /\ change' = [change EXCEPT ![c] = wanted]
  /\ UNCHANGED <<installed, exempt, list, others, exempted>>

Finish(c) ==
  /\ listAt' = [listAt EXCEPT ![c] = "idle"]
  /\ change' = [change EXCEPT ![c] = NoChange]
  /\ list' = [list EXCEPT ![c] = {}]

ReadList(c) ==
  /\ listAt[c] = "containers"
  /\ IF (change[c].app \in exempt) <=> (change[c].enabled = "YES")
     THEN Finish(c) /\ exempted' = change[c] /\ UNCHANGED others
     ELSE /\ listAt' = [listAt EXCEPT ![c] = "read"]
          /\ list' = [list EXCEPT ![c] = exempt] /\ others' = [others EXCEPT ![c] = {}]
          /\ UNCHANGED <<change, exempted>>
  /\ UNCHANGED <<installed, exempt>>

\* What has changed, as others see it.
Seen(c, S) == [d \in Callers |-> IF d = c THEN {} ELSE others[d] \cup S]

\* Mutant: the list that is written holds what was asked for only.
WriteListAlone(c) ==
  /\ listAt[c] = "read"
  /\ exempt' = IF change[c].enabled = "YES" THEN {change[c].app} ELSE list[c] \ {change[c].app}
  /\ others' = Seen(c, (exempt \ exempt') \cup (exempt' \ exempt))
  /\ exempted' = change[c]
  /\ Finish(c)
  /\ UNCHANGED installed

WriteList(c) ==
  /\ listAt[c] = "read"
  /\ exempt' = IF change[c].enabled = "YES" THEN list[c] \cup {change[c].app}
                                            ELSE list[c] \ {change[c].app}
  /\ others' = Seen(c, (exempt \ exempt') \cup (exempt' \ exempt))
  /\ exempted' = change[c]
  /\ Finish(c)
  /\ UNCHANGED installed

ListFails(c) ==
  /\ listAt[c] # "idle"
  /\ Finish(c)
  /\ UNCHANGED <<installed, exempt, others, exempted>>

\* Another program exempts an app or ends that; an app comes or goes.
OtherChanges(app) ==
  /\ \/ /\ exempt' = IF app \in exempt THEN exempt \ {app} ELSE exempt \cup {app}
        /\ UNCHANGED installed
     \/ /\ installed' = IF app \in installed THEN installed \ {app} ELSE installed \cup {app}
        /\ exempt' = exempt \ {app}
  /\ others' = [c \in Callers |-> others[c] \cup {app}]
  /\ exempted' = IF exempted.app = app THEN NoChange ELSE exempted
  /\ UNCHANGED <<listAt, change, list>>

------------------------------------------------------------------------------

ListNext ==
  \/ \E c \in Callers :
       \/ \E wanted \in Change : FindContainer(c, wanted)
       \/ ReadList(c) \/ WriteList(c) \/ ListFails(c)
  \/ \E app \in Apps : OtherChanges(app)

ListSpec == ListInit /\ [][ListNext]_listVars

------------------------------------------------------------------------------

\* The exemption a call was asked for is there, or gone, once it has ended well,
\* until somebody changes it again.
ListAsAnswered ==
  exempted # NoChange => (exempted.app \in exempt <=> exempted.enabled = "YES")

\* A change of one app's exemption leaves every other app's as it is, except one
\* that somebody else changed after the list was read (406-433).
OthersKept ==
  [][\A c \in Callers : listAt[c] = "read" /\ listAt'[c] = "idle" =>
       \A app \in Apps \ ({change[c].app} \cup others[c]) :
         app \in exempt' <=> app \in exempt]_listVars

==============================================================================
