---------------------------- MODULE TerminalProxy ----------------------------
(***************************************************************************)
(* The terminal proxy of Linux (src/terminal_proxy.rs): a file that later  *)
(* sessions read, and the environment of this session's user manager, set  *)
(* or cleared one after the other.  The file is only touched if it is      *)
(* KokoroBox's own.  Calls run on several workers without a lock, the user *)
(* manager may be out of reach, and the program may be killed.             *)
(***************************************************************************)
EXTENDS Desktop

CONSTANT Proxies  \* proxies a call may be given

VARIABLES
  file,       \* the file: None, Foreign or the proxy in it
  session,    \* the proxy in the session's environment
  manager,    \* whether the user manager can be reached: up or down
  at,         \* where each caller is
  asked,      \* the proxy it is to set, or None to clear
  solo,       \* the caller nothing has disturbed since its call began, or None (history)
  agreed,     \* file and session should agree (history)
  checked     \* callers that have found the file their own, and nobody else has written it since (history)

terminalVars == <<file, session, manager, at, asked, solo, agreed, checked>>

Foreign == "foreign"

ASSUME ProxiesAssumption == None \notin Proxies /\ Foreign \notin Proxies

\* The types of the file, the session and the calls.
TerminalTypeOK ==
  /\ file \in Proxies \cup {None, Foreign}
  /\ session \in Proxies \cup {None}
  /\ manager \in {"up", "down"}
  /\ at \in [Callers -> {"idle", "check", "rename", "read", "remove", "manager"}]
  /\ asked \in [Callers -> Proxies \cup {None}]
  /\ solo \in Callers \cup {None}
  /\ agreed \in {"YES", "NO"}
  /\ checked \subseteq Callers

TerminalInit ==
  /\ file \in {None, Foreign} /\ session = None
  /\ manager \in {"up", "down"}
  /\ at = [c \in Callers |-> "idle"] /\ asked = [c \in Callers |-> None]
  /\ solo = None /\ agreed = "YES" /\ checked = {}

------------------------------------------------------------------------------

At(c, from, to) == at[c] = from /\ at' = [at EXCEPT ![c] = to]

\* A call begins, and disturbs those that run.
Begins(c) ==
  LET alone == \A d \in Callers \ {c} : at[d] = "idle" IN
  /\ solo' = IF alone THEN c ELSE None
  /\ agreed' = IF alone THEN agreed ELSE "NO"

\* The call is over: with an error, null for nothing to clear, or true or false.
Ends(c) ==
  /\ at' = [at EXCEPT ![c] = "idle"]
  /\ asked' = [asked EXCEPT ![c] = None]
  /\ checked' = checked \ {c}

\* A host, a port or an entry that is not valid ends the call here.
SetProxy(c, proxy) ==
  /\ At(c, "idle", "check")
  /\ asked' = [asked EXCEPT ![c] = proxy]
  /\ Begins(c)
  /\ UNCHANGED <<file, session, manager, checked>>

Clear(c) ==
  /\ At(c, "idle", "read")
  /\ Begins(c)
  /\ UNCHANGED <<file, session, manager, asked, checked>>

\* Mutant: the file is written whoever owns it.
CheckOwnerNever(c) ==
  /\ at[c] = "check"
  /\ At(c, "check", "rename") /\ checked' = checked \cup {c}
  /\ UNCHANGED <<file, session, manager, asked, solo, agreed>>

\* The marker in the file says whose it is.
CheckOwner(c) ==
  /\ at[c] = "check"
  /\ IF file = Foreign
     THEN Ends(c)
     ELSE /\ At(c, "check", "rename") /\ checked' = checked \cup {c}
          /\ UNCHANGED asked
  /\ UNCHANGED <<file, session, manager, solo, agreed>>

\* A temporary file of a random name is written, synchronised and renamed; a
\* failure removes it and leaves the file.
WriteConfig(c) ==
  /\ at[c] = "rename"
  /\ \/ /\ file' = asked[c] /\ At(c, "rename", "manager")
        /\ checked' = checked \ {c}
        /\ UNCHANGED asked
     \/ Ends(c) /\ UNCHANGED file
  /\ UNCHANGED <<session, manager, solo, agreed>>

\* Clear leaves a file that is missing or somebody else's.
ReadMarker(c) ==
  /\ at[c] = "read"
  /\ \/ file \in {None, Foreign} /\ Ends(c)
     \/ /\ file \notin {None, Foreign}
        /\ At(c, "read", "remove") /\ checked' = checked \cup {c}
        /\ UNCHANGED asked
     \/ Ends(c)
  /\ UNCHANGED <<file, session, manager, solo, agreed>>

RemoveConfig(c) ==
  /\ at[c] = "remove"
  /\ \/ file = None /\ Ends(c) /\ UNCHANGED file
     \/ /\ file # None /\ file' = None
        /\ At(c, "remove", "manager") /\ checked' = checked \ {c}
        /\ UNCHANGED asked
     \/ Ends(c) /\ UNCHANGED file
  /\ UNCHANGED <<session, manager, solo, agreed>>

\* Mutant: that the session could not be updated is not told.
UpdateManagerBlind(c) ==
  /\ at[c] = "manager"
  /\ session' = IF manager = "up" THEN asked[c] ELSE session
  /\ agreed' = IF solo = c THEN "YES" ELSE agreed
  /\ Ends(c)
  /\ UNCHANGED <<file, manager, solo>>

\* SetEnvironment or UnsetEnvironment, and whether it could be done: true or
\* false, which tells the caller that the session is behind.
UpdateManager(c) ==
  /\ at[c] = "manager"
  /\ \/ /\ manager = "up" /\ session' = asked[c]
        /\ agreed' = IF solo = c THEN "YES" ELSE agreed
     \/ agreed' = "NO" /\ UNCHANGED session
  /\ Ends(c)
  /\ UNCHANGED <<file, manager, solo>>

------------------------------------------------------------------------------

ManagerChanges ==
  /\ manager' = IF manager = "up" THEN "down" ELSE "up"
  /\ UNCHANGED <<file, session, at, asked, solo, agreed, checked>>

\* The user puts a file of their own there, or takes any away.
UserWrites ==
  /\ file' \in {None, Foreign} \ {file}
  /\ agreed' = IF file \in Proxies THEN "NO" ELSE agreed
  /\ solo' = None /\ checked' = {}
  /\ UNCHANGED <<session, manager, at, asked>>

TerminalKilled ==
  /\ \E c \in Callers : at[c] # "idle"
  /\ at' = [c \in Callers |-> "idle"]
  /\ asked' = [c \in Callers |-> None]
  /\ solo' = None /\ agreed' = "NO" /\ checked' = {}
  /\ UNCHANGED <<file, session, manager>>

\* A new session takes its environment from the file.
LogIn ==
  /\ \A c \in Callers : at[c] = "idle"
  /\ session' = IF file = Foreign THEN None ELSE file
  /\ agreed' = "YES"
  /\ UNCHANGED <<file, manager, at, asked, solo, checked>>

TerminalNext ==
  \/ \E c \in Callers :
       \/ \E proxy \in Proxies : SetProxy(c, proxy)
       \/ Clear(c) \/ CheckOwner(c) \/ WriteConfig(c)
       \/ ReadMarker(c) \/ RemoveConfig(c) \/ UpdateManager(c)
  \/ ManagerChanges \/ UserWrites \/ TerminalKilled \/ LogIn

TerminalSpec == TerminalInit /\ [][TerminalNext]_terminalVars

------------------------------------------------------------------------------

\* After a call that nothing disturbed and that did not answer false, and in a
\* new session, the session has the proxy of the file; calls that do not overlap
\* keep it so (158-173).
SessionFollowsFile ==
  agreed = "YES" /\ (\A c \in Callers : at[c] = "idle") =>
    session = IF file = Foreign THEN None ELSE file

\* A call replaces or removes a file that is not KokoroBox's own only if it had
\* found its own, or none, there, and the user has put theirs there since
\* (86-95, 120-134).
ForeignFileKept ==
  [][\A c \in Callers : at[c] # "idle" /\ at'[c] # at[c] /\ file = Foreign /\ file' # Foreign
       => at[c] \in {"rename", "remove"} /\ c \notin checked]_terminalVars

==============================================================================
