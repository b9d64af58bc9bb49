-------------------------- MODULE UserSettingsProofs --------------------------
(***************************************************************************)
(* Proofs about the terminal proxy of Linux, launch at login and the wait  *)
(* for another network, for any number of overlapping calls.               *)
(***************************************************************************)
EXTENDS MCUserSettings, FiniteSetTheorems, TLAPS

------------------------------------------------------------------------------
(* Terminal proxy *)

\* What a new session takes from the file.
Expected(f) == IF f = Foreign THEN None ELSE f

\* A call that sets has its proxy until it ends, one that clears has none; one
\* that has looked whose file it is is about to change it.
AskedInv ==
  /\ \A c \in Callers : at[c] \in {"idle", "read", "remove"} => asked[c] = None
  /\ \A c \in Callers : at[c] \in {"check", "rename"} => asked[c] \in Proxies
  /\ \A c \in checked : file # Foreign /\ at[c] \in {"rename", "remove"}

\* The call nothing has disturbed is alone, and what it is about to tell the
\* session is what it has made of the file.
SoloInv ==
  \A c \in Callers : solo = c =>
    /\ \A d \in Callers \ {c} : at[d] = "idle"
    /\ at[c] = "manager" => asked[c] = Expected(file)

\* As long as file and session should agree calls follow one another, and the
\* session is behind at most by the step the call under way has still to take.
AgreedInv ==
  agreed = "YES" =>
    /\ \A c, d \in Callers : at[c] # "idle" /\ at[d] # "idle" => c = d
    /\ \A c \in Callers : at[c] = "manager" => asked[c] = Expected(file)
    /\ (\A c \in Callers : at[c] # "manager") => session = Expected(file)

TerminalInv == TerminalTypeOK /\ AskedInv /\ SoloInv /\ AgreedInv

LEMMA TerminalStart == TerminalInit => TerminalInv
BY ProxiesAssumption, CallersAssumption
   DEF TerminalInit, TerminalInv, TerminalTypeOK, AskedInv, SoloInv, AgreedInv, Expected, None, Foreign

\* The steps of calls.
LEMMA TerminalCallStep ==
  ASSUME TerminalInv, NEW c \in Callers,
         \/ \E proxy \in Proxies : SetProxy(c, proxy)
         \/ Clear(c) \/ CheckOwner(c) \/ WriteConfig(c)
         \/ ReadMarker(c) \/ RemoveConfig(c) \/ UpdateManager(c)
  PROVE  TerminalInv'
<1> USE ProxiesAssumption, CallersAssumption
    DEF TerminalInv, TerminalTypeOK, AskedInv, SoloInv, AgreedInv, Expected, At, None
<1>1. CASE \E proxy \in Proxies : SetProxy(c, proxy)
  BY <1>1, SMTT(60) DEF SetProxy, Begins
<1>2. CASE Clear(c)
  BY <1>2, SMTT(60) DEF Clear, Begins
<1>3. CASE CheckOwner(c)
  BY <1>3, SMTT(60) DEF CheckOwner, Ends
<1>4. CASE WriteConfig(c)
  BY <1>4, SMTT(60) DEF WriteConfig, Ends
<1>5. CASE ReadMarker(c)
  BY <1>5, SMTT(60) DEF ReadMarker, Ends
<1>6. CASE RemoveConfig(c)
  BY <1>6, SMTT(60) DEF RemoveConfig, Ends, Foreign
<1>7. CASE UpdateManager(c)
  BY <1>7, SMTT(60) DEF UpdateManager, Ends
<1> QED BY <1>1, <1>2, <1>3, <1>4, <1>5, <1>6, <1>7

\* The steps of the user, the session and the system.
LEMMA TerminalOtherStep ==
  ASSUME TerminalInv, ManagerChanges \/ UserWrites \/ TerminalKilled \/ LogIn
  PROVE  TerminalInv'
<1> USE ProxiesAssumption, CallersAssumption
    DEF TerminalInv, TerminalTypeOK, AskedInv, SoloInv, AgreedInv, Expected, None
<1>1. CASE ManagerChanges
  BY <1>1 DEF ManagerChanges
<1>2. CASE UserWrites
  BY <1>2, SMTT(60) DEF UserWrites
<1>3. CASE TerminalKilled
  BY <1>3 DEF TerminalKilled
<1>4. CASE LogIn
  BY <1>4, SMTT(60) DEF LogIn
<1> QED BY <1>1, <1>2, <1>3, <1>4

LEMMA TerminalStep == TerminalInv /\ [TerminalNext]_terminalVars => TerminalInv'
<1> SUFFICES ASSUME TerminalInv, [TerminalNext]_terminalVars PROVE TerminalInv'
  OBVIOUS
<1>1. CASE TerminalNext
  BY <1>1, TerminalCallStep, TerminalOtherStep DEF TerminalNext
<1>2. CASE UNCHANGED terminalVars
  BY <1>2 DEF terminalVars, TerminalInv, TerminalTypeOK, AskedInv, SoloInv, AgreedInv, Expected
<1> QED BY <1>1, <1>2

LEMMA TerminalInvariant == TerminalSpec => []TerminalInv
BY TerminalStart, TerminalStep, PTL DEF TerminalSpec

\* The file, the session and the calls keep their types.
THEOREM TerminalTypes == TerminalSpec => []TerminalTypeOK
<1>1. TerminalInv => TerminalTypeOK
  BY DEF TerminalInv
<1> QED BY <1>1, TerminalInvariant, PTL

\* The session has the proxy of the file whenever the last call was not
\* disturbed and was not told that the session is behind (158-173).
THEOREM SessionFollows == TerminalSpec => []SessionFollowsFile
<1>1. TerminalInv => SessionFollowsFile
  BY Zenon DEF TerminalInv, AgreedInv, SessionFollowsFile, Expected
<1> QED BY <1>1, TerminalInvariant, PTL

LEMMA ForeignStep ==
  ASSUME TerminalInv, TerminalNext, NEW c \in Callers,
         at[c] # "idle", at'[c] # at[c], file = Foreign, file' # Foreign
  PROVE  at[c] \in {"rename", "remove"} /\ c \notin checked
<1>1. c \notin checked
  BY DEF TerminalInv, AskedInv
<1>2. at[c] \in {"rename", "remove"}
  <2>1. PICK d \in Callers : WriteConfig(d) \/ RemoveConfig(d)
    BY DEF TerminalNext, SetProxy, Clear, CheckOwner, ReadMarker, UpdateManager,
           ManagerChanges, UserWrites, TerminalKilled, LogIn, At
  <2>2. c = d
    BY <2>1 DEF WriteConfig, RemoveConfig, At, Ends, TerminalInv, TerminalTypeOK
  <2> QED BY <2>1, <2>2 DEF WriteConfig, RemoveConfig
<1> QED BY <1>1, <1>2

\* A call takes somebody else's file for its own only if it was put there after
\* the call had looked (86-95, 120-134).
THEOREM ForeignKept == TerminalSpec => ForeignFileKept
<1> DEFINE Kept == \A c \in Callers :
                     at[c] # "idle" /\ at'[c] # at[c] /\ file = Foreign /\ file' # Foreign
                       => at[c] \in {"rename", "remove"} /\ c \notin checked
<1>1. TerminalInv /\ [TerminalNext]_terminalVars => [Kept]_terminalVars
  BY ForeignStep
<1> QED BY <1>1, TerminalInvariant, PTL DEF TerminalSpec, ForeignFileKept

------------------------------------------------------------------------------
(* Launch at login *)

\* What each system has: the task is of Windows, and macOS keeps a registration.
SystemInv ==
  /\ system # "windows" => task = "none"
  /\ system = "macos" => entry \in {"absent", "current", "approval"}
  /\ \A c \in Callers :
       /\ pc[c] \in {"query", "plain", "elevated", "write", "get-task"} => system = "windows"
       /\ pc[c] \in {"open", "fill", "rename", "exists"} => system = "linux"
       /\ pc[c] \in {"status", "register", "unregister"} => system = "macos"
       /\ pc[c] = "remove" => system # "macos"

\* Until two calls write the temporary file at once, only one has it, and what is
\* renamed has its content.
WholeInv ==
  raced = "NO" =>
    /\ \A c, d \in Callers : pc[c] \in {"fill", "rename"} /\ pc[d] \in {"fill", "rename"} => c = d
    /\ \A c \in Callers : pc[c] = "fill" => place[c] = "temp"
    /\ \A c \in Callers : pc[c] = "rename" => temp = "current"
    /\ entry # "empty"

\* How far a call that is alone has come with what it was asked for.
Progress(c) ==
  /\ pc[c] \in {"write", "open", "fill", "rename", "register"} => want[c] = "on"
  /\ pc[c] \in {"remove", "exists", "unregister", "get-task"} => want[c] = "off"
  /\ pc[c] \in {"write", "get", "get-task"} => task = "none"
  /\ pc[c] = "fill" => place[c] = "temp"
  /\ pc[c] = "rename" => temp = "current"
  /\ pc[c] = "get" /\ want[c] = "on" => entry \in {"current", "approval"}
  /\ pc[c] \in {"query", "plain", "elevated", "get", "get-task"} /\ want[c] = "off" =>
       entry = "absent"

\* A call that no other overlapped and that missed nothing is alone and knows
\* what it has done.
SureInv == \A c \in Callers : sure[c] = "YES" /\ pc[c] # "idle" => Quiet(c) /\ Progress(c)

SettledInv ==
  /\ LoginAsAnswered
  /\ settled # "none" => \A c \in Callers : pc[c] = "idle"

LoginInv == LoginTypeOK /\ SystemInv /\ WholeInv /\ SureInv /\ SettledInv

LEMMA LoginStart == LoginInit => LoginInv
BY SystemsAssumption
   DEF LoginInit, LoginInv, LoginTypeOK, SystemInv, WholeInv, SureInv, SettledInv, LoginAsAnswered,
       Progress, Quiet

\* A call begins.
LEMMA CallStep ==
  ASSUME LoginInv, NEW c \in Callers, NEW value \in {"on", "off"}, Call(c, value)
  PROVE  LoginInv'
<1> USE SystemsAssumption DEF LoginInv, LoginTypeOK, Call, Step, Go, FirstStep
<1>1. LoginTypeOK' /\ SystemInv'
  BY DEF SystemInv
<1>2. WholeInv' /\ SettledInv'
  BY DEF WholeInv, SettledInv, LoginAsAnswered, Quiet
<1>3. SureInv'
  BY DEF SystemInv, SureInv, Quiet, Progress
<1> QED BY <1>1, <1>2, <1>3

\* The steps of Windows.
LEMMA WindowsStep ==
  ASSUME LoginInv, NEW c \in Callers,
         \/ QueryTask(c) \/ QueryMisses(c) \/ DeleteTask(c) \/ DeleteTaskElevated(c)
         \/ WriteRunValue(c) \/ GetTask(c)
  PROVE  LoginInv'
<1> USE SystemsAssumption
    DEF LoginInv, LoginTypeOK, Step, Go, SystemInv, WholeInv, SettledInv, LoginAsAnswered, SureInv,
        Quiet, Progress
<1>1. CASE QueryTask(c)
  BY <1>1, SMTT(60) DEF QueryTask
<1>2. CASE QueryMisses(c)
  BY <1>2, SMTT(60) DEF QueryMisses
<1>3. CASE DeleteTask(c)
  BY <1>3, SMTT(60) DEF DeleteTask
<1>4. CASE DeleteTaskElevated(c)
  BY <1>4, SMTT(60) DEF DeleteTaskElevated
<1>5. CASE WriteRunValue(c)
  BY <1>5, SMTT(60) DEF WriteRunValue
<1>6. CASE GetTask(c)
  BY <1>6, SMTT(60) DEF GetTask, Answers
<1> QED BY <1>1, <1>2, <1>3, <1>4, <1>5, <1>6

\* The steps of Linux, and those it shares with Windows.
LEMMA LinuxStep ==
  ASSUME LoginInv, NEW c \in Callers,
         \/ RemoveEntry(c) \/ EntryExists(c) \/ OpenTemporary(c) \/ FillTemporary(c)
         \/ RenameTemporary(c) \/ GetEntry(c)
  PROVE  LoginInv'
<1> USE SystemsAssumption
    DEF LoginInv, LoginTypeOK, Step, Go, SystemInv, WholeInv, SettledInv, LoginAsAnswered, SureInv,
        Quiet, Progress, Writing
<1>1. CASE RemoveEntry(c)
  BY <1>1, SMTT(60) DEF RemoveEntry
<1>2. CASE EntryExists(c)
  BY <1>2, SMTT(60) DEF EntryExists
<1>3. CASE OpenTemporary(c)
  BY <1>3, SMTT(60) DEF OpenTemporary
<1>4. CASE FillTemporary(c)
  BY <1>4, SMTT(60) DEF FillTemporary
<1>5. CASE RenameTemporary(c)
  BY <1>5, SMTT(60) DEF RenameTemporary
<1>6. CASE GetEntry(c)
  BY <1>6, SMTT(60) DEF GetEntry, Answers
<1> QED BY <1>1, <1>2, <1>3, <1>4, <1>5, <1>6

\* The steps of macOS, and the end of a call with an error.
LEMMA MacStep ==
  ASSUME LoginInv, NEW c \in Callers,
         \/ MainAppStatus(c) \/ Register(c) \/ RegisterDenied(c) \/ Unregister(c)
         \/ Fails(c)
  PROVE  LoginInv'
<1> USE SystemsAssumption
    DEF LoginInv, LoginTypeOK, Step, Go, SystemInv, WholeInv, SettledInv, LoginAsAnswered, SureInv,
        Quiet, Progress
<1>1. CASE MainAppStatus(c)
  BY <1>1, SMTT(60) DEF MainAppStatus
<1>2. CASE Register(c)
  BY <1>2, SMTT(60) DEF Register
<1>3. CASE RegisterDenied(c)
  BY <1>3, SMTT(60) DEF RegisterDenied
<1>4. CASE Unregister(c)
  BY <1>4, SMTT(60) DEF Unregister
<1>5. CASE Fails(c)
  BY <1>5, SMTT(60) DEF Fails
<1> QED BY <1>1, <1>2, <1>3, <1>4, <1>5

\* The end of the program, and what the user does.
LEMMA LoginOtherStep ==
  ASSUME LoginInv, Killed \/ UserChanges
  PROVE  LoginInv'
<1> USE SystemsAssumption
    DEF LoginInv, LoginTypeOK, SystemInv, WholeInv, SettledInv, LoginAsAnswered, SureInv, Quiet,
        Progress
<1>1. CASE Killed
  BY <1>1, SMTT(60) DEF Killed
<1>2. CASE UserChanges
  BY <1>2, SMTT(60) DEF UserChanges
<1> QED BY <1>1, <1>2

LEMMA LoginStep == LoginInv /\ [LoginNext]_loginVars => LoginInv'
<1> SUFFICES ASSUME LoginInv, [LoginNext]_loginVars PROVE LoginInv'
  OBVIOUS
<1>1. CASE LoginNext
  <2>1. CASE \E c \in Callers, value \in {"on", "off"} : Call(c, value)
    BY <2>1, CallStep
  <2> QED BY <1>1, <2>1, LoginOtherStep, WindowsStep, LinuxStep, MacStep DEF LoginNext
<1>2. CASE UNCHANGED loginVars
  BY <1>2 DEF loginVars, LoginInv, LoginTypeOK, SystemInv, WholeInv, SureInv, SettledInv,
              LoginAsAnswered, Progress, Quiet
<1> QED BY <1>1, <1>2

LEMMA LoginInvariant == LoginSpec => []LoginInv
BY LoginStart, LoginStep, PTL DEF LoginSpec

\* The entry, the task and the calls keep their types.
THEOREM LoginTypes == LoginSpec => []LoginTypeOK
<1>1. LoginInv => LoginTypeOK
  BY DEF LoginInv
<1> QED BY <1>1, LoginInvariant, PTL

\* A call that no other overlapped answers what it was asked for, and it is so
\* (516-536).
THEOREM LoginAnswered == LoginSpec => []LoginAsAnswered
<1>1. LoginInv => LoginAsAnswered
  BY DEF LoginInv, SettledInv
<1> QED BY <1>1, LoginInvariant, PTL

\* Calls that follow one another never leave a desktop entry without its content
\* (197-200).
THEOREM LoginWhole == LoginSpec => []EntryWhole
<1>1. LoginInv => EntryWhole
  BY DEF LoginInv, LoginTypeOK, WholeInv, EntryWhole
<1> QED BY <1>1, LoginInvariant, PTL

------------------------------------------------------------------------------
(* The wait for another network *)

Working == {c \in Callers : stage[c] \notin {"idle", "queued"}}

WaitTypes == WaitTypeOK /\ IsFiniteSet(Working)

\* What is read of a network is a context.
LEMMA ReadTypes ==
  ASSUME WaitTypeOK, NEW i \in Interfaces \cup {None}
  PROVE  /\ ServersOf(i) \in Servers \cup {None} /\ WindowsServers(i) \in Servers \cup {None}
         /\ SsidOf(i) \in {"home", None}
<1>1. LinuxServers(i) \in Servers \cup {None}
  BY DEF WaitTypeOK, LinuxServers
<1>2. MacServers(i) \in Servers \cup {None}
  BY DEF WaitTypeOK, MacServers
<1>3. WindowsServers(i) \in Servers \cup {None}
  BY DEF WaitTypeOK, WindowsServers
<1>4. ServersOf(i) \in {LinuxServers(i), MacServers(i), WindowsServers(i)}
  BY DEF ServersOf
<1>5. SsidOf(i) \in {"home", None}
  BY DEF WaitTypeOK, SsidOf
<1> QED BY <1>1, <1>2, <1>3, <1>4, <1>5

\* Only Take adds to the waits at work.
LEMMA FewerWorking ==
  ASSUME WaitTypes, Working' \subseteq Working
  PROVE  IsFiniteSet(Working)' /\ Cardinality(Working)' <= Workers
<1>1. /\ IsFiniteSet(Working') /\ Cardinality(Working') <= Cardinality(Working)
      /\ Cardinality(Working) \in Nat /\ Cardinality(Working') \in Nat
  BY FS_Subset, FS_CardinalityType DEF WaitTypes
<1> QED BY <1>1, NetworkAssumption DEF WaitTypes, WaitTypeOK, Working

LEMMA WaitingStep ==
  ASSUME WaitTypes, NetworkMoves \/ (\E c \in Callers : Submit(c) \/ TimePasses(c))
  PROVE  WaitTypes'
<1> USE DEF WaitTypes, WaitTypeOK
<1>1. CASE NetworkMoves
  <2>1. network' \in [interface : Interfaces \cup {None}, dns : [Interfaces -> Servers \cup {None}],
                      global : Servers, ssid : {"home", None}]
    <3> DEFINE Networks == [interface : Interfaces \cup {None}, dns : [Interfaces -> Servers \cup {None}],
                            global : Servers, ssid : {"home", None}]
    <3>1. ASSUME NEW i \in Interfaces \cup {None}, network' = [network EXCEPT !.interface = i]
          PROVE  network' \in Networks
      BY <3>1
    <3>2. ASSUME NEW i \in Interfaces, NEW s \in Servers \cup {None},
                 network' = [network EXCEPT !.dns[i] = s]
          PROVE  network' \in Networks
      <4>1. [network.dns EXCEPT ![i] = s] \in [Interfaces -> Servers \cup {None}]
        OBVIOUS
      <4>2. network' = [network EXCEPT !.dns = [network.dns EXCEPT ![i] = s]]
        BY <3>2
      <4> QED BY <4>1, <4>2
    <3>3. ASSUME NEW s \in {"home", None}, network' = [network EXCEPT !.ssid = s]
          PROVE  network' \in Networks
      BY <3>3
    <3>4. \/ \E i \in Interfaces \cup {None} : network' = [network EXCEPT !.interface = i]
          \/ \E i \in Interfaces, s \in Servers \cup {None} : network' = [network EXCEPT !.dns[i] = s]
          \/ \E s \in {"home", None} : network' = [network EXCEPT !.ssid = s]
      BY <1>1 DEF NetworkMoves
    <3> HIDE DEF WaitTypes, WaitTypeOK, Networks
    <3>5. network' \in Networks
      BY <3>1, <3>2, <3>3, <3>4
    <3> QED BY <3>5 DEF Networks
  <2>2. changes' \in 0..MaxChanges
    BY <1>1, NetworkAssumption DEF NetworkMoves
  <2> QED BY <1>1, <2>1, <2>2 DEF NetworkMoves, Working
<1>2. ASSUME NEW c \in Callers, Submit(c)
      PROVE  WaitTypes'
  <2>1. Working' \subseteq Working
    BY <1>2 DEF Submit, Working
  <2> QED BY <1>2, <2>1, FewerWorking DEF Submit, Working
<1>3. ASSUME NEW c \in Callers, TimePasses(c)
      PROVE  WaitTypes'
  BY <1>3 DEF TimePasses, Working
<1> QED BY <1>1, <1>2, <1>3

LEMMA TakeStep == ASSUME WaitTypes, Take PROVE WaitTypes'
<1> USE DEF WaitTypes, WaitTypeOK
<1>1. Head(queue) \in Callers /\ queue' \in Seq(Callers)
  BY DEF Take
<1>2. Working' \subseteq Working \cup {Head(queue)}
  BY <1>1 DEF Take, Working
<1>3. /\ IsFiniteSet(Working \cup {Head(queue)})
      /\ Cardinality(Working \cup {Head(queue)}) <= Cardinality(Working) + 1
  <2>1. IsFiniteSet(Working) /\ Cardinality(Working) \in Nat
    BY FS_CardinalityType
  <2>2. /\ IsFiniteSet(Working \cup {Head(queue)})
        /\ Cardinality(Working \cup {Head(queue)}) =
             IF Head(queue) \in Working THEN Cardinality(Working) ELSE Cardinality(Working) + 1
    BY <2>1, FS_AddElement
  <2> QED BY <2>1, <2>2
<1>4. /\ IsFiniteSet(Working') /\ Cardinality(Working') <= Cardinality(Working) + 1
  BY <1>2, <1>3, FS_Subset, FS_CardinalityType
<1>5. Cardinality(Working) < Workers
  BY DEF Take, Working
<1>6. Cardinality(Working') <= Workers
  BY <1>4, <1>5, NetworkAssumption, FS_CardinalityType
<1> QED BY <1>1, <1>4, <1>6 DEF Take, Working

LEMMA WaitCallStep ==
  ASSUME WaitTypes, NEW c \in Callers, WaitSteps(c)
  PROVE  WaitTypes'
<1>1. Working' \subseteq Working
  BY DEF WaitTypes, WaitTypeOK, WaitSteps, ReadInterface, ReadServers, ReadSsid, Compare, Wake, Working
<1>2. IsFiniteSet(Working)' /\ Cardinality(Working)' <= Workers
  BY <1>1, FewerWorking
<1>3. /\ stage' \in [Callers -> {"idle", "queued", "interface", "servers", "ssid", "compare", "sleep"}]
      /\ late' \subseteq Callers /\ UNCHANGED <<os, network, changes, queue>>
  BY DEF WaitTypes, WaitTypeOK, WaitSteps, ReadInterface, ReadServers, ReadSsid, Compare, Wake
<1>4. /\ network.interface \in Interfaces \cup {None}
      /\ probe[c] \in Contexts /\ probe[c].interface \in Interfaces \cup {None}
  BY DEF WaitTypes, WaitTypeOK, Contexts
<1>5. probe' \in [Callers -> Contexts] /\ known' \in [Callers -> Contexts]
  <2>1. CASE ReadInterface(c)
    BY <1>4, <2>1, ReadTypes DEF WaitTypes, WaitTypeOK, ReadInterface, Contexts
  <2>2. CASE ReadServers(c)
    BY <1>4, <2>2, ReadTypes DEF WaitTypes, WaitTypeOK, ReadServers, Contexts
  <2>3. CASE ReadSsid(c)
    BY <1>4, <2>3, ReadTypes DEF WaitTypes, WaitTypeOK, ReadSsid, Contexts
  <2>4. CASE Compare(c) \/ Wake(c)
    BY <1>4, <2>4 DEF WaitTypes, WaitTypeOK, Compare, Wake
  <2> QED BY <2>1, <2>2, <2>3, <2>4 DEF WaitSteps
<1> QED BY <1>2, <1>3, <1>5 DEF WaitTypes, WaitTypeOK, Working

LEMMA WaitStep == WaitTypes /\ [WaitNext]_waitVars => WaitTypes'
<1>1. WaitTypes /\ UNCHANGED waitVars => WaitTypes'
  BY DEF WaitTypes, WaitTypeOK, Working, waitVars
<1> QED BY <1>1, WaitingStep, TakeStep, WaitCallStep DEF WaitNext

LEMMA NobodyWorks ==
  ASSUME stage = [c \in Callers |-> "idle"]
  PROVE  IsFiniteSet(Working) /\ Cardinality(Working) <= Workers
<1>1. Working = {}
  BY DEF Working
<1> QED BY <1>1, FS_EmptySet, NetworkAssumption

LEMMA WaitStart == WaitInit \/ (WaitRests /\ Systems # {}) => WaitTypes
<1>1. ASSUME WaitInit PROVE WaitTypes
  BY <1>1, NobodyWorks, NetworkAssumption DEF WaitInit, WaitTypes, WaitTypeOK, Working, Contexts, Unknown
<1>2. ASSUME WaitRests, Systems # {} PROVE WaitTypes
  <2>1. (CHOOSE s \in Servers : TRUE) \in Servers /\ os \in Systems
    BY <1>2, NetworkAssumption DEF WaitRests
  <2>2. network \in [interface : Interfaces \cup {None}, dns : [Interfaces -> Servers \cup {None}],
                     global : Servers, ssid : {"home", None}]
    BY <1>2, <2>1 DEF WaitRests
  <2>3. /\ IsFiniteSet(Working) /\ Cardinality(Working) <= Workers
        /\ stage \in [Callers -> {"idle"}] /\ changes = 0 /\ queue = <<>> /\ late = {}
    BY <1>2, NobodyWorks DEF WaitRests
  <2>4. network.interface = None /\ network.dns \in [Interfaces -> Servers \cup {None}]
        /\ network.global \in Servers /\ network.ssid = None
    BY <1>2, <2>1 DEF WaitRests
  <2>5. Context \in Contexts
    <3>1. ServersOf(None) \in Servers \cup {None}
      BY <2>4 DEF ServersOf, LinuxServers, MacServers, WindowsServers
    <3>2. SsidOf(None) \in {"home", None}
      BY <2>4 DEF SsidOf
    <3> QED BY <2>4, <3>1, <3>2 DEF Context, Contexts
  <2> QED BY <1>2, <2>1, <2>2, <2>3, <2>5, NetworkAssumption DEF WaitRests, WaitTypes, WaitTypeOK, Working
<1> QED BY <1>1, <1>2

------------------------------------------------------------------------------
(* All of them together *)

\* The variables of the three components keep their types, and there are never
\* more waits at work than libuv has workers (platform.rs 105-123).
THEOREM UserTypes == Spec => []UserTypesOK
<1> DEFINE UserInv == LoginInv /\ TerminalInv /\ WaitTypes
<1>1. Init => UserInv
  <2> SUFFICES ASSUME Init PROVE UserInv
    OBVIOUS
  <2>1. LoginInit /\ TerminalInit /\ (WaitInit \/ WaitRests)
    BY DEF Init, LoginRests, TerminalRests
  <2>2. Systems # {}
    BY <2>1 DEF LoginInit
  <2> QED BY <2>1, <2>2, LoginStart, TerminalStart, WaitStart
<1>2. UserInv /\ [Next]_allVars => UserInv'
  <2> SUFFICES ASSUME UserInv, [Next]_allVars PROVE UserInv'
    OBVIOUS
  <2>1. [LoginNext]_loginVars /\ [TerminalNext]_terminalVars /\ [WaitNext]_waitVars
    BY DEF Next, allVars
  <2> QED BY <2>1, LoginStep, TerminalStep, WaitStep
<1>3. UserInv => UserTypesOK
  BY DEF LoginInv, TerminalInv, WaitTypes, UserTypesOK
<1> QED BY <1>1, <1>2, <1>3, PTL DEF Spec

------------------------------------------------------------------------------
(* The queue of the waits, and what callers come to know *)

\* The queue is in step with the stages.
LEMMA QueueStep ==
  ASSUME WaitTypeOK, QueuedOnce, [WaitNext]_waitVars
  PROVE  QueuedOnce'
<1>1. ASSUME NEW c \in Callers, Submit(c)
      PROVE  QueuedOnce'
  <2>1. /\ Len(queue') = Len(queue) + 1 /\ queue' \in Seq(Callers)
        /\ \A i \in 1..Len(queue) : queue'[i] = queue[i]
        /\ queue'[Len(queue) + 1] = c
    BY <1>1 DEF Submit, WaitTypeOK
  <2>2. \A i \in DOMAIN queue : queue[i] # c
    BY <1>1 DEF Submit, QueuedOnce
  <2>3. /\ \A i \in DOMAIN queue' : i \in DOMAIN queue \/ i = Len(queue) + 1
        /\ \A i \in DOMAIN queue : i \in DOMAIN queue' /\ queue'[i] = queue[i]
        /\ Len(queue) + 1 \in DOMAIN queue'
    <3>1. DOMAIN queue = 1..Len(queue) /\ DOMAIN queue' = 1..Len(queue') /\ Len(queue) \in Nat
      BY <2>1 DEF WaitTypeOK
    <3> QED BY <2>1, <3>1
  <2>4. \A d \in Callers : stage'[d] = "queued" <=> \E i \in DOMAIN queue' : queue'[i] = d
    <3>1. stage'[c] = "queued" /\ \A d \in Callers \ {c} : stage'[d] = stage[d]
      BY <1>1 DEF Submit, WaitTypeOK
    <3> QED BY <2>1, <2>3, <3>1 DEF QueuedOnce
  <2>5. \A i, j \in DOMAIN queue' : queue'[i] = queue'[j] => i = j
    BY <2>1, <2>2, <2>3 DEF QueuedOnce, WaitTypeOK
  <2> QED BY <2>4, <2>5 DEF QueuedOnce
<1>2. CASE Take
  <2>1. /\ queue \in Seq(Callers) /\ Len(queue) \in Nat \ {0} /\ Head(queue) = queue[1]
        /\ queue' \in Seq(Callers) /\ Len(queue') = Len(queue) - 1
        /\ \A i \in 1..Len(queue) - 1 : queue'[i] = queue[i + 1]
    BY <1>2 DEF Take, WaitTypeOK
  <2>2. \A d \in Callers : stage'[d] = "queued" <=> stage[d] = "queued" /\ d # queue[1]
    BY <1>2, <2>1 DEF Take, WaitTypeOK
  <2>3. \A d \in Callers : (\E i \in DOMAIN queue' : queue'[i] = d)
                             <=> \E i \in 2..Len(queue) : queue[i] = d
    <3> SUFFICES ASSUME NEW d \in Callers
                 PROVE  (\E i \in DOMAIN queue' : queue'[i] = d)
                           <=> \E i \in 2..Len(queue) : queue[i] = d
      OBVIOUS
    <3>1. ASSUME NEW i \in 2..Len(queue), queue[i] = d
          PROVE  i - 1 \in DOMAIN queue' /\ queue'[i - 1] = d
      BY <2>1, <3>1
    <3>2. ASSUME NEW i \in DOMAIN queue', queue'[i] = d
          PROVE  i + 1 \in 2..Len(queue) /\ queue[i + 1] = d
      BY <2>1, <3>2
    <3> QED BY <3>1, <3>2
  <2>4. \A i \in 2..Len(queue) : queue[i] # queue[1]
    <3>1. 1 \in DOMAIN queue /\ \A i \in 2..Len(queue) : i \in DOMAIN queue /\ i # 1
      BY <2>1
    <3> QED BY <3>1 DEF QueuedOnce
  <2>5. \A d \in Callers : stage'[d] = "queued" <=> \E i \in DOMAIN queue' : queue'[i] = d
    <3>1. DOMAIN queue = {1} \cup 2..Len(queue)
      BY <2>1
    <3>2. \A d \in Callers : (stage[d] = "queued" /\ d # queue[1])
                               <=> \E i \in 2..Len(queue) : queue[i] = d
      BY <2>4, <3>1 DEF QueuedOnce
    <3> QED BY <2>2, <2>3, <3>2
  <2>6. \A i, j \in DOMAIN queue' : queue'[i] = queue'[j] => i = j
    <3>1. \A i \in DOMAIN queue' : i \in Nat /\ i + 1 \in DOMAIN queue /\ queue'[i] = queue[i + 1]
      BY <2>1
    <3>2. ASSUME NEW i \in DOMAIN queue', NEW j \in DOMAIN queue', queue'[i] = queue'[j]
          PROVE  i = j
      <4>1. i + 1 = j + 1
        BY <3>1, <3>2 DEF QueuedOnce
      <4> QED BY <3>1, <4>1
    <3> QED BY <3>2
  <2> QED BY <2>5, <2>6 DEF QueuedOnce
<1>3. ASSUME NEW c \in Callers, WaitSteps(c)
      PROVE  QueuedOnce'
  <2>1. /\ queue' = queue
        /\ stage[c] # "queued" /\ stage'[c] # "queued"
        /\ \A d \in Callers \ {c} : stage'[d] = stage[d]
    BY <1>3 DEF WaitSteps, ReadInterface, ReadServers, ReadSsid, Compare, Wake, WaitTypeOK
  <2> QED BY <2>1 DEF QueuedOnce
<1>4. CASE UNCHANGED <<queue, stage>>
  BY <1>4 DEF QueuedOnce
<1> QED BY <1>1, <1>2, <1>3, <1>4 DEF WaitNext, NetworkMoves, TimePasses, waitVars

\* However many waits there are, each without a worker is in the queue, and in
\* it once: none is lost and none runs twice.
THEOREM WaitsQueued == Spec => []QueuedOnce
<1>1. Init => QueuedOnce
  BY DEF Init, WaitInit, WaitRests, QueuedOnce
<1>2. UserTypesOK /\ QueuedOnce /\ [Next]_allVars => QueuedOnce'
  <2> SUFFICES ASSUME UserTypesOK, QueuedOnce, [Next]_allVars PROVE QueuedOnce'
    OBVIOUS
  <2>1. [WaitNext]_waitVars
    BY DEF Next, allVars
  <2> QED BY <2>1, QueueStep DEF UserTypesOK
<1> QED BY <1>1, <1>2, UserTypes, PTL DEF Spec

\* A probe of a network that holds still is right at every step, and what it
\* finds is what the caller knows already.
LEMMA KnowledgeStep ==
  ASSUME WaitTypeOK, WaitNext, AllKnow, network' = network
  PROVE  AllKnow'
<1>1. os' = os
  BY DEF WaitNext, NetworkMoves, Submit, Take, WaitSteps, ReadInterface, ReadServers,
         ReadSsid, Compare, Wake, TimePasses
<1>2. /\ Context' = Context
      /\ \A i \in Interfaces \cup {None} : ServersOf(i)' = ServersOf(i)
  BY <1>1 DEF Context, ServersOf, LinuxServers, MacServers, WindowsServers, SsidOf
<1>3. /\ network.interface \in Interfaces \cup {None}
      /\ Context = [interface |-> network.interface, servers |-> ServersOf(network.interface),
                    ssid |-> SsidOf(network.interface)]
      /\ os = "windows" => ServersOf(network.interface) = WindowsServers(network.interface)
  BY DEF WaitTypeOK, Context, ServersOf
<1>4. ASSUME NEW c \in Callers, WaitSteps(c)
      PROVE  AllKnow'
  <2>1. ASSUME NEW d \in Callers \ {c}
        PROVE  stage'[d] = stage[d] /\ probe'[d] = probe[d] /\ known'[d] = known[d]
    BY <1>4 DEF WaitSteps, ReadInterface, ReadServers, ReadSsid, Compare, Wake, WaitTypeOK
  <2>2. /\ known'[c] = Context
        /\ stage'[c] = "servers" => probe'[c].interface = network.interface
        /\ stage'[c] = "ssid" => probe'[c].interface = network.interface /\ probe'[c].servers = Context.servers
        /\ stage'[c] = "compare" => probe'[c] = Context
    <3>1. CASE ReadInterface(c)
      BY <1>3, <3>1 DEF ReadInterface, AllKnow, WaitTypeOK
    <3>2. CASE ReadServers(c)
      <4>1. /\ probe'[c] = [probe[c] EXCEPT !.servers = ServersOf(probe[c].interface)]
            /\ stage'[c] = "ssid" /\ known'[c] = known[c]
        BY <3>2 DEF ReadServers, WaitTypeOK
      <4> QED BY <1>3, <3>2, <4>1 DEF ReadServers, AllKnow, WaitTypeOK, Contexts
    <3>3. CASE ReadSsid(c)
      <4>1. /\ probe'[c] = [probe[c] EXCEPT !.ssid = SsidOf(probe[c].interface)]
            /\ stage'[c] = "compare" /\ known'[c] = known[c]
        BY <3>3 DEF ReadSsid, WaitTypeOK
      <4> QED BY <1>3, <3>3, <4>1 DEF ReadSsid, AllKnow, WaitTypeOK, Contexts
    <3>4. CASE Compare(c)
      BY <3>4 DEF Compare, AllKnow, WaitTypeOK
    <3>5. CASE Wake(c)
      BY <3>5 DEF Wake, AllKnow, WaitTypeOK
    <3> QED BY <1>4, <3>1, <3>2, <3>3, <3>4, <3>5 DEF WaitSteps
  <2> QED BY <1>2, <2>1, <2>2 DEF AllKnow
<1>5. ASSUME NEW d \in Callers, UNCHANGED <<probe, known>>,
             stage' = [stage EXCEPT ![d] = "queued"] \/ stage' = [stage EXCEPT ![d] = "interface"]
                \/ stage' = stage
      PROVE  AllKnow'
  <2>1. \A c \in Callers : stage'[c] \in {"servers", "ssid", "compare"} => stage'[c] = stage[c]
    BY <1>5 DEF WaitTypeOK
  <2> QED BY <1>2, <1>5, <2>1 DEF AllKnow
<1>6. CASE Take
  <2>1. Head(queue) \in Callers
    BY <1>6 DEF Take, WaitTypeOK
  <2> QED BY <1>5, <1>6, <2>1 DEF Take
<1> QED BY <1>4, <1>5, <1>6 DEF WaitNext, NetworkMoves, Submit, TimePasses

\* The safety half of KnowledgeConverges: as long as the network holds still
\* nobody who knows it comes to believe anything else.
THEOREM KnowledgeKept == Spec => KnowledgeStays
<1>1. UserTypesOK /\ [Next]_allVars => [AllKnow /\ network' = network => AllKnow']_waitVars
  <2> SUFFICES ASSUME UserTypesOK, [Next]_allVars, AllKnow, network' = network, waitVars' # waitVars
               PROVE  AllKnow'
    OBVIOUS
  <2>1. WaitNext
    BY DEF Next, allVars
  <2> QED BY <2>1, KnowledgeStep DEF UserTypesOK
<1> QED BY <1>1, UserTypes, PTL DEF Spec, KnowledgeStays

==============================================================================
