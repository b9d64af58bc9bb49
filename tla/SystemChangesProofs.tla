------------------------- MODULE SystemChangesProofs -------------------------
(***************************************************************************)
(* Proofs about changes of the whole system: the administrator's jobs, the *)
(* LaunchDaemon, the rules of the firewall, the loopback exemptions, the   *)
(* proxy of Windows and the portable updater, for any number of            *)
(* overlapping calls, cores, app containers and files.                     *)
(***************************************************************************)
EXTENDS MCSystemChanges, TLAPS

------------------------------------------------------------------------------
(* The administrator's jobs *)

CoreActs == {"chown-root", "set-bit", "clear-bit"}

Rooted(S) == \A f \in S \ swapped : files[f].owner = "root"

\* Only the commands for cores touch cores, those of the call's own job; the bit
\* comes next after the owner, or the owner is root already.
CommandInv(c) ==
  \A i \in 1..Len(commands[c]) :
    LET m == commands[c][i] IN
    /\ m.act \in CoreActs => m.on \subseteq job[c].cores
    /\ m.act \notin CoreActs => m.on \cap Cores = {}
    /\ m.act = "set-bit" =>
         \/ i = 2 /\ commands[c][1].act = "chown-root" /\ commands[c][1].on = m.on
         \/ i = 1 /\ Rooted(m.on)

\* The command that runs has made root the owner of what it is done with, or it
\* has failed.
RunInv(c) ==
  stand[c] = "run" =>
    /\ commands[c] # <<>> /\ rest[c] \subseteq Head(commands[c]).on
    /\ Head(commands[c]).act = "chown-root" /\ failed[c] = "NO" =>
         Rooted(Head(commands[c]).on \ rest[c])

AdminTypes ==
  /\ adminOS \in {"linux", "macos"}
  /\ files \in [Files -> State]
  /\ stand \in [Callers -> {"idle", "prompt", "run", "status"}]
  /\ job \in [Callers -> Job \cup {NoJob}]
  /\ commands \in [Callers -> Seq(Command)]
  /\ rest \in [Callers -> SUBSET Files] /\ failed \in [Callers -> {"YES", "NO"}]
  /\ swapped \subseteq Cores

AdminInv ==
  /\ AdminTypes /\ SetuidMeansRoot
  /\ \A c \in Callers :
       /\ CommandInv(c) /\ RunInv(c)
       /\ stand[c] = "prompt" => commands[c] # <<>>
       /\ stand[c] \in {"prompt", "idle"} => failed[c] = "NO"

LEMMA AdminStart == AdminInit => AdminInv
<1> SUFFICES ASSUME AdminInit PROVE AdminInv
  OBVIOUS
<1>1. files \in [Files -> State] /\ SetuidMeansRoot
  BY CoresAssumption
     DEF AdminInit, Files, State, Fresh, Spoilt, Missing, SetuidMeansRoot, Folder, Managed
<1>2. AdminTypes
  BY <1>1, SystemsAssumption DEF AdminInit, AdminTypes, NoJob
<1> QED BY <1>1, <1>2 DEF AdminInit, AdminInv, CommandInv, RunInv

\* A job comes as commands that keep the order.
LEMMA ScriptFits ==
  ASSUME NEW j \in Jobs, AdminTypes
  PROVE  /\ Script(j) \in Seq(Command) /\ Script(j) # <<>>
         /\ \A i \in 1..Len(Script(j)) :
              LET m == Script(j)[i] IN
              /\ m.act \in CoreActs => m.on \subseteq j.cores
              /\ m.act \notin CoreActs => m.on \cap Cores = {}
              /\ m.act = "set-bit" =>
                   i = 2 /\ Script(j)[1].act = "chown-root" /\ Script(j)[1].on = m.on
<1> USE CoresAssumption
    DEF Jobs, Job, Script, Command, Act, Asked, Chained, CoreActs, Files, Folder, Managed, Legacy,
        Service
<1>1. CASE j.operation = "grant"
  BY <1>1
<1>2. CASE j.operation = "revoke"
  BY <1>2
<1>3. CASE j.operation = "repair"
  BY <1>3
<1>4. CASE j.operation = "cleanup"
  BY <1>4
<1>5. CASE j.operation = "service"
  BY <1>5
<1> QED BY <1>1, <1>2, <1>3, <1>4, <1>5

LEMMA BeginStep ==
  ASSUME AdminInv, NEW c \in Callers, NEW j \in Jobs, Begin(c, j)
  PROVE  AdminInv'
<1>1. AdminTypes'
  BY ScriptFits DEF AdminInv, AdminTypes, Begin, Jobs
<1>2. ASSUME NEW d \in Callers
      PROVE  CommandInv(d)'
  <2>1. CASE d = c
    <3>1. commands'[c] = Script(j) /\ job'[c] = j
      BY DEF AdminInv, AdminTypes, Begin
    <3> QED BY <2>1, <3>1, ScriptFits DEF CommandInv, AdminInv
  <2>2. CASE d # c
    <3>1. commands'[d] = commands[d] /\ job'[d] = job[d] /\ UNCHANGED <<files, swapped>>
      BY <2>2 DEF AdminInv, AdminTypes, Begin
    <3> QED BY <3>1 DEF CommandInv, AdminInv, Rooted
  <2> QED BY <2>1, <2>2
<1>3. commands'[c] # <<>>
  BY ScriptFits DEF AdminInv, AdminTypes, Begin
<1> QED BY <1>1, <1>2, <1>3 DEF AdminInv, AdminTypes, Begin, RunInv, Rooted, SetuidMeansRoot

LEMMA HeadType ==
  ASSUME NEW s \in Seq(Command), s # <<>>
  PROVE  /\ Head(s).act \in Act /\ Head(s).on \in SUBSET Files /\ Head(s).asks \in {"YES", "NO"}
         /\ Head(s) = s[1] /\ 1 \in 1..Len(s)
<1>1. Head(s) \in Command /\ Head(s) = s[1] /\ 1 \in 1..Len(s)
  OBVIOUS
<1> QED BY <1>1 DEF Command

LEMMA TailFacts ==
  ASSUME NEW s \in Seq(Command), s # <<>>
  PROVE  /\ Tail(s) \in Seq(Command) /\ Head(s) = s[1] /\ Len(Tail(s)) = Len(s) - 1
         /\ \A i \in 1..Len(Tail(s)) : Tail(s)[i] = s[i + 1] /\ i + 1 \in 1..Len(s)
OBVIOUS

\* The steps that change no file.
LEMMA QuietStep ==
  ASSUME AdminInv, NEW c \in Callers, Approve(c) \/ Decline(c) \/ Status(c)
  PROVE  AdminInv'
<1> USE DEF AdminInv, AdminTypes, CommandInv, RunInv, Rooted, SetuidMeansRoot, Leaves
<1>1. CASE Approve(c)
  <2>1. Head(commands[c]).on \in SUBSET Files
    BY <1>1, HeadType DEF Approve
  <2>2. rest' = [rest EXCEPT ![c] = Head(commands[c]).on]
    BY <1>1 DEF Approve
  <2>3. AdminTypes'
    BY <1>1, <2>1 DEF Approve
  <2>4. RunInv(c)'
    BY <1>1, <2>1, <2>2 DEF Approve
  <2> QED BY <1>1, <2>3, <2>4 DEF Approve
<1>2. CASE Decline(c)
  BY <1>2 DEF Decline
<1>3. CASE Status(c)
  BY <1>3 DEF Status
<1> QED BY <1>1, <1>2, <1>3

\* Commands for cores, and the one that runs, are about cores of the job.
LEMMA CoreCommands ==
  ASSUME AdminInv, NEW c \in Callers, NEW i \in 1..Len(commands[c]),
         commands[c][i].act \in CoreActs
  PROVE  commands[c][i].on \subseteq job[c].cores /\ commands[c][i].on \in SUBSET Cores
<1>1. job[c].cores \subseteq Cores
  BY DEF AdminInv, AdminTypes, Job, NoJob
<1> QED BY <1>1 DEF AdminInv, CommandInv

LEMMA RunsCores ==
  ASSUME AdminInv, NEW c \in Callers, stand[c] = "run", Head(commands[c]).act = "chown-root"
  PROVE  /\ Head(commands[c]).on \subseteq job[c].cores /\ Head(commands[c]).on \in SUBSET Cores
<1>1. Head(commands[c]) = commands[c][1] /\ 1 \in 1..Len(commands[c])
  BY HeadType DEF AdminInv, AdminTypes, RunInv
<1> QED BY <1>1, CoreCommands DEF CoreActs

\* What a command makes of a state: only chown changes the owner, only set-bit
\* sets the bit.
LEMMA ChangedState ==
  ASSUME NEW act \in Act, NEW state \in State, state # Missing
  PROVE  /\ Changed(act, state) \in State
         /\ act = "chown-root" => Changed(act, state).owner = "root"
         /\ act \in CoreActs /\ state.owner = "root" => Changed(act, state).owner = "root"
         /\ act \in CoreActs /\ act # "set-bit" /\ Changed(act, state).setuid = "YES"
              => state.setuid = "YES"
<1> USE DEF Act, State, Missing, Changed, CoreActs
<1>1. CASE act \in {"chown-root", "chown-user"}
  BY <1>1
<1>2. CASE act \in {"set-bit", "clear-bit"}
  BY <1>2
<1>3. CASE act \in {"allow", "remove", "mkdir", "run"}
  BY <1>3
<1> QED BY <1>1, <1>2, <1>3

\* What each command makes of a file that is there.
LEMMA ChangedFields ==
  ASSUME NEW state \in State
  PROVE  /\ Changed("chown-root", state).owner = "root"
         /\ Changed("set-bit", state).owner = state.owner
         /\ Changed("set-bit", state).setuid = "YES"
         /\ Changed("clear-bit", state).owner = state.owner
         /\ Changed("clear-bit", state).setuid = "NO"
         /\ Changed("chown-user", state).owner = "user"
         /\ Changed("allow", state).owner = state.owner
         /\ Changed("allow", state).usable = "YES"
         /\ Changed("mkdir", state) = state
         /\ Missing.owner = "nobody" /\ Spoilt.owner = "root"
BY DEF State, Changed, Missing, Spoilt

\* A command is done with a file: a core has the bit only once root owns it.
LEMMA ChangeStep ==
  ASSUME AdminInv, NEW c \in Callers, NEW f \in Files, ChangeFile(c, f)
  PROVE  AdminInv'
<1> DEFINE act == Head(commands[c]).act
           on == Head(commands[c]).on
<1>1. /\ commands[c] \in Seq(Command) /\ commands[c] # <<>> /\ f \in on /\ f \in rest[c]
      /\ act \in Act /\ Head(commands[c]) = commands[c][1] /\ 1 \in 1..Len(commands[c])
  BY HeadType DEF AdminInv, AdminTypes, RunInv, ChangeFile
<1>2. f \in Cores => act \in CoreActs
  BY <1>1 DEF AdminInv, CommandInv
<1>3. f \in Cores \ swapped /\ act = "set-bit" => files[f].owner = "root"
  BY <1>1 DEF AdminInv, CommandInv, Rooted
<1>4. files[f] \in State /\ (files[f] # Missing => Changed(act, files[f]) \in State)
  BY <1>1, ChangedState DEF AdminInv, AdminTypes
<1>5. /\ files' \in [Files -> State]
      /\ \A g \in Files \ {f} : files'[g] = files[g]
      /\ files[f] # Missing => files'[f] = Changed(act, files[f])
      /\ files[f] = Missing /\ f \in Cores => files'[f] = Missing
  <2>1. act # "mkdir" \/ f \notin Cores
    BY <1>2 DEF CoreActs
  <2> QED BY <1>4, <2>1 DEF AdminInv, AdminTypes, ChangeFile, State, Missing, Spoilt
<1>6. f \in Cores => /\ files'[f].setuid = "YES" =>
                           files[f].setuid = "YES" \/ (act = "set-bit" /\ files[f] # Missing)
                     /\ files[f].owner = "root" => files'[f].owner = "root"
                     /\ act = "chown-root" /\ files[f] # Missing => files'[f].owner = "root"
  <2>1. Missing.setuid = "NO" /\ Missing.owner = "nobody"
    BY DEF Missing
  <2> QED BY <1>1, <1>2, <1>4, <1>5, <2>1, ChangedState
<1>7. UNCHANGED <<adminOS, stand, job, commands, swapped>>
  BY DEF ChangeFile
<1>8. AdminTypes'
  BY <1>5, <1>7 DEF AdminInv, AdminTypes, ChangeFile
<1>9. SetuidMeansRoot'
  BY <1>3, <1>5, <1>6, <1>7 DEF AdminInv, SetuidMeansRoot, Files
<1>10. /\ swapped' = swapped
       /\ \A g \in Cores \ swapped : files[g].owner = "root" => files'[g].owner = "root"
  BY <1>5, <1>6, <1>7 DEF Files
<1>11. ASSUME NEW d \in Callers
       PROVE  CommandInv(d)' /\ RunInv(d)'
  <2>1. CommandInv(d)'
    BY <1>7, <1>10, CoreCommands DEF AdminInv, CommandInv, Rooted, CoreActs
  <2>2. CASE d # c
    <3>1. rest'[d] = rest[d] /\ failed'[d] = failed[d]
      BY <2>2 DEF ChangeFile
    <3>2. RunInv(d)
      BY DEF AdminInv
    <3>3. stand[d] = "run" /\ Head(commands[d]).act = "chown-root"
            => Head(commands[d]).on \in SUBSET Cores
      BY RunsCores
    <3>4. commands' = commands /\ stand' = stand /\ swapped' = swapped
      BY <1>7
    <3>5. ASSUME stand[d] = "run", Head(commands[d]).act = "chown-root", failed[d] = "NO"
          PROVE  \A g \in (Head(commands[d]).on \ rest[d]) \ swapped : files'[g].owner = "root"
      <4>1. Rooted(Head(commands[d]).on \ rest[d])
        BY <3>2, <3>5 DEF RunInv
      <4> QED BY <1>10, <3>3, <3>5, <4>1 DEF Rooted
    <3> QED BY <2>1, <3>1, <3>2, <3>4, <3>5 DEF RunInv, Rooted
  <2>3. CASE d = c
    <3>1. /\ rest'[c] = rest[c] \ {f}
          /\ failed'[c] = "NO" => failed[c] = "NO" /\ (files[f] # Missing \/ f \notin Cores)
      BY DEF AdminInv, AdminTypes, ChangeFile
    <3>2. SUFFICES ASSUME act = "chown-root", failed'[c] = "NO"
                   PROVE  \A g \in (on \ rest'[c]) \ swapped : files'[g].owner = "root"
      <4>1. RunInv(c) /\ stand[c] = "run"
        BY DEF AdminInv, ChangeFile
      <4>2. commands' = commands /\ stand' = stand /\ swapped' = swapped
        BY <1>7
      <4> QED BY <2>1, <2>3, <3>1, <4>1, <4>2 DEF RunInv, Rooted
    <3>3. on \subseteq Cores /\ Rooted(on \ rest[c])
      BY <3>1, <3>2, RunsCores DEF AdminInv, RunInv, ChangeFile
    <3>4. files'[f].owner = "root"
      BY <1>1, <1>6, <3>1, <3>2, <3>3
    <3> QED BY <1>10, <3>1, <3>3, <3>4 DEF Rooted
  <2> QED BY <2>1, <2>2, <2>3
<1> QED BY <1>7, <1>8, <1>9, <1>11 DEF AdminInv, ChangeFile

\* The next command, or the end of the job.
LEMMA NextStep ==
  ASSUME AdminInv, NEW c \in Callers, NextCommand(c)
  PROVE  AdminInv'
<1>1. CASE failed[c] = "YES"
  <2>1. Leaves(c) /\ UNCHANGED <<adminOS, files, swapped>>
    BY <1>1 DEF NextCommand
  <2> QED BY <2>1 DEF AdminInv, AdminTypes, CommandInv, RunInv, Rooted, SetuidMeansRoot, Leaves
<1>2. CASE failed[c] # "YES"
  <2> DEFINE left == Tail(commands[c])
  <2>1. /\ commands[c] \in Seq(Command) /\ commands[c] # <<>> /\ left \in Seq(Command)
        /\ Head(commands[c]) = commands[c][1] /\ Len(left) = Len(commands[c]) - 1
        /\ \A i \in 1..Len(left) : left[i] = commands[c][i + 1] /\ i + 1 \in 1..Len(commands[c])
    <3>1. commands[c] \in Seq(Command) /\ commands[c] # <<>>
      BY DEF AdminInv, AdminTypes, RunInv, NextCommand
    <3> QED BY <3>1, TailFacts
  <2>2. /\ commands' = [commands EXCEPT ![c] = left] /\ UNCHANGED <<adminOS, files, swapped, job, failed>>
        /\ failed[c] = "NO" /\ rest[c] = {} /\ stand[c] = "run"
    BY <1>2 DEF NextCommand, AdminInv, AdminTypes
  <2>3. left # <<>> => Head(left).on \in SUBSET Files
    BY <2>1, HeadType
  <2>4. /\ stand' \in [Callers -> {"idle", "prompt", "run", "status"}]
        /\ rest' \in [Callers -> SUBSET Files]
        /\ \A d \in Callers \ {c} : stand'[d] = stand[d] /\ rest'[d] = rest[d]
        /\ stand'[c] = "prompt" => left # <<>>
        /\ stand'[c] = "run" => left # <<>> /\ rest'[c] = Head(left).on
        /\ stand'[c] # "idle"
    <3>1. /\ stand' = [stand EXCEPT ![c] =
               IF left = <<>> THEN "status"
               ELSE IF Head(left).asks = "YES" THEN "prompt" ELSE "run"]
          /\ rest' = [rest EXCEPT ![c] =
               IF left # <<>> /\ Head(left).asks = "NO" THEN Head(left).on ELSE {}]
      BY <1>2 DEF NextCommand
    <3>2. left # <<>> => Head(left).asks \in {"YES", "NO"}
      BY <2>1, HeadType
    <3> QED BY <2>3, <3>1, <3>2 DEF AdminInv, AdminTypes
  <2>5. AdminTypes' /\ SetuidMeansRoot'
    BY <2>1, <2>2, <2>4 DEF AdminInv, AdminTypes, SetuidMeansRoot
  <2>6. CommandInv(c)'
    <3>0. commands'[c] = left /\ job'[c] = job[c] /\ swapped' = swapped /\ files' = files
      BY <2>2 DEF AdminInv, AdminTypes
    <3>1. SUFFICES ASSUME NEW i \in 1..Len(left)
                   PROVE  /\ left[i].act \in CoreActs => left[i].on \subseteq job[c].cores
                          /\ left[i].act \notin CoreActs => left[i].on \cap Cores = {}
                          /\ left[i].act = "set-bit" => i = 1 /\ Rooted(left[i].on)
      <4> HIDE DEF left
      <4> QED BY <3>0 DEF CommandInv, Rooted
    <3>2. i + 1 \in 1..Len(commands[c]) /\ left[i] = commands[c][i + 1]
      BY <2>1
    <3>3. CASE left[i].act = "set-bit"
      <4>1. i = 1 /\ commands[c][1].act = "chown-root" /\ commands[c][1].on = left[i].on
        BY <3>2, <3>3 DEF AdminInv, CommandInv
      <4>2. Rooted(commands[c][1].on \ rest[c])
        BY <2>1, <2>2, <4>1 DEF AdminInv, RunInv
      <4>3. commands[c][1].on \ rest[c] = left[i].on
        BY <2>2, <4>1
      <4> QED BY <3>2, <4>1, <4>2, <4>3 DEF AdminInv, CommandInv
    <3> QED BY <3>2, <3>3 DEF AdminInv, CommandInv
  <2>7. RunInv(c)'
    BY <2>2, <2>4 DEF AdminInv, AdminTypes, RunInv, Rooted
  <2>8. ASSUME NEW d \in Callers \ {c}
        PROVE  CommandInv(d)' /\ RunInv(d)'
    BY <2>2, <2>4 DEF AdminInv, AdminTypes, CommandInv, RunInv, Rooted
  <2> QED BY <2>2, <2>4, <2>5, <2>6, <2>7, <2>8 DEF AdminInv, AdminTypes
<1> QED BY <1>1, <1>2

\* Desktop replaces a core: that counts against a grant half way through it, and
\* the new file has no bit.
LEMMA ReplaceStep ==
  ASSUME AdminInv, NEW f \in Cores, ReplaceCore(f)
  PROVE  AdminInv'
<1>1. UNCHANGED <<adminOS, stand, job, commands, rest, failed>>
  BY DEF ReplaceCore
<1>2. /\ files' \in [Files -> State] /\ files'[f].setuid = "NO" /\ f \in Files
      /\ \A g \in Files \ {f} : files'[g] = files[g]
  BY DEF ReplaceCore, AdminInv, AdminTypes, Files, State, Fresh, Missing
<1>3. /\ swapped' \subseteq Cores /\ swapped \ {f} \subseteq swapped'
      /\ \A d \in Callers : Halfway(d, f) => f \in swapped'
  BY DEF ReplaceCore, AdminInv, AdminTypes
<1>4. AdminTypes' /\ SetuidMeansRoot'
  BY <1>1, <1>2, <1>3 DEF AdminInv, AdminTypes, SetuidMeansRoot, Files
<1>5. ASSUME NEW d \in Callers, NEW g \in Cores \ swapped', Halfway(d, g)
      PROVE  g \notin swapped /\ files'[g] = files[g]
  BY <1>2, <1>3, <1>5 DEF Files
<1>6. ASSUME NEW d \in Callers
      PROVE  CommandInv(d)' /\ RunInv(d)'
  <2>0. commands[d] # <<>> => Head(commands[d]) = commands[d][1]
    BY HeadType DEF AdminInv, AdminTypes
  <2>1. CommandInv(d)'
    <3>1. ASSUME 1 \in 1..Len(commands[d]), commands[d][1].act = "set-bit", Rooted(commands[d][1].on)
          PROVE  Rooted(commands[d][1].on)'
      <4>1. commands[d] # <<>> /\ \A g \in commands[d][1].on : Halfway(d, g)
        BY <2>0, <3>1 DEF AdminInv, AdminTypes, Halfway
      <4>2. commands[d][1].on \in SUBSET Cores
        BY <3>1, CoreCommands DEF CoreActs
      <4> QED BY <1>1, <1>5, <3>1, <4>1, <4>2 DEF Rooted
    <3>2. CommandInv(d) /\ commands' = commands /\ job' = job
      BY <1>1 DEF AdminInv
    <3> QED BY <3>1, <3>2 DEF CommandInv
  <2>2. RunInv(d)'
    <3>1. ASSUME stand[d] = "run", commands[d] # <<>>, Head(commands[d]).act = "chown-root",
                 Rooted(Head(commands[d]).on \ rest[d])
          PROVE  Rooted(Head(commands[d]).on \ rest[d])'
      <4>1. \A g \in Head(commands[d]).on \ rest[d] : Halfway(d, g)
        BY <3>1 DEF Halfway
      <4>2. Head(commands[d]).on \in SUBSET Cores
        BY <3>1, RunsCores
      <4> QED BY <1>1, <1>5, <3>1, <4>1, <4>2 DEF Rooted
    <3>2. RunInv(d) /\ commands' = commands /\ stand' = stand /\ rest' = rest /\ failed' = failed
      BY <1>1 DEF AdminInv
    <3> QED BY <3>1, <3>2 DEF RunInv
  <2> QED BY <2>1, <2>2
<1> QED BY <1>1, <1>4, <1>6 DEF AdminInv

LEMMA AdminStep == AdminInv /\ [AdminNext]_adminVars => AdminInv'
<1> SUFFICES ASSUME AdminInv, [AdminNext]_adminVars PROVE AdminInv'
  OBVIOUS
<1>1. CASE AdminNext
  BY <1>1, BeginStep, QuietStep, ChangeStep, NextStep, ReplaceStep DEF AdminNext, AdminDoes
<1>2. CASE UNCHANGED adminVars
  BY <1>2 DEF adminVars, AdminInv, AdminTypes, SetuidMeansRoot, CommandInv, RunInv, Rooted
<1> QED BY <1>1, <1>2

\* However jobs interleave and fail, a core that Desktop has not replaced half way
\* through a grant has the set-user-ID bit only if root owns it (privileges.rs
\* 102-112).
THEOREM BitNeedsRoot == AdminSpec => []SetuidMeansRoot
<1>1. AdminInv => SetuidMeansRoot
  BY DEF AdminInv
<1> QED BY <1>1, AdminStart, AdminStep, PTL DEF AdminSpec

\* The commands of a job, counted from its end, and the files they are done with.
NthAct(o, k) ==
  IF o = "grant" THEN IF k = 2 THEN "chown-root" ELSE "set-bit"
  ELSE IF o = "revoke" THEN "clear-bit"
  ELSE IF o = "cleanup" THEN "remove"
  ELSE IF o = "service" THEN "run"
  ELSE IF k = 5 THEN "mkdir" ELSE IF k \in {2, 4} THEN "chown-user" ELSE "allow"

NthOn(j, k) ==
  IF j.operation \in {"grant", "revoke"} THEN j.cores
  ELSE IF j.operation = "cleanup" THEN {Legacy}
  ELSE IF j.operation = "service" THEN {Service}
  ELSE IF k \in {1, 2} THEN {Managed} ELSE {Folder}

\* What is left of a job is the end of its script.
PlanInv(c) ==
  stand[c] # "idle" =>
    /\ job[c] \in Jobs
    /\ \A i \in 1..Len(commands[c]) :
         LET k == Len(commands[c]) - i + 1 IN
         commands[c][i].act = NthAct(job[c].operation, k) /\ commands[c][i].on = NthOn(job[c], k)
    /\ stand[c] = "status" => commands[c] = <<>>

\* The k-th command from the end has been done with the file.
Done(c, f, k) ==
  \/ k > Len(commands[c])
  \/ k = Len(commands[c]) /\ stand[c] = "run" /\ f \notin rest[c]

\* What an undisturbed call has come to.
Reached(c) ==
  LET o == job[c].operation IN
  /\ o = "grant" => \A f \in job[c].cores :
       /\ Done(c, f, 2) => files[f].owner = "root"
       /\ Done(c, f, 1) => files[f].setuid = "YES"
  /\ o = "revoke" => \A f \in job[c].cores : Done(c, f, 1) => files[f].setuid = "NO"
  /\ o \in {"grant", "revoke"} => \A f \in job[c].cores : files[f] # Missing
  /\ o = "repair" =>
       /\ Done(c, Folder, 5) => files[Folder] # Missing
       /\ Done(c, Folder, 4) => files[Folder].owner = "user"
       /\ Done(c, Folder, 3) => files[Folder].usable = "YES"
       /\ Done(c, Managed, 2) => files[Managed] = Missing \/ files[Managed].owner = "user"
       /\ Done(c, Managed, 1) => files[Managed] = Missing \/ files[Managed].usable = "YES"
  /\ o = "cleanup" => (Done(c, Legacy, 1) => files[Legacy] = Missing)

\* Only cores get the bit, and only a missing file has no owner.
Plain ==
  /\ files[Folder].setuid = "NO" /\ files[Managed].setuid = "NO"
  /\ \A f \in Files : files[f].owner = "nobody" => files[f] = Missing

JobInv ==
  /\ AdminInv /\ Plain /\ AdminAsAnswered
  /\ calm \subseteq Callers /\ kept \in Jobs \cup {NoJob}
  /\ \A c \in Callers : PlanInv(c) /\ (c \in calm /\ stand[c] # "idle" => Reached(c))

LEMMA JobStart == AdminInit => JobInv
BY AdminStart, CoresAssumption
   DEF AdminInit, JobInv, Plain, AdminAsAnswered, PlanInv, NoJob, Fresh, Spoilt, Missing, Folder, Managed,
       Files, Legacy, Service

\* The script of a job is its plan.
LEMMA ScriptPlan ==
  ASSUME NEW j \in Jobs
  PROVE  /\ Len(Script(j)) \in Nat
         /\ j.operation = "grant" => Len(Script(j)) = 2
         /\ j.operation = "repair" => Len(Script(j)) = 5
         /\ j.operation \in {"revoke", "cleanup", "service"} => Len(Script(j)) = 1
         /\ \A i \in 1..Len(Script(j)) :
              LET k == Len(Script(j)) - i + 1 IN
              Script(j)[i].act = NthAct(j.operation, k) /\ Script(j)[i].on = NthOn(j, k)
<1> USE DEF Jobs, Job, Script, Asked, Chained, NthAct, NthOn
<1>1. CASE j.operation = "grant"
  BY <1>1
<1>2. CASE j.operation = "revoke"
  BY <1>2
<1>3. CASE j.operation = "repair"
  <2>1. Len(Script(j)) = 5
    BY <1>3
  <2>2. ASSUME NEW i \in 1..5
        PROVE  /\ Script(j)[i].act = NthAct(j.operation, 6 - i)
               /\ Script(j)[i].on = NthOn(j, 6 - i)
    <3>1. CASE i = 1
      BY <1>3, <3>1
    <3>2. CASE i = 2
      BY <1>3, <3>2
    <3>3. CASE i = 3
      BY <1>3, <3>3
    <3>4. CASE i = 4
      BY <1>3, <3>4
    <3>5. CASE i = 5
      BY <1>3, <3>5
    <3> QED BY <3>1, <3>2, <3>3, <3>4, <3>5
  <2>3. \A i \in 1..5 : 5 - i + 1 = 6 - i
    OBVIOUS
  <2> HIDE DEF Script, NthAct, NthOn
  <2> QED BY <1>3, <2>1, <2>2, <2>3
<1>4. CASE j.operation = "cleanup"
  BY <1>4
<1>5. CASE j.operation = "service"
  BY <1>5
<1> QED BY <1>1, <1>2, <1>3, <1>4, <1>5

\* A step that is not the call's, and does not change what its job is about.
LEMMA ApartStep ==
  ASSUME JobInv, NEW d \in Callers,
         commands'[d] = commands[d], stand'[d] = stand[d], rest'[d] = rest[d], job'[d] = job[d]
  PROVE  /\ PlanInv(d)'
         /\ d \in calm /\ stand[d] # "idle" /\ (\A f \in Touches(job[d]) : files'[f] = files[f])
              => Reached(d)'
<1>1. PlanInv(d)'
  BY DEF JobInv, PlanInv
<1>2. ASSUME d \in calm, stand[d] # "idle", \A f \in Touches(job[d]) : files'[f] = files[f]
      PROVE  Reached(d)'
  <2>1. Reached(d) /\ job[d] \in Jobs
    BY <1>2 DEF JobInv, PlanInv
  <2>2. \A f, k : Done(d, f, k)' <=> Done(d, f, k)
    BY DEF Done
  <2>3. CASE job[d].operation \in {"grant", "revoke"}
    <3>1. Touches(job[d]) = job[d].cores
      BY <2>3 DEF Touches
    <3> QED BY <1>2, <2>1, <2>3, <3>1 DEF Reached, Done
  <2>4. CASE job[d].operation = "repair"
    <3>1. Touches(job[d]) = {Folder, Managed}
      BY <2>4 DEF Touches
    <3> QED BY <1>2, <2>1, <2>4, <3>1 DEF Reached, Done
  <2>5. CASE job[d].operation \notin {"grant", "revoke", "repair"}
    <3>1. Touches(job[d]) = {Legacy}
      BY <2>5 DEF Touches
    <3> QED BY <1>2, <2>1, <2>5, <3>1 DEF Reached, Done
  <2> QED BY <2>3, <2>4, <2>5
<1> QED BY <1>1, <1>2

LEMMA JobBegin ==
  ASSUME JobInv, NEW c \in Callers, NEW j \in Jobs, Begin(c, j)
  PROVE  JobInv'
<1>1. /\ job'[c] = j /\ commands'[c] = Script(j) /\ stand'[c] = "prompt"
      /\ \A d \in Callers \ {c} : /\ commands'[d] = commands[d] /\ stand'[d] = stand[d]
                                  /\ rest'[d] = rest[d] /\ job'[d] = job[d]
      /\ calm' = calm \cup {c} /\ UNCHANGED <<files, kept>>
      /\ \A f \in j.cores : files[f] # Missing
  BY DEF Begin, JobInv, AdminInv, AdminTypes
<1>2. PlanInv(c)'
  BY <1>1, ScriptPlan DEF PlanInv
<1>3. Reached(c)'
  <2>1. CASE j.operation = "grant"
    <3>1. Len(commands'[c]) = 2 /\ stand'[c] # "run" /\ job'[c] = j
      BY <1>1, <2>1, ScriptPlan
    <3>2. \A f : ~Done(c, f, 1)' /\ ~Done(c, f, 2)'
      BY <3>1 DEF Done
    <3> QED BY <1>1, <2>1, <3>2 DEF Reached
  <2>2. CASE j.operation = "repair"
    <3>1. Len(commands'[c]) = 5 /\ stand'[c] # "run" /\ job'[c] = j
      BY <1>1, <2>2, ScriptPlan
    <3> QED BY <2>2, <3>1 DEF Reached, Done
  <2>3. CASE j.operation \in {"revoke", "cleanup", "service"}
    <3>1. Len(commands'[c]) = 1 /\ stand'[c] # "run" /\ job'[c] = j
      BY <1>1, <2>3, ScriptPlan
    <3>2. \A f : ~Done(c, f, 1)'
      BY <3>1 DEF Done
    <3> QED BY <1>1, <2>3, <3>2 DEF Reached
  <2> QED BY <2>1, <2>2, <2>3 DEF Jobs, Job
<1>4. ASSUME NEW d \in Callers \ {c}
      PROVE  PlanInv(d)' /\ ((d \in calm /\ stand[d] # "idle") => Reached(d)')
  BY <1>1, ApartStep
<1>5. AdminInv'
  BY BeginStep DEF JobInv
<1> QED BY <1>1, <1>2, <1>3, <1>4, <1>5 DEF JobInv, Plain, AdminAsAnswered

LEMMA JobQuiet ==
  ASSUME JobInv, NEW c \in Callers, Approve(c) \/ Decline(c) \/ Status(c)
  PROVE  JobInv'
<1>1. AdminInv'
  BY QuietStep DEF JobInv
<1>2. /\ UNCHANGED <<files, calm>>
      /\ \A d \in Callers \ {c} : /\ commands'[d] = commands[d] /\ stand'[d] = stand[d]
                                  /\ rest'[d] = rest[d] /\ job'[d] = job[d]
  BY DEF Approve, Decline, Status, Leaves, JobInv, AdminInv, AdminTypes
<1>3. ASSUME NEW d \in Callers \ {c}
      PROVE  PlanInv(d)' /\ ((d \in calm /\ stand[d] # "idle") => Reached(d)')
  BY <1>2, ApartStep
<1>4. CASE Approve(c)
  <2>1. /\ commands' = commands /\ job' = job /\ kept' = kept /\ stand[c] = "prompt"
        /\ stand'[c] = "run" /\ rest'[c] = Head(commands[c]).on /\ commands[c] # <<>>
        /\ commands[c] \in Seq(Command)
    BY <1>4 DEF Approve, JobInv, AdminInv, AdminTypes
  <2>2. PlanInv(c)'
    BY <2>1 DEF JobInv, PlanInv
  <2>3. ASSUME c \in calm
        PROVE  Reached(c)'
    <3>1. Reached(c) /\ job[c] \in Jobs
      BY <2>1, <2>3 DEF JobInv, PlanInv
    <3>2. Head(commands[c]).on = NthOn(job[c], Len(commands[c])) /\ Len(commands[c]) \in Nat \ {0}
      <4>1. Head(commands[c]) = commands[c][1] /\ 1 \in 1..Len(commands[c]) /\ Len(commands[c]) \in Nat
        BY <2>1, HeadType
      <4> QED BY <2>1, <4>1 DEF JobInv, PlanInv
    <3>3. \A f, k : k \in Nat /\ f \in NthOn(job[c], k) /\ Done(c, f, k)' => Done(c, f, k)
      BY <2>1, <3>2 DEF Done
    <3>4. CASE job[c].operation \in {"grant", "revoke"}
      BY <1>2, <2>1, <3>1, <3>3, <3>4 DEF Reached, NthOn
    <3>5. CASE job[c].operation = "repair"
      <4>1. \A k \in {3, 4, 5} : Folder \in NthOn(job[c], k)
        BY <3>5 DEF NthOn
      <4>2. \A k \in {1, 2} : Managed \in NthOn(job[c], k)
        BY <3>5 DEF NthOn
      <4> QED BY <1>2, <2>1, <3>1, <3>3, <3>5, <4>1, <4>2 DEF Reached
    <3>6. CASE job[c].operation \in {"cleanup", "service"}
      BY <1>2, <2>1, <3>1, <3>3, <3>6 DEF Reached, NthOn
    <3> QED BY <3>1, <3>4, <3>5, <3>6 DEF Jobs, Job
  <2> QED BY <1>1, <1>2, <1>3, <2>1, <2>2, <2>3 DEF JobInv, Plain, AdminAsAnswered
<1>5. CASE Decline(c) \/ Status(c)
  <2>1. stand'[c] = "idle"
    BY <1>5 DEF Decline, Status, Leaves, JobInv, AdminInv, AdminTypes
  <2>2. kept' \in Jobs \cup {NoJob} /\ AdminAsAnswered'
    <3>1. CASE kept' = kept
      BY <1>2, <3>1 DEF JobInv, AdminAsAnswered
    <3>2. CASE kept' # kept
      <4>1. /\ kept' = job[c] /\ c \in calm /\ stand[c] = "status"
            /\ \A f \in job[c].cores : files[f] # Missing
        BY <1>5, <3>2 DEF Decline, Status
      <4>2. commands[c] = <<>> /\ job[c] \in Jobs /\ Reached(c) /\ Plain
        BY <4>1 DEF JobInv, PlanInv
      <4>3. \A f, k : k \in 1..5 => Done(c, f, k)
        BY <4>2 DEF Done
      <4>4. files[Folder] \in State /\ files[Managed] \in State
        BY DEF JobInv, AdminInv, AdminTypes, Files
      <4>5. /\ Done(c, Folder, 4) /\ Done(c, Folder, 3) /\ Done(c, Managed, 2) /\ Done(c, Managed, 1)
            /\ Done(c, Legacy, 1) /\ \A f : Done(c, f, 2) /\ Done(c, f, 1)
        BY <4>3
      <4> QED BY <1>2, <4>1, <4>2, <4>4, <4>5 DEF Reached, AdminAsAnswered, Plain, State, Fresh
    <3> QED BY <3>1, <3>2
  <2> QED BY <1>1, <1>2, <1>3, <2>1, <2>2 DEF JobInv, Plain, PlanInv
<1> QED BY <1>4, <1>5

\* The next command: the one before has been done with all its files.
LEMMA JobNext ==
  ASSUME JobInv, NEW c \in Callers, NextCommand(c)
  PROVE  JobInv'
<1>1. AdminInv'
  BY NextStep DEF JobInv
<1>2. /\ UNCHANGED <<files, calm, kept>>
      /\ \A d \in Callers \ {c} : /\ commands'[d] = commands[d] /\ stand'[d] = stand[d]
                                  /\ rest'[d] = rest[d] /\ job'[d] = job[d]
      /\ stand[c] = "run" /\ rest[c] = {}
      /\ commands[c] \in Seq(Command) /\ commands[c] # <<>>
  BY DEF NextCommand, Leaves, JobInv, AdminInv, AdminTypes, RunInv
<1>3. ASSUME NEW d \in Callers \ {c}
      PROVE  PlanInv(d)' /\ ((d \in calm /\ stand[d] # "idle") => Reached(d)')
  BY <1>2, ApartStep
<1>4. CASE failed[c] = "YES"
  <2>1. stand'[c] = "idle"
    BY <1>4 DEF NextCommand, Leaves, JobInv, AdminInv, AdminTypes
  <2> QED BY <1>1, <1>2, <1>3, <2>1 DEF JobInv, Plain, AdminAsAnswered, PlanInv
<1>5. CASE failed[c] # "YES"
  <2> DEFINE left == Tail(commands[c])
             n == Len(commands[c])
  <2>1. /\ left \in Seq(Command) /\ Len(left) = n - 1 /\ n \in Nat \ {0} /\ Len(left) \in Nat
        /\ \A i \in 1..Len(left) : left[i] = commands[c][i + 1] /\ i + 1 \in 1..n
        /\ left # <<>> => Head(left) = left[1] /\ 1 \in 1..Len(left)
    BY <1>2, TailFacts, HeadType
  <2>2. /\ commands'[c] = left /\ job'[c] = job[c]
        /\ stand'[c] = IF left = <<>> THEN "status"
                      ELSE IF Head(left).asks = "YES" THEN "prompt" ELSE "run"
        /\ rest'[c] = IF left # <<>> /\ Head(left).asks = "NO" THEN Head(left).on ELSE {}
    BY <1>5 DEF NextCommand, JobInv, AdminInv, AdminTypes
  <2>3. left # <<>> => Head(left).asks \in {"YES", "NO"}
    BY <2>1, HeadType
  <2>4. PlanInv(c) /\ job[c] \in Jobs /\ (c \in calm => Reached(c))
    BY <1>2 DEF JobInv, PlanInv
  <2>5. ASSUME NEW i \in 1..Len(left)
        PROVE  /\ left[i].act = NthAct(job[c].operation, Len(left) - i + 1)
               /\ left[i].on = NthOn(job[c], Len(left) - i + 1)
    <3>1. i + 1 \in 1..n /\ n - (i + 1) + 1 = Len(left) - i + 1 /\ left[i] = commands[c][i + 1]
      BY <2>1
    <3>2. /\ commands[c][i + 1].act = NthAct(job[c].operation, n - (i + 1) + 1)
          /\ commands[c][i + 1].on = NthOn(job[c], n - (i + 1) + 1)
      BY <1>2, <2>4, <3>1 DEF PlanInv
    <3> QED BY <3>1, <3>2
  <2>6. PlanInv(c)'
    BY <2>2, <2>3, <2>4, <2>5 DEF PlanInv
  <2>7. left # <<>> => Head(left).on = NthOn(job[c], n - 1)
    <3>1. left # <<>> => Len(left) - 1 + 1 = n - 1
      BY <2>1
    <3> QED BY <2>1, <2>5, <3>1
  <2>8. ASSUME NEW f, NEW k \in Nat, f \in NthOn(job[c], k),
               k > Len(left) \/ (k = Len(left) /\ stand'[c] = "run" /\ f \notin rest'[c])
        PROVE  Done(c, f, k)
    <3>1. CASE k > Len(left)
      BY <1>2, <2>1, <3>1 DEF Done
    <3>2. CASE k = Len(left) /\ stand'[c] = "run" /\ f \notin rest'[c]
      <4>1. left # <<>> /\ rest'[c] = Head(left).on
        BY <2>2, <2>3, <3>2
      <4>2. k = n - 1
        BY <2>1, <3>2
      <4> QED BY <2>7, <2>8, <3>2, <4>1, <4>2
    <3> QED BY <2>8, <3>1, <3>2
  <2>9. \A f, k : k \in Nat /\ f \in NthOn(job[c], k) /\ Done(c, f, k)' => Done(c, f, k)
    <3>1. SUFFICES ASSUME NEW f, NEW k \in Nat, f \in NthOn(job[c], k), Done(c, f, k)'
                   PROVE  Done(c, f, k)
      OBVIOUS
    <3>2. k > Len(left) \/ (k = Len(left) /\ stand'[c] = "run" /\ f \notin rest'[c])
      BY <2>2, <3>1 DEF Done
    <3> QED BY <2>8, <3>1, <3>2
  <2>10. ASSUME c \in calm
        PROVE  Reached(c)'
    <3>1. CASE job[c].operation = "grant"
      <4>1. NthOn(job[c], 1) = job[c].cores /\ NthOn(job[c], 2) = job[c].cores
        BY <3>1 DEF NthOn
      <4>2. \A f \in job[c].cores : files[f] # Missing
        BY <2>4, <2>10, <3>1 DEF Reached
      <4>3. ASSUME NEW f \in job[c].cores
            PROVE  /\ Done(c, f, 1)' => files[f].setuid = "YES"
                   /\ Done(c, f, 2)' => files[f].owner = "root"
        <5>1. (Done(c, f, 1)' => Done(c, f, 1)) /\ (Done(c, f, 2)' => Done(c, f, 2))
          BY <2>9, <4>1
        <5> QED BY <2>4, <2>10, <3>1, <5>1 DEF Reached
      <4> QED BY <1>2, <2>2, <3>1, <4>2, <4>3 DEF Reached, Done
    <3>2. CASE job[c].operation = "revoke"
      <4>1. NthOn(job[c], 1) = job[c].cores
        BY <3>2 DEF NthOn
      <4>2. \A f \in job[c].cores : Done(c, f, 1)' => Done(c, f, 1)
        BY <2>9, <4>1
      <4> QED BY <1>2, <2>2, <2>4, <2>10, <3>2, <4>2 DEF Reached
    <3>3. CASE job[c].operation = "repair"
      <4>1. /\ \A k \in {3, 4, 5} : Folder \in NthOn(job[c], k)
            /\ \A k \in {1, 2} : Managed \in NthOn(job[c], k)
        BY <3>3 DEF NthOn
      <4> QED BY <1>2, <2>2, <2>4, <2>9, <2>10, <3>3, <4>1 DEF Reached
    <3>4. CASE job[c].operation \in {"cleanup", "service"}
      <4>1. job[c].operation = "cleanup" => Legacy \in NthOn(job[c], 1)
        BY DEF NthOn
      <4> QED BY <1>2, <2>2, <2>4, <2>9, <2>10, <3>4, <4>1 DEF Reached
    <3> QED BY <2>4, <3>1, <3>2, <3>3, <3>4 DEF Jobs, Job
  <2> QED BY <1>1, <1>2, <1>3, <2>6, <2>10 DEF JobInv, Plain, AdminAsAnswered
<1> QED BY <1>4, <1>5

\* Desktop replaces a core: no job on it is undisturbed, and no result about it
\* is kept.
LEMMA JobReplace ==
  ASSUME JobInv, NEW f \in Cores, ReplaceCore(f)
  PROVE  JobInv'
<1>1. AdminInv'
  BY ReplaceStep DEF JobInv
<1>2. /\ UNCHANGED <<stand, job, commands, rest>>
      /\ \A g \in Files \ {f} : files'[g] = files[g]
      /\ calm' = {d \in calm : Touches(job[d]) \cap {f} = {}}
      /\ kept' = IF kept # NoJob /\ Touches(kept) \cap {f} # {} THEN NoJob ELSE kept
  BY DEF ReplaceCore, Disturbs, JobInv, AdminInv, AdminTypes
<1>3. f \notin {Folder, Managed, Legacy, Service}
  BY CoresAssumption
<1>4. \A j \in Jobs : Touches(j) \subseteq Files
  BY DEF Jobs, Job, Touches, Files
<1>5. ASSUME NEW d \in Callers
      PROVE  PlanInv(d)' /\ ((d \in calm' /\ stand'[d] # "idle") => Reached(d)')
  <2>1. d \in calm' /\ stand[d] # "idle" => \A g \in Touches(job[d]) : files'[g] = files[g]
    BY <1>2, <1>4 DEF JobInv, PlanInv
  <2> QED BY <1>2, <2>1, ApartStep
<1>6. AdminAsAnswered'
  <2>1. CASE kept' = NoJob
    BY <2>1 DEF AdminAsAnswered, NoJob
  <2>2. CASE kept' # NoJob
    <3>1. kept' = kept /\ kept \in Jobs /\ \A g \in Touches(kept) : files'[g] = files[g]
      BY <1>2, <1>4, <2>2 DEF JobInv
    <3> QED BY <3>1 DEF JobInv, AdminAsAnswered, Touches
  <2> QED BY <2>1, <2>2
<1>7. Plain'
  <2>1. files'[f].owner = "nobody" => files'[f] = Missing
    BY DEF ReplaceCore, JobInv, AdminInv, AdminTypes, Files, Fresh
  <2> QED BY <1>2, <1>3, <2>1 DEF JobInv, Plain, Files
<1> QED BY <1>1, <1>2, <1>5, <1>6, <1>7 DEF JobInv

\* A command is done with a file: it comes on top of what the earlier ones have
\* made of it, and whoever else goes by the file knows no more.
LEMMA JobChange ==
  ASSUME JobInv, NEW c \in Callers, NEW f \in Files, ChangeFile(c, f)
  PROVE  JobInv'
<1> DEFINE act == Head(commands[c]).act
           n == Len(commands[c])
           o == job[c].operation
<1>1. AdminInv'
  BY ChangeStep DEF JobInv
<1>2. /\ UNCHANGED <<stand, job, commands>> /\ stand[c] = "run" /\ f \in rest[c]
      /\ rest' = [rest EXCEPT ![c] = @ \ {f}]
      /\ \A g \in Files \ {f} : files'[g] = files[g]
      /\ calm' = IF files' = files THEN calm
                 ELSE {d \in calm : d = c \/ f \notin Touches(job[d])}
      /\ kept' = IF files' # files /\ kept # NoJob /\ f \in Touches(kept) THEN NoJob ELSE kept
      /\ files \in [Files -> State] /\ rest \in [Callers -> SUBSET Files]
      /\ files'[f] = IF files[f] # Missing THEN Changed(act, files[f])
                    ELSE IF act = "mkdir" THEN [Spoilt EXCEPT !.usable = "YES"] ELSE Missing
  BY DEF ChangeFile, JobInv, AdminInv, AdminTypes
<1>3. /\ PlanInv(c) /\ job[c] \in Jobs /\ n \in Nat \ {0} /\ (c \in calm => Reached(c))
      /\ act = NthAct(o, n) /\ f \in NthOn(job[c], n)
  <2>1. /\ commands[c] \in Seq(Command) /\ commands[c] # <<>> /\ f \in Head(commands[c]).on
        /\ PlanInv(c) /\ (c \in calm => Reached(c))
    BY <1>2 DEF JobInv, AdminInv, AdminTypes, RunInv
  <2>2. Head(commands[c]) = commands[c][1] /\ 1 \in 1..n /\ n \in Nat \ {0} /\ n - 1 + 1 = n
    BY <2>1, HeadType
  <2> QED BY <1>2, <2>1, <2>2 DEF PlanInv
<1>4. \A j \in Jobs : Touches(j) \subseteq Files
  BY DEF Jobs, Job, Touches, Files
<1>5. ASSUME NEW d \in Callers \ {c}
      PROVE  PlanInv(d)' /\ ((d \in calm' /\ stand'[d] # "idle") => Reached(d)')
  <2>1. /\ commands'[d] = commands[d] /\ stand'[d] = stand[d] /\ rest'[d] = rest[d]
        /\ job'[d] = job[d]
    BY <1>2
  <2>2. d \in calm' /\ stand[d] # "idle" =>
          d \in calm /\ \A g \in Touches(job[d]) : files'[g] = files[g]
    BY <1>2, <1>4 DEF JobInv, PlanInv
  <2> QED BY <2>1, <2>2, ApartStep
<1>6. PlanInv(c)'
  BY <1>2, <1>3 DEF PlanInv
<1>7. AdminAsAnswered'
  <2>1. CASE kept' = NoJob
    BY <2>1 DEF AdminAsAnswered, NoJob
  <2>2. CASE kept' # NoJob
    <3>1. kept' = kept /\ kept \in Jobs /\ \A g \in Touches(kept) : files'[g] = files[g]
      BY <1>2, <1>4, <2>2 DEF JobInv
    <3> QED BY <3>1 DEF JobInv, AdminAsAnswered, Touches
  <2> QED BY <2>1, <2>2
<1>8. files[f] \in State /\ act \in Act
  BY <1>2, <1>3 DEF NthAct, Act
<1>9. Plain'
  <2>1. f \in {Folder, Managed} => act \notin {"set-bit"}
    BY <1>3, CoresAssumption DEF NthAct, NthOn, Jobs, Job
  <2>2. f \in {Folder, Managed} => files'[f].setuid = "NO"
    BY <1>2, <1>8, <2>1 DEF JobInv, Plain, Changed, State, Act, Missing, Spoilt
  <2>3. files'[f].owner = "nobody" => files'[f] = Missing
    BY <1>2, <1>8 DEF JobInv, Plain, Changed, State, Act, Missing, Spoilt
  <2> QED BY <1>2, <2>2, <2>3 DEF JobInv, Plain, Files
<1>10. ASSUME c \in calm
       PROVE  Reached(c)'
  <2>0. /\ n \in Nat /\ n # 0 /\ f \in rest[c]
        /\ n \in {1, 2} \/ n > 2
        /\ n \in {1, 2, 3, 4, 5} \/ (n # 1 /\ n # 2 /\ n # 3 /\ n # 4 /\ n # 5 /\ ~(5 > n) /\ ~(4 > n))
    <3>1. \A m \in Nat : m # 0 => (m \in {1, 2} \/ m > 2) /\ 
           (m \in {1, 2, 3, 4, 5} \/
              (m # 1 /\ m # 2 /\ m # 3 /\ m # 4 /\ m # 5 /\ ~(5 > m) /\ ~(4 > m)))
      OBVIOUS
    <3> QED BY <1>2, <1>3, <3>1
  <2>1. \A g, k : Done(c, g, k)' <=> Done(c, g, k) \/ (g = f /\ k = n)
    BY <1>2, <1>3 DEF Done
  <2>2. /\ \A k \in Nat : Done(c, f, k) <=> k > n
        /\ \A g, k : k \in Nat /\ k > n => Done(c, g, k)
        /\ n > 2 => ~Done(c, Managed, 2) /\ ~Done(c, Managed, 1)
    <3>1. /\ \A k \in Nat : Done(c, f, k) <=> k > n
          /\ \A g, k : k \in Nat /\ k > n => Done(c, g, k)
      BY <1>2, <1>3 DEF Done
    <3>2. n > 2 => ~Done(c, Managed, 2) /\ ~Done(c, Managed, 1)
      <4>1. \A m \in Nat : m > 2 => ~(2 > m) /\ ~(1 > m) /\ m # 2 /\ m # 1
        OBVIOUS
      <4>2. n > 2 => ~(2 > n) /\ ~(1 > n) /\ n # 2 /\ n # 1
        BY <2>0, <4>1
      <4> QED BY <4>2 DEF Done
    <3> QED BY <3>1, <3>2
  <2>3. Reached(c) /\ job'[c] = job[c] /\ files[f] \in State
    BY <1>2, <1>3, <1>8, <1>10
  <2>4. /\ files[f] # Missing => files[f].owner # "nobody"
        /\ \A g \in Files \ {f} : files'[g] = files[g]
    BY <1>2 DEF JobInv, Plain
  <2>5. CASE o = "grant"
    <3>1. f \in job[c].cores /\ job[c].cores \subseteq Files /\ files[f] # Missing
      BY <1>3, <2>3, <2>5 DEF NthOn, Reached, Jobs, Job, Files
    <3>2. files'[f] = Changed(act, files[f]) /\ act = IF n = 2 THEN "chown-root" ELSE "set-bit"
      BY <1>2, <1>3, <2>5, <3>1 DEF NthAct
    <3>3. /\ n = 2 => files'[f].owner = "root"
          /\ n # 2 => files'[f].owner = files[f].owner /\ files'[f].setuid = "YES"
          /\ files'[f] # Missing
      <4>1. files[f] \in State /\ files[f].owner # "nobody"
        BY <2>3, <2>4, <3>1
      <4> QED BY <3>2, <4>1, ChangedFields
    <3>4. ASSUME NEW g \in job[c].cores
          PROVE  /\ Done(c, g, 2)' => files'[g].owner = "root"
                 /\ Done(c, g, 1)' => files'[g].setuid = "YES"
                 /\ files'[g] # Missing
      <4>1. /\ Done(c, g, 2)' <=> Done(c, g, 2) \/ (g = f /\ 2 = n)
            /\ Done(c, g, 1)' <=> Done(c, g, 1) \/ (g = f /\ 1 = n)
        BY <2>1
      <4>2. /\ Done(c, g, 2) => files[g].owner = "root"
            /\ Done(c, g, 1) => files[g].setuid = "YES"
            /\ files[g] # Missing
        BY <2>3, <2>5 DEF Reached
      <4>3. CASE g = f
        <5>1. ~Done(c, f, 1)
          BY <1>3, <2>2
        <5>2. CASE n = 2
          BY <3>3, <4>1, <4>3, <5>1, <5>2
        <5>3. CASE n # 2
          BY <3>3, <4>1, <4>2, <4>3, <5>1, <5>3
        <5> QED BY <5>2, <5>3
      <4>4. CASE g # f
        BY <2>4, <3>1, <4>1, <4>2, <4>4
      <4> QED BY <4>3, <4>4
    <3> QED BY <2>3, <2>5, <3>4 DEF Reached, Done
  <2>6. CASE o = "revoke"
    <3>1. f \in job[c].cores /\ job[c].cores \subseteq Files /\ files[f] # Missing
      BY <1>3, <2>3, <2>6 DEF NthOn, Reached, Jobs, Job, Files
    <3>2. files'[f].setuid = "NO" /\ files'[f] # Missing
      BY <1>2, <1>3, <2>3, <2>4, <2>6, <3>1 DEF NthAct, Changed, State, Missing
    <3>3. ASSUME NEW g \in job[c].cores
          PROVE  (Done(c, g, 1)' => files'[g].setuid = "NO") /\ files'[g] # Missing
      <4>1. Done(c, g, 1)' <=> Done(c, g, 1) \/ (g = f /\ 1 = n)
        BY <2>1
      <4>2. (Done(c, g, 1) => files[g].setuid = "NO") /\ files[g] # Missing
        BY <2>3, <2>6 DEF Reached
      <4> QED BY <2>4, <3>1, <3>2, <4>1, <4>2
    <3> QED BY <2>3, <2>6, <3>3 DEF Reached, Done
  <2>7. CASE o = "repair"
    <3>1. /\ Folder \in Files /\ Managed \in Files /\ Folder # Managed
          /\ f = IF n \in {1, 2} THEN Managed ELSE Folder
          /\ act = IF n = 5 THEN "mkdir" ELSE IF n \in {2, 4} THEN "chown-user" ELSE "allow"
      BY <1>3, <2>7, CoresAssumption DEF NthOn, NthAct, Folder, Managed, Files
    <3>2. /\ Done(c, Folder, 5) => files[Folder] # Missing
          /\ Done(c, Folder, 4) => files[Folder].owner = "user"
          /\ Done(c, Folder, 3) => files[Folder].usable = "YES"
          /\ Done(c, Managed, 2) => files[Managed] = Missing \/ files[Managed].owner = "user"
          /\ Done(c, Managed, 1) => files[Managed] = Missing \/ files[Managed].usable = "YES"
      BY <2>3, <2>7 DEF Reached
    <3>3. /\ Done(c, Folder, 5)' <=> Done(c, Folder, 5) \/ (Folder = f /\ 5 = n)
          /\ Done(c, Folder, 4)' <=> Done(c, Folder, 4) \/ (Folder = f /\ 4 = n)
          /\ Done(c, Folder, 3)' <=> Done(c, Folder, 3) \/ (Folder = f /\ 3 = n)
          /\ Done(c, Managed, 2)' <=> Done(c, Managed, 2) \/ (Managed = f /\ 2 = n)
          /\ Done(c, Managed, 1)' <=> Done(c, Managed, 1) \/ (Managed = f /\ 1 = n)
      BY <2>1
    <3> SUFFICES
          /\ Done(c, Folder, 5)' => files'[Folder] # Missing
          /\ Done(c, Folder, 4)' => files'[Folder].owner = "user"
          /\ Done(c, Folder, 3)' => files'[Folder].usable = "YES"
          /\ Done(c, Managed, 2)' => files'[Managed] = Missing \/ files'[Managed].owner = "user"
          /\ Done(c, Managed, 1)' => files'[Managed] = Missing \/ files'[Managed].usable = "YES"
      BY <2>3, <2>7 DEF Reached
    <3>4. CASE n \in {1, 2}
      <4>1. f = Managed /\ files'[Folder] = files[Folder]
        BY <2>4, <3>1, <3>4
      <4>2. /\ ~Done(c, Managed, 1)
            /\ n = 2 => ~Done(c, Managed, 2)
        BY <1>2, <1>3, <3>4, <4>1 DEF Done
      <4>4. ASSUME files[f] # Missing
            PROVE  /\ n = 2 => files'[f].owner = "user"
                   /\ n = 1 => files'[f].owner = files[f].owner /\ files'[f].usable = "YES"
        <5>1. files'[f] = Changed(act, files[f])
          BY <1>2, <4>4
        <5>2. /\ n = 2 => act = "chown-user"
              /\ n = 1 => act = "allow"
          BY <3>1
        <5> QED BY <2>3, <5>1, <5>2, ChangedFields
      <4>5. n = 1 => Done(c, Managed, 2)
        BY DEF Done
      <4>3. files[f] = Missing => files'[f] = Missing
        BY <1>2, <3>1, <3>4
      <4>6. CASE n = 2
        BY <3>1, <3>2, <3>3, <4>1, <4>2, <4>3, <4>4, <4>6
      <4>7. CASE n = 1
        <5>1. files[Managed] = Missing \/ files[Managed].owner = "user"
          BY <3>2, <4>5, <4>7
        <5> QED BY <3>1, <3>2, <3>3, <4>1, <4>2, <4>3, <4>4, <4>7, <5>1
      <4> QED BY <3>4, <4>6, <4>7
    <3>5. CASE n \notin {1, 2}
      <4>1. /\ f = Folder /\ ~Done(c, Managed, 2) /\ ~Done(c, Managed, 1)
            /\ ~Done(c, Folder, 3)
            /\ Done(c, Folder, 5) <=> 5 > n
            /\ Done(c, Folder, 4) <=> 4 > n
        <5>1. n \in Nat /\ n > 2
          BY <2>0, <3>5
        <5>2. f = Folder /\ Folder \in rest[c]
          BY <2>0, <3>1, <3>5
        <5>3. ~Done(c, Managed, 2) /\ ~Done(c, Managed, 1)
          BY <2>2, <5>1
        <5> QED BY <5>1, <5>2, <5>3 DEF Done
      <4>2. Missing.owner = "nobody" /\ Spoilt.owner = "root" /\ [Spoilt EXCEPT !.usable = "YES"] # Missing
        BY DEF Spoilt, Missing
      <4>3. CASE n = 5
        <5>1. files'[f] # Missing
          BY <1>2, <2>3, <3>1, <4>2, <4>3, ChangedFields
        <5> QED BY <3>1, <3>3, <4>1, <4>3, <5>1
      <4>4. CASE n = 4
        <5>1. files'[f].owner = "user"
          BY <1>2, <2>3, <3>1, <3>2, <4>1, <4>4, ChangedFields
        <5> QED BY <3>1, <3>3, <4>1, <4>2, <4>4, <5>1
      <4>5. CASE n = 3
        <5>1. files[f] # Missing /\ files[f].owner = "user"
          BY <3>2, <4>1, <4>2, <4>5
        <5>2. files'[f].owner = "user" /\ files'[f].usable = "YES"
          BY <1>2, <2>3, <3>1, <4>5, <5>1, ChangedFields
        <5> QED BY <3>1, <3>3, <4>1, <4>2, <4>5, <5>2
      <4>6. CASE n # 1 /\ n # 2 /\ n # 3 /\ n # 4 /\ n # 5 /\ ~(5 > n) /\ ~(4 > n)
        BY <3>1, <3>3, <4>1, <4>6
      <4> QED BY <2>0, <3>5, <4>3, <4>4, <4>5, <4>6
    <3> QED BY <3>4, <3>5
  <2>8. CASE o \in {"cleanup", "service"}
    <3>1. o = "cleanup" => files'[f] = Missing /\ f = Legacy
      BY <1>2, <1>3 DEF NthAct, NthOn, Changed
    <3> QED BY <2>3, <2>8, <3>1 DEF Reached
  <2> QED BY <1>3, <2>5, <2>6, <2>7, <2>8 DEF Jobs, Job
<1> QED BY <1>1, <1>2, <1>5, <1>6, <1>7, <1>9, <1>10 DEF JobInv

LEMMA JobStep == JobInv /\ [AdminNext]_adminVars => JobInv'
<1> SUFFICES ASSUME JobInv, [AdminNext]_adminVars PROVE JobInv'
  OBVIOUS
<1>1. CASE AdminNext
  BY <1>1, JobBegin, JobQuiet, JobChange, JobNext, JobReplace DEF AdminNext, AdminDoes
<1>2. CASE UNCHANGED adminVars
  <2>1. AdminInv'
    BY <1>2, AdminStep DEF JobInv
  <2>2. ASSUME NEW d \in Callers
        PROVE  PlanInv(d)' /\ ((d \in calm /\ stand[d] # "idle") => Reached(d)')
    BY <1>2, ApartStep DEF adminVars
  <2> QED BY <1>2, <2>1, <2>2 DEF adminVars, JobInv, Plain, AdminAsAnswered
<1> QED BY <1>1, <1>2

\* What a job that ended well was for is so until somebody changes its files,
\* however many jobs run at once (privileges.rs 86-182, privileged_operations.rs
\* 134-390).
THEOREM AdminAnswered == AdminSpec => []AdminAsAnswered
<1>1. JobInv => AdminAsAnswered
  BY DEF JobInv
<1> QED BY <1>1, JobStart, JobStep, PTL DEF AdminSpec

------------------------------------------------------------------------------
(* The loopback exemptions *)

\* What a call has read is so, but for what others have changed since.
ReadInv ==
  /\ ListTypeOK
  /\ \A c \in Callers : listAt[c] # "idle" => change[c] \in Change
  /\ \A c \in Callers : listAt[c] = "read" =>
       \A app \in Apps \ others[c] : app \in list[c] <=> app \in exempt

LEMMA ListStart == ListInit => ReadInv
BY DEF ListInit, ReadInv, ListTypeOK, NoChange

LEMMA ListStep == ReadInv /\ [ListNext]_listVars => ReadInv'
<1> SUFFICES ASSUME ReadInv, [ListNext]_listVars PROVE ReadInv'
  OBVIOUS
<1> USE DEF ReadInv, ListTypeOK, Finish
<1>1. ASSUME NEW c \in Callers, NEW wanted \in Change, FindContainer(c, wanted)
      PROVE  ReadInv'
  BY <1>1 DEF FindContainer
<1>2. ASSUME NEW c \in Callers, ReadList(c)
      PROVE  ReadInv'
  BY <1>2 DEF ReadList
<1>3. ASSUME NEW c \in Callers, WriteList(c)
      PROVE  ReadInv'
  <2>1. change[c].app \in Apps
    BY <1>3 DEF WriteList, Change
  <2>2. /\ exempt' \subseteq Apps
        /\ listAt' = [listAt EXCEPT ![c] = "idle"]
        /\ others' = Seen(c, (exempt \ exempt') \cup (exempt' \ exempt))
    BY <1>3, <2>1 DEF WriteList
  <2> QED BY <1>3, <2>2 DEF WriteList, Seen
<1>4. ASSUME NEW c \in Callers, ListFails(c)
      PROVE  ReadInv'
  BY <1>4 DEF ListFails
<1>5. ASSUME NEW app \in Apps, OtherChanges(app)
      PROVE  ReadInv'
  BY <1>5 DEF OtherChanges
<1>6. CASE UNCHANGED listVars
  BY <1>6 DEF listVars
<1> QED BY <1>1, <1>2, <1>3, <1>4, <1>5, <1>6 DEF ListNext

LEMMA ListInvariant == ListSpec => []ReadInv
BY ListStart, ListStep, PTL DEF ListSpec

\* A call changes no exemption but the one it was asked to, save where somebody
\* else was faster (406-433).
THEOREM OthersStay == ListSpec => OthersKept
<1> DEFINE Kept == \A c \in Callers : listAt[c] = "read" /\ listAt'[c] = "idle" =>
                     \A app \in Apps \ ({change[c].app} \cup others[c]) :
                       app \in exempt' <=> app \in exempt
<1>1. ASSUME ReadInv, ListNext, NEW c \in Callers, listAt[c] = "read", listAt'[c] = "idle",
             NEW app \in Apps \ ({change[c].app} \cup others[c])
      PROVE  app \in exempt' <=> app \in exempt
  <2>1. WriteList(c) \/ ListFails(c)
    BY <1>1 DEF ListNext, FindContainer, ReadList, WriteList, ListFails, OtherChanges, Finish, ReadInv,
                ListTypeOK
  <2> QED BY <1>1, <2>1 DEF WriteList, ListFails, ReadInv
<1>2. ReadInv /\ [ListNext]_listVars => [Kept]_listVars
  BY <1>1
<1> QED BY <1>2, ListInvariant, PTL DEF ListSpec, OthersKept

------------------------------------------------------------------------------
(* The proxy of Windows *)

\* What a call that nobody wrote during has written or read so far is in the
\* registry.
SteadyInv ==
  \A c \in steady :
    /\ where[c] = "write" => \A key \in Keys \ unwritten[c] : registry[key] = Meant(mode[c])[key]
    /\ where[c] \in {"changed", "refresh"} => registry = Meant(mode[c])
    /\ where[c] \in {"server", "pac", "report"} => values[c].enable = registry.enable
    /\ where[c] \in {"pac", "report"} => values[c].server = registry.server
    /\ where[c] = "report" => values[c].pac = registry.pac

ProxyInv ==
  /\ ProxyTypeOK /\ SteadyInv
  /\ \A c \in Callers : where[c] \in {"write", "changed", "refresh"} => mode[c] \in Modes
  /\ lastMode # None => registry = Meant(lastMode) /\ used = registry
  /\ report.status = "available" => report = Diagnosis(registry)

LEMMA Records ==
  /\ \A m \in Modes : Meant(m) \in Values
  /\ \A v \in Values : Diagnosis(v) \in Reports
  /\ Unread \in Values /\ NoReport \in Reports /\ NoReport.status # "available"
  /\ \A v, w \in Values :
       v["enable"] = w["enable"] /\ v["server"] = w["server"] /\ v["pac"] = w["pac"] => v = w
  /\ [enable |-> "YES", server |-> "listed", pac |-> "foreign"] \in Values
  /\ [enable |-> "YES", server |-> "listed", pac |-> ""] \in Values
  /\ [enable |-> "NO", server |-> "", pac |-> "foreign"] \in Values
<1>1. \A m \in Modes : Meant(m) \in Values
  BY DEF Meant, Values
<1>2. ASSUME NEW v \in Values
      PROVE  Diagnosis(v) \in Reports
  <2>1. CASE v.server = "local"
    BY <2>1 DEF Values, Diagnosis, Reports
  <2>2. CASE v.server = "listed"
    BY <2>2 DEF Values, Diagnosis, Reports
  <2>3. CASE v.server = ""
    BY <2>3 DEF Values, Diagnosis, Reports
  <2> QED BY <2>1, <2>2, <2>3 DEF Values
<1>3. Unread \in Values /\ NoReport \in Reports /\ NoReport.status # "available"
  BY DEF Values, Reports, Unread, NoReport
<1>4. ASSUME NEW v \in Values, NEW w \in Values,
             v["enable"] = w["enable"], v["server"] = w["server"], v["pac"] = w["pac"]
      PROVE  v = w
  <2>1. v = [enable |-> v.enable, server |-> v.server, pac |-> v.pac]
    BY DEF Values
  <2>2. w = [enable |-> w.enable, server |-> w.server, pac |-> w.pac]
    BY DEF Values
  <2>3. v.enable = w.enable /\ v.server = w.server /\ v.pac = w.pac
    BY <1>4
  <2> QED BY <2>1, <2>2, <2>3
<1>5. /\ [enable |-> "YES", server |-> "listed", pac |-> "foreign"] \in Values
      /\ [enable |-> "YES", server |-> "listed", pac |-> ""] \in Values
      /\ [enable |-> "NO", server |-> "", pac |-> "foreign"] \in Values
  BY DEF Values
<1> QED BY <1>1, <1>2, <1>3, <1>4, <1>5

LEMMA ProxyStart == ProxyInit => ProxyInv
<1> SUFFICES ASSUME ProxyInit PROVE ProxyInv
  OBVIOUS
<1>1. registry \in Values /\ used = registry
  BY Records DEF ProxyInit
<1> QED BY <1>1, Records DEF ProxyInit, ProxyInv, ProxyTypeOK, SteadyInv

\* A value is written.
LEMMA WriteStep ==
  ASSUME ProxyInv, NEW c \in Callers, NEW key \in Keys, WriteValue(c, key)
  PROVE  ProxyInv'
<1> DEFINE value == Meant(mode[c])[key]
<1>1. /\ mode[c] \in Modes /\ unwritten[c] \subseteq Keys /\ where[c] = "write"
      /\ Meant(mode[c]) \in Values
  BY Records DEF ProxyInv, ProxyTypeOK, WriteValue
<1>2. /\ registry' \in Values /\ registry'[key] = value
      /\ \A k \in Keys \ {key} : registry'[k] = registry[k]
  <2>1. CASE key = "enable"
    BY <1>1, <2>1 DEF ProxyInv, ProxyTypeOK, WriteValue, Puts, Values, Keys
  <2>2. CASE key = "server"
    BY <1>1, <2>2 DEF ProxyInv, ProxyTypeOK, WriteValue, Puts, Values, Keys
  <2>3. CASE key = "pac"
    BY <1>1, <2>3 DEF ProxyInv, ProxyTypeOK, WriteValue, Puts, Values, Keys
  <2> QED BY <2>1, <2>2, <2>3 DEF Keys
<1>3. /\ where' \in [Callers -> {"idle", "write", "changed", "refresh",
                                "enable", "server", "pac", "report"}]
      /\ unwritten' \in [Callers -> SUBSET Keys]
      /\ unwritten'[c] = unwritten[c] \ {key}
      /\ where'[c] = IF unwritten[c] = {key} THEN "changed" ELSE "write"
      /\ \A d \in Callers \ {c} : where'[d] = where[d]
      /\ steady' \subseteq {c} /\ (c \in steady' => c \in steady)
      /\ lastMode' = None /\ report' = NoReport
      /\ UNCHANGED <<used, mode, values>>
  BY DEF WriteValue, Puts, ProxyInv, ProxyTypeOK
<1>4. ProxyTypeOK'
  BY <1>2, <1>3, Records DEF ProxyInv, ProxyTypeOK
<1>5. ASSUME c \in steady
      PROVE  \A k \in Keys \ unwritten'[c] : registry'[k] = Meant(mode[c])[k]
  BY <1>1, <1>2, <1>3, <1>5 DEF ProxyInv, SteadyInv
<1>6. ASSUME c \in steady, unwritten[c] = {key}
      PROVE  registry' = Meant(mode[c])
  <2>1. \A k \in Keys : registry'[k] = Meant(mode[c])[k]
    BY <1>3, <1>5, <1>6
  <2> QED BY <1>1, <1>2, <2>1, Records DEF Keys
<1>7. SteadyInv'
  BY <1>3, <1>5, <1>6 DEF SteadyInv
<1>8. \A d \in Callers : where'[d] \in {"write", "changed", "refresh"} => mode'[d] \in Modes
  BY <1>1, <1>3 DEF ProxyInv
<1> QED BY <1>3, <1>4, <1>7, <1>8, Records DEF ProxyInv

\* A value is read.
LEMMA ReadStep ==
  ASSUME ProxyInv, NEW c \in Callers, NEW key \in Keys, ReadValue(c, key)
  PROVE  ProxyInv'
<1>1. /\ values' \in [Callers -> Values]
      /\ \A d \in Callers \ {c} : values'[d] = values[d]
      /\ values'[c][key] = registry[key]
      /\ \A k \in Keys \ {key} : values'[c][k] = values[c][k]
  <2>1. CASE key = "enable"
    BY <2>1 DEF ProxyInv, ProxyTypeOK, ReadValue, Values, Keys
  <2>2. CASE key = "server"
    BY <2>2 DEF ProxyInv, ProxyTypeOK, ReadValue, Values, Keys
  <2>3. CASE key = "pac"
    BY <2>3 DEF ProxyInv, ProxyTypeOK, ReadValue, Values, Keys
  <2> QED BY <2>1, <2>2, <2>3 DEF Keys
<1>2. /\ where[c] = key
      /\ where' = [where EXCEPT ![c] =
           CASE key = "enable" -> "server" [] key = "server" -> "pac" [] OTHER -> "report"]
      /\ UNCHANGED <<registry, used, mode, unwritten, steady, lastMode, report>>
  BY DEF ReadValue, Moves
<1>3. ProxyTypeOK'
  BY <1>1, <1>2 DEF ProxyInv, ProxyTypeOK, Keys
<1>4. SteadyInv'
  BY <1>1, <1>2 DEF ProxyInv, ProxyTypeOK, SteadyInv, Keys
<1> QED BY <1>2, <1>3, <1>4 DEF ProxyInv, ProxyTypeOK, Keys

\* The other steps of calls.
LEMMA ProxyCallStep ==
  ASSUME ProxyInv, NEW c \in Callers,
         \/ \E m \in Modes : SetMode(c, m)
         \/ SettingsChanged(c) \/ Refresh(c) \/ SetFails(c)
         \/ Diagnose(c) \/ ReadFails(c) \/ Report(c)
  PROVE  ProxyInv'
<1> USE Records DEF ProxyInv, ProxyTypeOK, SteadyInv, Moves, Over
<1>1. CASE \E m \in Modes : SetMode(c, m)
  <2>1. PICK m \in Modes : SetMode(c, m)
    BY <1>1
  <2>2. ProxyTypeOK'
    BY <2>1 DEF SetMode
  <2>3. SteadyInv'
    BY <2>1 DEF SetMode
  <2> QED BY <2>1, <2>2, <2>3 DEF SetMode
<1>2. CASE SettingsChanged(c)
  BY <1>2 DEF SettingsChanged
<1>3. CASE Refresh(c)
  BY <1>3 DEF Refresh
<1>4. CASE SetFails(c)
  BY <1>4 DEF SetFails
<1>5. CASE Diagnose(c)
  BY <1>5 DEF Diagnose
<1>6. CASE ReadFails(c)
  <2>1. report' \in Reports /\ report'.status # "available"
    BY <1>6 DEF ReadFails, NoReport, Reports
  <2> QED BY <1>6, <2>1 DEF ReadFails
<1>7. CASE Report(c)
  <2>1. c \in steady => values[c] = registry
    <3>1. values[c] \in Values /\ registry \in Values
      OBVIOUS
    <3>2. c \in steady => /\ values[c].enable = registry.enable
                          /\ values[c].server = registry.server /\ values[c].pac = registry.pac
      BY <1>7 DEF Report
    <3> QED BY <3>1, <3>2, Records
  <2>2. report' \in Reports /\ (report'.status = "available" => report' = Diagnosis(registry))
    BY <1>7, <2>1 DEF Report
  <2>3. ProxyTypeOK'
    BY <1>7, <2>2 DEF Report
  <2>4. SteadyInv'
    BY <1>7 DEF Report
  <2> QED BY <1>7, <2>2, <2>3, <2>4 DEF Report
<1> QED BY <1>1, <1>2, <1>3, <1>4, <1>5, <1>6, <1>7

LEMMA ProxyStep == ProxyInv /\ [ProxyNext]_proxyVars => ProxyInv'
<1> SUFFICES ASSUME ProxyInv, [ProxyNext]_proxyVars PROVE ProxyInv'
  OBVIOUS
<1>1. CASE ProgramWrites
  <2>1. registry' \in Values /\ used' = registry'
    BY <1>1, Records DEF ProgramWrites
  <2> QED BY <1>1, <2>1, Records DEF ProgramWrites, ProxyInv, ProxyTypeOK, SteadyInv
<1>2. CASE UNCHANGED proxyVars
  BY <1>2 DEF proxyVars, ProxyInv, ProxyTypeOK, SteadyInv
<1> QED BY <1>1, <1>2, WriteStep, ReadStep, ProxyCallStep DEF ProxyNext

LEMMA ProxyAnswer == ProxyInv => ProxyAsAnswered
<1>1. Diagnosis(Meant("manual")).enabled = "YES" /\ Diagnosis(Meant("manual")).pac = "NO"
  BY DEF Meant, Diagnosis
<1>2. Meant("manual").server = "local"
  BY DEF Meant
<1>3. Diagnosis(Meant("manual")).web = "local"
  BY <1>2 DEF Diagnosis
<1> QED BY <1>1, <1>3 DEF ProxyInv, ProxyAsAnswered, None

\* The mode of a call nobody wrote during is in force, and a diagnosis nobody
\* wrote during shows one setting (114-257).
THEOREM ProxyAnswered == ProxySpec => []ProxyAsAnswered
BY ProxyStart, ProxyStep, ProxyAnswer, PTL DEF ProxySpec

------------------------------------------------------------------------------
(* The portable updater *)

\* A Desktop that still runs is the process the updater waits for.
WaitInv ==
  /\ UpdateInOrder
  /\ updater = "wait" /\ holder = "desktop" => waitsFor = "desktop"

LEMMA WaitStep == WaitInv /\ [UpdateNext]_updateVars => WaitInv'
BY DEF WaitInv, UpdateInOrder, UpdateNext, updateVars, StartUpdate, DesktopExits, IdPasses, UserStarts,
       ApplicationExits, OpenDesktop, WaitForDesktop, ExtractFile, ExtractionEnds, RestartApplication,
       UpdaterKilled, Stops

\* No file is replaced before Desktop has exited, and the application is started
\* only once all are (121-150).
THEOREM UpdatesInOrder == UpdateSpec => []UpdateInOrder
<1>1. UpdateInit => WaitInv
  BY DEF UpdateInit, WaitInv, UpdateInOrder
<1>2. WaitInv => UpdateInOrder
  BY DEF WaitInv
<1> QED BY <1>1, <1>2, WaitStep, PTL DEF UpdateSpec

LEMMA ListAnswerStep ==
  ReadInv /\ ListAsAnswered /\ [ListNext]_listVars => ListAsAnswered'
<1> SUFFICES ASSUME ReadInv, ListAsAnswered, [ListNext]_listVars PROVE ListAsAnswered'
  OBVIOUS
<1> USE DEF ListAsAnswered
<1>1. ASSUME NEW c \in Callers, ReadList(c) \/ WriteList(c)
      PROVE  ListAsAnswered'
  <2>1. change[c].enabled \in {"YES", "NO"}
    BY <1>1 DEF ReadInv, ReadList, WriteList, Change
  <2> QED BY <1>1, <2>1 DEF ReadList, WriteList
<1> QED BY <1>1 DEF ListNext, FindContainer, ListFails, OtherChanges, listVars, NoChange

\* The exemption a call was asked for is there, or gone, until somebody changes
\* it again (406-433).
THEOREM ListAnswered == ListSpec => []ListAsAnswered
<1>1. ListInit => ListAsAnswered
  BY DEF ListInit, ListAsAnswered
<1> QED BY <1>1, ListAnswerStep, ListInvariant, PTL DEF ListSpec

------------------------------------------------------------------------------
(* The LaunchDaemon *)

\* How far a call the user has not crossed has come.
DaemonInv ==
  /\ ServiceTypeOK /\ ServiceAsAnswered
  /\ task # "none" => replied = "none"
  /\ phase = "remove" => task \in {"unregister", "reload"}
  /\ phase \in {"add", "added", "refused"} => task \in {"register", "reload"}
  /\ phase = "removed" => task = "unregister"
  /\ phase = "added" => renewed = "YES"
  /\ phase = "added" /\ meddled = "NO" => daemon \in Registered
  /\ phase = "removed" /\ meddled = "NO" => daemon = "not-registered"

LEMMA DaemonStart == ServiceInit => DaemonInv
BY DEF ServiceInit, DaemonInv, ServiceTypeOK, ServiceAsAnswered, Registered, Unregistered

LEMMA DaemonStep == DaemonInv /\ [ServiceNext]_serviceVars => DaemonInv'
<1> SUFFICES ASSUME DaemonInv, [ServiceNext]_serviceVars PROVE DaemonInv'
  OBVIOUS
<1> USE DEF DaemonInv, ServiceTypeOK, ServiceAsAnswered, Wanted, Registered, Unregistered
<1>1. ASSUME NEW t \in {"register", "unregister", "reload"}, Request(t)
      PROVE  DaemonInv'
  BY <1>1 DEF Request
<1>2. CASE InspectStatus
  BY <1>2 DEF InspectStatus, Reply
<1>3. CASE RemoveRegistration
  BY <1>3 DEF RemoveRegistration, GiveUp
<1>4. CASE AddRegistration
  BY <1>4 DEF AddRegistration
<1>5. CASE ReadStatus
  BY <1>5 DEF ReadStatus, Reply, GiveUp
<1>6. CASE UserDecides
  BY <1>6 DEF UserDecides
<1>7. CASE ServiceKilled
  BY <1>7 DEF ServiceKilled, GiveUp
<1>8. CASE UNCHANGED serviceVars
  BY <1>8 DEF serviceVars
<1> QED BY <1>1, <1>2, <1>3, <1>4, <1>5, <1>6, <1>7, <1>8 DEF ServiceNext

\* Until the user decides otherwise the registration is as the last call that
\* ended well has answered (91-172).
THEOREM ServiceAnswered == ServiceSpec => []ServiceAsAnswered
<1>1. DaemonInv => ServiceAsAnswered
  BY DEF DaemonInv
<1> QED BY <1>1, DaemonStart, DaemonStep, PTL DEF ServiceSpec

------------------------------------------------------------------------------
(* The rules of the firewall *)

\* The call has still to add the rule.
Adds(c, n) == ruleAt[c] = "remove" \/ (ruleAt[c] = "add" /\ position[c] <= n)

\* While calls are under way and none has failed, one of them has still to add
\* each rule that is not there: who removes it adds it later.
AddedInv ==
  /\ RuleTypeOK /\ RulesAsAnswered
  /\ whole = "YES" /\ (\E c \in Callers : ruleAt[c] # "idle") =>
       \A n \in 1..Len(Names) : "current" \in rules[n] \/ \E c \in Callers : Adds(c, n)

LEMMA AddedStart == RuleInit => AddedInv
BY DEF RuleInit, AddedInv, RuleTypeOK, RulesAsAnswered, Names

LEMMA AddedStep == AddedInv /\ [RuleNext]_ruleVars => AddedInv'
<1> SUFFICES ASSUME AddedInv, [RuleNext]_ruleVars PROVE AddedInv'
  OBVIOUS
<1>1. Len(Names) = 3
  BY DEF Names
<1> USE <1>1 DEF AddedInv, RuleTypeOK, RulesAsAnswered, Adds
<1>2. ASSUME NEW c \in Callers, EnsureRules(c)
      PROVE  AddedInv'
  BY <1>2 DEF EnsureRules
<1>3. ASSUME NEW c \in Callers, RemoveRule(c)
      PROVE  AddedInv'
  BY <1>3 DEF RemoveRule
<1>4. ASSUME NEW c \in Callers, AddRule(c)
      PROVE  AddedInv'
  BY <1>4 DEF AddRule
<1>5. ASSUME NEW c \in Callers, RulesFail(c)
      PROVE  AddedInv'
  BY <1>5 DEF RulesFail
<1>6. CASE UNCHANGED ruleVars
  BY <1>6 DEF ruleVars
<1> QED BY <1>2, <1>3, <1>4, <1>5, <1>6 DEF RuleNext

\* However several calls mix, once all of them have ended well every rule is there
\* (100-126).
THEOREM RulesAnswered == RuleSpec => []RulesAsAnswered
<1>1. AddedInv => RulesAsAnswered
  BY DEF AddedInv
<1> QED BY <1>1, AddedStart, AddedStep, PTL DEF RuleSpec

------------------------------------------------------------------------------
(* All of them together *)

\* Every component is in one of its reachable states, whatever the scene.
ChangesInv ==
  /\ JobInv /\ DaemonInv /\ AddedInv
  /\ ReadInv /\ ListAsAnswered
  /\ ProxyInv /\ UpdateTypeOK

LEMMA UpdateStep == UpdateTypeOK /\ [UpdateNext]_updateVars => UpdateTypeOK'
BY DEF UpdateTypeOK, UpdateNext, updateVars, StartUpdate, DesktopExits, IdPasses, UserStarts,
       ApplicationExits, OpenDesktop, WaitForDesktop, ExtractFile, ExtractionEnds, RestartApplication,
       UpdaterKilled, Stops, Condition

LEMMA ChangesStart == Init => ChangesInv
<1> SUFFICES ASSUME Init PROVE ChangesInv
  OBVIOUS
<1>1. AdminInit /\ ServiceInit /\ RuleInit /\ ListInit /\ ProxyInit /\ UpdateInit
  BY DEF Init, AdminRests, ServiceRests, RuleRests, ProxyRests
<1>2. ListAsAnswered /\ UpdateTypeOK
  BY <1>1 DEF ListInit, ListAsAnswered, UpdateInit, UpdateTypeOK
<1> QED BY <1>1, <1>2, JobStart, DaemonStart, AddedStart, ListStart, ProxyStart DEF ChangesInv

\* A step of the composition is a step of every component, or none of it.
LEMMA ComponentSteps ==
  ASSUME [Next]_allVars
  PROVE  /\ [AdminNext]_adminVars /\ [ServiceNext]_serviceVars /\ [RuleNext]_ruleVars
         /\ [ListNext]_listVars /\ [ProxyNext]_proxyVars /\ [UpdateNext]_updateVars
<1>1. ASSUME NEW S \in SUBSET {"grant", "revoke", "repair", "cleanup", "service"}, AdminDoes(S)
      PROVE  AdminNext
  BY <1>1 DEF AdminNext, AdminDoes
<1>2. AdminDoes({"grant", "revoke"}) \/ AdminDoes({"repair", "cleanup", "service"}) => AdminNext
  BY <1>1
<1> QED BY <1>2 DEF Next, allVars

LEMMA ChangesStep == ChangesInv /\ [Next]_allVars => ChangesInv'
<1> SUFFICES ASSUME ChangesInv, [Next]_allVars PROVE ChangesInv'
  OBVIOUS
<1>1. JobInv' /\ DaemonInv' /\ AddedInv'
  BY ComponentSteps, JobStep, DaemonStep, AddedStep DEF ChangesInv
<1>2. ReadInv' /\ ListAsAnswered'
  BY ComponentSteps, ListStep, ListAnswerStep DEF ChangesInv
<1>3. ProxyInv' /\ UpdateTypeOK'
  BY ComponentSteps, ProxyStep, UpdateStep DEF ChangesInv
<1> QED BY <1>1, <1>2, <1>3 DEF ChangesInv

\* Whatever of the system is changed, an answer nobody has disturbed is true
\* (privileges.rs 86-182, macos_service.rs 91-172, firewall.rs 100-126,
\* uwp_loopback.rs 406-433, windows/system_proxy.rs 114-257).
THEOREM ChangesAnswered == Spec => []ChangesAsAnswered
<1>1. ChangesInv => ChangesAsAnswered
  BY ProxyAnswer DEF ChangesInv, ChangesAsAnswered, JobInv, DaemonInv, AddedInv
<1> QED BY <1>1, ChangesStart, ChangesStep, PTL DEF Spec

\* The variables of the six components keep their types.
THEOREM ChangesTypes == Spec => []ChangesTypesOK
<1>1. ASSUME ChangesInv PROVE AdminTypeOK
  BY <1>1 DEF ChangesInv, JobInv, AdminInv, AdminTypes, AdminTypeOK, Jobs
<1>2. ChangesInv => ChangesTypesOK
  BY <1>1 DEF ChangesInv, ChangesTypesOK, DaemonInv, AddedInv, ReadInv, ProxyInv
<1> QED BY <1>2, ChangesStart, ChangesStep, PTL DEF Spec

==============================================================================
