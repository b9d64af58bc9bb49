---------------------------- MODULE MacProxyProofs ----------------------------
(***************************************************************************)
(* Proofs about the system proxy of macOS, for any number of calls,        *)
(* services, protocols and edits of other programs.                        *)
(***************************************************************************)
EXTENDS MacProxy, TLAPS

Modes == {"manual", "auto", "disabled"}

------------------------------------------------------------------------------
(* What the operators on configurations return *)

\* A transaction's settings are those of the mode, and a PAC that is not
\* KokoroBox's own survives all modes but the automatic one.
LEMMA UpdatedFacts ==
  ASSUME NEW conf \in Configuration, NEW mode \in Modes
  PROVE  /\ Updated(conf, mode) \in Configuration /\ Agrees(Updated(conf, mode), mode)
         /\ mode # "auto" /\ conf.pac = "on" /\ conf.url = "foreign" =>
              Updated(conf, mode).pac = "on" /\ Updated(conf, mode).url = "foreign"
<1> USE DEF Configuration, Updated, SetProxies, Agrees, Modes
<1>1. CASE mode = "manual"
  BY <1>1
<1>2. CASE mode = "auto"
  BY <1>2
<1>3. CASE mode = "disabled"
  BY <1>3
<1> QED BY <1>1, <1>2, <1>3

\* What one command is for.
Holds(conf, set, mode) ==
  /\ set \in Protocols => conf.proxies[set] = IF mode = "manual" THEN "local" ELSE "off"
  /\ set = "bypass" => conf.bypass = "own"
  /\ set = "url" => conf.url = "local"
  /\ set = "pac-on" => conf.pac = "on"
  /\ set = "pac-off" => conf.pac = "off"

\* A command does what it is for and undoes none of the others of its call.
LEMMA CommandedFacts ==
  ASSUME NEW conf \in Configuration, NEW mode \in Modes, NEW s, NEW local,
         NEW set \in ServiceSettings(mode, s \in local)
  PROVE  /\ Commanded(conf, set, mode) \in Configuration
         /\ Holds(Commanded(conf, set, mode), set, mode)
         /\ \A x \in ServiceSettings(mode, s \in local) :
              Holds(conf, x, mode) => Holds(Commanded(conf, set, mode), x, mode)
         /\ mode = "disabled" => Commanded(conf, set, mode).url = conf.url
<1>1. \/ set \in Protocols
      \/ set = "bypass" /\ mode = "manual"
      \/ set \in {"url", "pac-on"} /\ mode = "auto"
      \/ set = "pac-off" /\ mode = "disabled" /\ s \in local
  BY DEF ServiceSettings, Modes
<1>2. \A x \in ServiceSettings(mode, s \in local) :
        \/ x \in Protocols
        \/ x = "bypass" /\ mode = "manual"
        \/ x \in {"url", "pac-on"} /\ mode = "auto"
        \/ x = "pac-off" /\ mode = "disabled" /\ s \in local
  BY DEF ServiceSettings, Modes
<1>3. CASE set \in Protocols
  <2>1. Commanded(conf, set, mode) =
          [conf EXCEPT !.proxies[set] = IF mode = "manual" THEN "local" ELSE "off"]
    BY <1>3, MacAssumption DEF Commanded
  <2> QED BY <1>2, <1>3, <2>1, MacAssumption DEF Configuration, Holds, Modes
<1>4. CASE set = "bypass" /\ mode = "manual"
  <2>1. Commanded(conf, set, mode) = [conf EXCEPT !.bypass = "own"]
    BY <1>4, MacAssumption DEF Commanded
  <2> QED BY <1>2, <1>4, <2>1, MacAssumption DEF Configuration, Holds
<1>5. CASE set = "url" /\ mode = "auto"
  <2>1. Commanded(conf, set, mode) = [conf EXCEPT !.url = "local", !.pac = "on"]
    BY <1>5, MacAssumption DEF Commanded
  <2> QED BY <1>2, <1>5, <2>1, MacAssumption DEF Configuration, Holds
<1>6. CASE set = "pac-on" /\ mode = "auto"
  <2>1. Commanded(conf, set, mode) = [conf EXCEPT !.pac = "on"]
    BY <1>6, MacAssumption DEF Commanded
  <2> QED BY <1>2, <1>6, <2>1, MacAssumption DEF Configuration, Holds
<1>7. CASE set = "pac-off" /\ mode = "disabled" /\ s \in local
  <2>1. Commanded(conf, set, mode) = [conf EXCEPT !.pac = "off"]
    BY <1>7, MacAssumption DEF Commanded
  <2> QED BY <1>2, <1>7, <2>1, MacAssumption DEF Configuration, Holds
<1> QED BY <1>1, <1>3, <1>4, <1>5, <1>6, <1>7

\* A command that is not about the PAC leaves it alone.
LEMMA PacSpared ==
  ASSUME NEW conf \in Configuration, NEW mode, NEW set \in Protocols \cup {"bypass"}
  PROVE  /\ Commanded(conf, set, mode).pac = conf.pac
         /\ Commanded(conf, set, mode).url = conf.url
<1>1. CASE set \in Protocols
  <2>1. Commanded(conf, set, mode) =
          [conf EXCEPT !.proxies[set] = IF mode = "manual" THEN "local" ELSE "off"]
    BY <1>1, MacAssumption DEF Commanded
  <2> QED BY <1>1, <2>1 DEF Configuration
<1>2. CASE set = "bypass"
  <2>1. Commanded(conf, set, mode) = [conf EXCEPT !.bypass = "own"]
    BY <1>2, MacAssumption DEF Commanded
  <2> QED BY <1>2, <2>1 DEF Configuration
<1> QED BY <1>1, <1>2

\* A service for which all commands have run, and which has no PAC of KokoroBox's
\* own left, has the settings of the mode.
LEMMA AllHold ==
  ASSUME NEW conf \in Configuration, NEW mode \in Modes, NEW s, NEW local,
         \A x \in ServiceSettings(mode, s \in local) : Holds(conf, x, mode),
         mode = "disabled" /\ s \notin local => conf.url # "local"
  PROVE  Agrees(conf, mode)
<1>1. /\ \A p \in Protocols : p \in ServiceSettings(mode, s \in local)
      /\ mode = "manual" => "bypass" \in ServiceSettings(mode, s \in local)
      /\ mode = "auto" => {"url", "pac-on"} \subseteq ServiceSettings(mode, s \in local)
      /\ mode = "disabled" /\ s \in local => "pac-off" \in ServiceSettings(mode, s \in local)
  BY DEF ServiceSettings
<1>2. \A p \in Protocols : Holds(conf, p, mode)
  BY <1>1
<1>3. mode = "manual" => Holds(conf, "bypass", mode)
  BY <1>1
<1>4. mode = "auto" => Holds(conf, "url", mode) /\ Holds(conf, "pac-on", mode)
  BY <1>1
<1>5. mode = "disabled" /\ s \in local => Holds(conf, "pac-off", mode)
  BY <1>1
<1> QED BY <1>2, <1>3, <1>4, <1>5 DEF Holds, Agrees

LEMMA EditedFacts ==
  ASSUME NEW conf \in Configuration, NEW new \in Edited(conf)
  PROVE  /\ new \in Configuration
         /\ conf.pac = "on" /\ conf.url = "foreign" => new.pac = "on" /\ new.url = "foreign"
<1> DEFINE other == SetProxies(conf, "other")
<1>1. /\ other \in Configuration
      /\ conf.pac = "on" /\ conf.url = "foreign" => other.pac = "on" /\ other.url = "foreign"
  BY DEF SetProxies, Configuration
<1>2. \/ new = [conf EXCEPT !.pac = "on", !.url = "foreign"]
      \/ new = [other EXCEPT !.bypass = "other", !.discovery = "on"]
  BY DEF Edited
<1> HIDE DEF other
<1>3. CASE new = [conf EXCEPT !.pac = "on", !.url = "foreign"]
  BY <1>3 DEF Configuration
<1>4. CASE new = [other EXCEPT !.bypass = "other", !.discovery = "on"]
  BY <1>1, <1>4 DEF Configuration
<1> QED BY <1>2, <1>3, <1>4

------------------------------------------------------------------------------
(* The invariant *)

Touched(c) == seen[c].targets \ disturbed[c]

\* What a call knows and has done of the services nobody has disturbed.
CallInv(c) ==
  /\ pc[c] # "idle" => wish[c].mode \in Modes
  /\ pc[c] \in {"locked", "committed"} => authorised = "YES"
  /\ pc[c] = "shell" =>
       /\ authorised = "NO"
       /\ script[c] \subseteq PrivilegedCommands(seen[c].targets, wish[c].mode, seen[c].local)
       /\ \A s \in Touched(c) : \A x \in ServiceSettings(wish[c].mode, s \in seen[c].local) :
            [service |-> s, set |-> x] \in script[c] \/ Holds(saved[s], x, wish[c].mode)
  /\ authorised = "NO" =>
       /\ pc[c] = "write" => \A s \in Touched(c) : s \in seen[c].local <=> saved[s].url = "local"
       /\ pc[c] = "shell" /\ wish[c].mode = "disabled" =>
            \A s \in Touched(c) \ seen[c].local : saved[s].url # "local"
  /\ pc[c] \in {"committed", "after"} => \A s \in Touched(c) : Agrees(saved[s], wish[c].mode)
  /\ pc[c] = "after" => \A s \in Touched(c) : Agrees(inForce[s], wish[c].mode)

MacInv ==
  /\ TypeOK
  /\ authorised = "NO" => saved = inForce
  /\ \A c \in Callers : CallInv(c)

\* A call that does not move keeps what it knows as long as services change only
\* where it sees them disturbed.
LEMMA CallRests ==
  ASSUME TypeOK, NEW c \in Callers, CallInv(c),
         UNCHANGED authorised, pc'[c] = pc[c], wish'[c] = wish[c], seen'[c] = seen[c],
         script'[c] = script[c],
         pc[c] # "idle" => disturbed[c] \subseteq disturbed'[c],
         pc[c] # "idle" => \A s \in Services \ disturbed'[c] :
           saved'[s] = saved[s] /\ inForce'[s] \in {inForce[s], saved[s]}
  PROVE  CallInv(c)'
<1> USE DEF TypeOK, CallInv, Touched
<1>1. CASE pc[c] = "idle"
  BY <1>1
<1>2. CASE pc[c] # "idle"
  <2>1. Touched(c)' \subseteq Touched(c)
    BY <1>2
  <2>2. \A s \in Touched(c)' : saved'[s] = saved[s] /\ inForce'[s] \in {inForce[s], saved[s]}
    BY <1>2
  <2> HIDE DEF Touched
  <2> QED BY <1>2, <2>1, <2>2
<1> QED BY <1>1, <1>2

------------------------------------------------------------------------------
(* The steps *)

LEMMA MacStart == Init => MacInv
<1>1. Blank \in Configuration
  BY DEF Blank, Configuration
<1> QED BY <1>1, MacAssumption DEF Init, MacInv, TypeOK, CallInv, NothingSeen, NoWish

\* What others do, and what puts saved settings into force.
LEMMA OtherStep ==
  ASSUME MacInv, NetworkChanges \/ (\E s \in Services : Edit(s) \/ Rearrange(s))
  PROVE  MacInv'
<1> USE DEF MacInv
<1>1. CASE NetworkChanges
  <2>1. TypeOK'
    BY <1>1 DEF NetworkChanges, TypeOK, calls
  <2>2. ASSUME NEW c \in Callers PROVE CallInv(c)'
    BY <1>1, CallRests DEF NetworkChanges, TypeOK, calls
  <2> QED BY <1>1, <2>1, <2>2 DEF NetworkChanges
<1>2. ASSUME NEW s \in Services, Edit(s) PROVE MacInv'
  <2>1. PICK conf \in Edited(saved[s]) : saved' = [saved EXCEPT ![s] = conf]
    BY <1>2 DEF Edit
  <2>2. saved[s] \in Configuration
    BY DEF TypeOK
  <2>3. conf \in Configuration
    BY <2>1, <2>2, EditedFacts
  <2>4. TypeOK'
    BY <1>2, <2>1, <2>3, MacAssumption DEF Edit, TypeOK, calls, Disturb
  <2>5. ASSUME NEW c \in Callers PROVE CallInv(c)'
    <3>1. /\ UNCHANGED <<authorised, pc, wish, seen, script>>
          /\ inForce' = saved'
          /\ pc[c] # "idle" => disturbed'[c] = disturbed[c] \cup {s}
          /\ \A t \in Services \ {s} : saved'[t] = saved[t]
      BY <1>2, <2>1 DEF Edit, calls, Disturb, TypeOK
    <3> QED BY <3>1, CallRests
  <2> QED BY <1>2, <2>4, <2>5 DEF Edit
<1>3. ASSUME NEW s \in Services, Rearrange(s) PROVE MacInv'
  <2>1. TypeOK'
    BY <1>3, MacAssumption DEF Rearrange, TypeOK, calls, Disturb
  <2>2. ASSUME NEW c \in Callers PROVE CallInv(c)'
    <3>1. /\ UNCHANGED <<authorised, pc, wish, seen, script, saved, inForce>>
          /\ pc[c] # "idle" => disturbed'[c] = disturbed[c] \cup {s}
      BY <1>3 DEF Rearrange, calls, Disturb, TypeOK
    <3> QED BY <3>1, CallRests
  <2> QED BY <1>3, <2>1, <2>2 DEF Rearrange
<1> QED BY <1>1, <1>2, <1>3

\* The end of a call, whatever becomes of the lock.
LEMMA ReturnStep ==
  ASSUME MacInv, NEW c \in Callers, Return(c),
         UNCHANGED <<authorised, saved, inForce, kind, edits>>,
         \/ pc[c] \in {"locked", "committed"} /\ owner' = Nobody
         \/ pc[c] \notin {"locked", "committed"} /\ UNCHANGED owner
  PROVE  MacInv'
<1> USE DEF MacInv, Return, Go
<1>1. TypeOK'
  BY MacAssumption DEF TypeOK, NoWish, NothingSeen
<1>2. CallInv(c)'
  BY DEF CallInv, TypeOK
<1>3. ASSUME NEW d \in Callers \ {c} PROVE CallInv(d)'
  BY CallRests DEF TypeOK
<1> QED BY <1>1, <1>2, <1>3

LEMMA CallStep ==
  ASSUME MacInv, NEW c \in Callers, NEW settings \in Settings, Call(c, settings)
  PROVE  MacInv'
<1> USE DEF MacInv
<1>1. CASE Return(c)
  BY <1>1, ReturnStep DEF Call, world
<1>2. CASE ~Return(c)
  <2> DEFINE T == Targets(settings.active)
  <2>1. /\ pc[c] = "idle" /\ pc' = [pc EXCEPT ![c] = "write"]
        /\ wish' = [wish EXCEPT ![c] = settings]
        /\ seen' = [seen EXCEPT ![c] = [targets |-> T, local |-> WithOwnPac(T)]]
        /\ UNCHANGED <<authorised, saved, inForce, kind, owner, edits, script, disturbed>>
        /\ settings.mode # "unknown"
    BY <1>2 DEF Call, Go, world, Valid
  <2>2. T \subseteq Services /\ WithOwnPac(T) = {s \in T : inForce[s].url = "local"}
    BY DEF Targets, Listed, WithOwnPac
  <2>3. settings.mode \in Modes
    BY <2>1, MacAssumption DEF Modes
  <2> HIDE DEF T
  <2>4. TypeOK'
    BY <2>1, <2>2 DEF TypeOK
  <2>5. CallInv(c)'
    BY <2>1, <2>2, <2>3 DEF CallInv, TypeOK, Touched
  <2>6. ASSUME NEW d \in Callers \ {c} PROVE CallInv(d)'
    BY <2>1, CallRests DEF TypeOK
  <2> QED BY <2>1, <2>4, <2>5, <2>6
<1> QED BY <1>1, <1>2

\* A refusal hands what has still to be set to the shell.
LEMMA RefusedStep ==
  ASSUME MacInv, NEW c \in Callers, pc[c] = "write", WriteFails(c),
         UNCHANGED <<authorised, world>>
  PROVE  MacInv'
<1> USE DEF MacInv
<1>1. CASE Return(c)
  BY <1>1, ReturnStep DEF world
<1>2. CASE ~Return(c)
  <2> DEFINE P == PrivilegedCommands(seen[c].targets, wish[c].mode, seen[c].local)
  <2>1. /\ authorised = "NO" /\ pc' = [pc EXCEPT ![c] = "shell"]
        /\ script' = [script EXCEPT ![c] = P]
        /\ UNCHANGED <<authorised, saved, inForce, kind, owner, edits, wish, seen, disturbed>>
    BY <1>2 DEF WriteFails, Go, world
  <2>2. P \subseteq Command
    BY DEF PrivilegedCommands
  <2>3. \A s \in seen[c].targets : \A x \in ServiceSettings(wish[c].mode, s \in seen[c].local) :
          [service |-> s, set |-> x] \in P
    <3>1. seen[c].targets \subseteq Services
      BY DEF TypeOK
    <3>2. ASSUME NEW s \in Services, NEW x \in ServiceSettings(wish[c].mode, s \in seen[c].local)
          PROVE  x \in Protocols \cup {"bypass", "url", "pac-on", "pac-off"}
      BY DEF ServiceSettings
    <3> QED BY <3>1, <3>2 DEF PrivilegedCommands, Command
  <2> HIDE DEF P
  <2>4. TypeOK'
    BY <2>1, <2>2 DEF TypeOK
  <2>5. CallInv(c)'
    <3>1. wish[c].mode \in Modes
      BY DEF CallInv
    <3>2. \A s \in Touched(c) : s \in seen[c].local <=> saved[s].url = "local"
      BY <2>1 DEF CallInv
    <3>3. pc'[c] = "shell" /\ script'[c] = P
      BY <2>1 DEF TypeOK
    <3>4. script'[c] \subseteq PrivilegedCommands(seen'[c].targets, wish'[c].mode, seen'[c].local)
      BY <2>1, <3>3 DEF P
    <3> QED BY <2>1, <2>3, <3>1, <3>2, <3>3, <3>4 DEF CallInv, Touched
  <2>6. ASSUME NEW d \in Callers \ {c} PROVE CallInv(d)'
    BY <2>1, CallRests DEF TypeOK
  <2> QED BY <2>1, <2>4, <2>5, <2>6
<1> QED BY <1>1, <1>2

LEMMA LockStep ==
  ASSUME MacInv, NEW c \in Callers, LockPreferences(c)
  PROVE  MacInv'
<1> USE DEF MacInv
<1>1. CASE WriteFails(c) /\ UNCHANGED owner
  BY <1>1, RefusedStep DEF LockPreferences, world
<1>2. CASE /\ authorised = "YES" /\ owner = Nobody
           /\ owner' = c /\ Go(c, "locked")
           /\ UNCHANGED <<wish, seen, script, disturbed>>
  <2>1. UNCHANGED <<authorised, saved, inForce, kind, edits>>
    BY DEF LockPreferences
  <2>2. TypeOK'
    BY <1>2, <2>1, MacAssumption DEF TypeOK, Go
  <2>3. CallInv(c)'
    BY <1>2, <2>1 DEF TypeOK, CallInv, Touched, Go, LockPreferences
  <2>4. ASSUME NEW d \in Callers \ {c} PROVE CallInv(d)'
    BY <1>2, <2>1, CallRests DEF TypeOK, Go
  <2> QED BY <1>2, <2>1, <2>2, <2>3, <2>4
<1> QED BY <1>1, <1>2 DEF LockPreferences

LEMMA CommitStep ==
  ASSUME MacInv, NEW c \in Callers, Commit(c)
  PROVE  MacInv'
<1> USE DEF MacInv
<1>1. authorised = "YES" /\ wish[c].mode \in Modes
  BY DEF CallInv, Commit
<1>2. CASE WriteFails(c) /\ owner' = Nobody /\ UNCHANGED saved
  BY <1>1, <1>2, ReturnStep DEF Commit, WriteFails
<1>3. CASE /\ saved' = Write(c) /\ DisturbOthers(c, seen[c].targets)
           /\ Go(c, "committed")
           /\ UNCHANGED <<owner, wish, seen, script>>
  <2>1. UNCHANGED <<authorised, inForce, kind, edits>>
    BY DEF Commit
  <2>2. \A s \in Services : saved[s] \in Configuration
    BY DEF TypeOK
  <2>3. /\ saved' \in [Services -> Configuration]
        /\ \A s \in seen[c].targets : s \in Services => Agrees(saved'[s], wish[c].mode)
        /\ \A s \in Services \ seen[c].targets : saved'[s] = saved[s]
    BY <1>1, <1>3, <2>2, UpdatedFacts DEF Write
  <2>4. /\ disturbed' \in [Callers -> SUBSET Services] /\ disturbed'[c] = disturbed[c]
        /\ \A d \in Callers \ {c} :
             pc[d] # "idle" => disturbed'[d] = disturbed[d] \cup seen[c].targets
    BY <1>3 DEF DisturbOthers, TypeOK
  <2>5. TypeOK'
    BY <1>3, <2>1, <2>3, <2>4, MacAssumption DEF TypeOK, Go, Commit
  <2>6. CallInv(c)'
    BY <1>1, <1>3, <2>1, <2>3, <2>4 DEF TypeOK, CallInv, Touched, Go
  <2>7. ASSUME NEW d \in Callers \ {c} PROVE CallInv(d)'
    BY <1>3, <2>1, <2>3, <2>4, CallRests DEF TypeOK, Go
  <2> QED BY <1>1, <2>1, <2>5, <2>6, <2>7
<1> QED BY <1>2, <1>3 DEF Commit

LEMMA ApplyStep ==
  ASSUME MacInv, NEW c \in Callers, ApplyChanges(c)
  PROVE  MacInv'
<1> USE DEF MacInv
<1>1. authorised = "YES" /\ wish[c].mode \in Modes
  BY DEF CallInv, ApplyChanges
<1>2. CASE WriteFails(c) /\ UNCHANGED inForce
  BY <1>1, <1>2, ReturnStep DEF ApplyChanges, WriteFails
<1>3. CASE inForce' = saved /\ Go(c, "after") /\ UNCHANGED <<wish, seen, script, disturbed>>
  <2>1. UNCHANGED <<authorised, saved, kind, edits>> /\ owner' = Nobody /\ pc[c] = "committed"
    BY DEF ApplyChanges
  <2>2. TypeOK'
    BY <1>3, <2>1, MacAssumption DEF TypeOK, Go
  <2>3. CallInv(c)'
    BY <1>1, <1>3, <2>1 DEF TypeOK, CallInv, Touched, Go
  <2>4. ASSUME NEW d \in Callers \ {c} PROVE CallInv(d)'
    BY <1>3, <2>1, CallRests DEF TypeOK, Go
  <2> QED BY <1>1, <1>3, <2>1, <2>2, <2>3, <2>4
<1> QED BY <1>2, <1>3 DEF ApplyChanges

LEMMA ShellStep ==
  ASSUME MacInv, NEW c \in Callers, NEW m \in Due(c), ShellRuns(c, m)
  PROVE  MacInv'
<1> USE DEF MacInv
<1> DEFINE own == m.service \in seen[c].local
           mode == wish[c].mode
           new == Commanded(saved[m.service], m.set, mode)
<1>1. /\ m \in script[c] /\ pc[c] = "shell" /\ authorised = "NO"
      /\ saved' = [saved EXCEPT ![m.service] = new] /\ inForce' = saved'
      /\ script' = [script EXCEPT ![c] = @ \ {m}]
      /\ DisturbOthers(c, {m.service})
      /\ UNCHANGED <<authorised, kind, owner, edits, pc, wish, seen>>
  BY DEF ShellRuns, Due, CallInv
<1>2. /\ m \in Command /\ m.service \in Services /\ m.service \in seen[c].targets
      /\ m.set \in ServiceSettings(mode, own) /\ mode \in Modes /\ own \in BOOLEAN
      /\ m = [service |-> m.service, set |-> m.set]
  BY <1>1 DEF CallInv, PrivilegedCommands, Command
<1>3. saved[m.service] \in Configuration
  BY <1>2 DEF TypeOK
<1>4. /\ new \in Configuration /\ Holds(new, m.set, mode)
      /\ \A x \in ServiceSettings(mode, own) :
           Holds(saved[m.service], x, mode) => Holds(new, x, mode)
      /\ mode = "disabled" => new.url = saved[m.service].url
  <2>1. /\ m.set \in ServiceSettings(mode, m.service \in seen[c].local)
        /\ mode \in Modes
    BY <1>2
  <2> HIDE DEF MacInv, mode
  <2> QED BY <1>3, <2>1, CommandedFacts
<1>5. /\ disturbed' \in [Callers -> SUBSET Services] /\ disturbed'[c] = disturbed[c]
      /\ \A d \in Callers \ {c} : pc[d] # "idle" => disturbed'[d] = disturbed[d] \cup {m.service}
  BY <1>1, <1>2 DEF DisturbOthers, TypeOK
<1> HIDE DEF new
<1>6. TypeOK'
  BY <1>1, <1>2, <1>4, <1>5 DEF TypeOK
<1>7. /\ saved'[m.service] = new /\ script'[c] = script[c] \ {m}
      /\ \A s \in Services \ {m.service} : saved'[s] = saved[s]
  BY <1>1, <1>2 DEF TypeOK
<1>8. CallInv(c)'
  <2>1. Touched(c)' = Touched(c) /\ Touched(c) \subseteq Services
    BY <1>1, <1>5 DEF Touched, TypeOK
  <2>2. ASSUME NEW s \in Touched(c), NEW x \in ServiceSettings(mode, s \in seen[c].local)
        PROVE  [service |-> s, set |-> x] \in script'[c] \/ Holds(saved'[s], x, mode)
    <3>1. [service |-> s, set |-> x] \in script[c] \/ Holds(saved[s], x, mode)
      BY <1>1 DEF CallInv
    <3>2. CASE s # m.service
      <4>1. [service |-> s, set |-> x] # m
        BY <3>2
      <4> QED BY <1>7, <2>1, <3>1, <3>2, <4>1
    <3>3. CASE s = m.service /\ x = m.set
      BY <1>4, <1>7, <3>3
    <3>4. CASE s = m.service /\ x # m.set
      <4>1. [service |-> s, set |-> x] # m
        BY <3>4
      <4> QED BY <1>4, <1>7, <3>1, <3>4, <4>1
    <3> QED BY <3>2, <3>3, <3>4
  <2>3. mode = "disabled" => \A s \in Touched(c) \ seen[c].local : saved'[s].url # "local"
    BY <1>1, <1>4, <1>7, <2>1 DEF CallInv
  <2>4. script'[c] \subseteq PrivilegedCommands(seen[c].targets, mode, seen[c].local)
    BY <1>1, <1>7 DEF CallInv
  <2> QED BY <1>1, <1>2, <2>1, <2>2, <2>3, <2>4 DEF CallInv
<1>9. ASSUME NEW d \in Callers \ {c} PROVE CallInv(d)'
  BY <1>1, <1>5, <1>7, CallRests DEF TypeOK
<1> QED BY <1>1, <1>6, <1>8, <1>9

LEMMA EndStep ==
  ASSUME MacInv, NEW c \in Callers, ShellFails(c) \/ ShellEnds(c) \/ After(c)
  PROVE  MacInv'
<1> USE DEF MacInv
<1>1. CASE ShellFails(c) \/ After(c)
  BY <1>1, ReturnStep DEF ShellFails, After, world
<1>2. CASE ShellEnds(c)
  <2>1. /\ pc[c] = "shell" /\ script[c] = {} /\ pc' = [pc EXCEPT ![c] = "after"]
        /\ UNCHANGED <<authorised, saved, inForce, kind, owner, edits, wish, seen, script, disturbed>>
    BY <1>2 DEF ShellEnds, Go, world
  <2>2. TypeOK'
    BY <2>1 DEF TypeOK
  <2>3. saved = inForce /\ wish[c].mode \in Modes
    BY <2>1 DEF CallInv
  <2>4. ASSUME NEW s \in Touched(c) PROVE Agrees(saved[s], wish[c].mode)
    <3>1. saved[s] \in Configuration
      BY DEF Touched, TypeOK
    <3>2. \A x \in ServiceSettings(wish[c].mode, s \in seen[c].local) : Holds(saved[s], x, wish[c].mode)
      BY <2>1 DEF CallInv
    <3>3. wish[c].mode = "disabled" /\ s \notin seen[c].local => saved[s].url # "local"
      BY <2>1 DEF CallInv
    <3> QED BY <2>3, <3>1, <3>2, <3>3, AllHold
  <2>5. CallInv(c)'
    BY <2>1, <2>3, <2>4 DEF CallInv, Touched, TypeOK
  <2>6. ASSUME NEW d \in Callers \ {c} PROVE CallInv(d)'
    BY <2>1, CallRests DEF TypeOK
  <2> QED BY <2>1, <2>2, <2>5, <2>6
<1> QED BY <1>1, <1>2

LEMMA MacStep == MacInv /\ [Next]_vars => MacInv'
<1>1. MacInv /\ UNCHANGED vars => MacInv'
  BY DEF MacInv, TypeOK, CallInv, Touched, vars, world, calls
<1> QED BY <1>1, OtherStep, CallStep, LockStep, CommitStep, ApplyStep, ShellStep, EndStep DEF Next, Step

LEMMA MacInvariant == Spec => []MacInv
BY MacStart, MacStep, PTL DEF Spec

------------------------------------------------------------------------------
(* The theorems *)

\* The preferences and the calls keep their types, and the lock has one owner.
THEOREM MacTypes == Spec => []TypeOK
<1>1. MacInv => TypeOK
  BY DEF MacInv
<1> QED BY <1>1, MacInvariant, PTL

\* A call on the point of success has its settings in force on every service it
\* set out to change and nobody else wrote, whichever way it took (495-510).
THEOREM SuccessSets == Spec => []SuccessMeansSet
<1>1. MacInv => SuccessMeansSet
  BY DEF MacInv, CallInv, Touched, SuccessMeansSet
<1> QED BY <1>1, MacInvariant, PTL

\* No step but one of a call that sets a PAC, or of a shell where it was
\* KokoroBox's own when the call began, loses a foreign PAC (262-263, 316-321).
THEOREM PacKept == Spec => ForeignPacKept
<1> DEFINE Foreign(conf) == conf.pac = "on" /\ conf.url = "foreign"
           Excused(s) == \E c \in Callers :
                           \/ wish[c].mode = "auto" /\ pc[c] \in {"locked", "shell"}
                           \/ wish[c].mode = "disabled" /\ s \in seen[c].local /\ pc[c] = "shell"
<1>1. ASSUME MacInv, [Next]_vars, NEW s \in Services, Foreign(saved[s]), ~Excused(s)
      PROVE  Foreign(saved'[s])
  <2>1. CASE UNCHANGED saved
    BY <1>1, <2>1
  <2>2. ASSUME NEW t \in Services, Edit(t)
        PROVE  Foreign(saved'[s])
    <3>1. PICK conf \in Edited(saved[t]) : saved' = [saved EXCEPT ![t] = conf]
      BY <2>2 DEF Edit
    <3>2. saved[t] \in Configuration
      BY <1>1 DEF MacInv, TypeOK
    <3> QED BY <1>1, <3>1, <3>2, EditedFacts DEF MacInv, TypeOK
  <2>3. ASSUME NEW c \in Callers, Commit(c), saved' = Write(c)
        PROVE  Foreign(saved'[s])
    <3>1. wish[c].mode \in Modes /\ saved[s] \in Configuration /\ pc[c] = "locked"
      BY <1>1, <2>3 DEF MacInv, TypeOK, CallInv, Commit
    <3>2. wish[c].mode # "auto"
      BY <1>1, <3>1
    <3>3. Foreign(Updated(saved[s], wish[c].mode))
      BY <1>1, <3>1, <3>2, UpdatedFacts
    <3> QED BY <1>1, <2>3, <3>3 DEF Write
  <2>4. ASSUME NEW c \in Callers, NEW m \in Due(c), ShellRuns(c, m)
        PROVE  Foreign(saved'[s])
    <3>1. /\ m \in script[c] /\ pc[c] = "shell"
          /\ saved' = [saved EXCEPT ![m.service] = Commanded(saved[m.service], m.set, wish[c].mode)]
      BY <2>4 DEF ShellRuns, Due
    <3>2. /\ m.service \in Services /\ wish[c].mode \in Modes
          /\ m.set \in ServiceSettings(wish[c].mode, m.service \in seen[c].local)
          /\ saved[m.service] \in Configuration /\ saved \in [Services -> Configuration]
      BY <1>1, <3>1 DEF MacInv, TypeOK, CallInv, PrivilegedCommands, Command
    <3>3. CASE m.service # s
      BY <1>1, <3>1, <3>2, <3>3
    <3>4. CASE m.service = s
      <4>1. wish[c].mode # "auto" /\ ~(wish[c].mode = "disabled" /\ m.service \in seen[c].local)
        BY <1>1, <3>1, <3>4
      <4> DEFINE mode == wish[c].mode
                 set  == m.set
                 conf == saved[s]
      <4>2. mode \in Modes /\ mode # "auto" /\ ~(mode = "disabled" /\ s \in seen[c].local)
        BY <3>2, <3>4, <4>1
      <4>3. set \in Protocols \cup {"bypass"}
        BY <3>2, <3>4, <4>2 DEF ServiceSettings, Modes
      <4>4. conf \in Configuration
        BY <3>2, <3>4
      <4>5. saved'[s] = Commanded(conf, set, mode)
        BY <3>1, <3>2, <3>4
      <4> HIDE DEF mode, set, conf
      <4>6. Commanded(conf, set, mode).pac = conf.pac /\ Commanded(conf, set, mode).url = conf.url
        BY <4>2, <4>3, <4>4, PacSpared
      <4> QED BY <1>1, <4>5, <4>6 DEF conf
    <3> QED BY <3>3, <3>4
  <2>5. \/ UNCHANGED saved
        \/ \E t \in Services : Edit(t)
        \/ \E c \in Callers : Commit(c) /\ saved' = Write(c)
        \/ \E c \in Callers : \E m \in Due(c) : ShellRuns(c, m)
    BY <1>1 DEF Next, Step, vars, world, Rearrange, NetworkChanges, Call, LockPreferences, Commit,
                ApplyChanges, ShellFails, ShellEnds, After
  <2> QED BY <2>1, <2>2, <2>3, <2>4, <2>5
<1>2. MacInv /\ [Next]_vars =>
        [\A s \in Services :
           /\ saved[s].pac = "on" /\ saved[s].url = "foreign"
           /\ saved'[s].pac = "off" \/ saved'[s].url # "foreign"
           => Excused(s)]_vars
  <2>1. ASSUME MacInv, [Next]_vars, NEW s \in Services, Foreign(saved[s]),
               saved'[s].pac = "off" \/ saved'[s].url # "foreign"
        PROVE  Excused(s)
    <3>1. SUFFICES ASSUME ~Excused(s) PROVE FALSE
      OBVIOUS
    <3>2. Foreign(saved'[s])
      BY <1>1, <2>1, <3>1
    <3> QED BY <2>1, <3>2
  <2> QED BY <2>1
<1> QED BY <1>2, MacInvariant, PTL DEF Spec, ForeignPacKept

==============================================================================
