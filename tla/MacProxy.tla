------------------------------ MODULE MacProxy ------------------------------
(***************************************************************************)
(* The system proxy of macOS (src/macos_system_proxy.rs): a call lists the *)
(* network services, writes the proxies of its targets in one transaction  *)
(* of SystemConfiguration's preferences, or, refused that, has the         *)
(* administrator's shell run networksetup once per setting, and lists the  *)
(* services again.  What is saved is in force only once it is applied.     *)
(* Other programs edit the same preferences under the same lock.           *)
(***************************************************************************)
EXTENDS Naturals

CONSTANTS
  Callers,    \* worker threads that may be inside setSystemProxy
  Services,   \* network services of the current location
  Protocols,  \* HTTP, HTTPS and SOCKS
  Settings,   \* settings a call may be given: mode and scope
  MaxEdits    \* bound: edits of other programs

Nobody == "nobody"

ASSUME MacAssumption ==
  /\ Settings \subseteq [mode : {"manual", "auto", "disabled", "unknown"}, active : {"YES", "NO"}]
  /\ Protocols \cap {"bypass", "url", "pac-on", "pac-off"} = {}
  /\ Nobody \notin Callers
  /\ MaxEdits \in Nat

VARIABLES
  authorised, \* whether the program may write the preferences itself
  saved,      \* proxies of each service in the preferences
  inForce,    \* those configd uses
  kind,       \* of each service: primary, idle, disabled or removed
  owner,      \* caller that holds the preferences' lock, or Nobody
  edits,      \* edits other programs have made
  pc,         \* where each caller is
  wish,       \* the settings of its call
  seen,       \* what it knows of its targets from its first list
  script,     \* commands its administrator's shell has still to run
  disturbed   \* services others have changed since its call began (history)

world  == <<saved, inForce, kind, owner, edits>>
calls  == <<pc, wish, seen, script>>
vars == <<authorised, world, calls, disturbed>>

Configuration ==
  [proxies : [Protocols -> {"off", "local", "other"}], bypass : {"own", "other"},
   pac : {"on", "off"}, url : {"none", "local", "foreign"}, discovery : {"on", "off"}]
Command == [service : Services, set : Protocols \cup {"bypass", "url", "pac-on", "pac-off"}]
NoWish == [mode |-> "unknown", active |-> "NO"]
NothingSeen == [targets |-> {}, local |-> {}]

\* The types of the preferences and of the calls; the lock has one owner.
TypeOK ==
  /\ authorised \in {"YES", "NO"}
  /\ saved \in [Services -> Configuration] /\ inForce \in [Services -> Configuration]
  /\ kind \in [Services -> {"primary", "idle", "disabled", "removed"}]
  /\ owner \in Callers \cup {Nobody}
  /\ edits \in 0..MaxEdits
  /\ pc \in [Callers -> {"idle", "write", "locked", "committed", "shell", "after"}]
  /\ wish \in [Callers -> Settings \cup {NoWish}]
  /\ seen \in [Callers -> [targets : SUBSET Services, local : SUBSET Services]]
  /\ script \in [Callers -> SUBSET Command]
  /\ disturbed \in [Callers -> SUBSET Services]
  /\ \A c \in Callers : owner = c <=> pc[c] \in {"locked", "committed"}

Blank ==
  [proxies |-> [p \in Protocols |-> "off"], bypass |-> "other",
   pac |-> "off", url |-> "none", discovery |-> "off"]

Init ==
  /\ authorised \in {"YES", "NO"}
  /\ saved = [s \in Services |-> Blank] /\ inForce = saved
  /\ kind = [s \in Services |-> "primary"]
  /\ owner = Nobody /\ edits = 0
  /\ pc = [c \in Callers |-> "idle"] /\ wish = [c \in Callers |-> NoWish]
  /\ seen = [c \in Callers |-> NothingSeen] /\ script = [c \in Callers |-> {}]
  /\ disturbed = [c \in Callers |-> {}]

------------------------------------------------------------------------------
(* What settings mean for the proxies of a service *)

SetProxies(conf, value) == [conf EXCEPT !.proxies = [p \in Protocols |-> value]]

\* Mutant: disabling turns every PAC off.
UpdatedAny(conf, mode) ==
  CASE mode = "manual" -> [SetProxies(conf, "local") EXCEPT !.bypass = "own"]
    [] mode = "auto"   -> [SetProxies(conf, "off") EXCEPT !.pac = "on", !.url = "local"]
    [] OTHER           -> [SetProxies(conf, "off") EXCEPT !.pac = "off"]

\* Everything else is kept: a PAC and discovery in manual mode, and when
\* disabled, a PAC that is not KokoroBox's own.
Updated(conf, mode) ==
  CASE mode = "manual" -> [SetProxies(conf, "local") EXCEPT !.bypass = "own"]
    [] mode = "auto"   -> [SetProxies(conf, "off") EXCEPT !.pac = "on", !.url = "local"]
    [] OTHER           -> [SetProxies(conf, "off") EXCEPT
                             !.pac = IF conf.url = "local" THEN "off" ELSE conf.pac]

\* What the commands for a service set; whether the PAC is KokoroBox's own is
\* known from the first list.
ServiceSettings(mode, own) ==
  Protocols \cup CASE mode = "manual" -> {"bypass"}
                   [] mode = "auto"   -> {"url", "pac-on"}
                   [] OTHER           -> IF own THEN {"pac-off"} ELSE {}

PrivilegedCommands(targets, mode, local) ==
  {m \in Command : /\ m.service \in targets
                   /\ m.set \in ServiceSettings(mode, m.service \in local)}

\* Of each service the proxies come first, and the state of the PAC last.
Place(set) ==
  CASE set \in {"pac-on", "pac-off"} -> 3
    [] set \in {"bypass", "url"}     -> 2
    [] OTHER                         -> 1

\* networksetup, for one setting of one service.
Commanded(conf, set, mode) ==
  CASE set \in Protocols -> [conf EXCEPT !.proxies[set] = IF mode = "manual" THEN "local" ELSE "off"]
    [] set = "bypass"  -> [conf EXCEPT !.bypass = "own"]
    [] set = "url"     -> [conf EXCEPT !.url = "local", !.pac = "on"]
    [] set = "pac-on"  -> [conf EXCEPT !.pac = "on"]
    [] set = "pac-off" -> [conf EXCEPT !.pac = "off"]

------------------------------------------------------------------------------
(* Other programs and the network *)

\* What a person sets elsewhere: an organisation's PAC, or discovery and a proxy.
Edited(conf) ==
  {[conf EXCEPT !.pac = "on", !.url = "foreign"],
   [SetProxies(conf, "other") EXCEPT !.bypass = "other", !.discovery = "on"]}

Disturb(s) ==
  disturbed' = [c \in Callers |-> IF pc[c] = "idle" THEN {} ELSE disturbed[c] \cup {s}]

Edit(s) ==
  /\ owner = Nobody /\ edits < MaxEdits
  /\ kind[s] # "removed"
  /\ \E conf \in Edited(saved[s]) : saved' = [saved EXCEPT ![s] = conf]
  /\ inForce' = saved'
  /\ edits' = edits + 1
  /\ Disturb(s)
  /\ UNCHANGED <<authorised, kind, owner, calls>>

\* A service is removed, turned off or on, or gains or loses its addresses.
Rearrange(s) ==
  /\ owner = Nobody /\ edits < MaxEdits
  /\ kind[s] # "removed"
  /\ \E k \in {"primary", "idle", "disabled", "removed"} \ {kind[s]} : kind' = [kind EXCEPT ![s] = k]
  /\ edits' = edits + 1
  /\ Disturb(s)
  /\ UNCHANGED <<authorised, saved, inForce, owner, calls>>

\* A change of the network puts what is saved into force.
NetworkChanges ==
  /\ inForce # saved
  /\ inForce' = saved
  /\ UNCHANGED <<authorised, saved, kind, owner, edits, calls, disturbed>>

------------------------------------------------------------------------------
(* Steps of a call *)

Go(c, target) == pc' = [pc EXCEPT ![c] = target]

Return(c) ==
  /\ Go(c, "idle")
  /\ disturbed' = [disturbed EXCEPT ![c] = {}]
  /\ wish' = [wish EXCEPT ![c] = NoWish]
  /\ seen' = [seen EXCEPT ![c] = NothingSeen]
  /\ script' = [script EXCEPT ![c] = {}]

\* The mode is one of three, and a manual or automatic one has its address.
Valid(settings) == settings.mode # "unknown"

\* A list shows the services of the current location, and with each whether it
\* is enabled, has addresses, is the primary one, and what proxies it has.
Listed == {s \in Services : kind[s] # "removed"}

Primary == {s \in Listed : kind[s] = "primary"}

Targets(active) == {s \in Listed : kind[s] # "disabled" /\ (active = "YES" => s \in Primary)}

WithOwnPac(targets) == {s \in targets : inForce[s].url = "local"}

\* The settings are validated, the services listed, and the targets chosen;
\* a primary service that is not in the list ends the call.
Call(c, settings) ==
  /\ pc[c] = "idle"
  /\ LET targets == Targets(settings.active) IN
     \/ Return(c)
     \/ /\ Valid(settings) /\ Primary # {}
        /\ Go(c, "write")
        /\ wish' = [wish EXCEPT ![c] = settings]
        /\ seen' = [seen EXCEPT ![c] = [targets |-> targets, local |-> WithOwnPac(targets)]]
        /\ UNCHANGED <<script, disturbed>>
  /\ UNCHANGED <<authorised, world>>

\* An error of the transaction: permission-denied has the shell try, anything
\* else is the answer.  The lock is dropped and nothing of it stays.
WriteFails(c) ==
  \/ Return(c)
  \/ /\ authorised = "NO"
     /\ Go(c, "shell")
     /\ script' = [script EXCEPT ![c] =
          PrivilegedCommands(seen[c].targets, wish[c].mode, seen[c].local)]
     /\ UNCHANGED <<wish, seen, disturbed>>

\* SystemConfiguration looks at the permission here, and only here.
LockPreferences(c) ==
  /\ pc[c] = "write"
  /\ \/ /\ authorised = "YES" /\ owner = Nobody
        /\ owner' = c /\ Go(c, "locked")
        /\ UNCHANGED <<wish, seen, script, disturbed>>
     \/ WriteFails(c) /\ UNCHANGED owner
  /\ UNCHANGED <<authorised, saved, inForce, kind, edits>>

Write(c) == [s \in Services |->
  IF s \in seen[c].targets THEN Updated(saved[s], wish[c].mode) ELSE saved[s]]

\* Others see the services a call writes as changed.
DisturbOthers(c, S) ==
  disturbed' = [d \in Callers |->
    IF d = c \/ pc[d] = "idle" THEN disturbed[d] ELSE disturbed[d] \cup S]

\* The services are changed one by one and committed at once; a service that
\* is gone by now, or any failure, leaves all of them as they were.
Commit(c) ==
  /\ pc[c] = "locked"
  /\ \/ /\ \A s \in seen[c].targets : kind[s] # "removed"
        /\ saved' = Write(c) /\ DisturbOthers(c, seen[c].targets)
        /\ Go(c, "committed")
        /\ UNCHANGED <<owner, wish, seen, script>>
     \/ WriteFails(c) /\ owner' = Nobody /\ UNCHANGED saved
  /\ UNCHANGED <<authorised, inForce, kind, edits>>

\* Mutant: the lock is kept until the call is over.
ApplyChangesHolds(c) ==
  /\ pc[c] = "committed"
  /\ \/ /\ inForce' = saved /\ Go(c, "after") /\ UNCHANGED owner
        /\ UNCHANGED <<wish, seen, script, disturbed>>
     \/ WriteFails(c) /\ owner' = Nobody /\ UNCHANGED inForce
  /\ UNCHANGED <<authorised, saved, kind, edits>>

\* A failure leaves them committed: the next change of the network or of the
\* preferences puts them into force.
ApplyChanges(c) ==
  /\ pc[c] = "committed"
  /\ \/ /\ inForce' = saved /\ Go(c, "after")
        /\ UNCHANGED <<wish, seen, script, disturbed>>
     \/ WriteFails(c) /\ UNCHANGED inForce
  /\ owner' = Nobody
  /\ UNCHANGED <<authorised, saved, kind, edits>>

\* The command the chain has come to: services follow one another in the order
\* of the list, which is a fixed one.
Due(c) ==
  LET current == CHOOSE s \in {m.service : m \in script[c]} : TRUE IN
  {m \in script[c] :
     /\ m.service = current
     /\ \A n \in script[c] : n.service = current => Place(m.set) <= Place(n.set)}

\* Mutant: a command that fails does not stop the ones after it.
ShellRunsOn(c, m) ==
  /\ pc[c] = "shell" /\ owner = Nobody
  /\ \/ /\ kind[m.service] # "removed"
        /\ saved' = [saved EXCEPT ![m.service] = Commanded(@, m.set, wish[c].mode)]
        /\ inForce' = saved'
        /\ DisturbOthers(c, {m.service})
     \/ UNCHANGED <<saved, inForce, disturbed>>
  /\ script' = [script EXCEPT ![c] = @ \ {m}]
  /\ UNCHANGED <<authorised, kind, owner, edits, pc, wish, seen>>

\* One networksetup, under a lock of its own; && ends the chain at a failure.
ShellRuns(c, m) ==
  /\ pc[c] = "shell" /\ owner = Nobody
  /\ kind[m.service] # "removed"
  /\ saved' = [saved EXCEPT ![m.service] = Commanded(@, m.set, wish[c].mode)]
  /\ inForce' = saved'
  /\ DisturbOthers(c, {m.service})
  /\ script' = [script EXCEPT ![c] = @ \ {m}]
  /\ UNCHANGED <<authorised, kind, owner, edits, pc, wish, seen>>

\* Nobody allows it, a command fails, or ninety seconds are over.
ShellFails(c) ==
  /\ pc[c] = "shell"
  /\ Return(c)
  /\ UNCHANGED <<authorised, world>>

ShellEnds(c) ==
  /\ pc[c] = "shell" /\ script[c] = {}
  /\ Go(c, "after")
  /\ UNCHANGED <<authorised, world, wish, seen, script, disturbed>>

\* The services are listed again, only to tell whether automatic settings are
\* left, and the call is over.
After(c) ==
  /\ pc[c] = "after"
  /\ Return(c)
  /\ UNCHANGED <<authorised, world>>

Step(c) ==
  \/ \E settings \in Settings : Call(c, settings)
  \/ LockPreferences(c) \/ Commit(c) \/ ApplyChanges(c)
  \/ (\E m \in Due(c) : ShellRuns(c, m)) \/ ShellFails(c) \/ ShellEnds(c)
  \/ After(c)

Next ==
  \/ \E c \in Callers : Step(c)
  \/ \E s \in Services : Edit(s) \/ Rearrange(s)
  \/ NetworkChanges

Spec == Init /\ [][Next]_vars

------------------------------------------------------------------------------

Agrees(conf, mode) ==
  /\ \A p \in Protocols : conf.proxies[p] = IF mode = "manual" THEN "local" ELSE "off"
  /\ mode = "manual" => conf.bypass = "own"
  /\ mode = "auto" => conf.pac = "on" /\ conf.url = "local"
  /\ mode = "disabled" => ~(conf.pac = "on" /\ conf.url = "local")

\* A call on the point of success has put its settings into force on every
\* service it set out to change, whichever way it took, except where somebody
\* else wrote in the meantime (495-510).
SuccessMeansSet ==
  \A c \in Callers : pc[c] = "after" =>
    \A s \in seen[c].targets \ disturbed[c] : Agrees(inForce[s], wish[c].mode)

\* No call but one that sets a PAC turns off one that is not KokoroBox's own;
\* only the shell may, where it was KokoroBox's own when the call began ("preserve
\* all unrelated keys, including PAC/WPAD", 262-263 and 316-321).
ForeignPacKept ==
  [][\A s \in Services :
       /\ saved[s].pac = "on" /\ saved[s].url = "foreign"
       /\ saved'[s].pac = "off" \/ saved'[s].url # "foreign"
       => \E c \in Callers :
            \/ wish[c].mode = "auto" /\ pc[c] \in {"locked", "shell"}
            \/ wish[c].mode = "disabled" /\ s \in seen[c].local /\ pc[c] = "shell"]_vars

==============================================================================
