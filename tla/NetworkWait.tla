----------------------------- MODULE NetworkWait -----------------------------
(***************************************************************************)
(* waitForNetworkContextChange (src/platform.rs): Desktop asks for a       *)
(* context that differs from the last one it got, again and again.  Each   *)
(* wait occupies one of libuv's workers, reads the network piece by piece, *)
(* compares, and sleeps until the next probe or its timeout.               *)
(***************************************************************************)
EXTENDS Desktop, Naturals, Sequences, FiniteSets

CONSTANTS
  Workers,    \* libuv's workers, which the waits share
  Interfaces, \* network interfaces
  Servers,    \* lists of DNS servers, an empty one perhaps
  MaxChanges  \* bound: changes of the network

ASSUME NetworkAssumption ==
  /\ Workers \in Nat \ {0} /\ MaxChanges \in Nat
  /\ None \notin Interfaces /\ None \notin Servers /\ Servers # {}

VARIABLES
  os,       \* the operating system
  network,  \* default interface, servers of each interface, global servers, SSID
  changes,  \* changes so far
  queue,    \* callers whose wait has no worker yet
  stage,    \* where each call's wait is
  probe,    \* the context it is reading
  known,    \* the context each caller has last been given
  late      \* callers whose timeout has passed

waitVars == <<os, network, changes, queue, stage, probe, known, late>>

Contexts == [interface : Interfaces \cup {None}, servers : Servers \cup {None},
             ssid : {"home", None}]
Unknown == [interface |-> None, servers |-> None, ssid |-> None]

\* The types, and no more waits at work than there are workers.
WaitTypeOK ==
  /\ os \in Systems
  /\ network \in [interface : Interfaces \cup {None}, dns : [Interfaces -> Servers \cup {None}],
                  global : Servers, ssid : {"home", None}]
  /\ changes \in 0..MaxChanges
  /\ queue \in Seq(Callers)
  /\ stage \in [Callers -> {"idle", "queued", "interface", "servers", "ssid", "compare", "sleep"}]
  /\ probe \in [Callers -> Contexts] /\ known \in [Callers -> Contexts]
  /\ late \subseteq Callers
  /\ Cardinality({c \in Callers : stage[c] \notin {"idle", "queued"}}) <= Workers

WaitInit ==
  /\ os \in Systems
  /\ \E i \in Interfaces, s \in Servers :
       network = [interface |-> i, dns |-> [j \in Interfaces |-> s], global |-> s, ssid |-> "home"]
  /\ changes = 0
  /\ queue = <<>> /\ stage = [c \in Callers |-> "idle"]
  /\ probe = [c \in Callers |-> Unknown] /\ known = [c \in Callers |-> Unknown]
  /\ late = {}

------------------------------------------------------------------------------
(* What each system reports of the servers, given the interface read before *)

\* resolvectl for the interface, or resolv.conf if that yields nothing
LinuxServers(i) ==
  IF i # None /\ network.dns[i] # None THEN network.dns[i] ELSE network.global

\* the primary service's servers, or the global ones if it has no entry
MacServers(i) ==
  IF i # None /\ network.dns[i] # None THEN network.dns[i] ELSE network.global

\* the adapter of the best route, or nothing
WindowsServers(i) == IF i = None THEN None ELSE network.dns[i]

ServersOf(i) ==
  CASE os = "linux" -> LinuxServers(i)
    [] os = "macos" -> MacServers(i)
    [] OTHER        -> WindowsServers(i)

\* macOS has an SSID of an interface only.
SsidOf(i) == IF os = "macos" /\ i = None THEN None ELSE network.ssid

Context ==
  [interface |-> network.interface, servers |-> ServersOf(network.interface),
   ssid |-> SsidOf(network.interface)]

------------------------------------------------------------------------------

\* The route, the servers or the wireless network change.
NetworkMoves ==
  /\ changes < MaxChanges
  /\ changes' = changes + 1
  /\ \/ \E i \in Interfaces \cup {None} : network' = [network EXCEPT !.interface = i]
     \/ \E i \in Interfaces, s \in Servers \cup {None} : network' = [network EXCEPT !.dns[i] = s]
     \/ \E s \in {"home", None} : network' = [network EXCEPT !.ssid = s]
  /\ network' # network
  /\ UNCHANGED <<os, queue, stage, probe, known, late>>

\* The call is queued for a worker.
Submit(c) ==
  /\ stage[c] = "idle"
  /\ queue' = Append(queue, c)
  /\ stage' = [stage EXCEPT ![c] = "queued"]
  /\ UNCHANGED <<os, network, changes, probe, known, late>>

\* Mutant: every wait has a thread of its own.
TakeAny ==
  /\ queue # <<>>
  /\ queue' = Tail(queue)
  /\ stage' = [stage EXCEPT ![Head(queue)] = "interface"]
  /\ UNCHANGED <<os, network, changes, probe, known, late>>

\* A worker takes the call that has waited longest.
Take ==
  /\ queue # <<>>
  /\ Cardinality({c \in Callers : stage[c] \notin {"idle", "queued"}}) < Workers
  /\ queue' = Tail(queue)
  /\ stage' = [stage EXCEPT ![Head(queue)] = "interface"]
  /\ UNCHANGED <<os, network, changes, probe, known, late>>

\* Windows reads the adapter and its servers in one call.
ReadInterface(c) ==
  /\ stage[c] = "interface"
  /\ probe' = [probe EXCEPT ![c] =
       [interface |-> network.interface, ssid |-> None,
        servers |-> IF os = "windows" THEN WindowsServers(network.interface) ELSE None]]
  /\ stage' = [stage EXCEPT ![c] = IF os = "windows" THEN "ssid" ELSE "servers"]
  /\ UNCHANGED <<os, network, changes, queue, known, late>>

ReadServers(c) ==
  /\ stage[c] = "servers"
  /\ probe' = [probe EXCEPT ![c].servers = ServersOf(probe[c].interface)]
  /\ stage' = [stage EXCEPT ![c] = "ssid"]
  /\ UNCHANGED <<os, network, changes, queue, known, late>>

ReadSsid(c) ==
  /\ stage[c] = "ssid"
  /\ probe' = [probe EXCEPT ![c].ssid = SsidOf(probe[c].interface)]
  /\ stage' = [stage EXCEPT ![c] = "compare"]
  /\ UNCHANGED <<os, network, changes, queue, known, late>>

\* Mutant: only the interface is compared.
CompareInterface(c) ==
  /\ stage[c] = "compare"
  /\ \/ /\ probe[c].interface # known[c].interface
        /\ known' = [known EXCEPT ![c] = probe[c]]
        /\ stage' = [stage EXCEPT ![c] = "idle"] /\ late' = late \ {c}
     \/ /\ probe[c].interface = known[c].interface /\ c \in late
        /\ stage' = [stage EXCEPT ![c] = "idle"] /\ late' = late \ {c}
        /\ UNCHANGED known
     \/ /\ probe[c].interface = known[c].interface /\ c \notin late
        /\ stage' = [stage EXCEPT ![c] = "sleep"]
        /\ UNCHANGED <<known, late>>
  /\ UNCHANGED <<os, network, changes, queue, probe>>

\* A difference is the answer; otherwise the timeout ends the wait with none.
Compare(c) ==
  /\ stage[c] = "compare"
  /\ \/ /\ probe[c] # known[c]
        /\ known' = [known EXCEPT ![c] = probe[c]]
        /\ stage' = [stage EXCEPT ![c] = "idle"] /\ late' = late \ {c}
     \/ /\ probe[c] = known[c] /\ c \in late
        /\ stage' = [stage EXCEPT ![c] = "idle"] /\ late' = late \ {c}
        /\ UNCHANGED known
     \/ /\ probe[c] = known[c] /\ c \notin late
        /\ stage' = [stage EXCEPT ![c] = "sleep"]
        /\ UNCHANGED <<known, late>>
  /\ UNCHANGED <<os, network, changes, queue, probe>>

\* Half a second, or what is left of the time.
Wake(c) ==
  /\ stage[c] = "sleep"
  /\ stage' = [stage EXCEPT ![c] = "interface"]
  /\ UNCHANGED <<os, network, changes, queue, probe, known, late>>

TimePasses(c) ==
  /\ stage[c] \notin {"idle", "queued"} /\ c \notin late
  /\ late' = late \cup {c}
  /\ UNCHANGED <<os, network, changes, queue, stage, probe, known>>

WaitSteps(c) ==
  ReadInterface(c) \/ ReadServers(c) \/ ReadSsid(c) \/ Compare(c) \/ Wake(c)

WaitNext ==
  \/ NetworkMoves \/ Take
  \/ \E c \in Callers : Submit(c) \/ WaitSteps(c) \/ TimePasses(c)

\* Desktop waits again after every answer; workers run and time passes.
WaitFairness ==
  /\ WF_waitVars(Take)
  /\ \A c \in Callers : WF_waitVars(Submit(c)) /\ WF_waitVars(WaitSteps(c)) /\ WF_waitVars(TimePasses(c))

WaitSpec == WaitInit /\ [][WaitNext]_waitVars /\ WaitFairness

------------------------------------------------------------------------------

\* More waits than workers lose none and serve none twice: the calls without a
\* worker are the queue's, each in it once, and so the head of the queue is
\* never a call that is at work (the tasks of napi/src/platform.rs 151-182).
QueuedOnce ==
  /\ \A c \in Callers : stage[c] = "queued" <=> \E i \in DOMAIN queue : queue[i] = c
  /\ \A i, j \in DOMAIN queue : queue[i] = queue[j] => i = j

\* Every caller knows the network, and what is being read of it is right so far.
AllKnow ==
  \A c \in Callers :
    /\ known[c] = Context
    /\ stage[c] = "servers" => probe[c].interface = network.interface
    /\ stage[c] = "ssid" => probe[c].interface = network.interface /\ probe[c].servers = Context.servers
    /\ stage[c] = "compare" => probe[c] = Context

\* What is known stays known: as long as the network holds still no probe, not
\* even one that began long before, takes anybody's knowledge away (111-123).
KnowledgeStays == [][AllKnow /\ network' = network => AllKnow']_waitVars

\* Once the network holds still, every caller comes to know it, though a
\* context may have been pieced together from two networks, changes between
\* two probes are never seen, and there are more waits than workers (105-123).
KnowledgeConverges == <>[](\A c \in Callers : known[c] = Context)

==============================================================================
