----------------------------- MODULE WindowsProxy -----------------------------
(***************************************************************************)
(* The system proxy of Windows (src/windows/system_proxy.rs): a call has   *)
(* WinINet write the user's settings and then tells running programs, in   *)
(* two more calls; a diagnosis reads the values one by one.  WinINet       *)
(* writes them one by one too.  Calls run on several workers without a     *)
(* lock, and other programs change the same values.  The bypass list is    *)
(* written and read like the server, and left out.                         *)
(***************************************************************************)
EXTENDS Desktop

VARIABLES
  registry,  \* the values of Internet Settings
  used,      \* those running programs use
  where,     \* where each call is
  mode,      \* the mode it is to set, or None for a diagnosis
  unwritten, \* values it has still to write
  values,    \* values a diagnosis has read
  steady,    \* calls during which nobody else wrote (history)
  lastMode,  \* the mode of the last call that ended well and nobody changed since (history)
  report     \* the last diagnosis of a steady call that nobody wrote since (history)

proxyVars == <<registry, used, where, mode, unwritten, values, steady, lastMode, report>>

Keys == {"enable", "server", "pac"}
Values == [enable : {"YES", "NO"}, server : {"", "local", "listed"}, pac : {"", "local", "foreign"}]
Modes == {"manual", "auto", "disabled"}
Unread == [enable |-> "NO", server |-> "", pac |-> ""]

NoReport == [status |-> "none", enabled |-> "NO", web |-> "", socks |-> "", pac |-> "NO"]
Reports ==
  [status : {"none", "available", "unavailable"}, enabled : {"YES", "NO"},
   web : {"", "local", "other"}, socks : {"", "other"}, pac : {"YES", "NO"}]

\* The types of the settings and of the calls.
ProxyTypeOK ==
  /\ registry \in Values /\ used \in Values
  /\ where \in [Callers -> {"idle", "write", "changed", "refresh",
                            "enable", "server", "pac", "report"}]
  /\ mode \in [Callers -> Modes \cup {None}]
  /\ unwritten \in [Callers -> SUBSET Keys]
  /\ values \in [Callers -> Values]
  /\ steady \subseteq Callers
  /\ lastMode \in Modes \cup {None} /\ report \in Reports

ProxyInit ==
  /\ registry \in {Unread, [enable |-> "YES", server |-> "listed", pac |-> "foreign"]}
  /\ used = registry
  /\ where = [c \in Callers |-> "idle"] /\ mode = [c \in Callers |-> None]
  /\ unwritten = [c \in Callers |-> {}] /\ values = [c \in Callers |-> Unread]
  /\ steady = {} /\ lastMode = None /\ report = NoReport

------------------------------------------------------------------------------

\* Every option is given for every mode, those it does not need as empty.
Meant(m) ==
  [enable |-> IF m = "manual" THEN "YES" ELSE "NO",
   server |-> IF m = "manual" THEN "local" ELSE "",
   pac    |-> IF m = "auto" THEN "local" ELSE ""]

\* An address without a protocol is that of HTTP and HTTPS; a list names one for
\* each, SOCKS too.
Diagnosis(v) ==
  [status |-> "available", enabled |-> v.enable,
   web |-> CASE v.server = "local" -> "local" [] v.server = "listed" -> "other" [] OTHER -> "",
   socks |-> IF v.server = "listed" THEN "other" ELSE "",
   pac |-> IF v.pac = "" THEN "NO" ELSE "YES"]

------------------------------------------------------------------------------

Moves(c, from, to) == where[c] = from /\ where' = [where EXCEPT ![c] = to]

Over(c) ==
  /\ where' = [where EXCEPT ![c] = "idle"]
  /\ mode' = [mode EXCEPT ![c] = None]
  /\ unwritten' = [unwritten EXCEPT ![c] = {}]
  /\ values' = [values EXCEPT ![c] = Unread]

\* A value is written, or found to be so already.
Puts(c, key, value) ==
  /\ registry' = [registry EXCEPT ![key] = value]
  /\ steady' = steady \cap {c}
  /\ lastMode' = None /\ report' = NoReport

\* Settings that are not valid are refused before.
SetMode(c, m) ==
  /\ Moves(c, "idle", "write")
  /\ mode' = [mode EXCEPT ![c] = m]
  /\ unwritten' = [unwritten EXCEPT ![c] = Keys]
  /\ steady' = steady \cup {c}
  /\ UNCHANGED <<registry, used, values, lastMode, report>>

\* InternetSetOption with all options, in an order of its own.
WriteValue(c, key) ==
  /\ where[c] = "write" /\ key \in unwritten[c]
  /\ Puts(c, key, Meant(mode[c])[key])
  /\ unwritten' = [unwritten EXCEPT ![c] = @ \ {key}]
  /\ where' = [where EXCEPT ![c] = IF unwritten[c] = {key} THEN "changed" ELSE "write"]
  /\ UNCHANGED <<used, mode, values>>

SettingsChanged(c) ==
  /\ Moves(c, "changed", "refresh")
  /\ UNCHANGED <<registry, used, mode, unwritten, values, steady, lastMode, report>>

\* Running programs read the settings again.
Refresh(c) ==
  /\ where[c] = "refresh"
  /\ used' = registry
  /\ lastMode' = IF c \in steady THEN mode[c] ELSE lastMode
  /\ Over(c)
  /\ UNCHANGED <<registry, steady, report>>

\* The settings cannot be written, or nobody told: what is written stays.
SetFails(c) ==
  /\ where[c] \in {"write", "changed", "refresh"}
  /\ Over(c)
  /\ UNCHANGED <<registry, used, steady, lastMode, report>>

------------------------------------------------------------------------------

Diagnose(c) ==
  /\ Moves(c, "idle", "enable")
  /\ steady' = steady \cup {c}
  /\ UNCHANGED <<registry, used, mode, unwritten, values, lastMode, report>>

\* A value that is missing is read as off or empty.
ReadValue(c, key) ==
  /\ Moves(c, key, CASE key = "enable" -> "server" [] key = "server" -> "pac" [] OTHER -> "report")
  /\ values' = [values EXCEPT ![c][key] = registry[key]]
  /\ UNCHANGED <<registry, used, mode, unwritten, steady, lastMode, report>>

\* One value that cannot be read makes the whole diagnosis unavailable.
ReadFails(c) ==
  /\ where[c] \in Keys
  /\ Over(c)
  /\ report' = [NoReport EXCEPT !.status = "unavailable"]
  /\ UNCHANGED <<registry, used, steady, lastMode>>

Report(c) ==
  /\ where[c] = "report"
  /\ report' = IF c \in steady THEN Diagnosis(values[c]) ELSE NoReport
  /\ Over(c)
  /\ UNCHANGED <<registry, used, steady, lastMode>>

\* Another program sets a proxy for each protocol, a PAC, or nothing.
ProgramWrites ==
  /\ \E v \in {Unread, [enable |-> "YES", server |-> "listed", pac |-> ""],
               [enable |-> "NO", server |-> "", pac |-> "foreign"]} :
       registry' = v /\ used' = v
  /\ steady' = {} /\ lastMode' = None /\ report' = NoReport
  /\ UNCHANGED <<where, mode, unwritten, values>>

ProxyNext ==
  \/ \E c \in Callers :
       \/ \E m \in Modes : SetMode(c, m)
       \/ \E key \in Keys : WriteValue(c, key) \/ ReadValue(c, key)
       \/ SettingsChanged(c) \/ Refresh(c) \/ SetFails(c)
       \/ Diagnose(c) \/ ReadFails(c) \/ Report(c)
  \/ ProgramWrites

ProxySpec == ProxyInit /\ [][ProxyNext]_proxyVars

------------------------------------------------------------------------------

\* The mode of a call nobody wrote during is the one in the registry and the one
\* running programs use (189-257), and a diagnosis nobody wrote during is not
\* pieced together from two settings (114-187).
ProxyAsAnswered ==
  /\ lastMode # None => registry = Meant(lastMode) /\ used = registry
  /\ report.status = "available" => report = Diagnosis(registry)
  /\ report.status = "available" /\ lastMode = "manual" =>
       report.enabled = "YES" /\ report.web = "local" /\ report.pac = "NO"

==============================================================================
