---------------------------- MODULE MCUserSettings ----------------------------
(* The settings of the user's session for TLC.  Launch at login, the terminal *)
(* proxy and the waits for a network change share no state: each is run by    *)
(* itself, as the scene says, while the others rest in one of their states.   *)
EXTENDS LoginEntry, TerminalProxy, NetworkWait

VARIABLE scene

allVars == <<scene, loginVars, terminalVars, waitVars>>

LoginRests ==
  system = (CHOOSE s \in Systems : TRUE) /\ entry = "absent" /\ task = "none" /\ LoginInit
TerminalRests == file = None /\ manager = "up" /\ TerminalInit
WaitRests ==
  /\ os = CHOOSE s \in Systems : TRUE
  /\ network = LET s == CHOOSE s \in Servers : TRUE IN
       [interface |-> None, dns |-> [j \in Interfaces |-> s], global |-> s, ssid |-> None]
  /\ changes = 0 /\ queue = <<>> /\ late = {}
  /\ stage = [c \in Callers |-> "idle"]
  /\ known = [c \in Callers |-> Context] /\ probe = known

Init ==
  \/ scene = "login" /\ LoginInit /\ TerminalRests /\ WaitRests
  \/ scene = "terminal" /\ TerminalInit /\ LoginRests /\ WaitRests
  \/ scene = "network" /\ WaitInit /\ LoginRests /\ TerminalRests

Next ==
  \/ scene = "login" /\ LoginNext /\ UNCHANGED <<scene, terminalVars, waitVars>>
  \/ scene = "terminal" /\ TerminalNext /\ UNCHANGED <<scene, loginVars, waitVars>>
  \/ scene = "network" /\ WaitNext /\ UNCHANGED <<scene, loginVars, terminalVars>>

Spec == Init /\ [][Next]_allVars /\ (scene = "network" => WaitFairness)

\* The types of the three components.
UserTypesOK == LoginTypeOK /\ TerminalTypeOK /\ WaitTypeOK

==============================================================================
