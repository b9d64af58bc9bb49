---------------------------- MODULE MCSystemChanges ----------------------------
(* The changes of the whole system for TLC.  The components share no state:   *)
(* each is run by itself, as the scene says, while the others rest in one of  *)
(* their initial states.  Jobs on the cores and the other jobs of the         *)
(* administrator touch different files, and are scenes of their own.          *)
EXTENDS Administrator, ManagedService, Firewall, Loopback, WindowsProxy, PortableUpdater, TLC

VARIABLE scene

allVars ==
  <<scene, adminVars, serviceVars, ruleVars, listVars, proxyVars, updateVars>>

CallerSymmetry == Permutations(Callers)

AdminRests ==
  /\ adminOS = "linux" /\ AdminInit
  /\ files[Folder] = Fresh /\ files[Managed] = Fresh
ServiceRests == daemon = "enabled" /\ ServiceInit
RuleRests == rules = [n \in 1..Len(Names) |-> {}] /\ RuleInit
ProxyRests == registry = Unread /\ ProxyInit

Init ==
  \/ /\ scene = "cores" /\ adminOS \in {"linux", "macos"} /\ AdminInit
     /\ files[Folder] = Fresh /\ files[Managed] = Fresh
     /\ ServiceRests /\ RuleRests /\ ListInit /\ ProxyRests /\ UpdateInit
  \/ /\ scene = "upkeep" /\ AdminInit
     /\ ServiceRests /\ RuleRests /\ ListInit /\ ProxyRests /\ UpdateInit
  \/ /\ scene = "daemon" /\ ServiceInit
     /\ AdminRests /\ RuleRests /\ ListInit /\ ProxyRests /\ UpdateInit
  \/ /\ scene = "firewall" /\ RuleInit
     /\ AdminRests /\ ServiceRests /\ ListInit /\ ProxyRests /\ UpdateInit
  \/ /\ scene = "proxy" /\ ProxyInit
     /\ AdminRests /\ ServiceRests /\ RuleRests /\ ListInit /\ UpdateInit
  \/ /\ scene \in {"loopback", "update"} /\ ListInit /\ UpdateInit
     /\ AdminRests /\ ServiceRests /\ RuleRests /\ ProxyRests

Next ==
  \/ /\ scene = "cores" /\ AdminDoes({"grant", "revoke"})
     /\ UNCHANGED <<scene, serviceVars, ruleVars, listVars, proxyVars, updateVars>>
  \/ /\ scene = "upkeep" /\ AdminDoes({"repair", "cleanup", "service"})
     /\ UNCHANGED <<scene, serviceVars, ruleVars, listVars, proxyVars, updateVars>>
  \/ /\ scene = "daemon" /\ ServiceNext
     /\ UNCHANGED <<scene, adminVars, ruleVars, listVars, proxyVars, updateVars>>
  \/ /\ scene = "firewall" /\ RuleNext
     /\ UNCHANGED <<scene, adminVars, serviceVars, listVars, proxyVars, updateVars>>
  \/ /\ scene = "loopback" /\ ListNext
     /\ UNCHANGED <<scene, adminVars, serviceVars, ruleVars, proxyVars, updateVars>>
  \/ /\ scene = "proxy" /\ ProxyNext
     /\ UNCHANGED <<scene, adminVars, serviceVars, ruleVars, listVars, updateVars>>
  \/ /\ scene = "update" /\ UpdateNext
     /\ UNCHANGED <<scene, adminVars, serviceVars, ruleVars, listVars, proxyVars>>

Spec == Init /\ [][Next]_allVars

\* The types of the six components.
ChangesTypesOK ==
  /\ AdminTypeOK /\ ServiceTypeOK /\ RuleTypeOK /\ ListTypeOK /\ ProxyTypeOK /\ UpdateTypeOK

\* Every change that was answered as made, and that nobody disturbed, is so.
ChangesAsAnswered ==
  /\ AdminAsAnswered /\ ServiceAsAnswered
  /\ RulesAsAnswered /\ ListAsAnswered /\ ProxyAsAnswered

==============================================================================
