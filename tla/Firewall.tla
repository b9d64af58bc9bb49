------------------------------- MODULE Firewall -------------------------------
(***************************************************************************)
(* The rules KokoroBox needs in the firewall of Windows                    *)
(* (src/windows/firewall.rs): all are removed by name and added again one  *)
(* by one, without a transaction.  A process makes one such call at a      *)
(* time; another instance of KokoroBox may be at it too.                   *)
(***************************************************************************)
EXTENDS Desktop, Naturals, Sequences

VARIABLES
  rules,      \* paths the rules of each name allow
  ruleAt,     \* each process: idle, or removing or adding a rule
  position,   \* the rule it is at
  whole,      \* no call has failed since one began when none was under way (history)
  ensured     \* calls have ended well, none of them failed, and none came since (history)

ruleVars == <<rules, ruleAt, position, whole, ensured>>

Names == <<"mihomo", "mihomo-alpha", "KokoroBox">>

\* The types of the rules and of the calls.
RuleTypeOK ==
  /\ rules \in [1..Len(Names) -> SUBSET {"current", "stale"}]
  /\ ruleAt \in [Callers -> {"idle", "remove", "add"}]
  /\ position \in [Callers -> 1..Len(Names)]
  /\ whole \in {"YES", "NO"} /\ ensured \in {"YES", "NO"}

RuleInit ==
  /\ rules \in {[n \in 1..Len(Names) |-> r] : r \in {{}, {"stale"}}}
  /\ ruleAt = [c \in Callers |-> "idle"] /\ position = [c \in Callers |-> 1]
  /\ whole = "YES" /\ ensured = "NO"

------------------------------------------------------------------------------

\* Paths that are not absolute or have another name are refused before.
EnsureRules(c) ==
  /\ ruleAt[c] = "idle"
  /\ ruleAt' = [ruleAt EXCEPT ![c] = "remove"]
  /\ position' = [position EXCEPT ![c] = 1]
  /\ whole' = IF \A d \in Callers : ruleAt[d] = "idle" THEN "YES" ELSE whole
  /\ UNCHANGED <<rules, ensured>>

\* That a rule could not be removed, or not all of the name, is not looked at.
RemoveRule(c) ==
  /\ ruleAt[c] = "remove"
  /\ \E kept \in SUBSET rules[position[c]] : rules' = [rules EXCEPT ![position[c]] = kept]
  /\ IF position[c] < Len(Names)
     THEN position' = [position EXCEPT ![c] = @ + 1] /\ UNCHANGED ruleAt
     ELSE position' = [position EXCEPT ![c] = 1] /\ ruleAt' = [ruleAt EXCEPT ![c] = "add"]
  /\ ensured' = "NO"
  /\ UNCHANGED whole

AddRule(c) ==
  /\ ruleAt[c] = "add"
  /\ rules' = [rules EXCEPT ![position[c]] = @ \cup {"current"}]
  /\ IF position[c] < Len(Names)
     THEN position' = [position EXCEPT ![c] = @ + 1] /\ UNCHANGED <<ruleAt, ensured>>
     ELSE /\ ruleAt' = [ruleAt EXCEPT ![c] = "idle"] /\ UNCHANGED position
          /\ ensured' = IF whole = "YES" /\ \A d \in Callers \ {c} : ruleAt[d] = "idle"
                        THEN "YES" ELSE "NO"
  /\ UNCHANGED whole

\* A rule cannot be made, or the process is killed: the rest stays removed.
RulesFail(c) ==
  /\ ruleAt[c] # "idle"
  /\ ruleAt' = [ruleAt EXCEPT ![c] = "idle"]
  /\ whole' = "NO"
  /\ UNCHANGED <<rules, position, ensured>>

------------------------------------------------------------------------------

RuleNext ==
  \E c \in Callers : EnsureRules(c) \/ RemoveRule(c) \/ AddRule(c) \/ RulesFail(c)

RuleSpec == RuleInit /\ [][RuleNext]_ruleVars

------------------------------------------------------------------------------

\* However the removals and additions of several calls mix, once all of them have
\* ended well every rule is there for the present path (100-126).
RulesAsAnswered ==
  ensured = "YES" => \A n \in 1..Len(Names) : "current" \in rules[n]

==============================================================================
