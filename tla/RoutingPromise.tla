---------------------------- MODULE RoutingPromise ----------------------------
(***************************************************************************)
(* What Desktop may rely on when it routes applications: one command at a  *)
(* time, a session of macOS that ends when it likes, and a policy that is  *)
(* promised only while it is in force.  No worker, callback, approval,     *)
(* cache or preference file is left.  RoutingCoordinator is shown to       *)
(* implement it.                                                           *)
(***************************************************************************)
CONSTANTS Policies, NoPolicy

VARIABLES
  command,   \* what is being done: nothing, "route" or "stop"
  asked,     \* the policy to be routed (NoPolicy when there is none)
  routed,    \* the policy Desktop has been promised
  off,       \* Desktop has been told that routing is off
  saved,     \* the policy a new session will start with
  allowed,   \* a session may be started at all
  session,   \* down, starting, up or ending
  enforced,  \* the policy in force (NoPolicy while the session is not up)
  late,      \* a policy sent without an answer, which may still arrive
  left       \* a policy of an earlier session that a new one may start with

commandVars == <<command, asked>>
wordVars    == <<routed, off>>
savedVars   == <<saved, allowed>>
sessionVars == <<session, enforced>>
mailVars    == <<late, left>>
vars == <<commandVars, wordVars, savedVars, sessionVars, mailVars>>

Init ==
  /\ command = "none" /\ asked = NoPolicy
  /\ routed = NoPolicy /\ off = "NO"
  /\ saved = NoPolicy /\ allowed = "NO"
  /\ session = "down" /\ enforced = NoPolicy
  /\ late = NoPolicy
  /\ left \in Policies \cup {NoPolicy}

------------------------------------------------------------------------------
(* Desktop *)

\* A policy is asked for; an earlier promise may hold on until it is touched.
AskRoute ==
  /\ command = "none" /\ command' = "route"
  /\ asked' \in Policies
  /\ routed' \in {routed, NoPolicy}
  /\ off' = "NO"
  /\ UNCHANGED <<savedVars, sessionVars, mailVars>>

AskStop ==
  /\ command = "none" /\ command' = "stop"
  /\ routed' = NoPolicy
  /\ UNCHANGED <<asked, off, savedVars, sessionVars, mailVars>>

\* A policy may be promised that is saved and, in a session that is up, in
\* force, with nothing on its way that could replace it: neither a message nor
\* a provider that is starting and may come up with another.
Established ==
  /\ saved = asked
  /\ session # "starting"
  /\ session = "up" => enforced = asked
  /\ late = NoPolicy

Answer ==
  /\ command # "none" /\ command' = "none" /\ asked' = NoPolicy
  /\ \/ routed' \in {routed, NoPolicy}
     \/ command = "route" /\ Established /\ routed' = asked
  /\ \/ UNCHANGED off
     \/ command = "stop" /\ allowed = "NO" /\ off' = "YES"
  /\ UNCHANGED <<savedVars, sessionVars, mailVars>>

\* The program dies with its promises; session and manager outlive it.
Crash ==
  /\ command' = "none" /\ asked' = NoPolicy
  /\ routed' = NoPolicy /\ late' = NoPolicy
  /\ UNCHANGED <<off, savedVars, sessionVars, left>>

------------------------------------------------------------------------------
(* The work on a policy *)

Withdraw ==
  /\ command = "route"
  /\ routed' = NoPolicy
  /\ UNCHANGED <<commandVars, off, savedVars, sessionVars, mailVars>>

\* A running provider is told the policy; without an answer the message may
\* have been heard, be lost, or come late.
Tell ==
  /\ command = "route"
  /\ routed' = NoPolicy
  /\ enforced' \in {enforced} \cup IF session = "up" THEN {asked} ELSE {}
  /\ late' \in {late} \cup IF late = NoPolicy THEN {asked} ELSE {}
  /\ UNCHANGED <<commandVars, off, savedVars, session>>

\* Never while a provider is starting, which reads what is saved, and in a
\* running session only what is in force already.
Save ==
  /\ command = "route" /\ routed = NoPolicy
  /\ session # "starting"
  /\ session = "up" => enforced = asked /\ late = NoPolicy
  /\ saved' = asked /\ allowed' = "YES"
  /\ UNCHANGED <<commandVars, wordVars, sessionVars, mailVars>>

\* What an earlier session has left is cleared away, unless that fails; what
\* was cleared for a start that is then refused is gone, too.
Start ==
  /\ command = "route" /\ routed = NoPolicy
  /\ session = "down" /\ session' \in {"down", "starting"}
  /\ allowed = "YES" /\ saved = asked
  /\ left' \in {left, NoPolicy}
  /\ UNCHANGED <<commandVars, wordVars, savedVars, enforced, late>>

Disable ==
  /\ command = "stop"
  /\ session \in {"down", "ending"}
  /\ allowed' = "NO"
  /\ UNCHANGED <<commandVars, wordVars, saved, sessionVars, mailVars>>

------------------------------------------------------------------------------
(* The session *)

\* What an earlier session has left goes before what is saved.
Up ==
  /\ session = "starting" /\ session' = "up"
  /\ enforced' = IF left = NoPolicy THEN saved ELSE left
  /\ UNCHANGED <<commandVars, wordVars, savedVars, mailVars>>

End ==
  /\ session # "down" /\ session' \in {"ending", "down"}
  /\ enforced' = NoPolicy
  /\ UNCHANGED <<commandVars, wordVars, savedVars, mailVars>>

\* A message comes late and is heard, or there is nobody to hear it.
Arrive ==
  /\ late # NoPolicy /\ late' = NoPolicy
  /\ \/ session = "up" /\ enforced' = late
     \/ UNCHANGED enforced
  /\ UNCHANGED <<commandVars, wordVars, savedVars, session>>

\* The provider is replaced by another build under a session that stays up.
Replace ==
  /\ routed = NoPolicy
  /\ enforced' = NoPolicy
  /\ UNCHANGED <<commandVars, wordVars, savedVars, session, mailVars>>

Next ==
  \/ AskRoute \/ AskStop \/ Answer \/ Crash
  \/ Withdraw \/ Tell \/ Save \/ Start \/ Disable
  \/ Up \/ End \/ Arrive \/ Replace

Spec == Init /\ [][Next]_vars

------------------------------------------------------------------------------
\* What the promises are worth: a promised policy is saved, is in force
\* whenever a session is up, and nothing on its way can displace it, neither a
\* late message nor a provider that starts with what was left over; a session
\* that starts or runs was allowed to; and routing that is off has no session
\* and gets none.
Kept ==
  /\ routed # NoPolicy =>
       /\ saved = routed
       /\ session # "starting"
       /\ session = "up" => enforced = routed
       /\ late = NoPolicy
  /\ session \in {"starting", "up"} => allowed = "YES"
  /\ off = "YES" => allowed = "NO" /\ command # "route"

==============================================================================
