-------------------------- MODULE RoutingInvariants --------------------------
(***************************************************************************)
(* The inductive invariants behind the theorems on RoutingCoordinator: what *)
(* TLC needs no help to see on a small instance, and a proof has to say.   *)
(* And what RoutingPromise, the promise to Desktop, means in its terms.    *)
(***************************************************************************)
EXTENDS RoutingCoordinator

\* The pane counter mirrors the atomic flag the exchange works on, and only
\* the caller that set it waits for an answer.
PaneInv ==
  /\ panes = IF opened = YES THEN 1 ELSE 0
  /\ opening = YES => opened = YES

\* Which command a worker at a program point executes.
CommandInv ==
  \A w \in Workers :
    /\ op[w] \in {"reconcile", "apply"} => want[w] \in Policies
    /\ pc[w] = "idle" <=> op[w] = "none"
    /\ pc[w] = "status" => op[w] = "reconcile"
    /\ pc[w] \in {"open", "after"} => op[w] = "settings"
    /\ pc[w] \in {"stopLoad", "stopSave"} => op[w] = "stop"
    /\ pc[w] \in Configuring \cup {"entry"} => op[w] \in {"reconcile", "apply"}
    /\ pc[w] \in {"activating"} \cup Activated => op[w] # "stop"

TypeInv == TypeOK /\ PaneInv /\ CommandInv

\* There is a session only for a saved manager, and a worker about to start
\* one has saved it.
SessionInv ==
  /\ stored = NoPolicy => conn = "disconnected" /\ enabled = NO
  /\ conn = "disconnected" => stale = NO
  /\ \A w \in Workers : pc[w] = "start" => stored # NoPolicy

\* A delegate that agreed to a replacement said so in the defaults, and the
\* bundled build is not yet the registered one.
AcceptedInv ==
  accepted = YES => replacementPending = YES /\ current = NO /\ ext # "absent"

\* Whoever has been told that an activation is complete may rely on it: the
\* bundled extension is registered and has been approved.
Settled == current = YES /\ ext \notin {"absent", "awaiting"}

ActivatedInv ==
  /\ confirmed = YES => Settled
  /\ \A w \in Workers : (call[w] = "finished" \/ pc[w] \in Activated) => Settled

\* Past the recycling point no replaced session is left.
RecycledInv ==
  \A w \in Workers : pc[w] \in {"recycled"} \cup Configuring => stale = NO

\* So a reconcile reports "running" of a session of the bundled provider only.
ReportInv ==
  \A w \in Workers :
    (pc[w] = "returned" /\ op[w] = "reconcile" /\ result[w] = "running")
      => current = YES /\ stale = NO

\* What is recorded was said by the bundled provider, and no other has come.
RecordedInv == active # NoPolicy => current = YES /\ stale = NO

ReplacementInv ==
  /\ SessionInv /\ AcceptedInv /\ ActivatedInv /\ RecycledInv /\ ReportInv
  /\ StaleSessionFlagged /\ RecordedInv /\ ApprovedBeforeEnabled

\* The mutex: whoever executes a locked command holds it, and has forgotten the
\* recorded policy unless the command is a reconcile.
LockInv ==
  \A w \in Workers :
    /\ op[w] \in {"reconcile", "apply", "stop"} <=> lock = w
    /\ op[w] \in {"apply", "stop"} => active = NoPolicy

\* What a stop has achieved lasts until a later command asks for a session.
Down == conn \in {"disconnected", "disconnecting"}

StopInv ==
  /\ \A w \in Workers :
       /\ pc[w] = "stopSave" => Down
       /\ (pc[w] = "returned" /\ op[w] = "stop" /\ result[w] = "disabled")
            => enabled = NO /\ Down
       /\ stopped = YES => op[w] \notin {"reconcile", "apply"}
       /\ pc[w] = "start" => enabled = YES
  /\ ~Down => enabled = YES
  /\ StopHolds

\* While a tunnel starts no worker is about to save something else, and none
\* is about to record a policy: whoever started it answers "starting".
StartInv ==
  /\ \A w \in Workers :
       /\ pc[w] \in Configuring \ {"configure"} => conn # "connecting"
       /\ pc[w] = "reload" => conn = "disconnected"
       /\ (conn = "connecting" /\ pc[w] = "returned" /\ op[w] = "reconcile")
            => result[w] # "running"
  /\ conn = "connecting" =>
       \/ active = NoPolicy
       \/ \E w \in Workers :
            pc[w] = "returned" /\ op[w] = "reconcile" /\ result[w] = "starting"

LockedInv == LockInv /\ StopInv /\ StartInv

\* A provider that has a session enforces policy p, and no message of an
\* attempt given up is on its way to it.
Live == conn \in {"connected", "reasserting"}

Carries(p) == Live => loaded = p /\ mail = NoPolicy

Enforced(p) == stored = p /\ mail = NoPolicy /\ (Live => loaded = p)

\* A reconcile that may have left the policy half applied.
Touching(w) ==
  /\ op[w] = "reconcile"
  /\ pc[w] \in {"halt", "haltWait", "reload", "save", "start", "returned"}

EnforcementInv ==
  /\ \A w \in Workers :
       /\ pc[w] = "send" => seen[w] = stored
       /\ pc[w] \in {"save", "start"} => Carries(want[w])
       /\ pc[w] = "start" => stored = want[w]
       /\ (pc[w] = "returned" /\ op[w] = "reconcile" /\ result[w] = "running")
            => Enforced(want[w])
  /\ (active # NoPolicy /\ dirty = NO /\ \A w \in Workers : ~Touching(w))
       => Enforced(active)

RoutingInv == TypeInv /\ ReplacementInv /\ LockedInv /\ EnforcementInv

------------------------------------------------------------------------------
(* The promise *)

CommandNow ==
  IF lock = NoWorker THEN "none" ELSE IF op[lock] = "stop" THEN "stop" ELSE "route"

AskedNow == IF lock = NoWorker THEN NoPolicy ELSE want[lock]

\* The recorded policy counts until an apply touches it or one has failed.
RoutedNow ==
  IF dirty = NO /\ (\A w \in Workers : ~Touching(w)) THEN active ELSE NoPolicy

SessionNow ==
  IF Live THEN "up"
  ELSE IF conn = "connecting" THEN "starting"
  ELSE IF conn = "disconnected" THEN "down" ELSE "ending"

EnforcedNow == IF Live THEN loaded ELSE NoPolicy

Promise == INSTANCE RoutingPromise WITH
  command <- CommandNow, asked <- AskedNow, routed <- RoutedNow, off <- stopped,
  saved <- stored, allowed <- enabled, session <- SessionNow,
  enforced <- EnforcedNow, late <- mail, left <- shared

\* Workers, callbacks, approvals, cache and preferences together do only what
\* the promise allows: a policy is promised only once it is saved and in
\* force, nothing displaces it while it is promised, and a stop is final
\* (rs 287-336, mm 526-596).
ImplementsPromise == Promise!Spec

==============================================================================
