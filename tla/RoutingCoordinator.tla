-------------------------- MODULE RoutingCoordinator --------------------------
(***************************************************************************)
(* src/macos_app_routing.rs over the bridge: the process-wide coordinator  *)
(* that decides when the desired policy is applied again, and the commands *)
(* the desktop may have in flight on worker threads at the same time.      *)
(***************************************************************************)
EXTENDS RoutingBridge

VARIABLES
  lock,     \* holder of the ReconcileState mutex, or NoWorker
  active,   \* ReconcileState.active_policy (NoPolicy when empty)
  fresh,    \* last_health_check lies less than 15 seconds back
  dirty,    \* an apply failed since the policy was recorded (history)
  stopped   \* the last locked command was a successful stop (history)

CONSTANTS NoWorker

ASSUME CoordinatorAssumption == NoWorker \notin Workers

coordVars == <<lock, active, fresh, dirty, stopped>>
vars == <<sysVars, flagVars, paneVars, workVars, coordVars>>

\* The types of coordinator, bridge and platform: every worker is at a program
\* point of the code and every policy is one the desktop can submit.
TypeOK ==
  /\ BridgeTypeOK
  /\ lock \in Workers \cup {NoWorker}
  /\ active \in MaybePolicy
  /\ fresh \in BOOL /\ dirty \in BOOL /\ stopped \in BOOL

Init ==
  /\ BridgeInit
  /\ lock = NoWorker
  /\ active = NoPolicy /\ fresh = NO
  /\ dirty = NO /\ stopped = NO

------------------------------------------------------------------------------
(* Entering a command *)

Enter(w, command, policy, entry) ==
  /\ pc[w] = "idle"
  /\ op' = [op EXCEPT ![w] = command]
  /\ want' = [want EXCEPT ![w] = policy]
  /\ pc' = [pc EXCEPT ![w] = entry]
  /\ UNCHANGED <<sysVars, flagVars, paneVars, seen, call, result>>

Acquire(w) == lock = NoWorker /\ lock' = w

\* *state = ReconcileState::default()
ResetState == active' = NoPolicy /\ fresh' = NO /\ dirty' = NO

\* The SOCKS listener is probed under the lock, and only for PROXY rules.
Probe(config) ==
  IF config \in NeedsProxy THEN IF Fault THEN BOOL ELSE {YES} ELSE {NO}

Reconcile(w) ==
  /\ \E config \in Configs : \E available \in Probe(config) :
       Enter(w, "reconcile", [config |-> config, proxy |-> available], "status")
  /\ Acquire(w)
  /\ stopped' = NO
  /\ UNCHANGED <<active, fresh, dirty>>

Apply(w) ==
  /\ calm = NO
  /\ \E policy \in Policies : Enter(w, "apply", policy, "entry")
  /\ Acquire(w)
  /\ ResetState
  /\ stopped' = NO

\* Mutant: stop does not take the lock.
StopUnlocked(w) ==
  /\ calm = NO
  /\ Enter(w, "stop", NoPolicy, "stopLoad")
  /\ ResetState
  /\ UNCHANGED <<lock, stopped>>

Stop(w) ==
  /\ calm = NO
  /\ Enter(w, "stop", NoPolicy, "stopLoad")
  /\ Acquire(w)
  /\ ResetState
  /\ UNCHANGED stopped

\* open_macos_application_routing_settings: takes no lock.
Settings(w) ==
  /\ calm = NO
  /\ Enter(w, "settings", NoPolicy, "open")
  /\ UNCHANGED coordVars

------------------------------------------------------------------------------
(* Inside and leaving a command *)

\* ReconcileState::should_apply
ShouldApply(policy, state) ==
  \/ policy # active
  \/ state = "disabled"
  \/ state = "running" /\ fresh = NO

\* Mutant: the policy is recorded whatever the provider's state.
RecordAnyState(policy, state) ==
  active' = policy /\ fresh' = YES /\ dirty' = NO

\* ReconcileState::record
Record(policy, state) ==
  /\ active' = IF state = "running" THEN policy ELSE NoPolicy
  /\ fresh' = Bool(state = "running")
  /\ dirty' = NO

Leave(w) ==
  /\ pc' = [pc EXCEPT ![w] = "idle"]
  /\ op' = [op EXCEPT ![w] = "none"]
  /\ want' = [want EXCEPT ![w] = NoPolicy]
  /\ result' = [result EXCEPT ![w] = "none"]
  /\ lock' = IF lock = w THEN NoWorker ELSE lock

\* The Status command of a reconcile, and the decision it leads to.
ReconcileStatus(w) ==
  /\ pc[w] = "status"
  /\ \/ Fault /\ Leave(w) /\ UNCHANGED approvalPending
     \/ /\ approvalPending' = NoticeAfter(CurrentStatus)
        /\ IF ShouldApply(want[w], CurrentStatus)
           THEN GoTo(w, "entry") /\ UNCHANGED lock
           ELSE Leave(w)
  /\ UNCHANGED <<sysVars, replacementPending, confirmed, paneVars, seen, call,
                 active, fresh, dirty, stopped>>

\* The response reaches Rust: `?` on an error, record after an apply.
Return(w) ==
  /\ pc[w] = "returned"
  /\ IF op[w] = "reconcile"
     THEN IF result[w] = "error"
          THEN dirty' = Bool(active # NoPolicy) /\ UNCHANGED <<active, fresh>>
          ELSE Record(want[w], result[w])
     ELSE UNCHANGED <<active, fresh, dirty>>
  /\ stopped' = Bool(stopped = YES \/ (op[w] = "stop" /\ result[w] = "disabled"))
  /\ Leave(w)
  /\ UNCHANGED <<sysVars, flagVars, paneVars, seen, call>>

\* 15 seconds pass.
Tick ==
  /\ fresh = YES
  /\ fresh' = NO
  /\ UNCHANGED <<sysVars, flagVars, paneVars, workVars, lock, active, dirty, stopped>>

\* The app is killed and launched again, possibly updated in between.
Restart ==
  /\ Fault
  /\ \/ UNCHANGED <<current, accepted>>
     \/ current' = NO /\ accepted' = NO
  /\ mail' = NoPolicy
  /\ confirmed' = NO
  /\ opened' = NO /\ opening' = NO /\ panes' = 0
  /\ pc' = Everyone("idle") /\ op' = Everyone("none")
  /\ want' = Everyone(NoPolicy) /\ seen' = Everyone(NoPolicy)
  /\ call' = Everyone("none") /\ result' = Everyone("none")
  /\ lock' = NoWorker
  /\ ResetState
  /\ UNCHANGED <<ext, sessVars, prefVars, shared, calm,
                 approvalPending, replacementPending, stopped>>

\* A step below the Rust layer.
Alone(step) == step /\ UNCHANGED coordVars

WorkerStep(w) ==
  \/ Alone(CommandStep(w))
  \/ ReconcileStatus(w) \/ Return(w)

Next ==
  \/ \E w \in Workers : Reconcile(w) \/ Apply(w) \/ Stop(w) \/ Settings(w)
  \/ \E w \in Workers : WorkerStep(w)
  \/ \E w \in Workers : Alone(Callback(w))
  \/ Alone(PlatformStep)
  \/ Alone(GetStatus)
  \/ Tick \/ Restart

Spec == Init /\ [][Next]_vars

\* From some point on macOS and the core answer, the user consents, and the
\* desktop does nothing but poll.
Settle ==
  /\ calm = NO
  /\ calm' = YES
  /\ UNCHANGED <<extVars, sessVars, mail, prefVars, shared, flagVars, paneVars,
                 workVars, coordVars>>

\* Worker threads run, macOS delivers its callbacks and transitions, time
\* passes, and the desktop keeps polling.
Fairness ==
  /\ \A w \in Workers : WF_vars(WorkerStep(w))
  /\ \A w \in Workers : WF_vars(Alone(CbReplace(w) \/ CbFinish(w)))
  /\ WF_vars(\E w \in Workers : Reconcile(w))
  /\ WF_vars(Alone(UserApproves)) /\ WF_vars(Alone(TunnelDown))
  /\ WF_vars(Alone(Unseen(TunnelUp))) /\ WF_vars(Alone(Unseen(Reasserted)))
  /\ WF_vars(Alone(Unseen(MailArrives)))
  /\ WF_vars(Tick) /\ WF_vars(Settle)

LiveSpec == Init /\ [][Next \/ Settle]_vars /\ Fairness

------------------------------------------------------------------------------
(* Safety *)

\* The session of a replaced provider is never forgotten: as long as one may
\* still be reported as connected, the persistent flag that makes the next
\* command recycle it is set, across approvals, crashes, updates and a
\* concurrent open-settings (mm 141-144, 381-388).
StaleSessionFlagged == stale = YES => replacementPending = YES

\* No policy is recorded as active, and no command past the gate configures
\* anything, but in a session of the bundled provider: neither the word of a
\* replaced provider nor what other commands do meanwhile leads the coordinator
\* to rely on a replaced one (mm 676-680, 691-699).
ReliesOnCurrent ==
  (active # NoPolicy \/ \E w \in Workers : pc[w] \in Configuring)
    => current = YES /\ stale = NO

\* After a successful stop the manager stays disabled and no session comes
\* up until the desktop asks for one again: no earlier command that was still
\* in flight re-enables it (rs 330-336, mm 589-596).
StopHolds == stopped = YES => enabled = NO /\ conn \in {"disconnected", "disconnecting"}

\* No enabled manager is saved before the user has once approved the
\* extension (mm 697-699).
ApprovedBeforeEnabled == enabled = YES => ext \notin {"absent", "awaiting"}

\* System Settings is brought forward at most once per process on its own
\* account, although the delegate and the worker both ask for it (mm 124-127).
PaneOpensOnce == panes <= 1

\* Whoever may be answered from the cache is not told of a provider that is
\* still starting, and may yet come up with an old envelope; and if no apply has
\* failed since it was recorded, the active policy is the one saved in the
\* manager and the one a connected provider enforces (rs 242-255, mm 534-539).
ActivePolicyEnforced ==
  (active # NoPolicy /\ lock = NoWorker) =>
     /\ conn # "connecting"
     /\ dirty = NO => /\ stored = active
                      /\ conn = "connected" => loaded = active

\* A reconcile that is answered from the cache, without an apply, is answered
\* truthfully: the connected provider enforces the policy asked for.  The test
\* policy_requires_running_acknowledgement_and_bounded_health_refresh (rs 593)
\* names the rule; an apply that fails after the provider took the new policy
\* breaks it.
CachedAnswerTrue ==
  \A p \in Policies :
    (lock = NoWorker /\ CurrentStatus = "running" /\ ~ShouldApply(p, "running"))
      => loaded = p

\* Nothing is saved over what a starting provider reads: it comes up with the
\* configuration saved before it was started or, where the removal of an old
\* envelope was skipped or has failed, with that envelope (mm 510-532, 572-575).
StartUndisturbed ==
  [][conn = "connecting" =>
       /\ stored' = stored
       /\ conn' = "connected" => loaded' = IF shared = NoPolicy THEN stored ELSE shared]_vars

(* Liveness *)

\* Whatever went wrong before, a policy that keeps being desired is in the
\* end enforced by a connected provider and stays so: no approval notice, no
\* pending replacement, no stale cache entry and no half-done apply blocks the
\* coordinator for good (rs 226-241, mm 681-699).
DesiredPolicyEnforced ==
  \A p \in Policies :
    <>[](\A w \in Workers : want[w] \in {p, NoPolicy})
      => <>[](conn = "connected" /\ stale = NO /\ loaded = p /\ active = p)

==============================================================================
