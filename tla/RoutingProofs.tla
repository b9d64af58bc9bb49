---------------------------- MODULE RoutingProofs ----------------------------
(***************************************************************************)
(* Theorems on RoutingCoordinator, for every set of workers and rules: the *)
(* types, the approval pane, what the bridge guarantees of a session whose *)
(* provider was replaced, and the mutex: a stop that succeeded holds, a    *)
(* provider starts with what was saved, and the recorded policy is the one *)
(* enforced.                                                               *)
(***************************************************************************)
EXTENDS RoutingInvariants, TLAPS

\* The state tuples and the sets the type invariant is built from are needed
\* in every leaf.
USE DEF vars, sysVars, extVars, sessVars, prefVars, flagVars, paneVars,
        workVars, argVars, coordVars, YES, NO, BOOL, Bool, Policies,
        MaybePolicy, PCs, Activated, Configuring, Waiting, Ops, TypeInv,
        TypeOK, BridgeTypeOK, PlatformTypeOK, CommandInv, PaneInv

------------------------------------------------------------------------------
\* The steps of a command that is executing preserve the type invariant.
LEMMA TypeCommand ==
  ASSUME CoordinatorAssumption, TypeInv, NEW w \in Workers, CommandStep(w),
         UNCHANGED coordVars
  PROVE  TypeInv'
<1> USE DEF GoTo, Asked, Answer, Respond, FailWith, Fails, NoticeAfter, StopTunnel,
            CoordinatorAssumption
<1>1. CASE ActivationAnswer(w)
  BY <1>1, SMTT(60) DEF ActivationAnswer
<1>2. CASE CheckExtensionEnabled(w)
  BY <1>2, SMTT(60) DEF CheckExtensionEnabled, OpenPaneOnce
<1>3. CASE ApplyEntry(w)
  BY <1>3, SMT DEF ApplyEntry, SubmitActivation, CurrentStatus, StatusName
<1>4. CASE OpenSettings(w)
  BY <1>4, SMT DEF OpenSettings, SubmitActivation
<1>5. CASE Gate(w)
  BY <1>5, SMTT(60) DEF Gate, NextStage
<1>6. CASE Recycle(w)
  BY <1>6, SMTT(60) DEF Recycle, NextStage
<1>7. CASE Recycled(w)
  BY <1>7, SMTT(60) DEF Recycled, NextStage
<1>8. CASE StopTimesOut(w)
  BY <1>8, SMT DEF StopTimesOut
<1>9. CASE SettingsStatus(w)
  BY <1>9, SMT DEF SettingsStatus, CurrentStatus, StatusName
<1>10. CASE LoadManager(w)
  BY <1>10, SMTT(60) DEF LoadManager, StatusName
<1>11. CASE SendConfiguration(w)
  BY <1>11, SMTT(60) DEF SendConfiguration
<1>12. CASE Halt(w)
  BY <1>12, SMTT(60) DEF Halt
<1>13. CASE ReloadManager(w)
  BY <1>13, SMTT(60) DEF ReloadManager
<1>14. CASE SaveManager(w)
  BY <1>14, SMTT(60) DEF SaveManager
<1>15. CASE StartTunnel(w)
  BY <1>15, SMTT(60) DEF StartTunnel, StatusName, ClearSharedPolicy
<1>16. CASE StopLoad(w)
  BY <1>16, SMTT(60) DEF StopLoad
<1>17. CASE StopSave(w)
  BY <1>17, SMTT(60) DEF StopSave
<1>18. QED
  BY <1>1, <1>2, <1>3, <1>4, <1>5, <1>6, <1>7, <1>8, <1>9, <1>10, <1>11,
     <1>12, <1>13, <1>14, <1>15, <1>16, <1>17 DEF CommandStep

\* The callbacks of the activation delegate preserve the type invariant.
LEMMA TypeCallback ==
  ASSUME CoordinatorAssumption, TypeInv, NEW w \in Workers, Callback(w),
         UNCHANGED coordVars
  PROVE  TypeInv'
<1> USE DEF AwaitingReply, CoordinatorAssumption
<1>1. CASE CbReplace(w)
  BY <1>1, SMT DEF CbReplace
<1>2. CASE CbNeedsApproval(w)
  BY <1>2, SMT DEF CbNeedsApproval, OpenPaneOnce
<1>3. CASE CbFinish(w)
  BY <1>3, SMT DEF CbFinish, Install
<1>4. CASE CbReboot(w)
  BY <1>4, SMT DEF CbReboot
<1>5. CASE CbFail(w)
  BY <1>5, SMT DEF CbFail
<1>6. QED
  BY <1>1, <1>2, <1>3, <1>4, <1>5 DEF Callback

\* What macOS and the user do on their own preserves the type invariant.
LEMMA TypePlatform ==
  ASSUME CoordinatorAssumption, TypeInv, PlatformStep, UNCHANGED coordVars
  PROVE  TypeInv'
<1> USE DEF SessionOver, SessionEnds, CoordinatorAssumption
<1>1. CASE Unseen(TunnelUp)
  BY <1>1, SMT DEF Unseen, TunnelUp
<1>2. CASE Unseen(Reassert)
  BY <1>2, SMT DEF Unseen, Reassert
<1>3. CASE Unseen(Reasserted)
  BY <1>3, SMT DEF Unseen, Reasserted
<1>4. CASE Unseen(MailArrives)
  BY <1>4, SMT DEF Unseen, MailArrives
<1>5. CASE TunnelDown
  BY <1>5, SMT DEF TunnelDown
<1>6. CASE TunnelLost
  BY <1>6, SMT DEF TunnelLost
<1>7. CASE UserRevokes
  BY <1>7, SMT DEF UserRevokes
<1>8. CASE UserApproves
  BY <1>8, SMT DEF UserApproves, Install
<1>9. CASE PaneAnswer
  BY <1>9, SMT DEF PaneAnswer
<1>10. QED
  BY <1>1, <1>2, <1>3, <1>4, <1>5, <1>6, <1>7, <1>8, <1>9 DEF PlatformStep,
     Unseen

\* Entering a command preserves the type invariant.
LEMMA TypeEnter ==
  ASSUME CoordinatorAssumption, TypeInv, NEW w \in Workers, Reconcile(w) \/
         Apply(w) \/ Stop(w) \/ Settings(w)
  PROVE  TypeInv'
<1> USE DEF Enter, Acquire, ResetState, CoordinatorAssumption
<1>1. CASE Reconcile(w)
  BY <1>1, SMT DEF Reconcile, Probe
<1>2. CASE Apply(w)
  BY <1>2, SMT DEF Apply
<1>3. CASE Stop(w)
  BY <1>3, SMT DEF Stop
<1>4. CASE Settings(w)
  BY <1>4, SMT DEF Settings
<1>5. QED
  BY <1>1, <1>2, <1>3, <1>4

\* Leaving a command preserves the type invariant.
LEMMA TypeLeave ==
  ASSUME CoordinatorAssumption, TypeInv, NEW w \in Workers, ReconcileStatus(w)
         \/ Return(w)
  PROVE  TypeInv'
<1> USE DEF Leave, CoordinatorAssumption
<1>1. CASE ReconcileStatus(w)
  BY <1>1, SMTT(60) DEF ReconcileStatus, GoTo, NoticeAfter, ShouldApply
<1>2. CASE Return(w)
  BY <1>2, SMTT(60) DEF Return, Record
<1>3. QED
  BY <1>1, <1>2

\* The status query, the clock, a restart and a stuttering step preserve the
\* type invariant.
LEMMA TypeRest ==
  ASSUME CoordinatorAssumption, TypeInv, Alone(GetStatus) \/ Tick \/ Restart
         \/ UNCHANGED vars
  PROVE  TypeInv'
<1> USE DEF CoordinatorAssumption
<1>1. CASE Alone(GetStatus)
  BY <1>1, SMT DEF Alone, GetStatus, NoticeAfter
<1>2. CASE Tick
  BY <1>2, SMT DEF Tick
<1>3. CASE Restart
  BY <1>3, SMT DEF Restart, Everyone, ResetState
<1>4. CASE UNCHANGED vars
  BY <1>4, SMT
<1>5. QED
  BY <1>1, <1>2, <1>3, <1>4

\* Every step preserves the type invariant.
LEMMA TypeStep ==
  ASSUME CoordinatorAssumption, TypeInv, [Next]_vars
  PROVE  TypeInv'
<1>1. CASE \E w \in Workers : Reconcile(w) \/ Apply(w) \/ Stop(w) \/ Settings(w)
  BY <1>1, TypeEnter
<1>2. CASE \E w \in Workers : WorkerStep(w)
  BY <1>2, TypeCommand, TypeLeave DEF WorkerStep, Alone
<1>3. CASE \E w \in Workers : Alone(Callback(w))
  BY <1>3, TypeCallback DEF Alone
<1>4. CASE Alone(PlatformStep)
  BY <1>4, TypePlatform DEF Alone
<1>5. CASE Alone(GetStatus) \/ Tick \/ Restart \/ UNCHANGED vars
  BY <1>5, TypeRest
<1>6. QED
  BY <1>1, <1>2, <1>3, <1>4, <1>5 DEF Next

\* The initial states satisfy the type invariant.
LEMMA TypeInit ==
  ASSUME PlatformAssumption, CoordinatorAssumption, Init
  PROVE  TypeInv
  BY SMT DEF Init, BridgeInit, PlatformInit, Everyone, PlatformAssumption,
         CoordinatorAssumption

\* The type invariant, with the pane counter and the program points that make
\* it inductive, holds in every reachable state.
THEOREM TypeInvariant == Spec => []TypeInv
<1>1. Init => TypeInv
  BY PlatformAssumption, CoordinatorAssumption, TypeInit
<1>2. TypeInv /\ [Next]_vars => TypeInv'
  BY CoordinatorAssumption, TypeStep
<1>3. QED
  BY <1>1, <1>2, PTL DEF Spec

\* Every variable stays within its type: the worker threads, the callbacks and
\* restarts never leave the program points and answers of the code.
THEOREM TypeCorrect == Spec => []TypeOK
<1>1. TypeInv => TypeOK
  BY DEF TypeInv
<1>2. QED
  BY <1>1, TypeInvariant, PTL

\* System Settings comes forward on its own account at most once per process,
\* whoever asks for it first (KBOpenApprovalSettingsOnce).
THEOREM PaneOnce == Spec => []PaneOpensOnce
<1>1. TypeInv => PaneOpensOnce
  BY SMT DEF PaneOpensOnce
<1>2. QED
  BY <1>1, TypeInvariant, PTL

------------------------------------------------------------------------------
USE DEF ReplacementInv, SessionInv, AcceptedInv, Settled, ActivatedInv,
        RecycledInv, ReportInv, StaleSessionFlagged, RecordedInv,
        ApprovedBeforeEnabled

\* The steps of a command that is executing preserve the replacement
\* invariant.
LEMMA ReplacementCommand ==
  ASSUME PlatformAssumption, TypeInv, ReplacementInv, NEW w \in Workers,
         CommandStep(w), UNCHANGED coordVars
  PROVE  ReplacementInv'
<1> USE DEF GoTo, Asked, Answer, Respond, FailWith, Fails, NoticeAfter, StopTunnel,
            PlatformAssumption
<1>1. CASE ActivationAnswer(w)
  BY <1>1, SMT DEF ActivationAnswer
<1>2. CASE CheckExtensionEnabled(w)
  BY <1>2, SMT DEF CheckExtensionEnabled, OpenPaneOnce
<1>3. CASE ApplyEntry(w)
  BY <1>3, SMT DEF ApplyEntry, SubmitActivation, CurrentStatus, StatusName
<1>4. CASE OpenSettings(w)
  BY <1>4, SMT DEF OpenSettings, SubmitActivation
<1>5. CASE Gate(w)
  BY <1>5, SMT DEF Gate, NextStage
<1>6. CASE Recycle(w)
  BY <1>6, SMT DEF Recycle, NextStage
<1>7. CASE Recycled(w)
  BY <1>7, SMT DEF Recycled, NextStage
<1>8. CASE StopTimesOut(w)
  BY <1>8, SMT DEF StopTimesOut
<1>9. CASE SettingsStatus(w)
  BY <1>9, SMT DEF SettingsStatus, CurrentStatus, StatusName
<1>10. CASE LoadManager(w)
  BY <1>10, SMT DEF LoadManager, StatusName
<1>11. CASE SendConfiguration(w)
  BY <1>11, SMT DEF SendConfiguration
<1>12. CASE Halt(w)
  BY <1>12, SMT DEF Halt
<1>13. CASE ReloadManager(w)
  BY <1>13, SMT DEF ReloadManager
<1>14. CASE SaveManager(w)
  BY <1>14, SMT DEF SaveManager
<1>15. CASE StartTunnel(w)
  BY <1>15, SMT DEF StartTunnel, StatusName, ClearSharedPolicy
<1>16. CASE StopLoad(w)
  BY <1>16, SMT DEF StopLoad
<1>17. CASE StopSave(w)
  BY <1>17, SMT DEF StopSave
<1>18. QED
  BY <1>1, <1>2, <1>3, <1>4, <1>5, <1>6, <1>7, <1>8, <1>9, <1>10, <1>11,
     <1>12, <1>13, <1>14, <1>15, <1>16, <1>17 DEF CommandStep

\* The callbacks of the activation delegate preserve the replacement
\* invariant.
LEMMA ReplacementCallback ==
  ASSUME PlatformAssumption, TypeInv, ReplacementInv, NEW w \in Workers,
         Callback(w), UNCHANGED coordVars
  PROVE  ReplacementInv'
<1> USE DEF AwaitingReply, PlatformAssumption
<1>1. CASE CbReplace(w)
  BY <1>1, SMT DEF CbReplace
<1>2. CASE CbNeedsApproval(w)
  BY <1>2, SMT DEF CbNeedsApproval, OpenPaneOnce
<1>3. CASE CbFinish(w)
  BY <1>3, SMT DEF CbFinish, Install
<1>4. CASE CbReboot(w)
  BY <1>4, SMT DEF CbReboot
<1>5. CASE CbFail(w)
  BY <1>5, SMT DEF CbFail
<1>6. QED
  BY <1>1, <1>2, <1>3, <1>4, <1>5 DEF Callback

\* What macOS and the user do on their own preserves the replacement
\* invariant.
LEMMA ReplacementPlatform ==
  ASSUME PlatformAssumption, TypeInv, ReplacementInv, PlatformStep, UNCHANGED
         coordVars
  PROVE  ReplacementInv'
<1> USE DEF SessionOver, SessionEnds, PlatformAssumption
<1>1. CASE Unseen(TunnelUp)
  BY <1>1, SMT DEF Unseen, TunnelUp
<1>2. CASE Unseen(Reassert)
  BY <1>2, SMT DEF Unseen, Reassert
<1>3. CASE Unseen(Reasserted)
  BY <1>3, SMT DEF Unseen, Reasserted
<1>4. CASE Unseen(MailArrives)
  BY <1>4, SMT DEF Unseen, MailArrives
<1>5. CASE TunnelDown
  BY <1>5, SMT DEF TunnelDown
<1>6. CASE TunnelLost
  BY <1>6, SMT DEF TunnelLost
<1>7. CASE UserRevokes
  BY <1>7, SMT DEF UserRevokes
<1>8. CASE UserApproves
  BY <1>8, SMT DEF UserApproves, Install
<1>9. CASE PaneAnswer
  BY <1>9, SMT DEF PaneAnswer
<1>10. QED
  BY <1>1, <1>2, <1>3, <1>4, <1>5, <1>6, <1>7, <1>8, <1>9 DEF PlatformStep,
     Unseen

\* Entering a command preserves the replacement invariant.
LEMMA ReplacementEnter ==
  ASSUME PlatformAssumption, TypeInv, ReplacementInv, NEW w \in Workers,
         Reconcile(w) \/ Apply(w) \/ Stop(w) \/ Settings(w)
  PROVE  ReplacementInv'
<1> USE DEF Enter, Acquire, ResetState, PlatformAssumption
<1>1. CASE Reconcile(w)
  BY <1>1, SMT DEF Reconcile, Probe
<1>2. CASE Apply(w)
  BY <1>2, SMT DEF Apply
<1>3. CASE Stop(w)
  BY <1>3, SMT DEF Stop
<1>4. CASE Settings(w)
  BY <1>4, SMT DEF Settings
<1>5. QED
  BY <1>1, <1>2, <1>3, <1>4

\* Leaving a command preserves the replacement invariant.
LEMMA ReplacementLeave ==
  ASSUME PlatformAssumption, TypeInv, ReplacementInv, NEW w \in Workers,
         ReconcileStatus(w) \/ Return(w)
  PROVE  ReplacementInv'
<1> USE DEF Leave, PlatformAssumption
<1>1. CASE ReconcileStatus(w)
  BY <1>1, SMT DEF ReconcileStatus, GoTo, NoticeAfter, ShouldApply
<1>2. CASE Return(w)
  BY <1>2, SMT DEF Return, Record
<1>3. QED
  BY <1>1, <1>2

\* The status query, the clock, a restart and a stuttering step preserve the
\* replacement invariant.
LEMMA ReplacementRest ==
  ASSUME PlatformAssumption, TypeInv, ReplacementInv, Alone(GetStatus) \/ Tick
         \/ Restart \/ UNCHANGED vars
  PROVE  ReplacementInv'
<1> USE DEF PlatformAssumption
<1>1. CASE Alone(GetStatus)
  BY <1>1, SMT DEF Alone, GetStatus, NoticeAfter
<1>2. CASE Tick
  BY <1>2, SMT DEF Tick
<1>3. CASE Restart
  BY <1>3, SMT DEF Restart, Everyone, ResetState
<1>4. CASE UNCHANGED vars
  BY <1>4, SMT
<1>5. QED
  BY <1>1, <1>2, <1>3, <1>4

\* Every step preserves the replacement invariant.
LEMMA ReplacementStep ==
  ASSUME PlatformAssumption, TypeInv, ReplacementInv, [Next]_vars
  PROVE  ReplacementInv'
<1>1. CASE \E w \in Workers : Reconcile(w) \/ Apply(w) \/ Stop(w) \/ Settings(w)
  BY <1>1, ReplacementEnter
<1>2. CASE \E w \in Workers : WorkerStep(w)
  BY <1>2, ReplacementCommand, ReplacementLeave DEF WorkerStep, Alone
<1>3. CASE \E w \in Workers : Alone(Callback(w))
  BY <1>3, ReplacementCallback DEF Alone
<1>4. CASE Alone(PlatformStep)
  BY <1>4, ReplacementPlatform DEF Alone
<1>5. CASE Alone(GetStatus) \/ Tick \/ Restart \/ UNCHANGED vars
  BY <1>5, ReplacementRest
<1>6. QED
  BY <1>1, <1>2, <1>3, <1>4, <1>5 DEF Next

\* The initial states satisfy the replacement invariant.
LEMMA ReplacementInit ==
  ASSUME PlatformAssumption, Init
  PROVE  ReplacementInv
  BY SMT DEF Init, BridgeInit, PlatformInit, Everyone, PlatformAssumption

\* The replacement invariant holds in every reachable state.
THEOREM ReplacementInvariant == Spec => []ReplacementInv
<1>1. Init => ReplacementInv
  BY PlatformAssumption, ReplacementInit
<1>2. TypeInv /\ ReplacementInv /\ [Next]_vars => ReplacementInv'
  BY PlatformAssumption, ReplacementStep
<1>3. QED
  BY <1>1, <1>2, TypeInvariant, PTL DEF Spec

\* A session of a replaced provider is never forgotten: the persistent flag
\* that makes the next command recycle it is set as long as it lives.
THEOREM StaleFlagged == Spec => []StaleSessionFlagged
<1>1. ReplacementInv => StaleSessionFlagged
  BY DEF ReplacementInv
<1>2. QED
  BY <1>1, ReplacementInvariant, PTL

\* Nothing is recorded or configured but in a session of the bundled provider,
\* whatever other commands, updates or the user do meanwhile.
THEOREM CurrentReliedOn == Spec => []ReliesOnCurrent
<1>1. ReplacementInv => ReliesOnCurrent
  BY SMT DEF ReliesOnCurrent
<1>2. QED
  BY <1>1, ReplacementInvariant, PTL

\* No enabled manager is saved before the user has once approved the extension.
THEOREM ApprovedFirst == Spec => []ApprovedBeforeEnabled
<1>1. ReplacementInv => ApprovedBeforeEnabled
  BY DEF ReplacementInv
<1>2. QED
  BY <1>1, ReplacementInvariant, PTL

------------------------------------------------------------------------------
(* The invariant of the mutex *)

HIDE DEF PaneInv, AcceptedInv, Settled, ActivatedInv, RecycledInv, ReportInv,
         StaleSessionFlagged, ApprovedBeforeEnabled
USE DEF LockedInv, LockInv, StopInv, StopHolds, Down, StartInv

\* The steps of a command that is executing preserve the invariant of the
\* mutex.
LEMMA LockedCommand ==
  ASSUME PlatformAssumption, CoordinatorAssumption, TypeInv, ReplacementInv,
         LockedInv, NEW w \in Workers, CommandStep(w), UNCHANGED coordVars
  PROVE  LockedInv'
<1> USE DEF GoTo, Asked, Answer, Respond, FailWith, Fails, NoticeAfter, StopTunnel,
            PlatformAssumption, CoordinatorAssumption
<1>1. CASE ActivationAnswer(w)
  BY <1>1, SMT DEF ActivationAnswer
<1>2. CASE CheckExtensionEnabled(w)
  BY <1>2, SMT DEF CheckExtensionEnabled, OpenPaneOnce
<1>3. CASE ApplyEntry(w)
  BY <1>3, SMT DEF ApplyEntry, SubmitActivation, CurrentStatus, StatusName
<1>4. CASE OpenSettings(w)
  BY <1>4, SMT DEF OpenSettings, SubmitActivation
<1>5. CASE Gate(w)
  BY <1>5, SMT DEF Gate, NextStage
<1>6. CASE Recycle(w)
  BY <1>6, SMT DEF Recycle, NextStage
<1>7. CASE Recycled(w)
  BY <1>7, SMT DEF Recycled, NextStage
<1>8. CASE StopTimesOut(w)
  BY <1>8, SMT DEF StopTimesOut
<1>9. CASE SettingsStatus(w)
  BY <1>9, SMT DEF SettingsStatus, CurrentStatus, StatusName
<1>10. CASE LoadManager(w)
  BY <1>10, SMT DEF LoadManager, StatusName
<1>11. CASE SendConfiguration(w)
  BY <1>11, SMT DEF SendConfiguration
<1>12. CASE Halt(w)
  BY <1>12, SMT DEF Halt
<1>13. CASE ReloadManager(w)
  BY <1>13, SMT DEF ReloadManager
<1>14. CASE SaveManager(w)
  BY <1>14, SMT DEF SaveManager
<1>15. CASE StartTunnel(w)
  <2>1. LockInv' /\ StopInv'
    BY <1>15, SMT DEF StartTunnel, StatusName, ClearSharedPolicy
  <2>2. CASE conn # "disconnected"
    BY <1>15, <2>1, <2>2, SMT DEF StartTunnel, StatusName
  <2>3. CASE conn = "disconnected" /\ conn' # "connecting"
    BY <1>15, <2>1, <2>3, SMT DEF StartTunnel
  <2>4. CASE conn = "disconnected" /\ conn' = "connecting"
    <3>1. /\ pc[w] = "start" /\ pc' = [pc EXCEPT ![w] = "returned"]
          /\ result' = [result EXCEPT ![w] = "starting"]
          /\ UNCHANGED <<op, want>>
      BY <1>15, <2>4, SMT DEF StartTunnel
    <3>2. lock = w /\ \A v \in Workers \ {w} : op[v] \notin {"reconcile", "apply", "stop"}
      BY <3>1, SMT
    <3>3. \A v \in Workers \ {w} : pc[v] \notin Configuring
      BY <3>2, SMT
    <3>4. /\ op[w] = "reconcile" \/ active = NoPolicy
          /\ active' = active
      BY <3>1, SMT
    <3>5. StartInv'
      BY <3>1, <3>2, <3>3, <3>4, SMT
    <3>6. QED
      BY <2>1, <3>5
  <2>5. QED
    BY <2>2, <2>3, <2>4
<1>16. CASE StopLoad(w)
  BY <1>16, SMT DEF StopLoad
<1>17. CASE StopSave(w)
  BY <1>17, SMT DEF StopSave
<1>18. QED
  BY <1>1, <1>2, <1>3, <1>4, <1>5, <1>6, <1>7, <1>8, <1>9, <1>10, <1>11,
     <1>12, <1>13, <1>14, <1>15, <1>16, <1>17 DEF CommandStep

\* The callbacks of the activation delegate preserve the invariant of the
\* mutex.
LEMMA LockedCallback ==
  ASSUME PlatformAssumption, CoordinatorAssumption, TypeInv, ReplacementInv,
         LockedInv, NEW w \in Workers, Callback(w), UNCHANGED coordVars
  PROVE  LockedInv'
<1> USE DEF AwaitingReply, PlatformAssumption, CoordinatorAssumption
<1>1. CASE CbReplace(w)
  BY <1>1, SMT DEF CbReplace
<1>2. CASE CbNeedsApproval(w)
  BY <1>2, SMT DEF CbNeedsApproval, OpenPaneOnce
<1>3. CASE CbFinish(w)
  BY <1>3, SMT DEF CbFinish, Install
<1>4. CASE CbReboot(w)
  BY <1>4, SMT DEF CbReboot
<1>5. CASE CbFail(w)
  BY <1>5, SMT DEF CbFail
<1>6. QED
  BY <1>1, <1>2, <1>3, <1>4, <1>5 DEF Callback

\* What macOS and the user do on their own preserves the invariant of the
\* mutex.
LEMMA LockedPlatform ==
  ASSUME PlatformAssumption, CoordinatorAssumption, TypeInv, ReplacementInv,
         LockedInv, PlatformStep, UNCHANGED coordVars
  PROVE  LockedInv'
<1> USE DEF SessionOver, SessionEnds, PlatformAssumption,
            CoordinatorAssumption
<1>1. CASE Unseen(TunnelUp)
  BY <1>1, SMT DEF Unseen, TunnelUp
<1>2. CASE Unseen(Reassert)
  BY <1>2, SMT DEF Unseen, Reassert
<1>3. CASE Unseen(Reasserted)
  BY <1>3, SMT DEF Unseen, Reasserted
<1>4. CASE Unseen(MailArrives)
  BY <1>4, SMT DEF Unseen, MailArrives
<1>5. CASE TunnelDown
  BY <1>5, SMT DEF TunnelDown
<1>6. CASE TunnelLost
  BY <1>6, SMT DEF TunnelLost
<1>7. CASE UserRevokes
  BY <1>7, SMT DEF UserRevokes
<1>8. CASE UserApproves
  BY <1>8, SMT DEF UserApproves, Install
<1>9. CASE PaneAnswer
  BY <1>9, SMT DEF PaneAnswer
<1>10. QED
  BY <1>1, <1>2, <1>3, <1>4, <1>5, <1>6, <1>7, <1>8, <1>9 DEF PlatformStep,
     Unseen

\* Entering a command preserves the invariant of the mutex.
LEMMA LockedEnter ==
  ASSUME PlatformAssumption, CoordinatorAssumption, TypeInv, ReplacementInv,
         LockedInv, NEW w \in Workers, Reconcile(w) \/ Apply(w) \/ Stop(w) \/
         Settings(w)
  PROVE  LockedInv'
<1> USE DEF Enter, Acquire, ResetState, PlatformAssumption,
            CoordinatorAssumption
<1>1. CASE Reconcile(w)
  BY <1>1, SMT DEF Reconcile, Probe
<1>2. CASE Apply(w)
  BY <1>2, SMT DEF Apply
<1>3. CASE Stop(w)
  BY <1>3, SMT DEF Stop
<1>4. CASE Settings(w)
  BY <1>4, SMT DEF Settings
<1>5. QED
  BY <1>1, <1>2, <1>3, <1>4

\* Leaving a command preserves the invariant of the mutex.
LEMMA LockedLeave ==
  ASSUME PlatformAssumption, CoordinatorAssumption, TypeInv, ReplacementInv,
         LockedInv, NEW w \in Workers, ReconcileStatus(w) \/ Return(w)
  PROVE  LockedInv'
<1> USE DEF Leave, PlatformAssumption, CoordinatorAssumption
<1>1. CASE ReconcileStatus(w)
  BY <1>1, SMT DEF ReconcileStatus, GoTo, NoticeAfter, ShouldApply
<1>2. CASE Return(w)
  BY <1>2, SMT DEF Return, Record
<1>3. QED
  BY <1>1, <1>2

\* The status query, the clock, a restart and a stuttering step preserve the
\* invariant of the mutex.
LEMMA LockedRest ==
  ASSUME PlatformAssumption, CoordinatorAssumption, TypeInv, ReplacementInv,
         LockedInv, Alone(GetStatus) \/ Tick \/ Restart \/ UNCHANGED vars
  PROVE  LockedInv'
<1> USE DEF PlatformAssumption, CoordinatorAssumption
<1>1. CASE Alone(GetStatus)
  BY <1>1, SMT DEF Alone, GetStatus, NoticeAfter
<1>2. CASE Tick
  BY <1>2, SMT DEF Tick
<1>3. CASE Restart
  BY <1>3, SMT DEF Restart, Everyone, ResetState
<1>4. CASE UNCHANGED vars
  BY <1>4, SMT
<1>5. QED
  BY <1>1, <1>2, <1>3, <1>4

\* Every step preserves the invariant of the mutex.
LEMMA LockedStep ==
  ASSUME PlatformAssumption, CoordinatorAssumption, TypeInv, ReplacementInv,
         LockedInv, [Next]_vars
  PROVE  LockedInv'
<1>1. CASE \E w \in Workers : Reconcile(w) \/ Apply(w) \/ Stop(w) \/ Settings(w)
  BY <1>1, LockedEnter
<1>2. CASE \E w \in Workers : WorkerStep(w)
  BY <1>2, LockedCommand, LockedLeave DEF WorkerStep, Alone
<1>3. CASE \E w \in Workers : Alone(Callback(w))
  BY <1>3, LockedCallback DEF Alone
<1>4. CASE Alone(PlatformStep)
  BY <1>4, LockedPlatform DEF Alone
<1>5. CASE Alone(GetStatus) \/ Tick \/ Restart \/ UNCHANGED vars
  BY <1>5, LockedRest
<1>6. QED
  BY <1>1, <1>2, <1>3, <1>4, <1>5 DEF Next

\* The initial states satisfy the invariant of the mutex.
LEMMA LockedInit ==
  ASSUME PlatformAssumption, CoordinatorAssumption, Init
  PROVE  LockedInv
  BY SMT DEF Init, BridgeInit, PlatformInit, Everyone, PlatformAssumption,
         CoordinatorAssumption

\* The invariant of the mutex holds in every reachable state.
THEOREM LockedInvariant == Spec => []LockedInv
<1>1. Init => LockedInv
  BY PlatformAssumption, CoordinatorAssumption, LockedInit
<1>2. TypeInv /\ ReplacementInv /\ LockedInv /\ [Next]_vars => LockedInv'
  BY PlatformAssumption, CoordinatorAssumption, LockedStep
<1>3. QED
  BY <1>1, <1>2, TypeInvariant, ReplacementInvariant, PTL DEF Spec

\* After a successful stop no session comes up and the manager stays disabled
\* until the desktop asks for routing again.
THEOREM StopStays == Spec => []StopHolds
<1>1. LockedInv => StopHolds
  BY DEF LockedInv, StopInv
<1>2. QED
  BY <1>1, LockedInvariant, PTL

\* While a tunnel is coming up no step saves another configuration, and a
\* provider that comes up loads the one saved or the envelope left over.
LEMMA StartingStep ==
  ASSUME PlatformAssumption, CoordinatorAssumption, TypeInv, LockedInv,
         [Next]_vars, conn = "connecting"
  PROVE  /\ stored' = stored
         /\ conn' = "connected" => loaded' = IF shared = NoPolicy THEN stored ELSE shared
<1> USE DEF GoTo, Asked, Answer, Respond, FailWith, Fails, StopTunnel
<1>1. ASSUME NEW w \in Workers, CommandStep(w)
      PROVE  stored' = stored /\ conn' # "connected"
  <2>1. CASE ActivationAnswer(w)
    BY <1>1, <2>1, SMT DEF ActivationAnswer
  <2>2. CASE CheckExtensionEnabled(w)
    BY <1>1, <2>2, SMT DEF CheckExtensionEnabled, OpenPaneOnce
  <2>3. CASE ApplyEntry(w)
    BY <1>1, <2>3, SMT DEF ApplyEntry, SubmitActivation, CurrentStatus,
       StatusName
  <2>4. CASE OpenSettings(w)
    BY <1>1, <2>4, SMT DEF OpenSettings, SubmitActivation
  <2>5. CASE Gate(w)
    BY <1>1, <2>5, SMT DEF Gate, NextStage
  <2>6. CASE Recycle(w)
    BY <1>1, <2>6, SMT DEF Recycle, NextStage
  <2>7. CASE Recycled(w)
    BY <1>1, <2>7, SMT DEF Recycled, NextStage
  <2>8. CASE StopTimesOut(w)
    BY <1>1, <2>8, SMT DEF StopTimesOut
  <2>9. CASE SettingsStatus(w)
    BY <1>1, <2>9, SMT DEF SettingsStatus, CurrentStatus, StatusName
  <2>10. CASE LoadManager(w)
    BY <1>1, <2>10, SMT DEF LoadManager, StatusName
  <2>11. CASE SendConfiguration(w)
    BY <1>1, <2>11, SMT DEF SendConfiguration
  <2>12. CASE Halt(w)
    BY <1>1, <2>12, SMT DEF Halt
  <2>13. CASE ReloadManager(w)
    BY <1>1, <2>13, SMT DEF ReloadManager
  <2>14. CASE SaveManager(w)
    BY <1>1, <2>14, SMT DEF SaveManager
  <2>15. CASE StartTunnel(w)
    BY <1>1, <2>15, SMT DEF StartTunnel, StatusName, ClearSharedPolicy
  <2>16. CASE StopLoad(w)
    BY <1>1, <2>16, SMT DEF StopLoad
  <2>17. CASE StopSave(w)
    BY <1>1, <2>17, SMT DEF StopSave
  <2>18. QED
    BY <1>1, <2>1, <2>2, <2>3, <2>4, <2>5, <2>6, <2>7, <2>8, <2>9, <2>10,
       <2>11, <2>12, <2>13, <2>14, <2>15, <2>16, <2>17 DEF CommandStep
<1>2. ASSUME NEW w \in Workers, Callback(w)
      PROVE  stored' = stored /\ conn' # "connected"
  BY <1>2, SMT DEF Callback, CbReplace, CbNeedsApproval, CbFinish, CbReboot, CbFail, Install
<1>3. CASE PlatformStep
  BY <1>3, SMT DEF PlatformStep, Unseen, TunnelUp, Reassert, Reasserted, MailArrives,
       Responsive, TunnelDown, TunnelLost, UserRevokes, UserApproves, PaneAnswer, Install,
       SessionOver, SessionEnds
<1>4. ASSUME NEW w \in Workers, Reconcile(w) \/ Apply(w) \/ Stop(w) \/ Settings(w)
      PROVE  stored' = stored /\ conn' = conn
  BY <1>4, SMT DEF Reconcile, Apply, Stop, Settings, Enter
<1>5. ASSUME NEW w \in Workers, ReconcileStatus(w) \/ Return(w)
      PROVE  stored' = stored /\ conn' = conn
  BY <1>5, SMT DEF ReconcileStatus, Return
<1>6. CASE Alone(GetStatus) \/ Tick \/ Restart \/ UNCHANGED vars
  BY <1>6, SMT DEF Alone, GetStatus, Tick, Restart
<1>7. QED
  BY <1>1, <1>2, <1>3, <1>4, <1>5, <1>6 DEF Next, WorkerStep, Alone

\* A provider that comes up loads what was saved before it was started, or an
\* envelope that was not removed; nothing is saved over it meanwhile.
THEOREM StartsUndisturbed == Spec => StartUndisturbed
<1>1. TypeInv /\ LockedInv /\ [Next]_vars
        => [conn = "connecting" =>
              /\ stored' = stored
              /\ conn' = "connected" =>
                   loaded' = IF shared = NoPolicy THEN stored ELSE shared]_vars
  BY PlatformAssumption, CoordinatorAssumption, StartingStep
<1>2. QED
  BY <1>1, TypeInvariant, LockedInvariant, PTL DEF Spec, StartUndisturbed

------------------------------------------------------------------------------
USE DEF EnforcementInv, Carries, Enforced, Live, Touching, AcceptedInv,
        ActivatedInv, Settled, RecycledInv, ReportInv

\* The steps of a command that is executing preserve the enforcement
\* invariant.
LEMMA EnforcementCommand ==
  ASSUME PlatformAssumption, CoordinatorAssumption, TypeInv, ReplacementInv,
         LockedInv, EnforcementInv, NEW w \in Workers, CommandStep(w),
         UNCHANGED coordVars
  PROVE  EnforcementInv'
<1> USE DEF GoTo, Asked, Answer, Respond, FailWith, Fails, NoticeAfter, StopTunnel,
            PlatformAssumption, CoordinatorAssumption
<1>1. CASE ActivationAnswer(w)
  BY <1>1, SMT DEF ActivationAnswer
<1>2. CASE CheckExtensionEnabled(w)
  BY <1>2, SMT DEF CheckExtensionEnabled, OpenPaneOnce
<1>3. CASE ApplyEntry(w)
  BY <1>3, SMT DEF ApplyEntry, SubmitActivation, CurrentStatus, StatusName
<1>4. CASE OpenSettings(w)
  BY <1>4, SMT DEF OpenSettings, SubmitActivation
<1>5. CASE Gate(w)
  BY <1>5, SMT DEF Gate, NextStage
<1>6. CASE Recycle(w)
  BY <1>6, SMT DEF Recycle, NextStage
<1>7. CASE Recycled(w)
  BY <1>7, SMT DEF Recycled, NextStage
<1>8. CASE StopTimesOut(w)
  BY <1>8, SMT DEF StopTimesOut
<1>9. CASE SettingsStatus(w)
  BY <1>9, SMT DEF SettingsStatus, CurrentStatus, StatusName
<1>10. CASE LoadManager(w)
  BY <1>10, SMT DEF LoadManager, StatusName
<1>11. CASE SendConfiguration(w)
  BY <1>11, SMT DEF SendConfiguration
<1>12. CASE Halt(w)
  BY <1>12, SMT DEF Halt
<1>13. CASE ReloadManager(w)
  BY <1>13, SMT DEF ReloadManager
<1>14. CASE SaveManager(w)
  BY <1>14, SMT DEF SaveManager
<1>15. CASE StartTunnel(w)
  BY <1>15, SMT DEF StartTunnel, StatusName, ClearSharedPolicy
<1>16. CASE StopLoad(w)
  BY <1>16, SMT DEF StopLoad
<1>17. CASE StopSave(w)
  BY <1>17, SMT DEF StopSave
<1>18. QED
  BY <1>1, <1>2, <1>3, <1>4, <1>5, <1>6, <1>7, <1>8, <1>9, <1>10, <1>11,
     <1>12, <1>13, <1>14, <1>15, <1>16, <1>17 DEF CommandStep

\* The callbacks of the activation delegate preserve the enforcement
\* invariant.
LEMMA EnforcementCallback ==
  ASSUME PlatformAssumption, CoordinatorAssumption, TypeInv, ReplacementInv,
         LockedInv, EnforcementInv, NEW w \in Workers, Callback(w), UNCHANGED
         coordVars
  PROVE  EnforcementInv'
<1> USE DEF AwaitingReply, PlatformAssumption, CoordinatorAssumption
<1>1. CASE CbReplace(w)
  BY <1>1, SMT DEF CbReplace
<1>2. CASE CbNeedsApproval(w)
  BY <1>2, SMT DEF CbNeedsApproval, OpenPaneOnce
<1>3. CASE CbFinish(w)
  BY <1>3, SMT DEF CbFinish, Install
<1>4. CASE CbReboot(w)
  BY <1>4, SMT DEF CbReboot
<1>5. CASE CbFail(w)
  BY <1>5, SMT DEF CbFail
<1>6. QED
  BY <1>1, <1>2, <1>3, <1>4, <1>5 DEF Callback

\* What macOS and the user do on their own preserves the enforcement
\* invariant.
LEMMA EnforcementPlatform ==
  ASSUME PlatformAssumption, CoordinatorAssumption, TypeInv, ReplacementInv,
         LockedInv, EnforcementInv, PlatformStep, UNCHANGED coordVars
  PROVE  EnforcementInv'
<1> USE DEF SessionOver, SessionEnds, PlatformAssumption,
            CoordinatorAssumption
<1>1. CASE Unseen(TunnelUp)
  BY <1>1, SMT DEF Unseen, TunnelUp
<1>2. CASE Unseen(Reassert)
  BY <1>2, SMT DEF Unseen, Reassert
<1>3. CASE Unseen(Reasserted)
  BY <1>3, SMT DEF Unseen, Reasserted
<1>4. CASE Unseen(MailArrives)
  BY <1>4, SMT DEF Unseen, MailArrives
<1>5. CASE TunnelDown
  BY <1>5, SMT DEF TunnelDown
<1>6. CASE TunnelLost
  BY <1>6, SMT DEF TunnelLost
<1>7. CASE UserRevokes
  BY <1>7, SMT DEF UserRevokes
<1>8. CASE UserApproves
  BY <1>8, SMT DEF UserApproves, Install
<1>9. CASE PaneAnswer
  BY <1>9, SMT DEF PaneAnswer
<1>10. QED
  BY <1>1, <1>2, <1>3, <1>4, <1>5, <1>6, <1>7, <1>8, <1>9 DEF PlatformStep,
     Unseen

\* Entering a command preserves the enforcement invariant.
LEMMA EnforcementEnter ==
  ASSUME PlatformAssumption, CoordinatorAssumption, TypeInv, ReplacementInv,
         LockedInv, EnforcementInv, NEW w \in Workers, Reconcile(w) \/
         Apply(w) \/ Stop(w) \/ Settings(w)
  PROVE  EnforcementInv'
<1> USE DEF Enter, Acquire, ResetState, PlatformAssumption,
            CoordinatorAssumption
<1>1. CASE Reconcile(w)
  BY <1>1, SMT DEF Reconcile, Probe
<1>2. CASE Apply(w)
  BY <1>2, SMT DEF Apply
<1>3. CASE Stop(w)
  BY <1>3, SMT DEF Stop
<1>4. CASE Settings(w)
  BY <1>4, SMT DEF Settings
<1>5. QED
  BY <1>1, <1>2, <1>3, <1>4

\* Leaving a command preserves the enforcement invariant.
LEMMA EnforcementLeave ==
  ASSUME PlatformAssumption, CoordinatorAssumption, TypeInv, ReplacementInv,
         LockedInv, EnforcementInv, NEW w \in Workers, ReconcileStatus(w) \/
         Return(w)
  PROVE  EnforcementInv'
<1> USE DEF Leave, PlatformAssumption, CoordinatorAssumption
<1>1. CASE ReconcileStatus(w)
  BY <1>1, SMT DEF ReconcileStatus, GoTo, NoticeAfter, ShouldApply
<1>2. CASE Return(w)
  BY <1>2, SMT DEF Return, Record
<1>3. QED
  BY <1>1, <1>2

\* The status query, the clock, a restart and a stuttering step preserve the
\* enforcement invariant.
LEMMA EnforcementRest ==
  ASSUME PlatformAssumption, CoordinatorAssumption, TypeInv, ReplacementInv,
         LockedInv, EnforcementInv, Alone(GetStatus) \/ Tick \/ Restart \/
         UNCHANGED vars
  PROVE  EnforcementInv'
<1> USE DEF PlatformAssumption, CoordinatorAssumption
<1>1. CASE Alone(GetStatus)
  BY <1>1, SMT DEF Alone, GetStatus, NoticeAfter
<1>2. CASE Tick
  BY <1>2, SMT DEF Tick
<1>3. CASE Restart
  BY <1>3, SMT DEF Restart, Everyone, ResetState
<1>4. CASE UNCHANGED vars
  BY <1>4, SMT
<1>5. QED
  BY <1>1, <1>2, <1>3, <1>4

\* Every step preserves the enforcement invariant.
LEMMA EnforcementStep ==
  ASSUME PlatformAssumption, CoordinatorAssumption, TypeInv, ReplacementInv,
         LockedInv, EnforcementInv, [Next]_vars
  PROVE  EnforcementInv'
<1>1. CASE \E w \in Workers : Reconcile(w) \/ Apply(w) \/ Stop(w) \/ Settings(w)
  BY <1>1, EnforcementEnter
<1>2. CASE \E w \in Workers : WorkerStep(w)
  BY <1>2, EnforcementCommand, EnforcementLeave DEF WorkerStep, Alone
<1>3. CASE \E w \in Workers : Alone(Callback(w))
  BY <1>3, EnforcementCallback DEF Alone
<1>4. CASE Alone(PlatformStep)
  BY <1>4, EnforcementPlatform DEF Alone
<1>5. CASE Alone(GetStatus) \/ Tick \/ Restart \/ UNCHANGED vars
  BY <1>5, EnforcementRest
<1>6. QED
  BY <1>1, <1>2, <1>3, <1>4, <1>5 DEF Next

\* The initial states satisfy the enforcement invariant.
LEMMA EnforcementInit ==
  ASSUME PlatformAssumption, CoordinatorAssumption, Init
  PROVE  EnforcementInv
  BY SMT DEF Init, BridgeInit, PlatformInit, Everyone, PlatformAssumption,
         CoordinatorAssumption

\* The enforcement invariant holds in every reachable state.
THEOREM EnforcementInvariant == Spec => []EnforcementInv
<1> HIDE DEF TypeInv, ReplacementInv, LockedInv, EnforcementInv
<1>1. Init => EnforcementInv
  BY PlatformAssumption, CoordinatorAssumption, EnforcementInit
<1>2. TypeInv /\ ReplacementInv /\ LockedInv /\ EnforcementInv /\ [Next]_vars
        => EnforcementInv'
  BY PlatformAssumption, CoordinatorAssumption, EnforcementStep
<1>3. QED
  BY <1>1, <1>2, TypeInvariant, ReplacementInvariant, LockedInvariant, PTL DEF Spec

\* With no apply in flight and none failed since it was recorded, the active
\* policy is saved and a connected provider enforces it.
THEOREM ActiveEnforced == Spec => []ActivePolicyEnforced
<1>1. LockedInv /\ EnforcementInv => ActivePolicyEnforced
  BY CoordinatorAssumption, SMT DEF ActivePolicyEnforced, CoordinatorAssumption
<1>2. QED
  BY <1>1, LockedInvariant, EnforcementInvariant, PTL

\* The one path to a wrong answer from the cache is an apply that failed after
\* the policy was recorded: without one, a reconcile that is answered without an
\* apply is answered truthfully (rs 226-255).
THEOREM CachedTrueUntilFailure == Spec => [](dirty = NO => CachedAnswerTrue)
<1>1. LockedInv /\ EnforcementInv => (dirty = NO => CachedAnswerTrue)
  <2> SUFFICES ASSUME LockedInv, EnforcementInv, dirty = NO, lock = NoWorker,
                      NEW p \in Policies, CurrentStatus = "running",
                      ~ShouldApply(p, "running")
               PROVE  loaded = p
    BY DEF CachedAnswerTrue
  <2>1. active = p /\ conn = "connected"
    BY SMT DEF ShouldApply, CurrentStatus, StatusName
  <2>2. \A w \in Workers : ~Touching(w)
    BY CoordinatorAssumption, SMT DEF CoordinatorAssumption
  <2>3. p # NoPolicy
    BY PlatformAssumption DEF PlatformAssumption
  <2>4. QED
    BY <2>1, <2>2, <2>3, SMT
<1>2. QED
  BY <1>1, LockedInvariant, EnforcementInvariant, PTL

------------------------------------------------------------------------------
(* The promise to Desktop *)

USE DEF Promise!vars, Promise!commandVars, Promise!wordVars,
        Promise!savedVars, Promise!sessionVars, Promise!mailVars

\* All invariants hold in every reachable state.
THEOREM RoutingInvariant == Spec => []RoutingInv
<1> HIDE DEF TypeInv, ReplacementInv, LockedInv, EnforcementInv
<1>1. TypeInv /\ ReplacementInv /\ LockedInv /\ EnforcementInv => RoutingInv
  BY DEF RoutingInv
<1>2. QED
  BY <1>1, TypeInvariant, ReplacementInvariant, LockedInvariant,
     EnforcementInvariant, PTL

\* The command is that of the worker who holds the mutex.
LEMMA CommandFacts ==
  ASSUME CoordinatorAssumption, TypeInv, LockInv, NEW w \in Workers
  PROVE  /\ op[w] \in {"reconcile", "apply"} => CommandNow = "route" /\ AskedNow = want[w]
         /\ op[w] = "stop" => CommandNow = "stop"
  BY SMT DEF CommandNow, AskedNow, CoordinatorAssumption

\* A promised policy is the recorded one, and in force.
LEMMA RoutedFacts ==
  ASSUME RoutingInv, RoutedNow # NoPolicy
  PROVE  /\ RoutedNow = active /\ stored = active /\ mail = NoPolicy
         /\ Live => loaded = active
         /\ current = YES /\ stale = NO /\ accepted = NO
         /\ \A w \in Workers : ~Touching(w) /\ op[w] \notin {"apply", "stop"}
  BY SMT DEF RoutingInv, RoutedNow, ReplacementInv, RecordedInv

\* What a step leaves of the facts the promise is about.
LEMMA SameFacts ==
  /\ UNCHANGED <<lock, op, want>> => UNCHANGED <<CommandNow, AskedNow>>
  /\ UNCHANGED <<conn, loaded>> => UNCHANGED <<SessionNow, EnforcedNow>>
  /\ UNCHANGED <<op, pc, active, dirty>> => UNCHANGED RoutedNow
  BY DEF CommandNow, AskedNow, SessionNow, EnforcedNow, RoutedNow

\* A step of a command that moves its worker and touches neither session nor
\* manager may withdraw the promise, and does nothing else.
Quiet(w) ==
  /\ \E target \in PCs : pc' = [pc EXCEPT ![w] = target]
  /\ Touching(w) => Touching(w)'
  /\ UNCHANGED <<coordVars, argVars, conn, loaded, mail, shared, prefVars>>

\* A quiet step is a step of the promise or none.
LEMMA QuietPromise ==
  ASSUME PlatformAssumption, CoordinatorAssumption, RoutingInv,
         NEW w \in Workers, Quiet(w)
  PROVE  [Promise!Next]_Promise!vars
<1> USE DEF Quiet
<1>1. UNCHANGED <<CommandNow, AskedNow, SessionNow, EnforcedNow>>
  BY SameFacts
<1>2. CASE RoutedNow' = RoutedNow
  BY <1>1, <1>2
<1>3. CASE RoutedNow' # RoutedNow
  <2>1. op[w] = "reconcile" /\ RoutedNow' = NoPolicy
    BY <1>3, SMT DEF RoutingInv, RoutedNow
  <2>2. CommandNow = "route"
    BY <2>1, CommandFacts DEF RoutingInv
  <2>3. Promise!Withdraw
    BY <1>1, <2>1, <2>2 DEF Promise!Withdraw
  <2>4. QED
    BY <2>3 DEF Promise!Next
<1>4. QED
  BY <1>2, <1>3

\* A session that ends, or is asked to.
LEMMA EndPromise ==
  ASSUME conn' \in {"disconnected", "disconnecting"},
         conn = "disconnected" => conn' = conn,
         UNCHANGED <<CommandNow, AskedNow, RoutedNow, stopped, prefVars, mail, shared>>
  PROVE  [Promise!Next]_Promise!vars
<1>1. EnforcedNow' = NoPolicy
  BY SMT DEF EnforcedNow
<1>2. CASE conn = "disconnected"
  <2>1. UNCHANGED <<SessionNow, EnforcedNow>>
    BY <1>2, SMT DEF SessionNow, EnforcedNow
  <2>2. QED
    BY <2>1
<1>3. CASE conn # "disconnected"
  <2>1. SessionNow # "down" /\ SessionNow' \in {"ending", "down"}
    BY <1>3, SMT DEF SessionNow
  <2>2. Promise!End
    BY <1>1, <2>1 DEF Promise!End
  <2>3. QED
    BY <2>2 DEF Promise!Next
<1>4. QED
  BY <1>2, <1>3

\* The steps of a command, up to and including the load of the manager.
LEMMA QuietCommand ==
  ASSUME PlatformAssumption, CoordinatorAssumption, RoutingInv,
         NEW w \in Workers, UNCHANGED coordVars,
         \/ ActivationAnswer(w) \/ CheckExtensionEnabled(w) \/ ApplyEntry(w)
         \/ OpenSettings(w) \/ Gate(w) \/ Recycled(w) \/ StopTimesOut(w)
         \/ SettingsStatus(w) \/ LoadManager(w) \/ ReloadManager(w)
  PROVE  Quiet(w)
<1> USE DEF GoTo, Asked, Answer, Respond, FailWith, Fails, NoticeAfter, RoutingInv, Quiet
<1>1. CASE ActivationAnswer(w)
  BY <1>1, SMT DEF ActivationAnswer
<1>2. CASE CheckExtensionEnabled(w)
  BY <1>2, SMT DEF CheckExtensionEnabled
<1>3. CASE ApplyEntry(w)
  BY <1>3, SMT DEF ApplyEntry, SubmitActivation
<1>4. CASE OpenSettings(w)
  BY <1>4, SMT DEF OpenSettings, SubmitActivation
<1>5. CASE Gate(w)
  <2>1. \E target \in {"returned", "recycle", "after", "configure"} :
          pc' = [pc EXCEPT ![w] = target]
    BY <1>5, SMT DEF Gate, NextStage
  <2>2. pc[w] = "gate" /\ UNCHANGED <<argVars, sysVars>>
    BY <1>5, SMT DEF Gate
  <2>3. \E target \in PCs : pc' = [pc EXCEPT ![w] = target]
    BY <2>1
  <2>4. Touching(w) => Touching(w)'
    BY <2>2, SMT
  <2>5. UNCHANGED <<coordVars, argVars, conn, loaded, mail, shared, prefVars>>
    BY <2>2
  <2>6. QED
    BY <2>3, <2>4, <2>5
<1>6. CASE Recycled(w)
  <2>1. \E target \in {"after", "configure"} : pc' = [pc EXCEPT ![w] = target]
    <3>1. NextStage(w) \in {"after", "configure"}
      BY DEF NextStage
    <3>2. pc' = [pc EXCEPT ![w] = NextStage(w)]
      BY <1>6 DEF Recycled
    <3>3. QED
      BY <3>1, <3>2
  <2>2. pc[w] = "recycled" /\ UNCHANGED <<argVars, sysVars>>
    BY <1>6, SMT DEF Recycled
  <2>3. \E target \in PCs : pc' = [pc EXCEPT ![w] = target]
    BY <2>1
  <2>4. Touching(w) => Touching(w)'
    BY <2>2, SMT
  <2>5. UNCHANGED <<coordVars, argVars, conn, loaded, mail, shared, prefVars>>
    BY <2>2
  <2>6. QED
    BY <2>3, <2>4, <2>5
<1>7. CASE StopTimesOut(w)
  BY <1>7, SMT DEF StopTimesOut
<1>8. CASE SettingsStatus(w)
  BY <1>8, SMT DEF SettingsStatus
<1>9. CASE LoadManager(w)
  BY <1>9, SMT DEF LoadManager
<1>10. CASE ReloadManager(w)
  BY <1>10, SMT DEF ReloadManager
<1>11. QED
  BY <1>1, <1>2, <1>3, <1>4, <1>5, <1>6, <1>7, <1>8, <1>9, <1>10

\* A command that stops the tunnel: recycling, halting and stopping.
LEMMA StopPromise ==
  ASSUME PlatformAssumption, CoordinatorAssumption, RoutingInv,
         NEW w \in Workers, UNCHANGED coordVars,
         Recycle(w) \/ Halt(w) \/ StopLoad(w)
  PROVE  [Promise!Next]_Promise!vars
<1> USE DEF GoTo, Asked, Answer, Respond, FailWith, Fails, NoticeAfter, StopTunnel,
            RoutingInv
<1>1. CASE conn' = conn
  <2>1. Quiet(w)
    BY <1>1, SMT DEF Quiet, Recycle, Halt, StopLoad, NextStage
  <2>2. QED
    BY <2>1, QuietPromise
<1>2. CASE conn' # conn
  <2>1. /\ conn # "disconnected" /\ conn' = "disconnecting"
        /\ UNCHANGED <<coordVars, argVars, mail, shared, prefVars>>
        /\ \A v \in Workers : Touching(v)' <=> Touching(v)
    BY <1>2, SMT DEF Recycle, Halt, StopLoad
  <2>2. UNCHANGED RoutedNow
    BY <2>1 DEF RoutedNow
  <2>3. QED
    BY <2>1, <2>2, SameFacts, EndPromise
<1>3. QED
  BY <1>1, <1>2

\* SendConfiguration tells a running provider.
LEMMA TellPromise ==
  ASSUME PlatformAssumption, CoordinatorAssumption, RoutingInv,
         NEW w \in Workers, UNCHANGED coordVars, SendConfiguration(w)
  PROVE  [Promise!Next]_Promise!vars
<1> USE DEF GoTo, Asked, Answer, Respond, FailWith, Fails, NoticeAfter, RoutingInv
<1>1. /\ pc[w] = "send" /\ op[w] \in {"reconcile", "apply"}
      /\ UNCHANGED <<coordVars, argVars, conn, shared, prefVars>>
  BY SMT DEF SendConfiguration
<1>2. CommandNow = "route" /\ AskedNow = want[w]
  BY <1>1, CommandFacts
<1>3. UNCHANGED <<CommandNow, AskedNow>> /\ UNCHANGED SessionNow
  BY <1>1, SameFacts DEF SessionNow
<1>4. \E target \in {"returned", "save", "halt"} : pc' = [pc EXCEPT ![w] = target]
  BY SMT DEF SendConfiguration
<1>5. RoutedNow' = NoPolicy
  <2>1. CASE op[w] = "reconcile"
    <3>1. Touching(w)'
      BY <1>1, <1>4, <2>1, SMT
    <3>2. QED
      BY <3>1 DEF RoutedNow
  <2>2. CASE op[w] = "apply"
    BY <1>1, <2>2, SMT DEF RoutedNow
  <2>3. QED
    BY <1>1, <2>1, <2>2
<1>6. /\ loaded' \in {loaded} \cup IF Responsive THEN {want[w]} ELSE {}
      /\ mail' \in {mail} \cup IF mail = NoPolicy THEN {want[w]} ELSE {}
  BY SMT DEF SendConfiguration
<1>7. EnforcedNow' \in {EnforcedNow} \cup IF SessionNow = "up" THEN {AskedNow} ELSE {}
  BY <1>1, <1>2, <1>6, SMT DEF EnforcedNow, SessionNow, Responsive
<1>8. Promise!Tell
  BY <1>1, <1>2, <1>3, <1>5, <1>6, <1>7 DEF Promise!Tell
<1>9. QED
  BY <1>8 DEF Promise!Next

\* SaveManager saves what a running provider enforces already.
LEMMA SavePromise ==
  ASSUME PlatformAssumption, CoordinatorAssumption, RoutingInv,
         NEW w \in Workers, UNCHANGED coordVars, SaveManager(w)
  PROVE  [Promise!Next]_Promise!vars
<1> USE DEF GoTo, Asked, Answer, Respond, FailWith, Fails, NoticeAfter, RoutingInv
<1>1. /\ pc[w] = "save" /\ op[w] \in {"reconcile", "apply"}
      /\ UNCHANGED <<coordVars, argVars, conn, loaded, mail, shared>>
      /\ \E target \in {"returned", "start"} : pc' = [pc EXCEPT ![w] = target]
  BY SMT DEF SaveManager
<1>2. CASE UNCHANGED prefVars
  <2>1. \E target \in PCs : pc' = [pc EXCEPT ![w] = target]
    BY <1>1
  <2>2. Touching(w) => Touching(w)'
    BY <1>1, SMT
  <2>3. Quiet(w)
    BY <1>1, <1>2, <2>1, <2>2 DEF Quiet
  <2>4. QED
    BY <2>3, QuietPromise
<1>3. CASE stored' = want[w] /\ enabled' = YES
  <2>1. CommandNow = "route" /\ AskedNow = want[w]
    BY <1>1, CommandFacts
  <2>2. UNCHANGED <<CommandNow, AskedNow, SessionNow, EnforcedNow>>
    BY <1>1, SameFacts
  <2>3. RoutedNow = NoPolicy /\ RoutedNow' = NoPolicy
    <3>1. CASE op[w] = "reconcile"
      <4>1. Touching(w) /\ Touching(w)'
        BY <1>1, <3>1, SMT
      <4>2. QED
        BY <4>1 DEF RoutedNow
    <3>2. CASE op[w] = "apply"
      BY <1>1, <3>2, SMT DEF RoutedNow
    <3>3. QED
      BY <1>1, <3>1, <3>2
  <2>4. SessionNow # "starting"
    BY <1>1, SMT DEF SessionNow
  <2>5. SessionNow = "up" => EnforcedNow = want[w] /\ mail = NoPolicy
    BY <1>1, SMT DEF SessionNow, EnforcedNow
  <2>6. Promise!Save
    BY <1>1, <1>3, <2>1, <2>2, <2>3, <2>4, <2>5 DEF Promise!Save
  <2>7. QED
    BY <2>6 DEF Promise!Next
<1>4. QED
  BY <1>2, <1>3 DEF SaveManager

\* StartTunnel starts a session with what was asked for, saved and allowed.
LEMMA StartPromise ==
  ASSUME PlatformAssumption, CoordinatorAssumption, RoutingInv,
         NEW w \in Workers, UNCHANGED coordVars, StartTunnel(w)
  PROVE  [Promise!Next]_Promise!vars
<1> USE DEF GoTo, Answer, Respond, FailWith, Fails, NoticeAfter, RoutingInv
<1>1. /\ pc[w] = "start" /\ op[w] \in {"reconcile", "apply"}
      /\ UNCHANGED <<coordVars, argVars, loaded, mail, prefVars>>
      /\ pc' = [pc EXCEPT ![w] = "returned"]
  BY SMT DEF StartTunnel
<1>2. CASE conn # "disconnected"
  <2>1. UNCHANGED <<conn, shared>>
    BY <1>2, SMT DEF StartTunnel
  <2>2. Quiet(w)
    BY <1>1, <2>1, SMT DEF Quiet
  <2>3. QED
    BY <2>2, QuietPromise
<1>3. CASE conn = "disconnected"
  <2>1. conn' \in {"disconnected", "connecting"} /\ shared' \in {NoPolicy, shared}
    BY <1>3, SMT DEF StartTunnel, ClearSharedPolicy
  <2>2. CommandNow = "route" /\ AskedNow = want[w]
    BY <1>1, CommandFacts
  <2>3. UNCHANGED <<CommandNow, AskedNow>>
    BY <1>1, SameFacts
  <2>4. /\ SessionNow = "down" /\ SessionNow' \in {"down", "starting"}
        /\ UNCHANGED EnforcedNow
    BY <1>3, <2>1, SMT DEF SessionNow, EnforcedNow
  <2>5. RoutedNow = NoPolicy /\ RoutedNow' = NoPolicy
    <3>1. CASE op[w] = "reconcile"
      <4>1. Touching(w) /\ Touching(w)'
        BY <1>1, <3>1, SMT
      <4>2. QED
        BY <4>1 DEF RoutedNow
    <3>2. CASE op[w] = "apply"
      BY <1>1, <3>2, SMT DEF RoutedNow
    <3>3. QED
      BY <1>1, <3>1, <3>2
  <2>6. enabled = YES /\ stored = want[w]
    BY <1>1, SMT
  <2>7. Promise!Start
    BY <1>1, <2>1, <2>2, <2>3, <2>4, <2>5, <2>6 DEF Promise!Start
  <2>8. QED
    BY <2>7 DEF Promise!Next
<1>4. QED
  BY <1>2, <1>3

\* StopSave disables the manager of a session that is over or ending.
LEMMA DisablePromise ==
  ASSUME PlatformAssumption, CoordinatorAssumption, RoutingInv,
         NEW w \in Workers, UNCHANGED coordVars, StopSave(w)
  PROVE  [Promise!Next]_Promise!vars
<1> USE DEF GoTo, Asked, Answer, Respond, FailWith, Fails, NoticeAfter, RoutingInv
<1>1. /\ pc[w] = "stopSave" /\ op[w] = "stop"
      /\ UNCHANGED <<coordVars, argVars, conn, loaded, mail, shared, stored>>
      /\ pc' = [pc EXCEPT ![w] = "returned"]
      /\ UNCHANGED enabled \/ enabled' = NO
  BY SMT DEF StopSave
<1>2. CASE UNCHANGED enabled
  <2>1. Quiet(w)
    BY <1>1, <1>2, SMT DEF Quiet
  <2>2. QED
    BY <2>1, QuietPromise
<1>3. CASE enabled' = NO
  <2>1. CommandNow = "stop"
    BY <1>1, CommandFacts
  <2>2. UNCHANGED <<CommandNow, AskedNow, SessionNow, EnforcedNow>>
    BY <1>1, SameFacts
  <2>3. UNCHANGED RoutedNow
    BY <1>1, SMT DEF RoutedNow
  <2>4. SessionNow \in {"down", "ending"}
    BY <1>1, SMT DEF SessionNow
  <2>5. Promise!Disable
    BY <1>1, <1>3, <2>1, <2>2, <2>3, <2>4 DEF Promise!Disable
  <2>6. QED
    BY <2>5 DEF Promise!Next
<1>4. QED
  BY <1>1, <1>2, <1>3

\* The steps of a command that is executing.
LEMMA CommandPromise ==
  ASSUME PlatformAssumption, CoordinatorAssumption, RoutingInv,
         NEW w \in Workers, UNCHANGED coordVars, CommandStep(w)
  PROVE  [Promise!Next]_Promise!vars
<1>1. CASE Recycle(w) \/ Halt(w) \/ StopLoad(w)
  BY <1>1, StopPromise
<1>2. CASE SendConfiguration(w)
  BY <1>2, TellPromise
<1>3. CASE SaveManager(w)
  BY <1>3, SavePromise
<1>4. CASE StartTunnel(w)
  BY <1>4, StartPromise
<1>5. CASE StopSave(w)
  BY <1>5, DisablePromise
<1>6. CASE \/ ActivationAnswer(w) \/ CheckExtensionEnabled(w) \/ ApplyEntry(w)
           \/ OpenSettings(w) \/ Gate(w) \/ Recycled(w) \/ StopTimesOut(w)
           \/ SettingsStatus(w) \/ LoadManager(w) \/ ReloadManager(w)
  BY <1>6, QuietCommand, QuietPromise
<1>7. QED
  BY <1>1, <1>2, <1>3, <1>4, <1>5, <1>6 DEF CommandStep

\* A replaced provider: nobody is promised a policy while macOS may still
\* install another build.
LEMMA InstallPromise ==
  ASSUME PlatformAssumption, CoordinatorAssumption, RoutingInv, Install,
         UNCHANGED <<coordVars, pc, argVars, conn, mail, shared, prefVars>>
  PROVE  [Promise!Next]_Promise!vars
<1>1. UNCHANGED <<CommandNow, AskedNow, RoutedNow, SessionNow>>
  BY SameFacts DEF SessionNow
<1>2. CASE loaded' = loaded
  BY <1>1, <1>2, SameFacts
<1>3. CASE loaded' # loaded
  <2>1. loaded' = NoPolicy /\ (stale = YES \/ accepted = YES)
    BY <1>3, SMT DEF Install
  <2>2. RoutedNow = NoPolicy
    BY <2>1, RoutedFacts
  <2>3. EnforcedNow' = NoPolicy
    BY <2>1 DEF EnforcedNow
  <2>4. Promise!Replace
    BY <1>1, <2>2, <2>3 DEF Promise!Replace
  <2>5. QED
    BY <2>4 DEF Promise!Next
<1>4. QED
  BY <1>2, <1>3

\* The callbacks of the activation delegate.
LEMMA CallbackPromise ==
  ASSUME PlatformAssumption, CoordinatorAssumption, RoutingInv,
         NEW w \in Workers, UNCHANGED coordVars, Callback(w)
  PROVE  [Promise!Next]_Promise!vars
<1>1. CASE CbFinish(w)
  <2>1. Install /\ UNCHANGED <<coordVars, pc, argVars, mail, shared, prefVars>>
    BY <1>1 DEF CbFinish
  <2>2. UNCHANGED conn
    BY <2>1 DEF Install
  <2>3. QED
    BY <2>1, <2>2, InstallPromise
<1>2. CASE ~CbFinish(w)
  <2>1. UNCHANGED <<coordVars, pc, argVars, conn, loaded, mail, shared, prefVars>>
    BY <1>2, SMT DEF Callback, CbReplace, CbNeedsApproval, CbReboot, CbFail
  <2>2. QED
    BY <2>1, SameFacts
<1>3. QED
  BY <1>1, <1>2

\* What macOS and the user do on their own.
LEMMA PlatformPromise ==
  ASSUME PlatformAssumption, CoordinatorAssumption, RoutingInv,
         UNCHANGED coordVars, PlatformStep
  PROVE  [Promise!Next]_Promise!vars
<1> USE DEF RoutingInv
<1>1. CASE Unseen(TunnelUp)
  <2>1. /\ conn = "connecting" /\ conn' = "connected"
        /\ loaded' = IF shared = NoPolicy THEN stored ELSE shared
        /\ UNCHANGED <<coordVars, pc, argVars, mail, shared, prefVars>>
    BY <1>1, SMT DEF Unseen, TunnelUp
  <2>2. /\ SessionNow = "starting" /\ SessionNow' = "up"
        /\ EnforcedNow' = IF shared = NoPolicy THEN stored ELSE shared
    BY <2>1, SMT DEF SessionNow, EnforcedNow
  <2>3. Promise!Up
    BY <2>1, <2>2, SameFacts DEF Promise!Up
  <2>4. QED
    BY <2>3 DEF Promise!Next
<1>2. CASE Unseen(Reassert \/ Reasserted)
  <2>1. UNCHANGED <<SessionNow, EnforcedNow>>
    BY <1>2, SMT DEF Unseen, Reassert, Reasserted, SessionNow, EnforcedNow
  <2>2. UNCHANGED <<coordVars, pc, argVars, mail, shared, prefVars>>
    BY <1>2, SMT DEF Unseen, Reassert, Reasserted
  <2>3. QED
    BY <2>1, <2>2, SameFacts
<1>3. CASE Unseen(MailArrives)
  <2>1. /\ mail # NoPolicy /\ mail' = NoPolicy
        /\ UNCHANGED <<coordVars, pc, argVars, conn, shared, prefVars>>
        /\ loaded' = loaded \/ (conn = "connected" /\ loaded' = mail)
    BY <1>3, SMT DEF Unseen, MailArrives, Responsive
  <2>2. (SessionNow = "up" /\ EnforcedNow' = mail) \/ UNCHANGED EnforcedNow
    BY <2>1, SMT DEF SessionNow, EnforcedNow
  <2>3. UNCHANGED SessionNow
    BY <2>1 DEF SessionNow
  <2>4. Promise!Arrive
    BY <2>1, <2>2, <2>3, SameFacts DEF Promise!Arrive
  <2>5. QED
    BY <2>4 DEF Promise!Next
<1>4. CASE TunnelDown \/ TunnelLost \/ UserRevokes
  <2>1. /\ conn' = "disconnected"
        /\ UNCHANGED <<coordVars, argVars, mail, shared, prefVars>>
        /\ \A v \in Workers : Touching(v)' <=> Touching(v)
    BY <1>4, SMT DEF TunnelDown, TunnelLost, UserRevokes, SessionOver, SessionEnds
  <2>2. UNCHANGED RoutedNow
    BY <2>1 DEF RoutedNow
  <2>3. QED
    BY <2>1, <2>2, SameFacts, EndPromise
<1>5. CASE UserApproves
  <2>1. Install /\ UNCHANGED <<coordVars, pc, argVars, mail, shared, prefVars>>
    BY <1>5 DEF UserApproves
  <2>2. UNCHANGED conn
    BY <2>1 DEF Install
  <2>3. QED
    BY <2>1, <2>2, InstallPromise
<1>6. CASE PaneAnswer
  BY <1>6, SameFacts DEF PaneAnswer
<1>7. QED
  BY <1>1, <1>2, <1>3, <1>4, <1>5, <1>6 DEF PlatformStep, Unseen

\* A command is entered: a policy is asked for, or a stop.
LEMMA EnterPromise ==
  ASSUME PlatformAssumption, CoordinatorAssumption, RoutingInv,
         NEW w \in Workers, Reconcile(w) \/ Apply(w) \/ Stop(w) \/ Settings(w)
  PROVE  [Promise!Next]_Promise!vars
<1> USE DEF Enter, Acquire, ResetState, RoutingInv, CoordinatorAssumption
<1>1. UNCHANGED <<SessionNow, EnforcedNow, mail, shared, prefVars>>
  BY SMT DEF Reconcile, Apply, Stop, Settings, SessionNow, EnforcedNow
<1>2. CASE Reconcile(w) \/ Apply(w)
  <2>1. CommandNow = "none" /\ CommandNow' = "route"
    BY <1>2, SMT DEF Reconcile, Apply, CommandNow
  <2>2. AskedNow' \in Policies
    BY <1>2, SMT DEF Reconcile, Apply, AskedNow, Probe
  <2>3. RoutedNow' \in {RoutedNow, NoPolicy}
    <3>1. CASE Reconcile(w)
      <4>1. \A v \in Workers : ~Touching(v) /\ ~Touching(v)'
        BY <3>1, SMT DEF Reconcile
      <4>2. QED
        BY <3>1, <4>1 DEF RoutedNow, Reconcile
    <3>2. CASE Apply(w)
      BY <3>2, SMT DEF Apply, RoutedNow
    <3>3. QED
      BY <1>2, <3>1, <3>2
  <2>4. stopped' = NO
    BY <1>2 DEF Reconcile, Apply
  <2>5. Promise!AskRoute
    BY <1>1, <2>1, <2>2, <2>3, <2>4 DEF Promise!AskRoute
  <2>6. QED
    BY <2>5 DEF Promise!Next
<1>3. CASE Stop(w)
  <2>1. CommandNow = "none" /\ CommandNow' = "stop"
    BY <1>3, SMT DEF Stop, CommandNow
  <2>2. AskedNow' = AskedNow
    BY <1>3, SMT DEF Stop, AskedNow
  <2>3. RoutedNow' = NoPolicy /\ UNCHANGED stopped
    BY <1>3, SMT DEF Stop, RoutedNow
  <2>4. Promise!AskStop
    BY <1>1, <2>1, <2>2, <2>3 DEF Promise!AskStop
  <2>5. QED
    BY <2>4 DEF Promise!Next
<1>4. CASE Settings(w)
  <2>1. UNCHANGED <<CommandNow, AskedNow>>
    BY <1>4, SMT DEF Settings, CommandNow, AskedNow
  <2>2. UNCHANGED RoutedNow
    <3>1. \A v \in Workers : Touching(v)' <=> Touching(v)
      BY <1>4, SMT DEF Settings
    <3>2. QED
      BY <1>4, <3>1 DEF Settings, RoutedNow
  <2>3. UNCHANGED stopped
    BY <1>4 DEF Settings
  <2>4. QED
    BY <1>1, <2>1, <2>2, <2>3
<1>5. QED
  BY <1>2, <1>3, <1>4

\* A command is answered, from the cache or after its work.
LEMMA AnswerPromise ==
  ASSUME PlatformAssumption, CoordinatorAssumption, RoutingInv,
         NEW w \in Workers, ReconcileStatus(w) \/ Return(w)
  PROVE  [Promise!Next]_Promise!vars
<1> USE DEF Leave, RoutingInv, CoordinatorAssumption
<1>1. /\ pc[w] \in {"status", "returned"}
      /\ UNCHANGED <<conn, loaded, mail, shared, prefVars>>
      /\ UNCHANGED <<SessionNow, EnforcedNow>>
  BY SameFacts DEF ReconcileStatus, Return
<1>2. CASE ReconcileStatus(w) /\ pc'[w] # "idle"
  <2>1. Quiet(w)
    BY <1>2, SMT DEF ReconcileStatus, GoTo, Quiet
  <2>2. QED
    BY <2>1, QuietPromise
<1>3. CASE lock # w
  <2>1. Return(w) /\ op[w] = "settings"
    BY <1>1, <1>3, SMT DEF ReconcileStatus
  <2>2. UNCHANGED <<lock, active, dirty>> /\ UNCHANGED stopped
    BY <1>3, <2>1, SMT DEF Return
  <2>3. UNCHANGED <<CommandNow, AskedNow>>
    BY <1>3, <2>1, <2>2, SMT DEF Return, CommandNow, AskedNow
  <2>4. \A v \in Workers : Touching(v)' <=> Touching(v)
    BY <2>1, SMT DEF Return
  <2>5. UNCHANGED RoutedNow
    BY <2>2, <2>4 DEF RoutedNow
  <2>6. QED
    BY <1>1, <2>2, <2>3, <2>5
<1>4. CASE lock = w /\ pc'[w] = "idle"
  <2>1. CommandNow # "none" /\ CommandNow' = "none" /\ AskedNow' = NoPolicy
    BY <1>1, <1>4, SMT DEF ReconcileStatus, GoTo, Return, CommandNow, AskedNow
  <2>2. \A v \in Workers : ~Touching(v)'
    BY <1>1, <1>4, SMT DEF ReconcileStatus, GoTo, Return
  <2>3. \/ UNCHANGED stopped
        \/ CommandNow = "stop" /\ enabled = NO /\ stopped' = YES
    BY <1>1, <1>4, SMT DEF ReconcileStatus, Return, CommandNow
  <2>4. \/ RoutedNow' \in {RoutedNow, NoPolicy}
        \/ CommandNow = "route" /\ Promise!Established /\ RoutedNow' = AskedNow
    <3>1. CASE ReconcileStatus(w)
      <4>1. UNCHANGED <<active, dirty>>
        BY <3>1 DEF ReconcileStatus
      <4>2. \A v \in Workers : ~Touching(v)
        BY <1>4, <3>1, SMT DEF ReconcileStatus
      <4>3. QED
        BY <2>2, <4>1, <4>2 DEF RoutedNow
    <3>2. CASE Return(w) /\ op[w] = "reconcile" /\ result[w] = "running"
      <4>1. CommandNow = "route" /\ AskedNow = want[w] /\ Enforced(want[w])
        BY <3>2, CommandFacts DEF Return
      <4>2. conn # "connecting"
        BY <1>1, <3>2 DEF ReconcileStatus, Return
      <4>3. SessionNow # "starting" /\ (SessionNow = "up" => EnforcedNow = want[w])
        BY <4>1, <4>2, SMT DEF SessionNow, EnforcedNow
      <4>4. Promise!Established
        BY <4>1, <4>3 DEF Promise!Established
      <4>5. RoutedNow' = want[w]
        BY <2>2, <3>2 DEF Return, Record, RoutedNow
      <4>6. QED
        BY <4>1, <4>4, <4>5
    <3>3. CASE Return(w) /\ op[w] = "reconcile" /\ result[w] # "running"
      BY <3>3, SMT DEF Return, Record, RoutedNow
    <3>4. CASE Return(w) /\ op[w] # "reconcile"
      <4>1. active = NoPolicy /\ active' = active
        BY <1>4, <3>4, SMT DEF Return
      <4>2. QED
        BY <4>1 DEF RoutedNow
    <3>5. QED
      BY <3>1, <3>2, <3>3, <3>4
  <2>5. Promise!Answer
    BY <1>1, <2>1, <2>3, <2>4 DEF Promise!Answer
  <2>6. QED
    BY <2>5 DEF Promise!Next
<1>5. pc'[w] # "idle" => ReconcileStatus(w)
  BY SMT DEF Return
<1>6. QED
  BY <1>2, <1>3, <1>4, <1>5

\* The status query and the clock change nothing Desktop relies on; a restart
\* ends every promise but that of a stop.
LEMMA RestPromise ==
  ASSUME PlatformAssumption, CoordinatorAssumption, RoutingInv,
         Alone(GetStatus) \/ Tick \/ Restart \/ UNCHANGED vars
  PROVE  [Promise!Next]_Promise!vars
<1>1. CASE Alone(GetStatus) \/ Tick \/ UNCHANGED vars
  <2>1. UNCHANGED <<lock, op, want, pc, active, dirty, stopped, conn, loaded,
                    mail, shared, prefVars>>
    BY <1>1 DEF Alone, GetStatus, Tick
  <2>2. QED
    BY <2>1, SameFacts
<1>2. CASE Restart
  <2>1. CommandNow' = "none" /\ AskedNow' = NoPolicy /\ RoutedNow' = NoPolicy
    BY <1>2 DEF Restart, ResetState, CommandNow, AskedNow, RoutedNow
  <2>2. UNCHANGED <<SessionNow, EnforcedNow>> /\ mail' = NoPolicy
    BY <1>2, SameFacts DEF Restart
  <2>3. Promise!Crash
    BY <1>2, <2>1, <2>2 DEF Promise!Crash, Restart
  <2>4. QED
    BY <2>3 DEF Promise!Next
<1>3. QED
  BY <1>1, <1>2

\* Every step is a step of the promise or none.
LEMMA StepPromise ==
  ASSUME PlatformAssumption, CoordinatorAssumption, RoutingInv, [Next]_vars
  PROVE  [Promise!Next]_Promise!vars
<1>1. CASE \E w \in Workers : Reconcile(w) \/ Apply(w) \/ Stop(w) \/ Settings(w)
  BY <1>1, EnterPromise
<1>2. CASE \E w \in Workers : WorkerStep(w)
  BY <1>2, CommandPromise, AnswerPromise DEF WorkerStep, Alone
<1>3. CASE \E w \in Workers : Alone(Callback(w))
  BY <1>3, CallbackPromise DEF Alone
<1>4. CASE Alone(PlatformStep)
  BY <1>4, PlatformPromise DEF Alone
<1>5. CASE Alone(GetStatus) \/ Tick \/ Restart \/ UNCHANGED vars
  BY <1>5, RestPromise
<1>6. QED
  BY <1>1, <1>2, <1>3, <1>4, <1>5 DEF Next

\* The coordinator over the bridge implements the promise to Desktop: with
\* any number of workers and rules, whatever callbacks, failures, approvals,
\* updates and restarts come between, a policy is promised only once it is
\* saved and in force, and nothing displaces it unseen.
THEOREM KeepsPromise == Spec => ImplementsPromise
<1> HIDE DEF Promise!vars, TypeInv, vars
<1>1. Init => Promise!Init
  BY PlatformAssumption, SMT DEF PlatformAssumption, Init, BridgeInit, PlatformInit, Promise!Init, CommandNow, AskedNow,
         RoutedNow, SessionNow, EnforcedNow, Everyone
<1>2. RoutingInv /\ [Next]_vars => [Promise!Next]_Promise!vars
  BY PlatformAssumption, CoordinatorAssumption, StepPromise
<1>3. QED
  BY <1>1, <1>2, RoutingInvariant, PTL DEF Spec, ImplementsPromise, Promise!Spec

\* What the promise is worth, whoever implements it: a promised policy is
\* saved and in force, and routing that is off stays without a session.
THEOREM PromiseKept == Promise!Spec => []Promise!Kept
<1>1. Promise!Init => Promise!Kept
  BY DEF Promise!Init, Promise!Kept
<1>2. Promise!Kept /\ [Promise!Next]_Promise!vars => Promise!Kept'
  <2> SUFFICES ASSUME Promise!Kept, [Promise!Next]_Promise!vars
               PROVE  Promise!Kept'
    OBVIOUS
  <2> USE DEF Promise!Kept
  <2>1. CASE Promise!AskRoute \/ Promise!AskStop
    BY <2>1, SMT DEF Promise!AskRoute, Promise!AskStop
  <2>2. CASE Promise!Answer
    BY <2>2, SMT DEF Promise!Answer, Promise!Established
  <2>3. CASE Promise!Crash \/ Promise!Withdraw \/ Promise!Tell
    BY <2>3, SMT DEF Promise!Crash, Promise!Withdraw, Promise!Tell
  <2>4. CASE Promise!Save \/ Promise!Start \/ Promise!Disable
    BY <2>4, SMT DEF Promise!Save, Promise!Start, Promise!Disable
  <2>5. CASE Promise!Up \/ Promise!End
    BY <2>5, SMT DEF Promise!Up, Promise!End
  <2>6. CASE Promise!Arrive \/ Promise!Replace
    BY <2>6, SMT DEF Promise!Arrive, Promise!Replace
  <2>7. CASE UNCHANGED Promise!vars
    BY <2>7, SMT
  <2>8. QED
    BY <2>1, <2>2, <2>3, <2>4, <2>5, <2>6, <2>7 DEF Promise!Next
<1>3. QED
  BY <1>1, <1>2, PTL DEF Promise!Spec

\* So the promise is kept here.
THEOREM DesktopMayRely == Spec => []Promise!Kept
<1>1. QED
  BY KeepsPromise, PromiseKept, PTL DEF ImplementsPromise

==============================================================================
