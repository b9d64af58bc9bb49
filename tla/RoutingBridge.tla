---------------------------- MODULE RoutingBridge ----------------------------
(***************************************************************************)
(* native/macos_app_routing.mm: what one bridge command does, one action   *)
(* per asynchronous call it waits for.  A command runs on a libuv worker   *)
(* thread and blocks on a semaphore; delegate callbacks run on the main    *)
(* queue, so everything here may interleave with other workers.            *)
(***************************************************************************)
EXTENDS RoutingPlatform

CONSTANTS Workers     \* worker threads that may be inside a command

VARIABLES
  approvalPending,    \* KBUserApprovalPending, in NSUserDefaults
  replacementPending, \* KBExtensionReplacementPending, in NSUserDefaults
  confirmed,          \* KBExtensionActivationConfirmedThisProcess
  opened,             \* KBApprovalSettingsOpenedThisProcess
  opening,            \* System Settings has been asked to open, no answer yet
  panes,              \* how often it was opened automatically (history)
  pc,                 \* where each worker is
  op,                 \* the command it executes
  want,               \* the configuration of that command
  seen,               \* storedConfiguration it read, while it is asking the provider
  call,               \* what its activation delegate has been told, while it waits
  result              \* state of the response it is about to return

flagVars == <<approvalPending, replacementPending, confirmed>>
paneVars == <<opened, opening, panes>>
workVars == <<pc, op, want, seen, call, result>>
argVars  == <<op, want>>

\* Program points.  The second group is reached only by a worker whose
\* process has completed an activation request.
Waiting    == {"recycleWait", "haltWait"}
Configuring == {"configure", "send", "halt", "haltWait", "reload", "save", "start"}
Activated  == {"check", "gate", "recycle", "recycleWait", "recycled", "after"}
                \cup Configuring
PCs == {"idle", "status", "entry", "open", "activating", "stopLoad", "stopSave",
        "returned"} \cup Activated
Ops == {"none", "reconcile", "apply", "stop", "settings"}

BridgeTypeOK ==
  /\ PlatformTypeOK
  /\ approvalPending \in BOOL /\ replacementPending \in BOOL
  /\ confirmed \in BOOL
  /\ opened \in BOOL /\ opening \in BOOL /\ panes \in 0..2
  /\ pc \in [Workers -> PCs]
  /\ op \in [Workers -> Ops]
  /\ want \in [Workers -> MaybePolicy]
  /\ seen \in [Workers -> MaybePolicy]
  /\ call \in [Workers -> {"none", "submitted", "approval", "finished", "failed"}]
  /\ result \in [Workers -> {"none", "disabled", "starting", "running",
                             "stopping", "error"}]

Everyone(value) == [w \in Workers |-> value]

BridgeInit ==
  /\ PlatformInit
  /\ approvalPending = NO /\ replacementPending = NO /\ confirmed = NO
  /\ opened = NO /\ opening = NO /\ panes = 0
  /\ pc = Everyone("idle") /\ op = Everyone("none")
  /\ want = Everyone(NoPolicy) /\ seen = Everyone(NoPolicy)
  /\ call = Everyone("none") /\ result = Everyone("none")

------------------------------------------------------------------------------
(* Status *)

StatusName ==
  IF conn = "connected" THEN "running"
  ELSE IF conn = "disconnected" THEN "disabled"
  ELSE IF conn = "disconnecting" THEN "stopping" ELSE "starting"

\* KBCurrentStatus, when the manager can be loaded.
CurrentStatus == IF stored = NoPolicy \/ enabled = NO THEN "disabled" ELSE StatusName

\* KBCurrentStatus and KBInvoke both drop the approval notice once running.
NoticeAfter(state) == Bool(approvalPending = YES /\ state # "running")

\* get_macos_application_routing_status: takes no lock.
GetStatus ==
  /\ approvalPending' = NoticeAfter(CurrentStatus)
  /\ UNCHANGED <<sysVars, replacementPending, confirmed, paneVars, workVars>>

------------------------------------------------------------------------------
(* Control flow of a worker *)

GoTo(w, target) ==
  /\ pc' = [pc EXCEPT ![w] = target]
  /\ UNCHANGED <<argVars, result>>

\* The response is built; the activation delegate dies with its request.
Answer(w, state) ==
  /\ pc' = [pc EXCEPT ![w] = "returned"]
  /\ result' = [result EXCEPT ![w] = state]
  /\ seen' = [seen EXCEPT ![w] = NoPolicy]
  /\ call' = [call EXCEPT ![w] = "none"]
  /\ UNCHANGED argVars

\* The tail of KBInvoke.
Respond(w, state) ==
  /\ Answer(w, state)
  /\ approvalPending' = NoticeAfter(state)
  /\ UNCHANGED <<replacementPending, confirmed, paneVars>>

\* A nil state: KBInvoke returns the error it was given and changes nothing.
FailWith(w) ==
  /\ Answer(w, "error")
  /\ UNCHANGED <<approvalPending, replacementPending, paneVars>>

Fails(w) == FailWith(w) /\ UNCHANGED confirmed

\* Mutant: the exchange is dropped and every caller opens the pane.
OpenPaneEveryTime ==
  opened' = YES /\ opening' = YES /\ panes' = panes + 1

\* KBOpenApprovalSettingsOnce: the atomic exchange lets one caller through.
OpenPaneOnce ==
  /\ opened' = YES
  /\ opening' = Bool(opening = YES \/ opened = NO)
  /\ panes' = IF opened = YES THEN panes ELSE panes + 1

\* Mutant: the completion handler resets the flag on success, too.
PaneAnswerAlwaysResets ==
  /\ opening = YES
  /\ opening' = NO /\ opened' = NO
  /\ UNCHANGED <<panes, sysVars, flagVars, workVars>>

\* Completion of KBOpenSystemSettingsAsync; a failure may be retried.
PaneAnswer ==
  /\ opening = YES
  /\ opening' = NO
  /\ \/ UNCHANGED <<opened, panes>>
     \/ Fault /\ opened' = NO /\ panes' = panes - 1
  /\ UNCHANGED <<sysVars, flagVars, workVars>>

------------------------------------------------------------------------------
(* Activation delegate, called on the main queue while the worker waits *)

AwaitingReply(w) == pc[w] = "activating" /\ call[w] \in {"submitted", "approval"}

\* actionForReplacingExtension
CbReplace(w) ==
  /\ AwaitingReply(w)
  /\ ext # "absent" /\ current = NO /\ accepted = NO
  /\ accepted' = YES
  /\ replacementPending' = YES
  /\ UNCHANGED <<ext, current, sessVars, mail, prefVars, shared, calm,
                 approvalPending, confirmed, paneVars, workVars>>

\* requestNeedsUserApproval
CbNeedsApproval(w) ==
  /\ AwaitingReply(w) /\ call[w] = "submitted"
  /\ ext # "enabled" \/ accepted = YES
  /\ ext = "absent" \/ current = YES \/ accepted = YES
  /\ ext' = IF ext = "absent" THEN "awaiting" ELSE ext
  /\ current' = Bool(current = YES \/ ext = "absent")
  /\ call' = [call EXCEPT ![w] = "approval"]
  /\ approvalPending' = YES
  /\ OpenPaneOnce
  /\ UNCHANGED <<accepted, sessVars, mail, prefVars, shared, calm,
                 replacementPending, confirmed, pc, argVars, seen, result>>

\* didFinishWithResult: completed.
CbFinish(w) ==
  /\ AwaitingReply(w)
  /\ ext = "absent" \/ current = YES \/ accepted = YES
  /\ Install
  /\ call' = [call EXCEPT ![w] = "finished"]
  /\ approvalPending' = NO
  /\ UNCHANGED <<mail, prefVars, shared, calm, replacementPending, confirmed,
                 paneVars, pc, argVars, seen, result>>

\* didFinishWithResult: completes only after a reboot.
CbReboot(w) ==
  /\ Fault /\ AwaitingReply(w)
  /\ call' = [call EXCEPT ![w] = "failed"]
  /\ approvalPending' = NO
  /\ UNCHANGED <<sysVars, replacementPending, confirmed, paneVars, pc, argVars, seen, result>>

\* didFailWithError; after an approval request the worker looks at that first.
CbFail(w) ==
  /\ Fault /\ AwaitingReply(w) /\ call[w] = "submitted"
  /\ call' = [call EXCEPT ![w] = "failed"]
  /\ UNCHANGED <<sysVars, flagVars, paneVars, pc, argVars, seen, result>>

------------------------------------------------------------------------------
(* The user and the platform, between callbacks *)

\* Consent given in System Settings after the worker stopped listening: the
\* delegate is weakly held, so its didFinish callback may or may not arrive.
UserApproves ==
  /\ accepted = YES \/ (ext \in {"awaiting", "revoked"} /\ current = YES)
  /\ Install
  /\ UNCHANGED approvalPending \/ approvalPending' = NO
  /\ UNCHANGED <<mail, prefVars, shared, calm, replacementPending, confirmed,
                 paneVars, workVars>>

\* Whoever waits in KBStopManagerConnection is notified.
SessionOver ==
  /\ SessionEnds
  /\ pc' = [w \in Workers |-> CASE pc[w] = "recycleWait" -> "recycled"
                                [] pc[w] = "haltWait" -> "reload"
                                [] OTHER -> pc[w]]
  /\ UNCHANGED <<mail, prefVars, shared, calm, flagVars, paneVars,
                 argVars, seen, call, result>>

TunnelDown ==
  /\ conn = "disconnecting"
  /\ SessionOver
  /\ UNCHANGED extVars

TunnelLost ==
  /\ Fault
  /\ conn \in {"connecting", "connected", "reasserting"}
  /\ SessionOver
  /\ UNCHANGED extVars

\* The user turns the extension off in System Settings.
UserRevokes ==
  /\ Fault
  /\ ext = "enabled"
  /\ ext' = "revoked"
  /\ SessionOver
  /\ UNCHANGED <<current, accepted>>

\* Steps of the platform no bridge code is told of.
Unseen(step) == step /\ UNCHANGED <<flagVars, paneVars, workVars>>

------------------------------------------------------------------------------
(* KBActivateExtension and KBCheckExtensionEnabled *)

\* Mutant: the command goes on without waiting for the request.
SubmitWithoutWaiting(w) == GoTo(w, "gate") /\ UNCHANGED call

\* submitRequest
SubmitActivation(w) ==
  /\ GoTo(w, "activating")
  /\ call' = [call EXCEPT ![w] = "submitted"]

\* The 30 second wait is over, one way or the other.
ActivationAnswer(w) ==
  /\ pc[w] = "activating"
  /\ \/ /\ call[w] = "submitted" /\ Fault     \* timed out: nothing is recorded
        /\ Fails(w)
     \/ /\ call[w] = "approval"
        /\ confirmed' = NO
        /\ approvalPending' = YES
        /\ Answer(w, "starting")
        /\ UNCHANGED <<replacementPending, paneVars>>
     \/ /\ call[w] = "failed"
        /\ confirmed' = NO
        /\ FailWith(w)
     \/ /\ call[w] = "finished"
        /\ GoTo(w, "check")
        /\ call' = [call EXCEPT ![w] = "none"]
        /\ UNCHANGED <<flagVars, paneVars, seen>>
  /\ UNCHANGED sysVars

\* What the properties request says of the registered extension.
ApprovalRequired == ext # "enabled" \/ accepted = YES

CheckExtensionEnabled(w) ==
  /\ pc[w] = "check"
  /\ \/ /\ Fault
        /\ confirmed' = NO
        /\ FailWith(w)
     \/ /\ ApprovalRequired
        /\ confirmed' = NO
        /\ approvalPending' = YES
        /\ OpenPaneOnce
        /\ Answer(w, "starting")
        /\ UNCHANGED replacementPending
     \/ /\ ~ApprovalRequired
        /\ confirmed' = YES
        /\ approvalPending' = NO
        /\ GoTo(w, "gate")
        /\ UNCHANGED <<replacementPending, paneVars, seen, call>>
  /\ UNCHANGED sysVars

------------------------------------------------------------------------------
(* KBInvoke: apply and open-settings up to the recycled tunnel *)

\* Mutant: no new request is submitted while the approval notice stands.
ApplyEntryWaits(w) ==
  /\ pc[w] = "entry"
  /\ \/ Fault /\ Fails(w)
     \/ LET existing == CurrentStatus
            pending  == NoticeAfter(existing)
        IN /\ approvalPending' = pending
           /\ IF pending = NO /\ (confirmed = NO \/ existing = "disabled")
              THEN SubmitActivation(w)
              ELSE GoTo(w, "gate") /\ UNCHANGED call
           /\ UNCHANGED <<replacementPending, confirmed, paneVars, seen>>
  /\ UNCHANGED sysVars

\* The apply command reads the session state and decides whether this process
\* still has to submit an activation request.
ApplyEntry(w) ==
  /\ pc[w] = "entry"
  /\ \/ Fault /\ Fails(w)
     \/ LET existing == CurrentStatus
            pending  == NoticeAfter(existing)
        IN /\ approvalPending' = pending
           /\ IF confirmed = NO \/ pending = YES \/ existing = "disabled"
              THEN SubmitActivation(w)
              ELSE GoTo(w, "gate") /\ UNCHANGED call
           /\ UNCHANGED <<replacementPending, confirmed, paneVars, seen>>
  /\ UNCHANGED sysVars

OpenSettings(w) ==
  /\ pc[w] = "open"
  /\ \/ Fault /\ Fails(w)
     \/ /\ SubmitActivation(w)
        /\ UNCHANGED <<flagVars, paneVars, seen>>
  /\ UNCHANGED sysVars

\* Where a command goes on once no replaced session is left.
NextStage(w) == IF op[w] = "settings" THEN "after" ELSE "configure"

\* Mutant: a pending replacement is not looked at.
GateWithoutRecycle(w) ==
  /\ pc[w] = "gate" /\ approvalPending = NO
  /\ GoTo(w, NextStage(w))
  /\ UNCHANGED <<sysVars, flagVars, paneVars, seen, call>>

Gate(w) ==
  /\ pc[w] = "gate"
  /\ \/ approvalPending = YES /\ Respond(w, "starting")
     \/ /\ approvalPending = NO
        /\ GoTo(w, IF replacementPending = YES THEN "recycle" ELSE NextStage(w))
        /\ UNCHANGED <<flagVars, paneVars, seen, call>>
  /\ UNCHANGED sysVars

\* Mutant: the flag is cleared when the stop is requested.
RecycleForgets(w) ==
  /\ pc[w] = "recycle" /\ conn # "disconnected"
  /\ StopTunnel
  /\ replacementPending' = NO
  /\ GoTo(w, "recycleWait")
  /\ UNCHANGED <<extVars, mail, prefVars, shared, calm, approvalPending, confirmed,
                 paneVars, seen, call>>

\* KBRecycleManagerAfterExtensionReplacement up to the stop request.
Recycle(w) ==
  /\ pc[w] = "recycle"
  /\ \/ Fault /\ Fails(w) /\ UNCHANGED sessVars
     \/ /\ \/ replacementPending = NO /\ GoTo(w, NextStage(w)) /\ UNCHANGED sessVars
           \/ /\ replacementPending = YES
              /\ stored = NoPolicy \/ conn = "disconnected"
              /\ GoTo(w, "recycled") /\ UNCHANGED sessVars
           \/ /\ replacementPending = YES
              /\ stored # NoPolicy /\ conn # "disconnected"
              /\ GoTo(w, "recycleWait") /\ StopTunnel
        /\ UNCHANGED <<flagVars, paneVars, seen, call>>
  /\ UNCHANGED <<extVars, mail, prefVars, shared, calm>>

\* Only now is the replacement done with.
Recycled(w) ==
  /\ pc[w] = "recycled"
  /\ replacementPending' = NO
  /\ GoTo(w, NextStage(w))
  /\ UNCHANGED <<sysVars, approvalPending, confirmed, paneVars, seen, call>>

\* KBStopManagerConnection gives up after 15 seconds.
StopTimesOut(w) ==
  /\ Fault /\ pc[w] \in Waiting
  /\ Fails(w)
  /\ UNCHANGED sysVars

\* open-settings ends with the current status.
SettingsStatus(w) ==
  /\ pc[w] = "after"
  /\ \/ Fault /\ Fails(w)
     \/ Respond(w, CurrentStatus)
  /\ UNCHANGED sysVars

------------------------------------------------------------------------------
(* KBApply *)

LoadManager(w) ==
  /\ pc[w] = "configure"
  /\ \/ Fault /\ Fails(w)
     \/ StatusName \in {"starting", "stopping"} /\ Respond(w, "starting")
     \/ /\ StatusName \notin {"starting", "stopping"}
        /\ \/ /\ conn = "connected" /\ GoTo(w, "send")
              /\ seen' = [seen EXCEPT ![w] = stored]
           \/ conn # "connected" /\ GoTo(w, "save") /\ UNCHANGED seen
        /\ UNCHANGED <<flagVars, paneVars, call>>
  /\ UNCHANGED sysVars

\* What the manager had stored was only of interest until the provider answered.
Asked(w, target) ==
  /\ GoTo(w, target)
  /\ seen' = [seen EXCEPT ![w] = NoPolicy]
  /\ UNCHANGED <<flagVars, paneVars, call>>

\* KBSendConfiguration, its three attempts together.  The main queue delivers
\* messages in order, so an answer means no older message is still queued.
SendConfiguration(w) ==
  /\ pc[w] = "send"
  /\ \/ /\ Responsive /\ mail = NoPolicy               \* acknowledged
        /\ loaded' = want[w]
        /\ UNCHANGED mail
        /\ \/ seen[w] = want[w] /\ Respond(w, "running")
           \/ /\ seen[w] # want[w] /\ Asked(w, "save")
     \/ /\ Fault /\ Responsive /\ mail = NoPolicy      \* rejected
        /\ Fails(w)
        /\ UNCHANGED <<loaded, mail>>
     \/ /\ Fault \/ ~Responsive                        \* never acknowledged
        /\ loaded' \in IF Responsive THEN {loaded, want[w]} ELSE {loaded}
        /\ mail' \in IF mail = NoPolicy THEN {NoPolicy, want[w]} ELSE {mail}
        /\ Asked(w, "halt")
  /\ UNCHANGED <<extVars, conn, stale, prefVars, shared, calm>>

\* A transport failure is repaired by recycling the tunnel.
Halt(w) ==
  /\ pc[w] = "halt"
  /\ \/ conn = "disconnected" /\ GoTo(w, "reload") /\ UNCHANGED sessVars
     \/ conn # "disconnected" /\ GoTo(w, "haltWait") /\ StopTunnel
  /\ UNCHANGED <<extVars, mail, prefVars, shared, calm, flagVars, paneVars, seen, call>>

ReloadManager(w) ==
  /\ pc[w] = "reload"
  /\ \/ Fault /\ Fails(w)
     \/ GoTo(w, "save") /\ UNCHANGED <<flagVars, paneVars, seen, call>>
  /\ UNCHANGED sysVars

\* KBSaveManager may fail before or after the preferences are written.
SaveManager(w) ==
  /\ pc[w] = "save"
  /\ \/ Fault /\ Fails(w) /\ UNCHANGED prefVars
     \/ /\ stored' = want[w] /\ enabled' = YES
        /\ \/ Fault /\ Fails(w)
           \/ GoTo(w, "start") /\ UNCHANGED <<flagVars, paneVars, seen, call>>
  /\ UNCHANGED <<extVars, sessVars, mail, shared, calm>>

\* KBClearSharedPolicy: without a container URL it returns, and the errors of
\* the removals are ignored, so the start may go on with the envelope in place.
ClearSharedPolicy == shared' \in {NoPolicy, shared}

StartTunnel(w) ==
  /\ pc[w] = "start"
  /\ \/ /\ conn = "disconnected"
        /\ ClearSharedPolicy
        /\ \/ /\ ext = "enabled"
              /\ conn' = "connecting"
              /\ Respond(w, "starting")
           \/ /\ Fault \/ ext # "enabled"
              /\ Fails(w) /\ UNCHANGED conn
     \/ /\ conn # "disconnected"
        /\ Respond(w, StatusName)
        /\ UNCHANGED <<conn, shared>>
  /\ UNCHANGED <<extVars, stale, loaded, mail, prefVars, calm>>

------------------------------------------------------------------------------
(* KBStop *)

StopLoad(w) ==
  /\ pc[w] = "stopLoad"
  /\ \/ Fault /\ Fails(w) /\ UNCHANGED sessVars
     \/ stored = NoPolicy /\ Respond(w, "disabled") /\ UNCHANGED sessVars
     \/ /\ stored # NoPolicy
        /\ StopTunnel
        /\ GoTo(w, "stopSave")
        /\ UNCHANGED <<flagVars, paneVars, seen, call>>
  /\ UNCHANGED <<extVars, mail, prefVars, shared, calm>>

StopSave(w) ==
  /\ pc[w] = "stopSave"
  /\ \/ Fault /\ Fails(w) /\ UNCHANGED enabled
     \/ Fault /\ Fails(w) /\ enabled' = NO
     \/ enabled' = NO /\ Respond(w, "disabled")
  /\ UNCHANGED <<extVars, sessVars, mail, stored, shared, calm>>

Callback(w) == CbReplace(w) \/ CbNeedsApproval(w) \/ CbFinish(w) \/ CbReboot(w) \/ CbFail(w)

CommandStep(w) ==
  \/ ActivationAnswer(w) \/ CheckExtensionEnabled(w)
  \/ ApplyEntry(w) \/ OpenSettings(w) \/ Gate(w)
  \/ Recycle(w) \/ Recycled(w) \/ StopTimesOut(w) \/ SettingsStatus(w)
  \/ LoadManager(w) \/ SendConfiguration(w) \/ Halt(w) \/ ReloadManager(w)
  \/ SaveManager(w) \/ StartTunnel(w)
  \/ StopLoad(w) \/ StopSave(w)

PlatformStep ==
  \/ Unseen(TunnelUp \/ Reassert \/ Reasserted \/ MailArrives)
  \/ TunnelDown \/ TunnelLost \/ UserRevokes \/ UserApproves \/ PaneAnswer

==============================================================================
