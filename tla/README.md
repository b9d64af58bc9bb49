# kokorobox-native: a TLA+ development

KokoroBox Native is the Rust, Objective-C++ and JavaScript code under the KokoroBox desktop program:
a library of operating-system services (`src/src`), its Node binding (`src/napi`), a small process that
shows traffic in the taskbar (`src/traffic-presenter`) and an updater (`src/portable-updater`). Most of
it is stateless calls of the operating system. What can go wrong lies where several such calls make up
one operation: calls run on libuv's worker threads at the same time, the operating system reports
late, the user, Explorer or a killed process intervenes between two steps, and some state (a file, a
credential, a saved manager, a persistent flag) outlives the program. These modules are about that.

Paths below are those of the source tree (`src/` in front of the repository's own paths); line numbers
in the modules' comments are of the file the module names, `mm` being `native/macos_app_routing.mm` and
`rs` being `src/macos_app_routing.rs`.

## 1. Inventory

| Component | State | Operations | Hard behaviour | What makes it correct | Model |
|---|---|---|---|---|---|
| macOS application routing (`macos_app_routing.rs`, `native/macos_app_routing.mm`) | mutex with the active policy and the time of the last health check; process flags (activation confirmed, pane opened); flags in the user defaults (approval, replacement pending); saved manager; App Group policy file | reconcile, apply, stop, status, open settings | calls on several workers; callbacks of the activation delegate; approval that takes days; a replaced provider whose session still looks connected; provider messages that time out and arrive later; restart and update of the program | no replaced session is taken for a working one; stop holds; a policy counts as active only when it is enforced; in the end the desired policy is | `Routing*` |
| Core stop (`core_process.rs`) | none of its own: the process table | stop(identity) | the id is reused between check and signal; two stops at once; timeout against exit | no other process is signalled; "stopped" means gone | `CoreStop` |
| Bounded commands (`core_validation.rs`, `linux_system_proxy.rs`, `system_dns.rs`, the shell of `privileged_operations.rs`) | a child, its pipes, a deadline | validate, read proxy and DNS settings, run as administrator | child exit, end of output, excess and deadline in any order; processes the child leaves behind | every answer is justified and none is taken back; the call ends and leaves no child | `BoundedRun`, `Verdict` |
| Traffic presenter, Windows (`traffic-presenter/src/platform/windows.rs`, `lib.rs`) | state shared by two threads; two window handles; message queue | one command per line of standard input; refresh, timer, paint, destroy | Explorer crashes between any two calls; full queue; end of the input | one window, in the right coordinates, showing the last command, gone with the input | `Presenter` |
| Service identity (`service_identity.rs`) | key in the credential store, in a fallback file (Linux) or handed over from an older version | open, delete | store out of reach; crash between two stores; two opens at once | the key the service trusts is never lost or needlessly replaced; deleted means gone | `Identity` |
| System proxy, macOS (`macos_system_proxy.rs`) | the preferences of the network services, and what of them is in force | set: transaction, or the administrator's shell | others edit and rearrange services; commit without apply; a shell that ends half way | success means every target is set; another's PAC survives | `MacProxy` |
| System proxy, Windows (`windows/system_proxy.rs`) | values in the registry, and those running programs use | set (write, two notifications), diagnose | write without notification; other writers between two reads | an answer nobody disturbed is true | `WindowsProxy` |
| Terminal proxy (`terminal_proxy.rs`) | a file in environment.d, the user manager's environment | set, clear | two stores, two workers, a manager that does not answer | the session follows the file; a foreign file is not touched | `TerminalProxy` |
| Launch at login (`platform.rs`) | desktop entry, SMAppService registration, or Run value and a legacy task | get, set | migration in steps; a refused prompt; a shared temporary file | the answer is so; no half written entry; no second way of being started | `LoginEntry` |
| Network context (`platform.rs`) | what each waiting caller was told last | wait for a change | polling in several reads; more waits than workers | every caller comes to know the network | `NetworkWait` |
| Core privileges, privileged operations (`privileges.rs`, `privileged_operations.rs`) | owner and mode of the files | grant, revoke; repair, remove the legacy service, run the service program | two prompts with time between; a chain of commands that stops; jobs at once; files replaced meanwhile | a set-user-ID bit only on what root owns; an answer is true | `Administrator` |
| macOS managed service (`macos_service.rs`) | the registration of the LaunchDaemon | register, unregister, reload | a second step that fails after the first; the user in System Settings | no half-done state is reported as done | `ManagedService` |
| Windows firewall, UWP loopback (`windows/firewall.rs`, `windows/uwp_loopback.rs`) | rules; a list written whole | ensure the rules; change one exemption | other processes between two steps | ensured rules are there; other exemptions stay | `Firewall`, `Loopback` |
| Portable updater (`portable-updater/src/main.rs`) | the program's directory | wait, extract, start | reused process id; extraction that fails half way; the user starts the program | nothing is replaced under Desktop, nothing half extracted is started | `PortableUpdater` |
| Presenter on Linux and macOS, JavaScript diagnostics | a state and a tray item; a bounded list | one command after the other | none: a single thread each | | not modelled (section 8) |
| Elevation, tokens, status queries, discovery, icons, parsing, binding, logging | none | queries and conversions | none beyond the operating system's answers | | not modelled (section 8) |

How they interact: Desktop calls the binding; most calls become a task on a libuv worker and enter the
library, some (service registration, firewall, loopback) run on Node's own thread. Library components do
not call each other except through small helpers (`shell_quote`, the bounded administrator's shell). They
meet in the operating system: routing probes the SOCKS listener on port 7891 before it sends a policy
that needs it, the proxy of macOS falls back on the administrator's shell, several components work with
the core program, and waits for a network change share libuv's workers with everything else. Desktop
starts the presenter and the updater as processes, the first with a stream of JSON lines on its standard
input, the second with a process id to wait for. `PROJECT.json` lists every component with its status,
and under `hazards` the places in the code that this development is about, each with the properties that
cover it.

## 2. Modules

| Module | What it is |
|---|---|
| `RoutingPlatform` | The part of macOS that routing relies on: registered extension, session, saved manager, App Group file, undelivered message. External code, modelled from its use. |
| `RoutingBridge` | `native/macos_app_routing.mm`: one action per blocking call of a worker and per delegate callback. |
| `RoutingCoordinator` | `src/macos_app_routing.rs` on top: mutex, cache, commands, restart; specification, properties, fairness. |
| `RoutingPromise` | What Desktop may rely on when it routes applications, without workers, callbacks, approvals, cache or files: the abstract specification. |
| `RoutingInvariants` | The inductive invariants, and the mapping under which coordinator, bridge and macOS implement `RoutingPromise`. |
| `RoutingProofs` | Theorems on types, pane, replacement, mutex, stop and policy, and on the promise. |
| `MCRouting` | Instance for TLC. |
| `CoreStop`, `CoreProofs`, `MCCoreStop` | Core stop on three systems. |
| `Verdict` | What a caller may conclude from the answer about a program it had run, without threads, pipes or polling: the abstract specification. |
| `BoundedRun`, `BoundedRunProofs` | The run itself, in the forms the code has; it implements `Verdict`. |
| `Presenter`, `PresenterProofs`, `MCPresenter` | The Windows presenter. |
| `Identity`, `IdentityProofs`, `MCIdentity` | The service identity. |
| `MacProxy`, `MacProxyProofs`, `MCMacProxy` | The system proxy of macOS. |
| `Desktop` | What the remaining components have in common: calls on workers, operating systems. |
| `LoginEntry`, `TerminalProxy`, `NetworkWait` | Settings of the user's session. |
| `MCUserSettings`, `UserSettingsProofs` | The three for TLC, and theorems about them. |
| `Administrator`, `ManagedService`, `Firewall`, `Loopback`, `WindowsProxy`, `PortableUpdater` | Changes of the whole system in several steps. |
| `MCSystemChanges`, `SystemChangesProofs` | The six for TLC, and theorems about them. |

Each module EXTENDS the one it builds on; a component's proofs are in a module of their own; the values
of the constants are in the `.cfg` files. `MCUserSettings` and `MCSystemChanges` are more than instances:
their components share no state, so a variable `scene` says which one runs while the others rest in one
of their own initial (in one case, converged) states, and TLC sees the sum of the state spaces and not
their product. Beside an action stand its
mutated forms, marked "Mutant:" and used by no specification: each is a plausible mistake in that piece
of code (a dropped check, a swapped order), and with it in place TLC finds the property named in
`PROJECT.json` violated. They show that the property can fail.

Flags are `"YES"`/`"NO"` rather than BOOLEAN, and program points strings: the translation of tlapm 1.4.5
to the SMT solver loses equations between Boolean-valued state variables. For the same reason records
are built whole instead of by an EXCEPT on several fields where a proof is about them.

### Routing

*State.* `ext`, `current`, `accepted`, `conn`, `stale`, `loaded`, `mail`, `stored`, `enabled`, `shared`
are macOS's; `approvalPending` and `replacementPending` the flags in the user defaults; `confirmed`,
`opened` the flags of the process; `lock`, `active`, `fresh` the coordinator's; `pc`, `op`, `want`,
`seen`, `call`, `result` each worker's. `panes`, `dirty` and `stopped` are history variables for properties.

*Actions.* A command enters (`Reconcile`, `Apply`, `Stop`, `Settings`; `GetStatus` is one step), runs
through the program points of `KBInvoke`, `KBActivateExtension`, `KBCheckExtensionEnabled`,
`KBRecycleManagerAfterExtensionReplacement`, `KBApply` and `KBStop`, and returns (`Return`). Callbacks
(`Cb...`), the user (`UserApproves`, `UserRevokes`) and macOS (`TunnelUp`, `TunnelDown`, ...) act
between any two steps. `Restart` kills the program and may install another build.

*Choices that a reader should know.*
- A policy is a rule set and the outcome of the listener probe; the rest of the wire format is constant.
- A command that fails for a reason outside the program (a timeout, an error, a crash) is a `Fault`,
  possible at every step until `calm`.
- The three attempts of `KBSendConfiguration` are one step with the outcomes acknowledged, rejected, and
  not acknowledged, in the last of which the message may or may not have been taken, or still be queued
  (`mail`). One slot suffices: messages go out in the order of the main queue, and later ones follow it.
- The local variable `restartTunnel` is subsumed by the persistent flag set with it.
- An activation delegate is weakly held, so what macOS tells it after the worker has given up may be
  lost: `UserApproves` has both outcomes.
- A file in the App Group container (`shared`) takes precedence over the saved configuration when a
  provider starts, as the comment at `mm` 572-574 says. `KBClearSharedPolicy` is to remove it before a cold
  start, but returns without a word when the container has no URL, and ignores the errors of both
  removals (513-519), and the start goes on: `ClearSharedPolicy` leaves it either way, and the provider
  that comes up then loads it. `Leftovers` is what may lie there when the model begins.
- What a worker has read and needs no more is forgotten (`seen`, `call`), so that states which differ in
  nothing that matters are one.
- The user starts no session by hand. The error branch of `KBStatusName` is unreachable for the statuses
  there are.
- `KBValidateConfiguration` and the log commands change no state and are left out.

*The promise.* `RoutingPromise` has one command at a time (none, route, stop), the policy asked for and
the one promised, whether Desktop was told that routing is off, what is saved and whether a session may
be started, a session (down, starting, up, ending) with the policy in force, a message on its way, and the
policy an earlier session has left. A session that comes up is not promised to be in force with what was
saved: it has what was left, if a start has not removed it, and what was saved otherwise. What is promised
is that this makes nobody believe anything: while a session starts no policy counts as promised.
`Tell`, `Save`, `Start` and `Disable` are what a command may do to a session, `Up`, `End`, `Arrive` and
`Replace` what may happen to it, `Answer` what a command may say: a policy may be promised only when it is
saved and, in a session that is up, in force, with nothing on its way that could displace it. The mapping
(`RoutingInvariants`) takes the command from the holder of the mutex, the session from macOS's status and
the promise from the cache, which counts only until a command touches what it speaks of or has failed on
it. The whole life of extension, approval, flags, pane and callbacks maps to stuttering, except that a
replacement may take the policy out of force. After a restart nothing is promised, while session and
manager go on.

### Core stop

One process id and the processes that hold it in turn, the target first. `platform` is chosen at the
start. Inspections take two steps where the code makes two system calls that may speak of different
processes; on Linux owner and path are one step, the creation time the other. `InspectFirst` and its
successors serve every inspection; `stage` says which one it is. System calls that fail for another
reason end the call with `failed`.

### Presenter

`reader` is the thread that reads standard input, `ui` the window thread, `Explorer` the taskbar's owner.
Every call of a refresh is a step: find the taskbar, ensure the window, attach, place, show. `queue`
holds the messages of the controller window; a message is dropped when it is full, as `PostMessageW`
does, whose result the code ignores. WM_TIMER and WM_PAINT come after posted messages. WM_DESTROY of a
window that went with its taskbar arrives whenever the thread is in a call of the system. Attachment is
one step with the outcomes attached, refused and undone, and window gone; that the change of style alone
fails silently, handles that Windows reuses, the mutex that makes a second presenter exit at once, theme
and geometry are left out. While there is no taskbar the code touches no window, so nothing is claimed
of what is shown then.

### Identity

Two stores, `keyring` and `fallback`, with `reachable` changing at any time and failing file operations;
a crash between any two steps. `platform = "other"` is Windows and macOS, which have no fallback file.
`last` is the key the application was given last by a call that no other overlapped, `alone` the calls
of which that is true. The code does not serialise calls. Two overlapping first opens may return
different keys, one of which is not kept; and on Linux an open that found the store empty, and looks
for the file only after another open has moved the key from the file to the store, makes a new key and
overwrites the moved one (206, 226, 251). So `IdentityKept`, `NoNeedlessKey` and `DeletedMeansGone` speak of calls
that nothing overlaps, though the other caller may have left anything behind, and `StoredKeyStays` says what
holds of calls that do overlap: the loss is confined to keys not yet in the store. Three more things the
model shows the code to do: a temporary file left by a crash makes later fallback writes of the same process id
fail, and stays after a delete; a delete on Linux with the store out of reach leaves the credential
there; a fallback file is removed only when its key has just been moved to the store. Files edited or
credentials corrupted from outside are not modelled.

### Bounded runs

The caller polls the program (`LookValidation`, `LookCommand`, `LookShell`), its messages (`Drain`,
`Collect`) and the clock, in the order of the code; a reader thread per pipe counts what it collects; the
program writes to pipes that can be full, ends, fails, or leaves an heir that keeps them open. Output is
counted in chunks, of which a pipe holds `PipeSize` and a reader accepts `Limit`. The form decides which
pipes there are and what ends the call: validation needs the end of the program and of both pipes and
takes all messages first; a command answers a failure at once and gives the rest of its time to the
reader; the shell has no pipe. `sound` marks a program that writes, ends and leaves no heir.

`Verdict` has four variables: the program (running, succeeded, failed, killed), its output (open, whole,
excessive), the time and the answer. Program, output and time move by themselves; an answer is given
once, and only when they justify it. `ImplementsVerdict` maps the threads, pipes and polls to it.

### The proxy of macOS

`saved` are the preferences, `inForce` what configd uses. A call lists services, locks, writes all
targets, commits and applies, or, refused the permission, has a shell run one `networksetup` per setting:
`script` is the set of commands still to run, of which those of one service run first, its proxies before
the rest (`Due`). Whether the program has that permission is decided once, and found when it locks. Other
programs edit under the same lock and rearrange services. `disturbed` is the history the main property
needs: the services somebody else changed since a call began.

### Settings of the user's session

`LoginEntry` has one state per system (`entry` and, on Windows, `task`); `sure` and `raced` are history:
whether a call was alone, and whether two wrote the temporary file at once. `TerminalProxy` keeps the
file, what the present session and its manager have, and what each call has looked at; `NetworkWait` the
network, libuv's queue, and for every call what it has read of the network so far. The timeout may pass
at any time after a worker has taken the wait.

### Changes of the whole system

In `Administrator` a job is its list of commands, each of which changes its files one at a time; who asks
before a command is part of the list (pkexec twice for a grant, osascript once). It covers Linux and
macOS, and core files are never the managed ones. A killed program leaves what a declined prompt leaves,
so `Decline` stands for both; what the service program itself does is not modelled, only that it
touches none of these files. `ManagedService`, `Firewall` and `Loopback` run on Node's thread, so
their "callers" are other processes and the user. In `Firewall` a removal may leave any of a name's rules,
and its failure is ignored, as in the code; the rules are spoken of only when calls that
overlapped have all ended well. `WindowsProxy` leaves out the bypass list, which is written
and read like the server. `PortableUpdater` keeps who holds Desktop's process id, which files are old, and
whether the running application was started from a mixture.

## 3. Runs

| Run | Instance | What it shows |
|---|---|---|
| `routing_safety` | two workers, one rule set with both outcomes of the probe, an old policy left in the container or none; all faults at all times; states that differ in the pane alone counted once | replaced sessions, approval, enforcement, and the refinement `ImplementsPromise` (stop, promises): 890,000 states |
| `routing_pane` | the same commands with the pane's state, nothing left in the container at first | types, `PaneOpensOnce`: 1.3 million states |
| `routing_live` | one worker, an old policy left in the container, `LiveSpec` | `DesiredPolicyEnforced` |
| `routing_stale` | one worker, an old policy left in the container | `CachedAnswerTrue` is violated (section 6) |
| `bounded_run` | three forms, programs that write up to four chunks to each pipe, hang, fail or leave an heir | `NoChildLeft`, `RunEnds`, and the refinement `ImplementsVerdict` |
| `core_stop` | two callers, three systems, three processes under one id | `OnlyTargetSignalled`, `StoppedMeansGone` |
| `core_stop_macos` | one caller, macOS, two processes | `NeverAgainstReusedPid` is violated (section 6) |
| `presenter` | two lines, two taskbars, one fault, a queue of two, `FairSpec` | one window, placement, nothing overlooked, and that the last command is shown and the end of input ends the process |
| `identity` | two callers, two generated keys and one imported, one file fault, any number of outages and crashes | `IdentityKept`, `NoNeedlessKey`, `StoredKeyStays`, `DeletedMeansGone` |
| `mac_proxy` | two callers, two services, one protocol, three settings, one edit of others | `SuccessMeansSet`, `ForeignPacKept` |
| `user_settings` | two callers, three systems, two proxies, one worker for two waits, two changes of the network | `LoginAsAnswered`, `EntryWhole`, `SessionFollowsFile`, `ForeignFileKept`, `KnowledgeConverges` |
| `system_changes` | two callers, two cores, two app containers, two files of the application; jobs on cores and other jobs in scenes of their own | `ChangesAsAnswered`, `SetuidMeansRoot`, `OthersKept`, `UpdateInOrder` |

Properties, in the words of the code:

- *Routing.* `StaleSessionFlagged`, `ReliesOnCurrent`: a session of a replaced provider is flagged for
  recycling until it is gone, and nothing is configured on or recorded of one.
  `ApprovedBeforeEnabled`: no enabled manager before the user's consent. `PaneOpensOnce`.
  `ActivePolicyEnforced`: while no command is at work and a policy is recorded, no session is starting
  (one could come up with an old policy), and if nothing has failed since the record the policy is saved
  and enforced. `ImplementsPromise`: all steps together are those of the promise, so that a successful stop
  holds against whatever is still in flight, a provider comes up with what was saved last or with what an
  earlier session left and no start removed, and a policy counts as promised only while it is in force. `DesiredPolicyEnforced`:
  a policy that stays desired is finally enforced, whatever went wrong before.
- *Bounded runs.* `ImplementsVerdict`: a validation is valid or invalid only by the whole of both outputs
  and the exit status, "limit" only for an excess, "timeout" only when the time is over, and no answer
  changes. `NoChildLeft`: no process of the code's own is left, not even a zombie. `RunEnds`: past the
  deadline the call ends, and a sound program gets its answer although its pipes are smaller than its
  output.
- *Core stop.* `OnlyTargetSignalled`, `StoppedMeansGone`.
- *Presenter.* `OneWindow`, `PlacedByParent`, `ShowsState`, `ExitsWithStream`. `NothingOverlooked`: when the
  window thread has nothing left to do the window shows what the last command asked, or its repaint is
  due, whatever commands overtook refreshes and were dropped from a full queue.
- *Identity.* `IdentityKept`, `NoNeedlessKey`, `DeletedMeansGone`; and of calls that do overlap
  `StoredKeyStays`: a key is safe in the credential store once no call is about to write or clear it, and
  then no number of overlapping opens replaces it, whatever they find of store and file.
- *Proxy of macOS.* `SuccessMeansSet`: a call about to succeed has its settings in force on every target
  nobody else wrote, by either way. `ForeignPacKept`: a PAC that is not KokoroBox's own is turned off
  only by a call that sets one, or by the shell where it was its own when the call began.
- *User's session.* `LoginAsAnswered`: a call that was alone answers what is so, with exactly one way of
  being started. `EntryWhole`: no call, kill or overlap leaves a half written entry, unless two calls wrote
  the temporary file at once. `SessionFollowsFile`: the session has the proxy of the file, unless a call
  was told it has not. `ForeignFileKept`: a file the user wrote before a call looked is not touched.
  `KnowledgeConverges`.
- *The system.* `ChangesAsAnswered`: what a job, a registration, a set of rules, an exemption or a proxy
  setting was answered to be, it is, until somebody else changes it; of the firewall also after calls that
  overlapped, once all have ended well: who removes a rule adds it later. `SetuidMeansRoot`: a core has the
  bit only if root owns it, unless Desktop replaced it between the change of owner and the bit. `OthersKept`: a change of one
  exemption leaves every other one, but for what was changed after the list was read. `UpdateInOrder`.

## 4. Bounds

- Two workers or callers: every interleaving hazard found in the code is between two calls, the locked
  commands exclude one another, and a third could only wait or repeat what one of the two does.
- One rule set that needs the proxy gives two policies through the probe, which is what all policy
  properties distinguish (the one asked for, and another).
- `routing_safety` has a VIEW without the variables of the pane, which no action but the pane's own reads
  and neither its invariants nor the mapping mention; so nothing that they could tell apart is merged.
  `PaneOpensOnce` has a run with these variables.
- `Leftovers`: an envelope written while the core's listener was gone, which is not what is desired in the
  end, or none. Any other arises in the course of the model from the policies that are sent.
- `MaxProcesses` 3: the target and two successors, so that an inspection can see two different wrong
  processes.
- `MaxLines` 2, `QueueLimit` 2 (Windows: 10,000): two commands that overtake a refresh and, with
  "TaskbarCreated", fill the queue. `MaxTaskbars` 2: one crash with its restart and the loss of the
  second taskbar. `MaxFaults` 1 for each of the presenter's and the identity's unmotivated failures;
  motivated ones (store away, window gone, queue full) are unbounded.
- `MaxKeys` 2 generated keys, one imported one and a pair that does not match.
- `PipeSize` 1, `Limit` 2, `MaxOutput` 4: a pipe smaller than the output, output within the limit, above
  it, and written on to a pipe whose reader has gone.
- `mac_proxy`: two services, so that one may fail after the other; one protocol (the three are treated
  alike by one loop); `MaxEdits` 1: any edit of others can fall between any two steps of both calls.
- `MaxChanges` 2 and one worker: two changes let a context be pieced together from two networks and let
  a change be undone; two waits then have to share the worker. Two interfaces and two lists of servers
  tell them apart.
- Two cores, apps and files of the application are the least with which one of several can fail or
  belong to somebody else. Three firewall rules are those of the code.

The theorems of section 7 hold for all values of these constants.

## 5. Fairness

- *Routing* (`LiveSpec`). Workers run (libuv's threads), the delegate is called (the main queue runs),
  the desktop polls with the same configuration (`mm` 126 speaks of its periodic
  reconciliation), the 15 seconds pass, a starting tunnel comes up and a
  stopping one ends; from some point on (`Settle`) nothing fails and the user consents. Without the last
  no code could make progress: an extension the user never approves is never enabled. The one-worker
  instance has the desktop's polls one after the other, as Desktop makes them.
- *Presenter* (`FairSpec`). The window thread runs, and the reader goes on with a line it has read.
  Desktop owes no line and Explorer no taskbar: `ShowsState` is conditional on a taskbar that stays.
- *Bounded runs.* The caller and the readers run, and so does a program as long as it is sound. Nothing
  is assumed of one that hangs or of its heirs, nor that time passes: `RunEnds` says what happens before
  and after the deadline.
- *Network wait.* Every wait that is at work runs and its time passes, a free worker takes the next, and
  Desktop waits again after each answer. The network need not change; `KnowledgeConverges` follows as
  changes are bounded, which stands for a network that holds still from some point on.

The safety properties use none of this.

## 6. Findings

- **A cached answer after a failed apply** (`routing_stale`). `reconcile` leaves at `rs` 307 without
  touching the cache when an apply fails. If it fails after the provider took the new policy, say while
  saving the preferences, a reconcile that asks for the old policy again within 15 seconds is answered
  `running` from the cache although the provider enforces the other one. The test
  `policy_requires_running_acknowledgement_and_bounded_health_refresh` (`rs` 593) names the rule. The
  health check repairs it after 15 seconds, so `DesiredPolicyEnforced` holds. The theorem
  `CachedTrueUntilFailure` shows that there is no other way to a false answer: with no apply that failed
  after the record (`dirty`), the cache answers truthfully.
- **macOS: a signal to a reused process id** (`core_stop_macos`). The comment at `core_process.rs`
  105-106 says "never escalate against a reused PID"; the check at 108 and `kill` at 112 are two steps
  and the process can be replaced between them. Linux and Windows use handles and are proved to be safe.
  For macOS `EachSignalInspected` proves what is left of the comment: each signal follows an inspection
  of its own that saw the core, so a reused id is hit only if it was reused since that inspection began.

Seen in passing, and part of the model rather than of a run: the comment at `mm` 572-574 says that an old
envelope is removed before a cold start so that it cannot override what was saved, while the removal may
be skipped or fail unnoticed (513-519). A provider may so run an older policy from its start until the
next command speaks to it. The properties above hold all the same, because such a start is answered as
`starting` and the next command sends the policy again.

What the code leaves open is stated in the notes under `hazards`: windows that no lock or second look
closes (the marker of the terminal proxy and the rename, the list of loopback exemptions and its write, a
core replaced between the two prompts of a grant, the shell's view of a PAC, two calls on one temporary
file, clear against a set half done), and calls that fail half way and promise nothing (a reload that cannot
register again, a Run value that cannot be written after its task is gone, the commands of a prompt that
was killed). The properties exempt exactly these by history variables and hold around them.

## 7. Theorems

All proofs are checked by tlapm to the last leaf. They assume only the named assumptions on the constants
(`PlatformAssumption`, `CoordinatorAssumption`, `CoreAssumption`, `PresenterAssumption`,
`IdentityAssumption`, `RunAssumption`, `CallersAssumption`, `SystemsAssumption`, `ProxiesAssumption`,
`NetworkAssumption`, `CoresAssumption`, `MacAssumption`): which sets contain which, that names such as `None` are no
callers or proxies, and that bounds are natural numbers.

- *Routing.* The properties are far from inductive. `TypeInv` adds which command a worker at a program
  point executes and how `panes` mirrors the atomic flag. `ReplacementInv` adds that there is a session
  only for a saved manager, that a delegate that agreed to a replacement has set the flag, and that a
  worker past the activation has a current, approved extension until the program restarts; from it follow
  `StaleSessionFlagged`, `ReliesOnCurrent` and `ApprovedBeforeEnabled`. `LockedInv` adds who holds the
  mutex, that a session is only brought up with an enabled manager, and that nobody saves while a tunnel
  starts; from it `StopHolds` (after a successful stop nothing comes up or is enabled) and
  `StartUndisturbed` (while a provider starts nobody changes what is saved, and it comes up with that or
  with the policy left in the container; theorem `StartsUndisturbed`), which no run states by
  themselves as the promise contains them. Nothing is assumed of the removal of that policy: what
  the record rests on instead (`StartInv`) is that the call that brings a session up drops it, at its
  beginning or its end, and ends as `starting`, never as `running`; a new record needs an acknowledgement
  of the provider that is up. `EnforcementInv` follows a policy from the
  acknowledgement to the record; from it `ActivePolicyEnforced` and `CachedTrueUntilFailure`.
- *The promise.* `RoutingInv` is all of these together. Under it each action is mapped to one step of
  `RoutingPromise` (`StopPromise`, `TellPromise`, `SavePromise`, `StartPromise`, `AnswerPromise`, ...) or,
  where it touches nothing that the mapping reads, to none (`Quiet`); `KeepsPromise` puts them together
  for any number of workers and rules. `PromiseKept` proves of the abstract specification alone that a
  promised policy is saved and in force and that routing which is off has no session and gets none, and
  `DesktopMayRely` carries it over to the program.
- *Bounded runs.* The invariant relates the caller to the child (not started before the first look,
  collected where the answer says so) and the messages to the readers that sent them. With it `KeepsPromise`
  shows that every step of caller, readers, program and clock is a step of `Verdict` or leaves it alone,
  and `ChildCollected` that no child is left, for all sizes of pipes, limits and outputs.
- *Core stop.* `HandleInv`: a handle is bound before the inspection that confirms it, and an id that was
  given out again never returns to the target; hence `OnlyTargetSignalled`. `GoneInv` adds what the second
  look on macOS has seen; hence `StoppedMeansGone` on all three systems. `SeenInv` says that a caller
  about to signal on macOS comes straight from an inspection that saw the target; hence the action
  property `SignalsInspected`.
- *Presenter.* The only window is the one created last, and a notice is never about it (`WindowInv`); a
  refresh past the attachment knows whether the window is a child (`PlaceInv`). Hence `OneWindow` and
  `PlacedByParent`. `NothingOverlooked` is inductive but for the one step between placing a window and
  showing it, which `FreshInv` adds: a refresh about to show has placed by the last command, unless a
  message is left that leads to another one; that a message dropped from a full queue leaves such a
  message behind is `PostLeavesWork`. `EndKept` (a theorem only) says that the request to end waits in
  the queue or is being followed unless the queue refused it, and that the thread leaves no window: the
  safety part of `ExitsWithStream`.
- *Identity.* While the application goes by a key at most one call is in progress (`SoleInv`), and that
  call knows where the key is (`CallInv`). Hence `IdentityKept` and `NoNeedlessKey`. `DeleteInv` adds that
  only Linux has a fallback file and that a lone delete has emptied the store by the time it purges the
  file; hence `DeletedMeansGone`. `StoredKeyStays` needs none of these but the types: `SafeStep` shows call
  by call that an open which began beside a safe key never comes to write the store.
- *The proxy of macOS.* `CallInv` says of a call in the shell that each command of its targets is still in
  the script or done, and that it is of the mode's commands; of one that has committed, that the
  preferences agree; and that without the permission saved and in force are the same, which is why the
  first list still tells whose a PAC is. It says so of undisturbed services only, and `CallRests` that a call
  that does not move keeps it. `CommandedFacts` shows that no command undoes another of its call. Hence
  `SuccessMeansSet` and `ForeignPacKept`, for any number of services, protocols and edits.
- *User's session.* `TerminalInv` says what a call in progress has looked at, and that a call that is
  alone finds file and session agreed; hence `SessionFollowsFile` and `ForeignFileKept`. `LoginInv` follows
  a lone call through each system's steps (`Progress`) and says who writes the temporary file; hence
  `LoginAsAnswered` and `EntryWhole`. `WaitTypes` adds that the working waits are finitely many, which the
  count of workers needs. `QueuedOnce`: a wait without a worker is in the queue, exactly once.
  `KnowledgeStays`: while the network holds still a probe, whenever it began, leaves what is known alone
  once everybody knows; it is the safety half of `KnowledgeConverges`.
- *The system.* `AdminInv`: a command for the bit comes first only when root owns its files already;
  hence `SetuidMeansRoot`. `AddedInv`: while no call has failed, every rule that is missing is still to be
  added by one that is at work; hence `RulesAsAnswered`. `JobInv` adds that a call's commands are the rest of its job's script
  and what the commands done so far have left, as long as the call is not disturbed. `DaemonInv`,
  `ReadInv`, `ProxyInv` and `WaitInv` do the same for four of the others. `ComponentSteps` shows that
  a step of the composition is a step of each component or none of it; hence `ChangesAsAnswered` follows
  for the whole and not only for the parts.

Only model-checked: the liveness properties `DesiredPolicyEnforced`, `ShowsState`, `ExitsWithStream`,
`RunEnds` and `KnowledgeConverges`, since the prover handles neither fairness nor ENABLED. Every invariant and
action property of the passing runs has a theorem. The two violations are TLC's counterexamples.

## 8. Not modelled

- *The presenter on Linux and macOS.* Linux handles one line after the other in a single thread, macOS
  hands each line to one event loop in order; a property would restate the loop. One thing to know of
  Linux: a line that is not valid JSON ends the program with an error before its backend is shut down
  (`runtime.rs` 44), so the item goes with the process and not before it.
- *JavaScript diagnostics.* At most 500 entries in a single thread, each operation one synchronous
  function; the tests cover the limit.
- *The resolver threads of the DNS diagnostics* (`system_dns.rs` 116). Each sends one answer and shares
  nothing else; one that comes after the deadline is counted as failed, and its thread ends by itself.
- *A temporary file of the identity* is named by the process id and created exclusively
  (`service_identity.rs` 187); one left by a crash stands in the way of the same id only. The model has
  it, no property is about it. Of overlapping first opens nothing is claimed (section 2, Identity).
- *Windows elevation and tokens, the Windows branches of the privileged operations, service and process
  status, discovery of executables and applications, icons, rules, parsing, labels* are single calls of
  the system or pure functions. Listing and classifying app containers, WinHTTP's settings and the bypass
  list are read, never acted upon.
- *The N-API layer* converts values and hands calls to worker threads; the latter is in every model. Build
  scripts, the workflow and logging are outside.

## 9. What a next step would be

1. The geometry and the styles of the presenter's window, and its second instance.
2. The Windows side of `Administrator`, should its operations come to consist of more than one call.
