------------------------------- MODULE Presenter -------------------------------
(***************************************************************************)
(* traffic-presenter on Windows: a thread that reads the command stream    *)
(* and the thread of the taskbar window, over an Explorer that may crash,  *)
(* restart, and refuse the window.                                         *)
(*                                                                         *)
(* Windows of the presenter are numbered in the order of their creation,   *)
(* taskbars likewise; 0 is none.  WM_TIMER comes last among the messages   *)
(* of the thread, WM_PAINT next to last, as GetMessage retrieves them.     *)
(***************************************************************************)
EXTENDS Naturals, Sequences

CONSTANTS
  Samples,     \* traffic samples Desktop may send
  QueueLimit,  \* messages the queue of a thread holds
  MaxLines,    \* bound: lines Desktop sends
  MaxTaskbars, \* bound: taskbars Explorer creates
  MaxFaults    \* bound: calls of Windows that fail for no reason of their own

ASSUME PresenterAssumption ==
  /\ "unavailable" \notin Samples
  /\ QueueLimit \in Nat \ {0}
  /\ MaxLines \in Nat /\ MaxTaskbars \in Nat /\ MaxFaults \in Nat

VARIABLES
  reader,    \* unborn, reading, about to post a message, or done
  lines,     \* lines read so far
  refused,   \* a message to close did not fit in the queue (history)
  state,     \* STATE, the shared PresenterState
  queue,     \* messages posted to the controller window
  ui,        \* where the window thread is
  found,     \* taskbar found by the refresh in progress
  attached,  \* whether that refresh has attached the window to it
  failing,   \* PRESENTER_FAILURE_REPORTED
  taskbar,   \* the taskbar there is
  taskbars,  \* taskbars created so far
  alive,     \* presenter windows that exist
  handle,    \* PRESENTER_WINDOW
  created,   \* presenter windows created so far
  notices,   \* windows destroyed whose WM_DESTROY is still to be delivered
  parent,    \* of the window created last: the taskbar it is a child of,
  style,     \* its style,
  placed,    \* the coordinates and the layout it was positioned with,
  shown,     \* whether it is shown,
  dirty,     \* whether it is to be painted,
  painted,   \* and what it was painted from
  faults     \* faults so far

streamVars   == <<reader, lines, refused>>
refreshVars  == <<ui, found, attached, failing>>
explorerVars == <<taskbar, taskbars>>
handleVars   == <<alive, handle, created, notices>>
lookVars     == <<parent, style, placed, shown, dirty, painted>>
vars == <<streamVars, state, queue, refreshVars, explorerVars, handleVars, lookVars, faults>>

Layouts == {"horizontal", "stacked"}
Flag    == {"YES", "NO"}
States  == [visible : Flag, layout : Layouts, traffic : Samples \cup {"unavailable"}]
Default == [visible |-> "NO", layout |-> "stacked", traffic |-> "unavailable"]
Picture(s) == [layout |-> s.layout, traffic |-> s.traffic]
Pictures == [layout : Layouts, traffic : Samples \cup {"unavailable"}]
Places  == [origin : {"taskbar", "screen", "none"}, layout : Layouts]

\* The types of stream, window and Explorer: the queue keeps its limit, and
\* nothing refers to a window or a taskbar that never was (143-166).
TypeOK ==
  /\ reader \in {"unborn", "read", "update", "close", "last", "done"}
  /\ lines \in 0..MaxLines
  /\ refused \in Flag
  /\ state \in States
  /\ queue \in Seq({"update", "close"}) /\ Len(queue) <= QueueLimit
  /\ ui \in {"idle", "refresh", "window", "attach", "place", "show", "quit", "gone"}
  /\ found \in 0..taskbars
  /\ attached \in Flag /\ failing \in Flag
  /\ taskbar \in 0..taskbars /\ taskbars \in 0..MaxTaskbars
  /\ created \in Nat
  /\ alive \subseteq 1..created /\ notices \subseteq 1..created
  /\ handle \in 0..created
  /\ parent \in 0..taskbars
  /\ style \in {"popup", "child"}
  /\ placed \in Places
  /\ shown \in Flag /\ dirty \in Flag
  /\ painted \in Pictures
  /\ faults \in 0..MaxFaults

\* run, up to its first refresh
Init ==
  /\ reader = "unborn" /\ lines = 0 /\ refused = "NO"
  /\ state = Default /\ queue = <<>>
  /\ ui = "refresh" /\ found = 0 /\ attached = "NO" /\ failing = "NO"
  /\ taskbar \in {0, 1} /\ taskbar <= MaxTaskbars /\ taskbars = taskbar
  /\ alive = {} /\ handle = 0 /\ created = 0 /\ notices = {}
  /\ parent = 0 /\ style = "popup" /\ shown = "NO" /\ dirty = "NO"
  /\ placed = [origin |-> "none", layout |-> "stacked"]
  /\ painted = Picture(Default)
  /\ faults = 0

Fault == faults < MaxFaults /\ faults' = faults + 1

------------------------------------------------------------------------------
(* The stream *)

\* PresenterState::apply
Applied(s, command) ==
  CASE command.type = "configure" -> [visible |-> command.visible, layout |-> command.layout,
                                      traffic |-> s.traffic]
    [] command.type = "traffic" -> [s EXCEPT !.traffic = command.sample]
    [] command.type = "unavailable" -> [s EXCEPT !.traffic = "unavailable"]
    [] command.type = "shutdown"    -> s

Commands ==
  [type : {"configure"}, visible : Flag, layout : Layouts]
    \cup [type : {"traffic"}, sample : Samples]
    \cup [type : {"unavailable", "shutdown"}]

\* A line with a command: the state changes under the lock.
ReadCommand ==
  /\ reader = "read" /\ lines < MaxLines
  /\ lines' = lines + 1
  /\ \E command \in Commands :
       /\ state' = Applied(state, command)
       /\ reader' = IF command.type = "shutdown" THEN "close" ELSE "update"
  /\ UNCHANGED refused

\* The end of the stream, a read error, or a line that is no command of this
\* version.
EndOfInput ==
  /\ reader = "read"
  /\ reader' = "last"
  /\ UNCHANGED <<lines, refused, state>>

\* PostMessageW to the controller window; the result is ignored.
Post(message) ==
  IF ui \notin {"quit", "gone"} /\ Len(queue) < QueueLimit
  THEN queue' = Append(queue, message) /\ UNCHANGED refused
  ELSE /\ UNCHANGED queue
       /\ refused' = IF message = "close" /\ ui \notin {"quit", "gone"} THEN "YES" ELSE refused

\* apply_command, once the lock is released
PostCommand ==
  /\ reader \in {"update", "close"} /\ Post(reader)
  /\ reader' = "read"
  /\ UNCHANGED <<lines, state>>

\* Mutant: the thread ends without the message.
PostNothing == reader = "last" /\ reader' = "done" /\ UNCHANGED <<queue, lines, refused, state>>

PostAtEnd ==
  /\ reader = "last" /\ Post("close")
  /\ reader' = "done"
  /\ UNCHANGED <<lines, state>>

Reading ==
  /\ \/ (ReadCommand \/ EndOfInput) /\ UNCHANGED queue
     \/ PostCommand
     \/ PostAtEnd
  /\ ui # "gone"
  /\ UNCHANGED <<refreshVars, explorerVars, handleVars, lookVars, faults>>

------------------------------------------------------------------------------
(* Explorer *)

\* The windows inside the taskbar go with it.
ExplorerCrashes ==
  /\ taskbar # 0
  /\ taskbar' = 0
  /\ IF parent = taskbar /\ created \in alive
     THEN alive' = alive \ {created} /\ notices' = notices \cup {created}
     ELSE UNCHANGED <<alive, notices>>
  /\ UNCHANGED <<queue, taskbars, handle, created>>

\* "TaskbarCreated" goes to every top-level window.
ExplorerStarts ==
  /\ taskbar = 0 /\ taskbars < MaxTaskbars
  /\ taskbars' = taskbars + 1 /\ taskbar' = taskbars + 1
  /\ queue' = IF ui \notin {"quit", "gone"} /\ Len(queue) < QueueLimit
              THEN Append(queue, "update") ELSE queue
  /\ UNCHANGED handleVars

Explorer ==
  /\ ExplorerCrashes \/ ExplorerStarts
  /\ UNCHANGED <<streamVars, state, refreshVars, lookVars, faults>>

------------------------------------------------------------------------------
(* The window thread *)

\* The end of a refresh_presenter; after the first one run starts the reader.
Refreshed(failed) ==
  /\ ui' = "idle" /\ failing' = failed
  /\ reader' = IF reader = "unborn" THEN "read" ELSE reader
  /\ found' = 0 /\ attached' = "NO"
  /\ UNCHANGED <<lines, refused>>

Proceed(next) == ui' = next /\ UNCHANGED <<streamVars, failing>>

\* Without a taskbar nothing is touched.
FindTaskbar ==
  /\ ui = "refresh"
  /\ IF taskbar = 0 THEN Refreshed("YES")
                    ELSE Proceed("window") /\ found' = taskbar /\ UNCHANGED attached
  /\ UNCHANGED <<queue, handleVars, lookVars, faults>>

\* Mutant: PRESENTER_WINDOW is set whether or not there is a window.
CreateStored == Fault /\ handle' = created + 1 /\ Refreshed("YES") /\ UNCHANGED <<alive, created, lookVars>>

\* CreateWindowExW
Create ==
  \/ Fault /\ Refreshed("YES") /\ UNCHANGED <<alive, handle, created, lookVars>>
  \/ /\ created' = created + 1 /\ handle' = created' /\ alive' = alive \cup {created'}
     /\ parent' = 0 /\ style' = "popup" /\ shown' = "NO" /\ dirty' = "NO"
     /\ placed' = [origin |-> "none", layout |-> "stacked"]
     /\ painted' = Picture(Default)
     /\ Proceed("attach") /\ UNCHANGED <<found, attached, faults>>

\* Mutant: a window once created is taken to exist.
EnsureTrusting ==
  /\ ui = "window"
  /\ IF handle # 0 THEN Proceed("attach") /\ UNCHANGED <<found, attached, alive, handle, created, lookVars, faults>>
                    ELSE Create
  /\ UNCHANGED <<queue, notices>>

EnsureWindow ==
  /\ ui = "window"
  /\ IF handle \in alive THEN Proceed("attach") /\ UNCHANGED <<found, attached, alive, handle, created, lookVars, faults>>
                          ELSE Create
  /\ UNCHANGED <<queue, notices>>

\* Mutant: the window keeps the popup style while Explorer takes it in, so
\* GetParent goes on reporting no parent.
AttachPopup ==
  /\ ui = "attach"
  /\ parent' \in IF created \in alive /\ taskbar = found THEN {parent, found} ELSE {parent}
  /\ attached' = "NO" /\ style' = "popup"
  /\ Proceed("place")
  /\ UNCHANGED <<queue, found, handleVars, placed, shown, dirty, painted, faults>>

\* attach_presenter_to_taskbar: Explorer may take the window or not.
Attach ==
  /\ ui = "attach"
  /\ \/ /\ created \in alive /\ taskbar = found
        /\ attached' = "YES" /\ parent' = found /\ style' = "child"
     \/ /\ created \in alive /\ parent # found
        /\ attached' = "NO" /\ parent' = 0 /\ style' = "popup"
     \/ /\ created \notin alive
        /\ attached' = "NO" /\ UNCHANGED <<parent, style>>
  /\ Proceed("place")
  /\ UNCHANGED <<queue, found, handleVars, placed, shown, dirty, painted, faults>>

\* position_presenter
Place ==
  /\ ui = "place"
  /\ \/ /\ taskbar # found \/ created \notin alive
        /\ Refreshed("YES") /\ UNCHANGED <<placed, faults>>
     \/ Fault /\ Refreshed("YES") /\ UNCHANGED placed
     \/ /\ taskbar = found /\ created \in alive
        /\ placed' = [origin |-> IF attached = "YES" THEN "taskbar" ELSE "screen",
                      layout |-> state.layout]
        /\ Proceed("show") /\ UNCHANGED <<found, attached, faults>>
  /\ UNCHANGED <<queue, handleVars, parent, style, shown, dirty, painted>>

\* Mutant: the window is painted again only when it is shown or hidden.
ShowRarelyPaints ==
  /\ ui = "show"
  /\ IF created \in alive
     THEN shown' = state.visible /\ dirty' = (IF shown = state.visible THEN dirty ELSE "YES")
     ELSE UNCHANGED <<shown, dirty>>
  /\ Refreshed("NO")
  /\ UNCHANGED <<queue, handleVars, parent, style, placed, painted, faults>>

\* The state may have changed since the window was placed.
Show ==
  /\ ui = "show"
  /\ IF created \in alive THEN shown' = state.visible /\ dirty' = "YES"
                          ELSE UNCHANGED <<shown, dirty>>
  /\ Refreshed("NO")
  /\ UNCHANGED <<queue, handleVars, parent, style, placed, painted, faults>>

\* A message of the controller window.  WM_CLOSE destroys it, and with it the
\* rest of its messages.
Dispatch ==
  /\ ui = "idle" /\ queue # <<>>
  /\ IF Head(queue) = "update" THEN Proceed("refresh") /\ queue' = Tail(queue)
                               ELSE Proceed("quit") /\ queue' = <<>>
  /\ UNCHANGED <<found, attached, handleVars, lookVars, faults>>

ToPaint == created \in alive /\ shown = "YES" /\ dirty = "YES"

\* paint_presenter, which ends the need to paint whether it succeeds or not.
Paint ==
  /\ ui = "idle" /\ queue = <<>> /\ ToPaint
  /\ dirty' = "NO"
  /\ \/ painted' = Picture(state) /\ UNCHANGED faults
     \/ Fault /\ UNCHANGED painted
  /\ UNCHANGED <<streamVars, queue, refreshVars, handleVars, parent, style, placed, shown>>

\* WM_TIMER every 2 seconds
Timer ==
  /\ ui = "idle" /\ queue = <<>> /\ ~ToPaint
  /\ Proceed("refresh")
  /\ UNCHANGED <<queue, found, attached, handleVars, lookVars, faults>>

\* Mutant: the message is taken to be about the window there is.
DestroyNoticeAny ==
  /\ ui # "gone"
  /\ \E w \in notices : notices' = notices \ {w} /\ handle' = 0
  /\ UNCHANGED <<streamVars, queue, refreshVars, alive, created, lookVars, faults>>

\* WM_DESTROY of a presenter window, sent at any time the thread is in Windows.
DestroyNotice ==
  /\ ui # "gone"
  /\ \E w \in notices : notices' = notices \ {w} /\ handle' = IF handle = w THEN 0 ELSE handle
  /\ UNCHANGED <<streamVars, queue, refreshVars, alive, created, lookVars, faults>>

\* run, after the message loop
Quit ==
  /\ ui = "quit"
  /\ alive' = alive \ {handle} /\ handle' = 0
  /\ Proceed("gone")
  /\ UNCHANGED <<queue, found, attached, created, notices, lookVars, faults>>

Thread ==
  /\ FindTaskbar \/ EnsureWindow \/ Attach \/ Place \/ Show \/ Dispatch \/ Paint \/ Timer \/ Quit
  /\ UNCHANGED <<state, explorerVars>>

Next ==
  \/ Reading
  \/ Explorer
  \/ Thread
  \/ DestroyNotice /\ UNCHANGED <<state, explorerVars>>
  \/ ui = "gone" /\ UNCHANGED vars

Spec == Init /\ [][Next]_vars

\* Both threads run.  Desktop may send nothing more, and Explorer owes nothing.
FairSpec == Spec /\ WF_vars(Thread) /\ WF_vars(Reading /\ reader # "read")

------------------------------------------------------------------------------

\* There is never a second presenter window, and no window that the handle has
\* lost: neither the destruction of one by Explorer, learned of late, nor a
\* refresh in progress meanwhile leaves one behind (143-166, 107-114).
OneWindow == ui # "gone" => alive \subseteq {handle}

\* Between refreshes the window is a child positioned inside its taskbar or a
\* popup positioned on the screen, never one with the coordinates of the
\* other, unless the last refresh was reported as failed (200-219, 285-300).
PlacedByParent ==
  ui = "idle" /\ created \in alive =>
    /\ style = "child" <=> parent # 0
    /\ failing = "YES" \/ placed.origin = (IF parent # 0 THEN "taskbar" ELSE "screen")

\* Of what Desktop has said nothing is overlooked, though commands overtake
\* refreshes and messages are dropped when the queue is full: once the thread
\* has nothing left to do, the last refresh, unless it was reported as failed,
\* has shown the window as the last command asked, and what is not to be painted
\* yet was painted from that command (123-139, 181-197, 623-631).
NothingOverlooked ==
  (ui = "idle" /\ queue = <<>> /\ reader # "update" /\ failing = "NO" /\ created \in alive) =>
    /\ shown = state.visible
    /\ placed.layout = state.layout
    /\ dirty = "YES" \/ painted = Picture(state) \/ faults > 0

\* The request to end is never lost but to a full queue, and the window thread
\* leaves no window behind (615-631, 696-698).
EndKept ==
  /\ reader = "done" /\ refused = "NO" =>
       ui \in {"quit", "gone"} \/ \E i \in DOMAIN queue : queue[i] = "close"
  /\ ui = "gone" => alive = {}

Presented ==
  /\ handle \in alive /\ shown = state.visible
  /\ shown = "YES" => placed.layout = state.layout /\ painted = Picture(state)

\* While there is a taskbar, what Desktop said last is what is shown, whatever
\* was lost, refused or destroyed before (123-139, 181-197, 629).
ShowsState == <>[](taskbar # 0 /\ ui \notin {"quit", "gone"}) => <>[]Presented

\* The end of the stream ends the process, however it ends, and leaves no
\* window; only a full message queue can lose the request (696-698, 615-631).
ExitsWithStream == reader = "last" ~> (ui = "gone" /\ alive = {}) \/ refused = "YES"

==============================================================================
