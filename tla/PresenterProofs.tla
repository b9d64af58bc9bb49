--------------------------- MODULE PresenterProofs ---------------------------
(***************************************************************************)
(* Presenter: a single window, positioned by what it is a child of, and    *)
(* nothing Desktop said overlooked or lost, for any number of lines,       *)
(* taskbars, faults and queued messages.                                   *)
(***************************************************************************)
EXTENDS Presenter, TLAPS

\* Types, and what the handle says of the windows there are: the only one is
\* the one created last, and a window whose end is still to be learned of is
\* not that one.
WindowInv ==
  /\ TypeOK
  /\ alive \subseteq {created}
  /\ notices \cap alive = {}
  /\ OneWindow

Fits == placed.origin = (IF parent # 0 THEN "taskbar" ELSE "screen")

\* A child's taskbar is the one there is.  A refresh past Attach knows whether
\* the window is a child; between refreshes it fits unless one has failed.
PlaceInv ==
  /\ ui \in {"window", "attach", "place", "show"} => found # 0
  /\ created \in alive =>
       /\ parent # 0 => parent = taskbar
       /\ style = "child" <=> parent # 0
       /\ ui = "place" => (attached = "YES" <=> parent # 0)
       /\ ui = "show" => Fits
       /\ ui \in {"idle", "refresh", "window", "quit"} => failing = "YES" \/ Fits

Inv == WindowInv /\ PlaceInv

USE PresenterAssumption

\* The program starts without a window.
LEMMA InitInv == Init => Inv
  BY SMT DEF Init, Inv, WindowInv, PlaceInv, OneWindow, TypeOK, States, Default, Pictures, Picture,
         Places, Flag, Layouts, Fits

\* What a command does to the state.
LEMMA AppliedType ==
  ASSUME NEW s \in States, NEW command \in Commands PROVE Applied(s, command) \in States
<1>1. CASE command \in [type : {"configure"}, visible : Flag, layout : Layouts]
  <2>1. /\ command.type = "configure"
        /\ command.visible \in Flag /\ command.layout \in Layouts
    BY <1>1
  <2>2. Applied(s, command) =
          [visible |-> command.visible, layout |-> command.layout, traffic |-> s.traffic]
    BY <2>1, SMT DEF Applied
  <2> QED
    BY <2>1, <2>2, SMT DEF States
<1>2. CASE command \in [type : {"traffic"}, sample : Samples]
  <2>1. command.type = "traffic" /\ command.sample \in Samples
    BY <1>2
  <2> QED
    BY <2>1, SMT DEF Applied, States
<1>3. CASE command \in [type : {"unavailable", "shutdown"}]
  <2>1. command.type \in {"unavailable", "shutdown"}
    BY <1>3
  <2> QED
    BY <2>1, SMT DEF Applied, States
<1> QED
  BY <1>1, <1>2, <1>3 DEF Commands

\* A message only ever lengthens a queue that has room.
LEMMA PostType ==
  ASSUME TypeOK, NEW message \in {"update", "close"}, Post(message)
  PROVE  /\ queue' \in Seq({"update", "close"}) /\ Len(queue') <= QueueLimit
         /\ refused' \in Flag
  BY SMT DEF TypeOK, Post, Flag

\* What is left of a queue is no longer than it was.
LEMMA RestLemma ==
  ASSUME NEW S, NEW q \in Seq(S), q # <<>>, Len(q) <= QueueLimit
  PROVE  /\ Tail(q) \in Seq(S) /\ Len(Tail(q)) <= QueueLimit
         /\ <<>> \in Seq(S) /\ Len(<<>>) <= QueueLimit
  BY SMT

\* The reader thread touches no window.
LEMMA ReadingInv == ASSUME Inv, Reading PROVE Inv'
<1>1. TypeOK'
  <2>1. CASE ReadCommand /\ UNCHANGED queue
    <3>1. PICK command \in Commands :
            /\ state' = Applied(state, command)
            /\ reader' = IF command.type = "shutdown" THEN "close" ELSE "update"
      BY <2>1 DEF ReadCommand
    <3>2. state' \in States
      BY <3>1, AppliedType DEF Inv, WindowInv, TypeOK
    <3> QED
      BY <2>1, <3>1, <3>2, SMT DEF Inv, WindowInv, TypeOK, ReadCommand, Reading,
           refreshVars, explorerVars, handleVars, lookVars
  <2>2. CASE EndOfInput /\ UNCHANGED queue
    BY <2>2, SMT DEF Inv, WindowInv, TypeOK, EndOfInput, Reading,
         refreshVars, explorerVars, handleVars, lookVars
  <2>3. CASE PostCommand
    <3>1. /\ queue' \in Seq({"update", "close"}) /\ Len(queue') <= QueueLimit
          /\ refused' \in Flag
      BY <2>3, PostType DEF PostCommand, Inv, WindowInv
    <3> QED
      BY <2>3, <3>1, SMT DEF Inv, WindowInv, TypeOK, PostCommand, Reading,
           refreshVars, explorerVars, handleVars, lookVars
  <2>4. CASE PostAtEnd
    <3>1. /\ queue' \in Seq({"update", "close"}) /\ Len(queue') <= QueueLimit
          /\ refused' \in Flag
      BY <2>4, PostType DEF PostAtEnd, Inv, WindowInv
    <3> QED
      BY <2>4, <3>1, SMT DEF Inv, WindowInv, TypeOK, PostAtEnd, Reading,
           refreshVars, explorerVars, handleVars, lookVars
  <2> QED
    BY <2>1, <2>2, <2>3, <2>4 DEF Reading
<1>2. UNCHANGED <<refreshVars, explorerVars, handleVars, lookVars>>
  BY DEF Reading
<1> QED
  BY <1>1, <1>2, SMT DEF Inv, WindowInv, PlaceInv, OneWindow, Fits,
       refreshVars, explorerVars, handleVars, lookVars

\* A crash takes the child window along, so none is left with a taskbar that is
\* gone.
LEMMA ExplorerInv == ASSUME Inv, Explorer PROVE Inv'
<1>1. CASE ExplorerCrashes
  <2>1. /\ taskbar # 0 /\ taskbar' = 0
        /\ UNCHANGED <<queue, taskbars, handle, created, streamVars, state, refreshVars, lookVars, faults>>
    BY <1>1 DEF ExplorerCrashes, Explorer
  <2> USE <2>1 DEF Inv, WindowInv, TypeOK, PlaceInv, OneWindow, Fits, streamVars, refreshVars, lookVars
  <2>2. CASE parent = taskbar /\ created \in alive
    <3>1. alive' = alive \ {created} /\ notices' = notices \cup {created}
      BY <1>1, <2>2 DEF ExplorerCrashes
    <3> QED
      BY <2>2, <3>1, SMT
  <2>3. CASE ~(parent = taskbar /\ created \in alive)
    <3>1. alive' = alive /\ notices' = notices
      BY <1>1, <2>3 DEF ExplorerCrashes
    <3> QED
      BY <2>3, <3>1, SMT
  <2> QED
    BY <2>2, <2>3
<1>2. CASE ExplorerStarts
  <2>1. queue' \in Seq({"update", "close"}) /\ Len(queue') <= QueueLimit
    BY <1>2, SMT DEF Inv, WindowInv, TypeOK, ExplorerStarts
  <2> QED
    BY <1>2, <2>1, SMT DEF Inv, WindowInv, TypeOK, PlaceInv, OneWindow, Fits, Explorer, ExplorerStarts,
         streamVars, refreshVars, handleVars, lookVars
<1> QED
  BY <1>1, <1>2 DEF Explorer

\* The steps of the window thread.
LEMMA ThreadInv == ASSUME Inv, Thread PROVE Inv'
<1> USE DEF Inv, WindowInv, PlaceInv, OneWindow, Fits, TypeOK, Thread, Proceed, Refreshed,
         streamVars, handleVars, lookVars, refreshVars, explorerVars
<1>1. CASE FindTaskbar
  BY <1>1, SMTT(30) DEF FindTaskbar, Flag
<1>2. CASE EnsureWindow
  <2>1. CASE handle \in alive
    <3>1. /\ ui = "window" /\ Proceed("attach")
          /\ UNCHANGED <<found, attached, alive, handle, created, lookVars, faults, queue, notices>>
      BY <1>2, <2>1 DEF EnsureWindow
    <3> QED
      BY <3>1, SMTT(30)
  <2>2. CASE handle \notin alive
    <3>1. alive = {}
      BY <2>2, <1>2, SMT DEF EnsureWindow
    <3>2. CASE faults' = faults
      BY <1>2, <2>2, <3>1, <3>2, SMTT(60) DEF EnsureWindow, Create, Fault, Flag, Layouts, Places,
           Pictures, Picture, Default
    <3>3. CASE Fault
      BY <1>2, <2>2, <3>1, <3>3, SMTT(60) DEF EnsureWindow, Create, Fault, Flag
    <3> QED
      BY <1>2, <2>2, <3>2, <3>3 DEF EnsureWindow, Create
  <2> QED
    BY <2>1, <2>2
<1>3. CASE Attach
  BY <1>3, SMTT(30) DEF Attach, Flag
<1>4. CASE Place
  BY <1>4, SMTT(60) DEF Place, Fault, Flag, Places, States, Layouts
<1>5. CASE Show
  BY <1>5, SMTT(30) DEF Show, Flag, States
<1>6. CASE Dispatch
  <2>1. /\ Tail(queue) \in Seq({"update", "close"}) /\ Len(Tail(queue)) <= QueueLimit
        /\ <<>> \in Seq({"update", "close"}) /\ Len(<<>>) <= QueueLimit
    BY <1>6, RestLemma DEF Dispatch
  <2>2. queue' \in Seq({"update", "close"}) /\ Len(queue') <= QueueLimit
    BY <1>6, <2>1 DEF Dispatch
  <2> QED
    BY <1>6, <2>2, SMTT(30) DEF Dispatch
<1>7. CASE Paint
  BY <1>7, SMTT(30) DEF Paint, Fault, Flag, States, Pictures, Picture
<1>8. CASE Timer
  BY <1>8, SMTT(30) DEF Timer
<1>9. CASE Quit
  BY <1>9, SMTT(30) DEF Quit
<1> QED
  BY <1>1, <1>2, <1>3, <1>4, <1>5, <1>6, <1>7, <1>8, <1>9 DEF Thread

\* A late WM_DESTROY is of a window that is not the one there is.
LEMMA NoticeInv ==
  ASSUME Inv, DestroyNotice, UNCHANGED <<state, explorerVars>> PROVE Inv'
  BY SMT DEF Inv, WindowInv, TypeOK, PlaceInv, OneWindow, Fits, DestroyNotice,
       streamVars, refreshVars, explorerVars, lookVars

\* Every step preserves the invariant.
LEMMA NextInv == ASSUME Inv, [Next]_vars PROVE Inv'
<1>1. CASE UNCHANGED vars
  BY <1>1, SMT DEF Inv, WindowInv, TypeOK, PlaceInv, OneWindow, Fits, vars,
       streamVars, refreshVars, explorerVars, handleVars, lookVars
<1> QED
  BY <1>1, ReadingInv, ExplorerInv, ThreadInv, NoticeInv DEF Next

\* The inductive invariant of the presenter holds in every reachable state.
THEOREM PresenterInvariant == Spec => []Inv
  BY InitInv, NextInv, PTL DEF Spec

\* There is never a second window or one that PRESENTER_WINDOW has lost,
\* however Explorer's crashes interleave with refreshes (143-166, 107-114).
THEOREM SingleWindow == Spec => []OneWindow
<1>1. Inv => OneWindow
  BY DEF Inv, WindowInv
<1> QED
  BY PresenterInvariant, <1>1, PTL

\* Between refreshes the window is positioned in the coordinates of what it is
\* a child of (200-219, 285-300).
THEOREM PlacedAsAttached == Spec => []PlacedByParent
<1>1. Inv => PlacedByParent
  BY SMT DEF Inv, PlaceInv, Fits, PlacedByParent
<1> QED
  BY PresenterInvariant, <1>1, PTL

\* Every variable keeps its type: the queue is within its limit and what is
\* painted is a picture of a state (623-630, 303-331).
THEOREM PresenterTypes == Spec => []TypeOK
<1>1. Inv => TypeOK
  BY DEF Inv, WindowInv
<1> QED
  BY PresenterInvariant, <1>1, PTL

------------------------------------------------------------------------------
(* What Desktop has said *)

\* A refresh about to show the window has placed it by the last command, unless
\* it is going to be asked for another one.
FreshInv ==
  /\ NothingOverlooked
  /\ (ui = "show" /\ queue = <<>> /\ reader # "update" /\ created \in alive)
       => placed.layout = state.layout

\* A message posted to a thread that still takes messages leaves the queue with
\* something in it, itself or what filled it.
LEMMA PostLeavesWork ==
  ASSUME TypeOK, NEW message \in {"update", "close"}, Post(message),
         ui \notin {"quit", "gone"}
  PROVE  queue' # <<>>
<1>1. CASE Len(queue) < QueueLimit
  BY <1>1, SMT DEF Post, TypeOK
<1>2. CASE Len(queue) >= QueueLimit
  BY <1>2, SMT DEF Post, TypeOK
<1> QED
  BY <1>1, <1>2, SMT DEF TypeOK

\* The reader changes the state only on the way to a message.
LEMMA ReadingFresh == ASSUME Inv, FreshInv, Reading PROVE FreshInv'
<1> USE DEF FreshInv, NothingOverlooked, refreshVars, explorerVars, handleVars, lookVars
<1>1. CASE ReadCommand /\ UNCHANGED queue
  <2>1. PICK command \in Commands :
          /\ state' = Applied(state, command)
          /\ reader' = IF command.type = "shutdown" THEN "close" ELSE "update"
    BY <1>1 DEF ReadCommand
  <2>2. CASE command.type = "shutdown"
    <3>1. state' = state
      BY <2>1, <2>2, SMT DEF Applied
    <3> QED
      BY <1>1, <3>1, SMT DEF ReadCommand, Reading
  <2>3. CASE command.type # "shutdown"
    BY <2>1, <2>3
  <2> QED
    BY <2>2, <2>3
<1>2. CASE EndOfInput /\ UNCHANGED queue
  BY <1>2, SMT DEF EndOfInput, Reading
<1>3. CASE PostCommand \/ PostAtEnd
  <2>1. ui' = ui
    BY DEF Reading
  <2>2. ui \in {"idle", "show"} => queue' # <<>>
    BY <1>3, PostLeavesWork DEF PostCommand, PostAtEnd, Inv, WindowInv
  <2> QED
    BY <2>1, <2>2
<1> QED
  BY <1>1, <1>2, <1>3 DEF Reading

\* A new taskbar only adds a message, a crash only takes a window.
LEMMA ExplorerFresh == ASSUME Inv, FreshInv, Explorer PROVE FreshInv'
<1> USE DEF FreshInv, NothingOverlooked, Explorer, streamVars, refreshVars, handleVars, lookVars
<1>1. CASE ExplorerCrashes
  <2>1. alive' \subseteq alive /\ UNCHANGED <<queue, created>>
    BY <1>1 DEF ExplorerCrashes
  <2> QED
    BY <2>1
<1>2. CASE ExplorerStarts
  <2>1. queue' # <<>> \/ queue' = queue
    BY <1>2, SMT DEF ExplorerStarts, Inv, WindowInv, TypeOK
  <2> QED
    BY <1>2, <2>1 DEF ExplorerStarts
<1> QED
  BY <1>1, <1>2

\* A refresh places and shows by the state as it is then.
LEMMA ThreadFresh == ASSUME Inv, FreshInv, Thread PROVE FreshInv'
<1> USE DEF FreshInv, NothingOverlooked, Thread, Proceed, Refreshed, streamVars, lookVars,
            refreshVars, handleVars
<1>1. CASE FindTaskbar
  BY <1>1 DEF FindTaskbar
<1>2. CASE EnsureWindow
  BY <1>2, SMT DEF EnsureWindow, Create
<1>3. CASE Attach
  BY <1>3 DEF Attach
<1>4. CASE Place
  BY <1>4, SMT DEF Place
<1>5. CASE Show
  BY <1>5, SMT DEF Show
<1>6. CASE Dispatch
  BY <1>6, SMT DEF Dispatch
<1>7. CASE Paint
  BY <1>7, SMT DEF Paint, Fault, Inv, WindowInv, TypeOK
<1>8. CASE Timer \/ Quit
  BY <1>8, SMT DEF Timer, Quit
<1> QED
  BY <1>1, <1>2, <1>3, <1>4, <1>5, <1>6, <1>7, <1>8

\* Once the thread has nothing left to do, what Desktop said last is what the
\* window was placed, shown and painted by, however commands overtook refreshes
\* and although messages are dropped when the queue is full.
THEOREM UpToDate == Spec => []NothingOverlooked
<1>1. Init => FreshInv
  BY DEF Init, FreshInv, NothingOverlooked
<1>2. Inv /\ FreshInv /\ [Next]_vars => FreshInv'
  <2> SUFFICES ASSUME Inv, FreshInv, [Next]_vars PROVE FreshInv'
    OBVIOUS
  <2>1. CASE UNCHANGED vars
    BY <2>1 DEF FreshInv, NothingOverlooked, vars, streamVars, refreshVars, handleVars, lookVars
  <2>2. CASE DestroyNotice /\ UNCHANGED <<state, explorerVars>>
    BY <2>2 DEF DestroyNotice, FreshInv, NothingOverlooked, streamVars, refreshVars, lookVars
  <2> QED
    BY <2>1, <2>2, ReadingFresh, ExplorerFresh, ThreadFresh DEF Next
<1>3. FreshInv => NothingOverlooked
  BY DEF FreshInv
<1> QED
  BY <1>1, <1>2, <1>3, PresenterInvariant, PTL DEF Spec

ToClose == \E i \in DOMAIN queue : queue[i] = "close"

\* A message that is posted or dispatched does not displace a request to close.
LEMMA CloseStays ==
  ASSUME TypeOK, NEW m
  PROVE  /\ queue' = Append(queue, m) /\ ToClose => ToClose'
         /\ queue' = Append(queue, "close") => ToClose'
         /\ (queue # <<>> /\ Head(queue) = "update" /\ queue' = Tail(queue) /\ ToClose)
              => ToClose'
<1> USE DEF ToClose, TypeOK
<1>1. ASSUME queue' = Append(queue, m), ToClose PROVE ToClose'
  BY <1>1, SMT
<1>2. ASSUME queue' = Append(queue, "close") PROVE ToClose'
  <2>1. Len(queue) + 1 \in DOMAIN queue' /\ queue'[Len(queue) + 1] = "close"
    BY <1>2, SMT
  <2> QED
    BY <2>1
<1>3. ASSUME queue # <<>>, Head(queue) = "update", queue' = Tail(queue), ToClose
      PROVE  ToClose'
  <2>1. PICK i \in DOMAIN queue : queue[i] = "close"
    BY <1>3
  <2>2. i - 1 \in DOMAIN queue' /\ queue'[i - 1] = "close"
    BY <1>3, <2>1, SMT
  <2> QED
    BY <2>2
<1> QED
  BY <1>1, <1>2, <1>3

\* The reader ends with a request to close in the queue, or refused.
LEMMA ReadingEnd == ASSUME Inv, EndKept, Reading PROVE EndKept'
<1> USE DEF EndKept, refreshVars, handleVars
<1>1. ui' = ui /\ alive' = alive /\ ui # "gone"
  BY DEF Reading
<1>2. CASE (ReadCommand \/ EndOfInput) /\ UNCHANGED queue
  BY <1>1, <1>2 DEF ReadCommand, EndOfInput
<1>3. CASE PostCommand
  BY <1>1, <1>3, SMT DEF PostCommand
<1>4. CASE PostAtEnd
  <2>1. CASE refused' = "NO" /\ ui \notin {"quit", "gone"}
    <3>1. queue' = Append(queue, "close")
      BY <1>4, <2>1 DEF PostAtEnd, Post
    <3>2. ToClose'
      BY <3>1, CloseStays DEF Inv, WindowInv
    <3> QED
      BY <1>1, <3>2 DEF ToClose
  <2>2. CASE ~(refused' = "NO" /\ ui \notin {"quit", "gone"})
    BY <1>1, <2>2
  <2> QED
    BY <2>1, <2>2
<1> QED
  BY <1>2, <1>3, <1>4 DEF Reading

\* Only the request itself takes it from the queue, and the thread ends with
\* its window.
LEMMA ThreadEnd == ASSUME Inv, EndKept, Thread PROVE EndKept'
<1> USE DEF EndKept, Proceed, Refreshed, streamVars, handleVars
<1>1. CASE ui = "gone"
  BY <1>1 DEF Thread, FindTaskbar, EnsureWindow, Attach, Place, Show, Dispatch, Paint, Timer, Quit
<1>2. CASE Quit
  <2>1. alive' = {} /\ ui' = "gone"
    BY <1>2, SMT DEF Quit, Inv, WindowInv, OneWindow
  <2> QED
    BY <2>1
<1>3. CASE Dispatch
  <2>1. ui = "idle" /\ ui' \in {"refresh", "quit"} /\ UNCHANGED <<reader, refused>>
    BY <1>3 DEF Dispatch
  <2>2. CASE Head(queue) = "update"
    <3>1. queue # <<>> /\ queue' = Tail(queue)
      BY <1>3, <2>2 DEF Dispatch
    <3>2. ToClose => ToClose'
      BY <2>2, <3>1, CloseStays DEF Inv, WindowInv
    <3> QED
      BY <2>1, <3>2 DEF ToClose
  <2>3. CASE Head(queue) # "update"
    BY <1>3, <2>1, <2>3 DEF Dispatch
  <2> QED
    BY <2>2, <2>3
<1>4. CASE FindTaskbar \/ EnsureWindow \/ Attach \/ Place \/ Show \/ Paint \/ Timer
  <2>1. /\ UNCHANGED <<queue, refused>> /\ ui' \notin {"quit", "gone"}
        /\ ui \notin {"quit", "gone"}
        /\ reader' = "done" => reader = "done"
    BY <1>4, SMT DEF FindTaskbar, EnsureWindow, Create, Attach, Place, Show, Paint, Timer, refreshVars
  <2> QED
    BY <2>1
<1> QED
  BY <1>2, <1>3, <1>4 DEF Thread

\* The end of the stream is never overlooked: the request to close stays in the
\* queue until the thread has taken it, unless a full queue refused it, and the
\* thread leaves no window behind.
THEOREM EndRequested == Spec => []EndKept
<1>1. Init => EndKept
  BY DEF Init, EndKept
<1>2. Inv /\ EndKept /\ [Next]_vars => EndKept'
  <2> SUFFICES ASSUME Inv, EndKept, [Next]_vars PROVE EndKept'
    OBVIOUS
  <2>1. CASE UNCHANGED vars
    BY <2>1 DEF EndKept, vars, streamVars, refreshVars, handleVars
  <2>2. CASE DestroyNotice
    BY <2>2 DEF DestroyNotice, EndKept, streamVars, refreshVars
  <2>3. CASE Explorer
    <3>1. UNCHANGED <<reader, refused, ui>> /\ alive' \subseteq alive
      BY <2>3 DEF Explorer, ExplorerCrashes, ExplorerStarts, streamVars, refreshVars, handleVars
    <3>2. ToClose => ToClose'
      <4>1. queue' = queue \/ queue' = Append(queue, "update")
        BY <2>3 DEF Explorer, ExplorerCrashes, ExplorerStarts
      <4> QED
        BY <4>1, CloseStays DEF Inv, WindowInv, ToClose
    <3> QED
      BY <3>1, <3>2 DEF EndKept, ToClose
  <2> QED
    BY <2>1, <2>2, <2>3, ReadingEnd, ThreadEnd DEF Next
<1> QED
  BY <1>1, <1>2, PresenterInvariant, PTL DEF Spec

==============================================================================
