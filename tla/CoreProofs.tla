----------------------------- MODULE CoreProofs -----------------------------
(***************************************************************************)
(* On the systems with process handles no process but the one named by the *)
(* identity is signalled, and on all three success means that it is gone,  *)
(* for any number of calls and processes.                                  *)
(***************************************************************************)
EXTENDS CoreStop, TLAPS

\* A process id that has been given out again never returns to the target, so
\* a handle is bound to the target whenever the target still has the id.
HandleInv ==
  /\ holder <= created
  /\ \A c \in Callers :
       /\ handle[c] <= created
       /\ (pc[c] \in {"first", "second"} /\ stage[c] = "bound" /\ platform = "linux")
            => handle[c] # None /\ (holder = Target => handle[c] = Target)
       /\ (pc[c] \in {"first", "second"} /\ platform = "linux")
            => stage[c] \in {"entry", "bound"}
       /\ (pc[c] \in {"first", "second"} /\ platform = "windows")
            => stage[c] = "entry"
       /\ (pc[c] \in {"first", "second"} /\ platform = "windows")
            => pc[c] = "first"
       /\ (pc[c] \in {"signal", "wait"} /\ platform # "macos") => handle[c] = Target
       /\ pc[c] = "bound" => platform = "windows"
       /\ pc[c] = "open" => platform # "macos"

CoreInv == TypeOK /\ HandleInv /\ OnlyTargetSignalled

USE DEF vars, tableVars, callerVars, Target, None, Processes, CoreInv, TypeOK,
        HandleInv, OnlyTargetSignalled

\* Whatever happens in the process table, a bound handle stays right.
LEMMA TableStep ==
  ASSUME CoreAssumption, CoreInv, Move \/ Exit \/ Reap \/ Reuse,
         UNCHANGED <<callerVars, hits>>
  PROVE  CoreInv'
<1> USE DEF CoreAssumption
<1>1. CASE Move
  BY <1>1, SMT DEF Move
<1>2. CASE Exit
  BY <1>2, SMT DEF Exit
<1>3. CASE Reap
  BY <1>3, SMT DEF Reap
<1>4. CASE Reuse
  BY <1>4, SMT DEF Reuse
<1>5. QED
  BY <1>1, <1>2, <1>3, <1>4

\* A step of a call reaches the signal only through a verified handle.
LEMMA CallerStep ==
  ASSUME CoreAssumption, CoreInv, NEW c \in Callers, Step(c), UNCHANGED tableVars
  PROVE  CoreInv'
<1> USE DEF CoreAssumption, Go, Return, Inspect
<1>1. CASE Call(c) /\ UNCHANGED hits
  BY <1>1, SMT DEF Call
<1>2. CASE InspectFirst(c) /\ UNCHANGED hits
  <2>1. CASE Return(c, "failed")
    BY <1>2, <2>1, SMT
  <2>2. CASE Mismatch(c)
    BY <1>2, <2>2, SMT DEF Mismatch
  <2>3. CASE /\ holder # None
             /\ Go(c, "second") /\ UNCHANGED <<stage, handle, signal, answer>>
             /\ seen' = [seen EXCEPT ![c] =
                  IF platform = "macos" \/ image = "core" THEN holder ELSE None]
             /\ pc[c] = "first" /\ platform # "windows"
    BY <1>2, <2>3, SMT
  <2>4. CASE /\ holder # None /\ pc[c] = "first" /\ platform = "windows"
             /\ Confirmed(c) /\ UNCHANGED <<seen, handle, signal, answer>>
    BY <1>2, <2>4, SMT DEF Confirmed
  <2>5. QED
    BY <1>2, <2>1, <2>2, <2>3, <2>4 DEF InspectFirst
<1>3. CASE InspectSecond(c) /\ UNCHANGED hits
  <2>1. CASE Return(c, "failed")
    BY <1>3, <2>1, SMT
  <2>2. CASE Mismatch(c)
    BY <1>3, <2>2, SMT DEF Mismatch
  <2>3. CASE /\ pc[c] = "second" /\ holder # None /\ Matches(c)
             /\ Confirmed(c) /\ UNCHANGED <<seen, handle, signal, answer>>
    BY <1>3, <2>3, SMT DEF Confirmed, Matches
  <2>4. QED
    BY <1>3, <2>1, <2>2, <2>3 DEF InspectSecond
<1>4. CASE OpenHandle(c) /\ UNCHANGED hits
  BY <1>4, SMTT(60) DEF OpenHandle
<1>5. CASE CheckHandle(c) /\ UNCHANGED hits
  BY <1>5, SMT DEF CheckHandle
<1>6. CASE Wait(c) /\ UNCHANGED hits
  BY <1>6, SMTT(60) DEF Wait, TimedOut
<1>7. CASE SendSignal(c)
  <2>1. CASE (Return(c, "stopped") \/ Return(c, "failed")) /\ UNCHANGED hits
    BY <2>1, SMT
  <2>2. CASE /\ pc[c] = "signal" /\ holder # None /\ Addressee(c) = holder
             /\ hits' = hits \cup {holder} /\ Waiting(c)
    <3>1. platform # "macos" => holder = Target
      BY <2>2, SMT DEF Addressee
    <3>2. CASE platform = "macos"
      BY <2>2, <3>2, SMT DEF Waiting
    <3>3. CASE platform # "macos"
      BY <2>2, <3>1, <3>3, SMT DEF Waiting
    <3>4. QED
      BY <3>2, <3>3
  <2>3. QED
    BY <1>7, <2>1, <2>2 DEF SendSignal
<1>8. QED
  BY <1>1, <1>2, <1>3, <1>4, <1>5, <1>6, <1>7 DEF Step

\* The invariant holds in every reachable state.
THEOREM CoreInvariant == Spec => []CoreInv
<1>1. Init => CoreInv
  BY CoreAssumption, SMT DEF CoreAssumption, Init
<1>2. CoreInv /\ [Next]_vars => CoreInv'
  <2>1. ASSUME CoreInv, UNCHANGED vars PROVE CoreInv'
    BY <2>1, SMT
  <2>2. QED
    BY <2>1, CoreAssumption, TableStep, CallerStep DEF Next
<1>3. QED
  BY <1>1, <1>2, PTL DEF Spec

\* With a kernel handle bound before the second inspection, or the identity
\* read through the handle, only the process of the identity is signalled.
THEOREM TargetOnly == Spec => []OnlyTargetSignalled
<1>1. CoreInv => OnlyTargetSignalled
  BY DEF CoreInv
<1>2. QED
  BY <1>1, CoreInvariant, PTL

\* Every variable keeps its type, and no call sends a fourth signal.
THEOREM CoreTypes == Spec => []TypeOK
<1>1. CoreInv => TypeOK
  BY DEF CoreInv
<1>2. QED
  BY <1>1, CoreInvariant, PTL

------------------------------------------------------------------------------

Gone == ~(holder = Target /\ life = "alive" /\ (platform = "macos" => image = "core"))

\* A call that has seen another process than the target in its first half has
\* seen that the target is gone for good.
GoneInv ==
  /\ \A c \in Callers : pc[c] = "second" /\ platform = "macos" /\ holder = Target => seen[c] = Target
  /\ StoppedMeansGone

\* The target never comes back.
LEMMA GoneStays ==
  ASSUME CoreAssumption, CoreInv, Move \/ Exit \/ Reap \/ Reuse
  PROVE  /\ holder' = Target => holder = Target
         /\ Gone => Gone'
  BY SMT DEF CoreAssumption, Gone, Move, Exit, Reap, Reuse

\* A step of a call answers "stopped" only when the target is gone.
LEMMA AnswerStep ==
  ASSUME CoreAssumption, CoreInv, GoneInv, NEW c \in Callers, Step(c), UNCHANGED tableVars
  PROVE  GoneInv'
<1> USE DEF CoreAssumption, Go, Return, Inspect, GoneInv, StoppedMeansGone
<1>1. CASE Call(c)
  BY <1>1, SMT DEF Call
<1>2. CASE InspectFirst(c)
  <2>1. CASE Return(c, "failed")
    BY <2>1, SMT
  <2>2. CASE Mismatch(c) /\ stage[c] \in {"entry", "bound"}
    BY <2>2, SMT DEF Mismatch
  <2>3. CASE Mismatch(c) /\ stage[c] \notin {"entry", "bound"}
                /\ (holder = None \/ life = "exited" \/ image = "other" \/ platform = "windows")
    <3>1. platform = "macos"
      BY <1>2, <2>3, SMT DEF InspectFirst
    <3> QED
      BY <2>3, <3>1, SMT DEF Mismatch
  <2>4. CASE /\ holder # None
             /\ Go(c, "second") /\ UNCHANGED <<answer, stage, handle, signal>>
             /\ seen' = [seen EXCEPT ![c] =
                  IF platform = "macos" \/ image = "core" THEN holder ELSE None]
    BY <2>4, SMT
  <2>5. CASE Confirmed(c) /\ UNCHANGED <<seen, handle, signal, answer>>
    BY <2>5, SMT DEF Confirmed
  <2> QED
    BY <1>2, <2>1, <2>2, <2>3, <2>4, <2>5 DEF InspectFirst
<1>3. CASE InspectSecond(c)
  <2>1. CASE Return(c, "failed")
    BY <2>1, SMT
  <2>2. CASE Mismatch(c) /\ stage[c] \in {"entry", "bound"}
    BY <2>2, SMT DEF Mismatch
  <2>3. CASE Mismatch(c) /\ stage[c] \notin {"entry", "bound"} /\ ~Matches(c) /\ pc[c] = "second"
    <3>1. platform = "macos"
      BY <2>3, SMT
    <3>2. holder # Target \/ image # "core"
      BY <2>3, <3>1, SMT DEF Matches
    <3> QED
      BY <2>3, <3>1, <3>2, SMT DEF Mismatch
  <2>4. CASE Confirmed(c) /\ UNCHANGED <<seen, handle, signal, answer>>
    BY <2>4, SMT DEF Confirmed
  <2> QED
    BY <1>3, <2>1, <2>2, <2>3, <2>4 DEF InspectSecond
<1>4. CASE OpenHandle(c)
  BY <1>4, SMT DEF OpenHandle
<1>5. CASE CheckHandle(c)
  BY <1>5, SMT DEF CheckHandle
<1>6. CASE Wait(c)
  <2>1. CASE platform # "macos" /\ (handle[c] # holder \/ life = "exited") /\ Return(c, "stopped")
    BY <1>6, <2>1, SMT DEF Wait
  <2>2. CASE TimedOut(c)
    BY <2>2, SMT DEF TimedOut
  <2>3. CASE Inspect(c, "waiting") /\ UNCHANGED <<seen, handle, signal, answer>>
    BY <2>3, SMT
  <2> QED
    BY <1>6, <2>1, <2>2, <2>3 DEF Wait
<1>7. CASE SendSignal(c)
  <2>1. CASE Return(c, "failed")
    BY <2>1, SMT
  <2>2. CASE Return(c, "stopped") /\ pc[c] = "signal" /\ (holder = None \/ Addressee(c) # holder)
    BY <2>2, SMT DEF Addressee
  <2>3. CASE Waiting(c)
    BY <2>3, SMT DEF Waiting
  <2> QED
    BY <1>7, <2>1, <2>2, <2>3 DEF SendSignal
<1> QED
  BY <1>1, <1>2, <1>3, <1>4, <1>5, <1>6, <1>7 DEF Step

\* Success is answered only when nothing the identity names is left, on all
\* three systems and whoever gets the process id afterwards (108-127, 208-211).
THEOREM StoppedGone == Spec => []StoppedMeansGone
<1>1. Init => GoneInv
  BY SMT DEF Init, GoneInv, StoppedMeansGone
<1>2. CoreInv /\ GoneInv /\ [Next]_vars => GoneInv'
  <2>1. ASSUME CoreInv, GoneInv, UNCHANGED vars PROVE GoneInv'
    BY <2>1, SMT DEF GoneInv, StoppedMeansGone
  <2>2. ASSUME CoreInv, GoneInv, Move \/ Exit \/ Reap \/ Reuse, UNCHANGED <<callerVars, hits>>
        PROVE  GoneInv'
    <3>1. /\ holder' = Target => holder = Target
          /\ Gone => Gone'
      BY <2>2, CoreAssumption, GoneStays
    <3>2. platform' = platform
      BY <2>2 DEF Move, Exit, Reap, Reuse
    <3> QED
      BY <2>2, <3>1, <3>2, SMT DEF GoneInv, StoppedMeansGone, Gone
  <2> QED
    BY <2>1, <2>2, CoreAssumption, AnswerStep DEF Next
<1>3. GoneInv => StoppedMeansGone
  BY DEF GoneInv
<1> QED
  BY <1>1, <1>2, <1>3, CoreInvariant, PTL DEF Spec

------------------------------------------------------------------------------

\* On macOS a caller about to signal comes straight from an inspection for this
\* signal that saw the target; there is no handle and so no other inspection
\* that leads there.
SeenInv ==
  platform = "macos" => \A c \in Callers :
    /\ pc[c] \in {"first", "second"} => stage[c] # "bound"
    /\ pc[c] = "signal" => stage[c] = "before" /\ seen[c] = Target

LEMMA SeenStep ==
  ASSUME CoreAssumption, CoreInv, SeenInv, NEW c \in Callers, Step(c), UNCHANGED tableVars
  PROVE  SeenInv'
<1> USE DEF CoreAssumption, SeenInv, Go, Return, Inspect
<1> SUFFICES ASSUME platform = "macos" PROVE SeenInv'
  OBVIOUS
<1>1. CASE Call(c)
  BY <1>1, SMT DEF Call
<1>2. CASE InspectFirst(c)
  BY <1>2, SMT DEF InspectFirst, Mismatch
<1>3. CASE InspectSecond(c)
  <2>1. CASE Return(c, "failed") \/ Mismatch(c)
    BY <2>1, SMT DEF Mismatch
  <2>2. CASE pc[c] = "second" /\ Matches(c) /\ Confirmed(c) /\ UNCHANGED <<seen, handle, signal, answer>>
    BY <2>2, SMT DEF Matches, Confirmed
  <2> QED
    BY <1>3, <2>1, <2>2 DEF InspectSecond
<1>4. CASE OpenHandle(c) \/ CheckHandle(c)
  BY <1>4, SMT DEF OpenHandle, CheckHandle
<1>5. CASE Wait(c)
  BY <1>5, SMT DEF Wait, TimedOut
<1>6. CASE SendSignal(c)
  BY <1>6, SMT DEF SendSignal, Waiting
<1> QED
  BY <1>1, <1>2, <1>3, <1>4, <1>5, <1>6 DEF Step

\* The invariant of the macOS path holds in every reachable state.
THEOREM SeenInvariant == Spec => []SeenInv
<1>1. Init => SeenInv
  <2> SUFFICES ASSUME Init, NEW c \in Callers PROVE pc[c] \notin {"first", "second", "signal"}
    BY DEF SeenInv
  <2> QED
    BY DEF Init
<1>2. CoreInv /\ SeenInv /\ [Next]_vars => SeenInv'
  <2>1. ASSUME CoreInv, SeenInv, UNCHANGED vars PROVE SeenInv'
    BY <2>1, SMT DEF SeenInv
  <2>2. ASSUME CoreInv, SeenInv, Move \/ Exit \/ Reap \/ Reuse, UNCHANGED <<callerVars, hits>>
        PROVE  SeenInv'
    BY <2>2, SMT DEF SeenInv, Move, Exit, Reap, Reuse
  <2> QED
    BY <2>1, <2>2, CoreAssumption, SeenStep DEF Next
<1> QED
  BY <1>1, <1>2, CoreInvariant, PTL DEF Spec

\* No signal on any system goes out on an older verdict: on macOS each has an
\* inspection of its own, elsewhere the handle is the verdict (105-118, 182-189).
THEOREM EachSignalInspected == Spec => SignalsInspected
<1> DEFINE Inspected ==
  hits' # hits => \E c \in Callers :
    /\ pc[c] = "signal" /\ pc'[c] # "signal"
    /\ platform = "macos" => stage[c] = "before" /\ seen[c] = Target
    /\ platform # "macos" => handle[c] = Target
<1>1. ASSUME CoreInv, SeenInv, Next, hits' # hits
      PROVE  Inspected
  <2>1. PICK c \in Callers : SendSignal(c)
    BY <1>1, SMT DEF Next, Step
  <2>2. pc[c] = "signal" /\ Waiting(c)
    BY <1>1, <2>1, SMT DEF SendSignal
  <2>3. pc'[c] # "signal"
    BY <1>1, <2>2, SMT DEF Waiting, Go, Inspect
  <2>4. platform # "macos" => handle[c] = Target
    BY <1>1, <2>2, SMT
  <2> QED
    BY <1>1, <2>2, <2>3, <2>4 DEF SeenInv
<1>2. CoreInv /\ SeenInv /\ [Next]_vars => [Inspected]_vars
  BY <1>1
<1> QED
  BY <1>2, CoreInvariant, SeenInvariant, PTL DEF Spec, SignalsInspected

==============================================================================
