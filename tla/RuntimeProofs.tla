---------------------------- MODULE RuntimeProofs ----------------------------
(***************************************************************************)
(* Proofs about Runtime, for any number of threads, any restart budget and  *)
(* any number of requests and faults.                                       *)
(***************************************************************************)
EXTENDS Runtime, TLAPS

\* Zenon proves a step unless the step names SMT.
USE Zenon

\* What supervise's place says about the process and about m.current.
Supervised ==
    /\ status = "Ready" => pc \in {"started", "loop"} /\ current /\ proc # "none"
    /\ pc \in {"new", "start", "ended"} => proc = "none"

\* While supervise tries, it counts its failures; it goes on with them spent.
Counted ==
    /\ pc \in {"lost", "reconnect", "start"} => failures = attempt
    /\ status = "Failed" => pc = "ended" /\ failures = MaxRestarts + 1
    /\ pc = "stop" /\ ~planned /\ proc = "up" => failures = MaxRestarts + 1

\* The mark plannedWatcher stands for a goroutine, or for the token it brought;
\* so a request that finds the mark needs none of its own.
Awaited ==
    /\ pc = "new" => ~wanted /\ ~plannedWatcher
    /\ pc \in {"loop", "lost", "reconnect"} /\ (wanted \/ plannedWatcher) /\ ~lost /\ ~stopping
          => wake \/ watchers # {}
    /\ pc = "started" /\ wanted /\ ~lost /\ ~stopping => wake \/ watchers # {}

IInv == TypeOK /\ Supervised /\ Counted /\ Awaited

-----------------------------------------------------------------------------
\* New returns a supervisor with no process and nothing asked of it.
LEMMA InitInv == Init => IInv
<1> SUFFICES ASSUME Init PROVE IInv
  OBVIOUS
<1>1. MaxRestarts \in Nat
  BY BoundsAssumption
<1>2. TypeOK
  <2>1. Flags \subseteq BOOLEAN
    BY DEF Init, Flags
  <2>2. Types
    BY SMT, <1>1 DEF Init, Types
  <2> QED BY <2>1, <2>2 DEF TypeOK
<1>3. Supervised /\ Counted /\ Awaited
  BY DEF Init, Supervised, Counted, Awaited
<1> QED BY <1>2, <1>3 DEF IInv

\* What the app-server, StartTurn and the adapter do with turns, and a loss of
\* the connection, leave the supervisor alone.
LEMMA TurnsKeep ==
    ASSUME IInv,
           \/ \E th \in Threads : TurnNext(th)
           \/ Noted
           \/ ConnectionLost
    PROVE  IInv'
<1>1. TypeOK'
  <2>1. ASSUME NEW th \in Threads, TurnStarted(th) PROVE TypeOK'
    BY <2>1 DEF IInv, TypeOK, Flags, Types, TurnStarted, rest
  <2>2. ASSUME NEW th \in Threads, markActive(th) PROVE TypeOK'
    BY <2>2 DEF IInv, TypeOK, Flags, Types, markActive, rest
  <2>3. ASSUME NEW th \in Threads, TurnOver(th) PROVE TypeOK'
    BY <2>3 DEF IInv, TypeOK, Flags, Types, TurnOver, rest
  <2>4. ASSUME NEW th \in Threads, consume(th) PROVE TypeOK'
    BY <2>4 DEF IInv, TypeOK, Flags, Types, consume, rest
  <2>5. CASE Noted
    BY <2>5 DEF IInv, TypeOK, Flags, Types, Noted, rest
  <2>6. CASE ConnectionLost
    BY <2>6 DEF IInv, TypeOK, Flags, Types, ConnectionLost, Untold, Fault, rest
  <2> QED BY <2>1, <2>2, <2>3, <2>4, <2>5, <2>6 DEF TurnNext
<1>2. UNCHANGED rest
  BY DEF TurnNext, TurnStarted, markActive, TurnOver, consume, Noted, ConnectionLost
<1>3. Supervised' /\ Counted' /\ Awaited'
  BY <1>2 DEF IInv, rest, Supervised, Counted, Awaited
<1> QED BY <1>1, <1>3 DEF IInv

\* An exit leaves a process to be waited for.
LEMMA ProcessExitsKeeps == ASSUME IInv, ProcessExits PROVE IInv'
<1>1. TypeOK'
  BY DEF IInv, TypeOK, Flags, Types, ProcessExits, Fault
<1>2. Supervised' /\ Counted' /\ Awaited'
  BY DEF IInv, ProcessExits, Supervised, Counted, Awaited
<1> QED BY <1>1, <1>2 DEF IInv

\* A request leaves a token or a goroutine, or finds the mark of one.
LEMMA RequestRestartKeeps == ASSUME IInv, RequestRestart PROVE IInv'
<1>1. TypeOK'
  <2>1. TypeOK /\ requests' = requests + 1 /\ wanted' \in BOOLEAN /\ lost' \in BOOLEAN
    BY DEF IInv, TypeOK, Flags, RequestRestart
  <2>2. /\ wake' \in BOOLEAN /\ plannedWatcher' \in BOOLEAN
        /\ watchers' = watchers \/ watchers' = watchers \cup {"waiting"}
    BY <2>1 DEF TypeOK, Flags, RequestRestart
  <2>3. UNCHANGED <<pc, attempt, planned, status, current, proc, adapter, stopping, faults, failures>>
    BY DEF RequestRestart
  <2>4. Flags' \subseteq BOOLEAN
    BY <2>1, <2>2, <2>3 DEF TypeOK, Flags, adapter
  <2>5. Types'
    BY <2>1, <2>2, <2>3 DEF TypeOK, Types, adapter
  <2> QED BY <2>4, <2>5 DEF TypeOK
<1>2. Supervised' /\ Counted'
  BY DEF IInv, RequestRestart, Supervised, Counted
<1>3. Awaited'
  BY DEF IInv, RequestRestart, Awaited, Supervised
<1> QED BY <1>1, <1>2, <1>3 DEF IInv

\* The goroutine hands over a token it took: until Close one of the two is always
\* there.
LEMMA WatcherKeeps == ASSUME IInv, IdleSeen \/ Wakes \/ WatcherEnds \/ Close PROVE IInv'
<1>1. TypeOK'
  <2>1. CASE IdleSeen
    BY <2>1 DEF IInv, TypeOK, Flags, Types, IdleSeen
  <2>2. CASE Wakes
    BY <2>2 DEF IInv, TypeOK, Flags, Types, Wakes, adapter
  <2>3. CASE Close
    BY <2>3 DEF IInv, TypeOK, Flags, Types, Close, Untold
  <2>4. CASE WatcherEnds
    BY <2>4 DEF IInv, TypeOK, Flags, Types, WatcherEnds, adapter
  <2> QED BY <2>1, <2>2, <2>3, <2>4
<1>2. Supervised' /\ Counted'
  BY DEF IInv, IdleSeen, Wakes, WatcherEnds, Close, Supervised, Counted
<1>3. Awaited'
  BY SMT DEF IInv, IdleSeen, Wakes, WatcherEnds, Close, Awaited
<1> QED BY <1>1, <1>2, <1>3 DEF IInv

-----------------------------------------------------------------------------
(* The steps of supervise.                                                   *)

\* Start begins with a process and nothing asked, or ends.
LEMMA StartKeeps == ASSUME IInv, Start PROVE IInv'
<1>0. MaxRestarts \in Nat
  BY BoundsAssumption
<1>1. TypeOK'
  <2>1. (Flags \subseteq BOOLEAN)'
    <3>1. CASE Connected
      <4>1. {planned', wake', plannedWatcher', stopping', wanted', lost'} \subseteq BOOLEAN
        BY DEF IInv, TypeOK, Flags, Start
      <4>2. {current', conn', idle'} \subseteq BOOLEAN
        BY <3>1, Zenon DEF Connected
      <4> QED BY <4>1, <4>2, Zenon DEF Flags
    <3>2. CASE ~Connected
      BY <3>2 DEF IInv, TypeOK, Flags, Start
    <3> QED BY <3>1, <3>2
  <2>2. Types'
    <3>1. attempt' \in 0 .. MaxRestarts /\ failures' \in 0 .. MaxRestarts + 1
      BY SMT, <1>0 DEF IInv, TypeOK, Types, Start, Connected
    <3> QED BY <3>1 DEF IInv, TypeOK, Types, Start, Connected
  <2> QED BY <2>1, <2>2 DEF TypeOK
<1>2. Supervised' /\ Counted'
  BY DEF IInv, Start, Connected, Supervised, Counted
<1>3. Awaited'
  BY DEF IInv, Start, Connected, Awaited
<1> QED BY <1>1, <1>2, <1>3 DEF IInv

\* Leaving the loop ends Ready; a lost connection starts the counting.
LEMMA LoopKeeps ==
    ASSUME IInv, ExitSeen \/ AdapterDone \/ AdapterDropped \/ ExitInBackoff PROVE IInv'
<1>0. MaxRestarts \in Nat
  BY BoundsAssumption
<1>1. TypeOK'
  <2>1. (Flags \subseteq BOOLEAN)'
    <3>1. CASE ExitSeen
      BY <3>1 DEF IInv, TypeOK, Flags, ExitSeen, adapter
    <3>2. CASE AdapterDone
      BY <3>2 DEF IInv, TypeOK, Flags, AdapterDone, adapter
    <3>3. CASE AdapterDropped
      BY <3>3 DEF IInv, TypeOK, Flags, AdapterDropped, adapter
    <3>4. CASE ExitInBackoff
      BY <3>4 DEF IInv, TypeOK, Flags, ExitInBackoff, adapter
    <3> QED BY <3>1, <3>2, <3>3, <3>4
  <2>2. Types'
    <3>1. attempt' \in 0 .. MaxRestarts /\ failures' \in 0 .. MaxRestarts + 1
      BY SMT, <1>0 DEF IInv, TypeOK, Types, ExitSeen, AdapterDone, AdapterDropped, ExitInBackoff
    <3> QED BY <3>1 DEF IInv, TypeOK, Types, ExitSeen, AdapterDone, AdapterDropped,
                        ExitInBackoff, adapter
  <2> QED BY <2>1, <2>2 DEF TypeOK
<1>2. Supervised' /\ Counted'
  BY DEF IInv, ExitSeen, AdapterDone, AdapterDropped, ExitInBackoff, adapter, Supervised, Counted
<1>3. Awaited'
  BY SMT DEF IInv, ExitSeen, AdapterDone, AdapterDropped, ExitInBackoff, Awaited
<1> QED BY <1>1, <1>2, <1>3 DEF IInv

\* A reconnection keeps the process; a goroutine for the old adapter is noted as lost.
LEMMA ReconnectKeeps == ASSUME IInv, Reconnected \/ ReconnectFails PROVE IInv'
<1>0. MaxRestarts \in Nat
  BY BoundsAssumption
<1>1. TypeOK'
  <2>1. CASE Reconnected
    <3>1. (Flags \subseteq BOOLEAN)'
      BY <2>1 DEF IInv, TypeOK, Flags, Reconnected, Connected
    <3>2. Types'
      BY SMT, <1>0, <2>1 DEF IInv, TypeOK, Types, Reconnected, Connected
    <3> QED BY <3>1, <3>2 DEF TypeOK
  <2>2. CASE ReconnectFails
    <3>1. failures' \in 0 .. MaxRestarts + 1 /\ attempt' \in 0 .. MaxRestarts
      BY SMT, <1>0, <2>2 DEF IInv, TypeOK, Flags, Types, Counted, ReconnectFails
    <3> QED BY <2>2, <3>1 DEF IInv, TypeOK, Flags, Types, ReconnectFails, adapter, Fault
  <2> QED BY <2>1, <2>2
<1>2. Supervised'
  BY DEF IInv, Reconnected, ReconnectFails, Connected, Supervised
<1>3. Counted'
  BY SMT, <1>0 DEF IInv, TypeOK, Flags, Types, Reconnected, ReconnectFails, Connected, Supervised, Counted
<1>4. Awaited'
  <2>1. CASE Reconnected
    BY <2>1 DEF IInv, TypeOK, Flags, Types, Reconnected, Connected, Awaited
  <2>2. CASE ReconnectFails
    BY <2>2 DEF IInv, ReconnectFails, Awaited
  <2> QED BY <2>1, <2>2
<1> QED BY <1>1, <1>2, <1>3, <1>4 DEF IInv

\* A new process is started only when the old one is gone.
LEMMA RestartKeeps ==
    ASSUME IInv, waitForProcess \/ startInstance \/ clearPlanned \/ StartFails \/ CloseSeen
    PROVE  IInv'
<1>0. MaxRestarts \in Nat
  BY BoundsAssumption
<1>1. TypeOK'
  <2>1. CASE waitForProcess \/ startInstance \/ clearPlanned \/ CloseSeen
    <3>1. (Flags \subseteq BOOLEAN)'
      <4>1. CASE waitForProcess
        BY <4>1 DEF IInv, TypeOK, Flags, waitForProcess, Reaped
      <4>2. CASE startInstance
        BY <4>2 DEF IInv, TypeOK, Flags, startInstance, Connected
      <4>3. CASE clearPlanned
        BY <4>3 DEF IInv, TypeOK, Flags, clearPlanned, adapter
      <4>4. CASE CloseSeen
        BY <4>4 DEF IInv, TypeOK, Flags, CloseSeen, Stopped, Reaped
      <4> QED BY <2>1, <4>1, <4>2, <4>3, <4>4
    <3>2. Types'
      <4>1. attempt' \in 0 .. MaxRestarts /\ failures' \in 0 .. MaxRestarts + 1
        BY SMT, <1>0, <2>1 DEF IInv, TypeOK, Types, waitForProcess, startInstance, clearPlanned,
                          CloseSeen, Stopped, Connected
      <4> QED BY <2>1, <4>1 DEF IInv, TypeOK, Types, waitForProcess, startInstance, clearPlanned,
                                CloseSeen, Stopped, Reaped, Connected, adapter
    <3> QED BY <3>1, <3>2 DEF TypeOK
  <2>2. CASE StartFails
    <3>1. failures' \in 0 .. MaxRestarts + 1 /\ attempt' \in 0 .. MaxRestarts
      BY SMT, <1>0, <2>2 DEF IInv, TypeOK, Flags, Types, Counted, StartFails
    <3> QED BY <2>2, <3>1 DEF IInv, TypeOK, Flags, Types, StartFails, adapter, Fault
  <2> QED BY <2>1, <2>2
<1>2. Supervised'
  BY DEF IInv, waitForProcess, startInstance, clearPlanned, StartFails, CloseSeen, Stopped,
         Reaped, Connected, Supervised
<1>3. Counted'
  BY SMT, <1>0 DEF IInv, TypeOK, Flags, Types, waitForProcess, startInstance, clearPlanned, StartFails, CloseSeen,
              Stopped, Reaped, Connected, Supervised, Counted
<1>4. Awaited'
  BY SMT DEF IInv, waitForProcess, startInstance, clearPlanned, StartFails, CloseSeen, Stopped,
         Connected, Awaited
<1> QED BY <1>1, <1>2, <1>3, <1>4 DEF IInv

-----------------------------------------------------------------------------
\* Every step of the supervisor, of RequestRestart and its goroutine, of Close,
\* of the turns and of the process keeps the invariant.
THEOREM Invariance == Spec => []IInv
<1>1. ASSUME IInv, [Next]_vars PROVE IInv'
  <2>1. CASE UNCHANGED vars
    BY SMT, <1>1, <2>1 DEF vars, IInv, TypeOK, Flags, Types, Supervised, Counted, Awaited
  <2>2. CASE Next
    BY <1>1, <2>2, TurnsKeep, ProcessExitsKeeps, RequestRestartKeeps, WatcherKeeps, StartKeeps,
       LoopKeeps, ReconnectKeeps, RestartKeeps DEF Next, supervise
  <2> QED BY <1>1, <2>1, <2>2
<1> QED BY <1>1, InitInv, PTL DEF Spec

\* The supervisor's and the adapter's state keep their types.
THEOREM TypeCorrect == Spec => []TypeOK
<1>1. IInv => TypeOK
  BY DEF IInv
<1> QED BY <1>1, Invariance, PTL

\* The adapter Runtime.Adapter returns is the one supervise watches.
THEOREM ReadyIsSupervisedHolds == Spec => []ReadyIsSupervised
<1>1. IInv => ReadyIsSupervised
  BY DEF IInv, Supervised, ReadyIsSupervised
<1> QED BY <1>1, Invariance, PTL

\* No process is started, and supervise does not end, before the last process was
\* waited for.
THEOREM NoOrphanHolds == Spec => []NoOrphan
<1>1. IInv => NoOrphan
  BY DEF IInv, Supervised, NoOrphan
<1> QED BY <1>1, Invariance, PTL

\* supervise gives up, or stops a process unasked, with its budget spent.
THEOREM BudgetSpentHolds == Spec => []BudgetSpent
<1>1. IInv => BudgetSpent
  BY DEF IInv, Counted, BudgetSpent
<1> QED BY <1>1, Invariance, PTL

\* A promised restart has its token or a goroutine that will bring it.
THEOREM RestartIsAwaitedHolds == Spec => []RestartIsAwaited
<1>1. IInv => RestartIsAwaited
  BY DEF IInv, Supervised, Awaited, RestartIsAwaited
<1> QED BY <1>1, Invariance, PTL
=============================================================================
