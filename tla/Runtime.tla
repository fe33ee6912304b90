------------------------------- MODULE Runtime -------------------------------
(***************************************************************************)
(* The supervisor of the app-server process and of the connection to it:   *)
(* Start, supervise, RequestRestart and Close (internal/runtime/manager.go),*)
(* with the adapter's count of active turns and its idle signal            *)
(* (internal/adapter/adapter.go), which a planned restart waits for.       *)
(*                                                                         *)
(* supervise is one goroutine; RequestRestart, Close, the goroutine that   *)
(* waits for an adapter to be idle, StartTurn's markActive, the adapter's  *)
(* consume and the process itself run beside it.                           *)
(***************************************************************************)
EXTENDS Naturals

CONSTANTS
    Threads,        \* threads with turns
    MaxRestarts,    \* cfg.MaxRestarts
    MaxRequests,    \* bound: how often RequestRestart is called
    MaxFaults       \* bound: how many losses, exits and failed dials happen

ASSUME BoundsAssumption == MaxRestarts \in Nat /\ MaxRequests \in Nat /\ MaxFaults \in Nat

VARIABLES
    pc,             \* supervise: "new", "loop", "lost", "reconnect", "stop", "start",
                    \* "started", "ended"
    attempt, planned,           \* its locals
    status,         \* m.state.Status
    current,        \* m.current # nil
    proc,           \* the process: "none", "up", or "exited" and not yet waited for
    conn,           \* the newest adapter's connection is up
    turn,           \* upstream: each thread's turn "none", "running", or "over" and untold
    unread,         \* threads whose turn/started the adapter has not consumed
    marking,        \* each thread's StartTurn: nothing, or "mark" or "drain" of markActive
    noting,         \* consume: "take" a notification, or "drain" or "signal" the idle channel
    active, idle,   \* the newest adapter's active turns and idle channel
    wake,           \* m.wake holds a token
    plannedWatcher,
    watchers,       \* goroutines that wait for the newest adapter, or will wake supervise
    stopping,
    requests, faults,
    wanted,         \* history: a restart was asked for and no process started since
    lost,           \* history: the adapter a restart waits for was replaced, or its mark cleared
    failures        \* history: failed attempts since supervise began to recover

adapter == <<conn, turn, unread, marking, noting, active, idle>>
vars == <<pc, attempt, planned, status, current, proc, conn, turn, unread, marking, noting,
          active, idle, wake, plannedWatcher, watchers, stopping, requests, faults, wanted, lost, failures>>

Fault == faults < MaxFaults /\ faults' = faults + 1

-----------------------------------------------------------------------------
(* The app-server, and what the adapter keeps of its turns.                  *)

rest == <<pc, attempt, planned, status, current, proc, wake, plannedWatcher, watchers, stopping,
          requests, wanted, lost, failures>>

\* turn/start is answered, its caller is about to mark the turn active, and
\* turn/started is on its way to consume.
TurnStarted(th) ==
    /\ status = "Ready" /\ conn /\ turn[th] = "none" /\ marking[th] = "no"
    /\ turn' = [turn EXCEPT ![th] = "running"]
    /\ unread' = unread \cup {th}
    /\ marking' = [marking EXCEPT ![th] = "mark"]
    /\ UNCHANGED <<rest, conn, noting, active, idle, faults>>

\* The turn is noted, then a token left in the idle channel is taken out.
markActive(th) ==
    /\ \/ marking[th] = "mark" /\ active' = active \cup {th} /\ UNCHANGED idle
       \/ marking[th] = "drain" /\ idle' = FALSE /\ UNCHANGED active
    /\ marking' = [marking EXCEPT ![th] = IF @ = "mark" THEN "drain" ELSE "no"]
    /\ UNCHANGED <<rest, conn, turn, unread, noting, faults>>

\* Without a connection nobody is told.
TurnOver(th) ==
    /\ turn[th] = "running"
    /\ turn' = [turn EXCEPT ![th] = IF conn THEN "over" ELSE "none"]
    /\ UNCHANGED <<rest, conn, unread, marking, noting, active, idle, faults>>

\* The adapter takes turn/started and marks the turn too, or takes turn/completed.
consume(th) ==
    /\ conn /\ noting = "take"
    /\ \/ /\ th \in unread
          /\ unread' = unread \ {th}
          /\ active' = active \cup {th}
          /\ noting' = "drain"
          /\ UNCHANGED turn
       \/ /\ th \notin unread /\ turn[th] = "over"
          /\ turn' = [turn EXCEPT ![th] = "none"]
          /\ active' = active \ {th}
          /\ noting' = IF active' = {} THEN "signal" ELSE "take"
          /\ UNCHANGED unread
    /\ UNCHANGED <<rest, conn, marking, idle, faults>>

\* ... and then, without the adapter's lock, empties or fills the idle channel.
Noted ==
    /\ noting # "take"
    /\ idle' = (noting = "signal")
    /\ noting' = "take"
    /\ UNCHANGED <<rest, conn, turn, unread, marking, active, faults>>

\* What was not consumed is lost with the connection.
Untold ==
    /\ turn' = [th \in Threads |-> IF turn[th] = "over" THEN "none" ELSE turn[th]]
    /\ unread' = {}

ConnectionLost ==
    /\ conn /\ Fault
    /\ conn' = FALSE
    /\ Untold
    /\ UNCHANGED <<rest, marking, noting, active, idle>>

ProcessExits ==
    /\ proc = "up"
    /\ IF stopping THEN UNCHANGED faults ELSE Fault     \* Close sends SIGTERM
    /\ proc' = "exited"
    /\ conn' = FALSE
    /\ turn' = [th \in Threads |-> "none"] /\ unread' = {}
    /\ UNCHANGED <<pc, attempt, planned, status, current, marking, noting, active, idle, wake,
                   plannedWatcher, watchers, stopping, requests, wanted, lost, failures>>

-----------------------------------------------------------------------------
(* RequestRestart, its goroutine, and Close.                                 *)

\* With a turn active the restart is deferred; one goroutine waits at a time.  The
\* mark may be an old one that supervise is about to clear.
RequestRestart ==
    /\ ~stopping /\ pc # "new" /\ requests < MaxRequests
    /\ requests' = requests + 1
    /\ IF current /\ active # {}
       THEN /\ plannedWatcher' = TRUE
            /\ watchers' = IF plannedWatcher THEN watchers ELSE watchers \cup {"waiting"}
            /\ UNCHANGED wake
       ELSE wake' = TRUE /\ UNCHANGED <<plannedWatcher, watchers>>
    /\ wanted' = (pc # "ended")
    /\ lost' = (lost \/ (pc = "started" /\ plannedWatcher /\ active # {}))
    /\ UNCHANGED <<pc, attempt, planned, status, current, proc, adapter, stopping, faults,
                   failures>>

\* The goroutine takes the idle token of the adapter it was made for, then wakes
\* supervise; it may be overtaken by anything in between.
IdleSeen ==
    /\ "waiting" \in watchers /\ idle
    /\ idle' = FALSE
    /\ watchers' = (watchers \ {"waiting"}) \cup {"due"}
    /\ UNCHANGED <<pc, attempt, planned, status, current, proc, conn, turn, unread, marking,
                   noting, active, wake, plannedWatcher, stopping, requests, faults, wanted, lost, failures>>

Wakes ==
    /\ "due" \in watchers
    /\ watchers' = watchers \ {"due"}
    /\ wake' = TRUE
    /\ UNCHANGED <<pc, attempt, planned, status, current, proc, adapter, plannedWatcher,
                   stopping, requests, faults, wanted, lost, failures>>

\* After Close the goroutine waits no longer.
WatcherEnds ==
    /\ stopping /\ "waiting" \in watchers
    /\ watchers' = watchers \ {"waiting"}
    /\ UNCHANGED <<pc, attempt, planned, status, current, proc, adapter, wake, plannedWatcher,
                   stopping, requests, faults, wanted, lost, failures>>

Close ==
    /\ ~stopping /\ pc # "new"
    /\ stopping' = TRUE
    /\ conn' = (conn /\ ~current)
    /\ IF current THEN Untold ELSE UNCHANGED <<turn, unread>>
    /\ UNCHANGED <<pc, attempt, planned, status, current, proc, marking, noting, active, idle,
                   wake, plannedWatcher, watchers, requests, faults, wanted, lost, failures>>

-----------------------------------------------------------------------------
(* supervise.                                                                *)

\* connectAdapter succeeded: nothing is known of turns, and the goroutine that
\* waited for the old adapter waits for nothing.
Connected ==
    /\ proc' = "up" /\ conn' = TRUE /\ current' = TRUE
    /\ status' = "Ready"
    /\ marking' = [th \in Threads |-> "no"]
    /\ active' = {} /\ idle' = FALSE /\ noting' = "take"
    /\ watchers' = (watchers \ {"waiting"}) \cup
                      (IF "waiting" \in watchers /\ idle THEN {"due"} ELSE {})
    /\ attempt' = 0 /\ failures' = 0

\* The process is gone: signalled, waited for, killed when it does not go.
Reaped ==
    /\ proc' = "none" /\ conn' = FALSE
    /\ turn' = [th \in Threads |-> "none"] /\ unread' = {}

Stopped ==
    /\ stopping
    /\ Reaped
    /\ status' = "Stopped" /\ pc' = "ended"
    /\ UNCHANGED <<attempt, planned, current, marking, noting, active, idle, wake, plannedWatcher,
                   watchers, requests, stopping, faults, wanted, lost, failures>>

\* Start tries once and has no budget: for the history its failure spends all of it.
Start ==
    /\ pc = "new"
    /\ \/ Connected /\ pc' = "loop" /\ UNCHANGED faults
       \/ /\ Fault
          /\ status' = "Failed" /\ pc' = "ended" /\ failures' = MaxRestarts + 1
          /\ UNCHANGED <<attempt, current, proc, conn, marking, noting, active, idle, watchers>>
    /\ UNCHANGED <<planned, turn, unread, wake, plannedWatcher, stopping, requests, wanted, lost>>

\* The process exited, or a restart is due.
ExitSeen ==
    /\ pc = "loop"
    /\ \/ proc = "exited" /\ planned' = FALSE /\ UNCHANGED wake
       \/ wake /\ wake' = FALSE /\ planned' = TRUE
    /\ status' = "Restarting" /\ pc' = "stop"
    /\ UNCHANGED <<attempt, current, proc, adapter, plannedWatcher, watchers, stopping,
                   requests, faults, wanted, lost, failures>>

AdapterDone ==
    /\ pc = "loop" /\ ~conn /\ ~stopping
    /\ status' = "Restarting"
    /\ pc' = "lost" /\ attempt' = 0 /\ planned' = FALSE /\ failures' = 0
    /\ UNCHANGED <<current, proc, adapter, wake, plannedWatcher, watchers, stopping, requests,
                   faults, wanted, lost>>

AdapterDropped ==
    /\ pc = "lost"
    /\ current' = FALSE
    /\ pc' = "reconnect"
    /\ UNCHANGED <<attempt, planned, status, proc, adapter, wake, plannedWatcher, watchers,
                   stopping, requests, faults, wanted, lost, failures>>

\* Between two attempts the exit of the process ends the reconnecting.
ExitInBackoff ==
    /\ pc = "reconnect" /\ attempt > 0 /\ proc = "exited"
    /\ pc' = "stop"
    /\ UNCHANGED <<attempt, planned, status, current, proc, adapter, wake, plannedWatcher,
                   watchers, stopping, requests, faults, wanted, lost, failures>>

\* The goroutine that waits for the old adapter's idle signal is not replaced.
Reconnected ==
    /\ pc = "reconnect" /\ proc = "up" /\ ~stopping
    /\ Connected /\ pc' = "loop"
    /\ lost' = (lost \/ "waiting" \in watchers)
    /\ UNCHANGED <<planned, turn, unread, wake, plannedWatcher, stopping, requests, faults, wanted>>

ReconnectFails ==
    /\ pc = "reconnect"
    /\ IF proc = "up" /\ ~stopping THEN Fault ELSE UNCHANGED faults
    /\ failures' = failures + 1
    /\ IF attempt < MaxRestarts THEN attempt' = attempt + 1 /\ UNCHANGED pc
                                ELSE pc' = "stop" /\ UNCHANGED attempt
    /\ UNCHANGED <<planned, status, current, proc, adapter, wake, plannedWatcher, watchers,
                   stopping, requests, wanted, lost>>

\* Mutant: the process is signalled and not waited for.
waitForProcess_NoWait ==
    /\ pc = "stop"
    /\ pc' = "start" /\ attempt' = 0 /\ failures' = 0 /\ current' = FALSE
    /\ UNCHANGED <<planned, status, proc, adapter, wake, plannedWatcher, watchers,
                   stopping, requests, faults, wanted, lost>>

\* Mutant: the attempts of the reconnection count against the restart.
waitForProcess_KeepsAttempt ==
    /\ pc = "stop"
    /\ Reaped
    /\ current' = FALSE
    /\ pc' = "start" /\ failures' = 0
    /\ UNCHANGED <<attempt, planned, status, marking, noting, active, idle, wake, plannedWatcher,
                   watchers, stopping, requests, faults, wanted, lost>>

\* Mutant: a process that ignores the signal is not killed.
waitForProcess_NoKill ==
    /\ pc = "stop" /\ proc = "exited"
    /\ Reaped
    /\ current' = FALSE
    /\ pc' = "start" /\ attempt' = 0 /\ failures' = 0
    /\ UNCHANGED <<planned, status, marking, noting, active, idle, wake, plannedWatcher, watchers,
                   stopping, requests, faults, wanted, lost>>

waitForProcess ==
    /\ pc = "stop"
    /\ Reaped
    /\ current' = FALSE
    /\ pc' = "start" /\ attempt' = 0 /\ failures' = 0
    /\ UNCHANGED <<planned, status, marking, noting, active, idle, wake, plannedWatcher, watchers,
                   stopping, requests, faults, wanted, lost>>

startInstance ==
    /\ pc = "start" /\ ~stopping
    /\ Connected /\ pc' = "started"
    /\ wanted' = FALSE /\ lost' = FALSE
    /\ UNCHANGED <<planned, turn, unread, wake, plannedWatcher, stopping, requests, faults>>

\* Mutant: the mark of a goroutine that waits outlives the process.
clearPlanned_KeepsWatcher ==
    /\ pc = "started"
    /\ pc' = "loop"
    /\ UNCHANGED <<attempt, planned, status, current, proc, adapter, wake, plannedWatcher,
                   watchers, stopping, requests, faults, wanted, lost, failures>>

\* The mark of the goroutine is cleared after the new process is Ready.
clearPlanned ==
    /\ pc = "started"
    /\ pc' = "loop"
    /\ plannedWatcher' = FALSE
    /\ UNCHANGED <<attempt, planned, status, current, proc, adapter, wake, watchers, stopping,
                   requests, faults, wanted, lost, failures>>

\* The process is killed and waited for when it cannot be connected to.
StartFails ==
    /\ pc = "start"
    /\ IF stopping THEN UNCHANGED faults ELSE Fault
    /\ failures' = failures + 1
    /\ IF attempt >= MaxRestarts
       THEN pc' = "ended" /\ status' = "Failed" /\ UNCHANGED attempt
       ELSE attempt' = attempt + 1 /\ UNCHANGED <<pc, status>>
    /\ UNCHANGED <<planned, current, proc, adapter, wake, plannedWatcher, watchers, stopping,
                   requests, wanted, lost>>

\* Mutant: Close is noticed in a backoff only.
CloseSeen_Backoff ==
    /\ \/ pc = "reconnect" /\ attempt > 0
       \/ pc = "start" /\ (~planned \/ attempt > 0)
    /\ Stopped

\* Close is noticed in the loop and in every backoff.
CloseSeen ==
    /\ \/ pc = "loop"
       \/ pc = "reconnect" /\ attempt > 0
       \/ pc = "start" /\ (~planned \/ attempt > 0)
    /\ Stopped

supervise ==
    \/ ExitSeen \/ AdapterDone \/ AdapterDropped \/ ExitInBackoff \/ Reconnected
    \/ ReconnectFails \/ waitForProcess \/ startInstance \/ clearPlanned \/ StartFails
    \/ CloseSeen

-----------------------------------------------------------------------------
Init ==
    /\ pc = "new" /\ attempt = 0 /\ planned = FALSE
    /\ status = "Stopped" /\ current = FALSE /\ proc = "none" /\ conn = FALSE
    /\ turn = [th \in Threads |-> "none"] /\ marking = [th \in Threads |-> "no"]
    /\ unread = {} /\ noting = "take" /\ active = {} /\ idle = FALSE
    /\ wake = FALSE /\ plannedWatcher = FALSE /\ watchers = {} /\ stopping = FALSE
    /\ requests = 0 /\ faults = 0 /\ wanted = FALSE /\ lost = FALSE /\ failures = 0

TurnNext(th) == TurnStarted(th) \/ markActive(th) \/ TurnOver(th) \/ consume(th)

Next ==
    \/ \E th \in Threads : TurnNext(th)
    \/ Noted \/ ConnectionLost \/ ProcessExits
    \/ RequestRestart \/ IdleSeen \/ Wakes \/ WatcherEnds \/ Close
    \/ Start \/ supervise

Spec == Init /\ [][Next]_vars

\* The goroutines run; a turn the app-server runs ends.
FairSpec ==
    /\ Spec
    /\ WF_vars(Start) /\ WF_vars(supervise) /\ WF_vars(IdleSeen) /\ WF_vars(Wakes) /\ WF_vars(Noted)
    /\ \A th \in Threads : WF_vars(markActive(th)) /\ WF_vars(TurnOver(th)) /\ WF_vars(consume(th))

-----------------------------------------------------------------------------
(* Properties.                                                               *)

Flags == {planned, current, conn, idle, wake, plannedWatcher, stopping, wanted, lost}
Types ==
    /\ pc \in {"new", "loop", "lost", "reconnect", "stop", "start", "started", "ended"}
    /\ attempt \in 0 .. MaxRestarts /\ failures \in 0 .. MaxRestarts + 1
    /\ status \in {"Stopped", "Ready", "Restarting", "Failed"}
    /\ proc \in {"none", "up", "exited"}
    /\ turn \in [Threads -> {"none", "running", "over"}]
    /\ marking \in [Threads -> {"no", "mark", "drain"}]
    /\ noting \in {"take", "drain", "signal"} /\ unread \subseteq Threads
    /\ active \subseteq Threads /\ watchers \subseteq {"waiting", "due"}

\* Types of the supervisor's and the adapter's state.
TypeOK == Flags \subseteq BOOLEAN /\ Types

\* While Ready, Runtime.Adapter returns the adapter supervise watches, and there
\* is a process to watch: a loss or an exit is noticed and not missed.
ReadyIsSupervised == status = "Ready" => pc \in {"started", "loop"} /\ current /\ proc # "none"

\* A process is started, and the supervisor ends, only when the last process was
\* waited for: no app-server is left behind and never do two run.
NoOrphan == pc \in {"start", "ended"} => proc = "none"

\* supervise gives up, or stops a running process nobody asked to restart, only
\* after MaxRestarts + 1 failed attempts since it was last connected.  Nothing is
\* claimed of the first Start, which fails at its one attempt.
BudgetSpent ==
    \/ status = "Failed"
    \/ pc = "stop" /\ ~planned /\ proc = "up"
    => failures = MaxRestarts + 1

\* After Close, supervise ends, whatever it was doing.
CloseEnds == stopping ~> pc = "ended"

\* From a lost connection or process supervise gets to Ready, or gives up.
Recovers == status = "Restarting" ~> status # "Restarting"

\* Until Close, a restart RequestRestart promised is awaited: its token or a goroutine that
\* will bring it is there, unless a reconnection took the adapter one waited for, or
\* the request relied on a mark that was about to be cleared.
RestartIsAwaited == status = "Ready" /\ wanted /\ ~lost /\ ~stopping => wake \/ watchers # {}
=============================================================================
