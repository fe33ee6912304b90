-------------------------------- MODULE Lease --------------------------------
(***************************************************************************)
(* The management lease of one Codex: renewLease, UnmanageCodex,           *)
(* sweepLease, setRunning and Restore of internal/codex/manager.go, over   *)
(* the codexes row and the stream of internal/activity.                    *)
(*                                                                         *)
(* Every handler holds commitMu from start to end, so a handler is one     *)
(* step; inside it the state is saved, CodexUpdated is published and, for  *)
(* an expiring lease, WarningRaised is published, and each of these may    *)
(* fail, end unknown, or be the last thing the Host does.                  *)
(***************************************************************************)
EXTENDS Integers, Sequences

CONSTANTS
    LeaseDuration,  \* --lease-duration
    WarningBefore,  \* --lease-warning-before
    MaxTime,        \* bound: the clock stops here
    MaxFaults       \* bound: how many failures and crashes happen

ASSUME LeaseAssumption ==
    /\ LeaseDuration \in Nat /\ WarningBefore \in Nat
    /\ 0 < WarningBefore /\ WarningBefore < LeaseDuration
ASSUME BoundsAssumption == MaxTime \in Nat /\ MaxFaults \in Nat

VARIABLES
    now,        \* m.now()
    phase,      \* "down", "starting" (restored, first sweep due), "up"
    mem,        \* m.byID: state, until, act, warns
    marker,     \* m.warningDeadline
    row,        \* the codexes row: view and warning deadline
    stream,     \* the Store's view, if it has one that needs no reload
    degraded,   \* m.asyncError is set
    raised,     \* history: WarningRaised events committed, by deadline
    acked,      \* history: the latest deadline a client was told of
    faults      \* failures and crashes so far

vars == <<now, phase, mem, marker, row, stream, degraded, raised, acked, faults>>

-----------------------------------------------------------------------------
Times == 0 .. MaxTime

\* act is what manualUnmanageBusy and automaticUnmanageSafe tell apart: IDLE
\* without turn or pending; a turn, a pending request or a status in between;
\* and ERROR or UNAVAILABLE, which is neither busy nor idle.
Views == [state : {"UNSPECIFIED", "MANAGED", "EXPIRING_SOON", "UNMANAGED"},
          until : Nat, act : {"idle", "busy", "stuck"}, warns : Seq(Nat)]

manualUnmanageBusy(v) == v.act = "busy"
automaticUnmanageSafe(v) == v.act = "idle"
hasManagementWarning(v, deadline) == \E i \in DOMAIN v.warns : v.warns[i] = deadline

Blank == [state |-> "UNSPECIFIED", until |-> 0, act |-> "idle", warns |-> <<>>]

Cached(v) == [cached |-> TRUE, view |-> v]
Unread == [cached |-> FALSE, view |-> Blank]

\* The view a RESET carries: the Store's, or the row's when it has to load it.
Served == IF stream.cached THEN stream.view ELSE row.view

Managed == mem.state \in {"MANAGED", "EXPIRING_SOON"} /\ mem.until > 0

Fault == faults < MaxFaults /\ faults' = faults + 1

\* A failed first sweep makes Restore, and with it the Host's start, fail.
AfterFailure == IF phase = "starting" THEN "down" ELSE phase

-----------------------------------------------------------------------------
(* How a change from mem to v, and of the marker to m, ends.  A failed       *)
(* persistState restores the marker and changes nothing: no step.            *)

\* Mutant: answers without having saved.
Committed_NotSaved(v, m) ==
    /\ mem' = v
    /\ marker' = m
    /\ stream' = Cached(v)
    /\ phase' = "up"
    /\ UNCHANGED <<row, degraded, faults>>

Committed(v, m) ==
    /\ mem' = v
    /\ marker' = m
    /\ row' = [view |-> v, marker |-> m]
    /\ stream' = Cached(v)
    /\ phase' = "up"
    /\ UNCHANGED <<degraded, faults>>

\* Mutants: memory is rolled back and the row is not; the Store is not reloaded.
RolledBack_MemoryOnly(v, m) ==
    /\ Fault
    /\ phase' = AfterFailure
    /\ row' = [view |-> v, marker |-> m]
    /\ stream' = Cached(v)
    /\ UNCHANGED <<mem, marker, degraded>>

RolledBack_NoReload(v, m) ==
    /\ Fault
    /\ phase' = AfterFailure
    /\ row' = [view |-> mem, marker |-> marker]
    /\ stream' = Cached(v)
    /\ UNCHANGED <<mem, marker, degraded>>

\* rollbackLifecycleState after a publish that certainly did not commit.
RolledBack(v, m) ==
    /\ Fault
    /\ phase' = AfterFailure
    /\ UNCHANGED <<mem, marker>>
    /\ \/ /\ row' = [view |-> mem, marker |-> marker]
          /\ \/ stream' = Cached(mem) /\ UNCHANGED degraded
             \/ stream' = Unread /\ degraded' = TRUE
       \/ /\ row' = [view |-> v, marker |-> m]
          /\ stream' \in {Cached(v), Unread}
          /\ degraded' = TRUE

\* preserveLifecycleState after a publish that may have committed: v stays and
\* the marker becomes p; save: the row is written again, which may fail.
Preserved(v, m, p, save) ==
    /\ Fault
    /\ phase' = AfterFailure
    /\ mem' = v
    /\ marker' = p
    /\ row' \in {[view |-> v, marker |-> m]} \cup
                (IF save THEN {[view |-> v, marker |-> p]} ELSE {})
    /\ stream' \in {Cached(v), Unread}
    /\ degraded' = TRUE

\* The Host dies after the state was saved.
Died(v, m) ==
    /\ Fault
    /\ phase' = "down"
    /\ row' = [view |-> v, marker |-> m]
    /\ UNCHANGED <<mem, marker, stream, degraded>>

\* A state owner that keeps v in memory whatever fails (setRunning,
\* applyAdapterEvent, resolvePending); report: failures reach m.asyncError.
Asserted(v, m, report) ==
    \/ Committed(v, m)
    \/ /\ Fault
       /\ mem' = v
       /\ marker' = m
       /\ degraded' = (degraded \/ report)
       /\ \/ UNCHANGED <<row, stream>>
          \/ row' = [view |-> v, marker |-> m] /\ stream' \in {Cached(v), Unread}
       /\ UNCHANGED phase
    \/ Died(v, m)

\* A lifecycle change that publishes CodexUpdated only.
Changed(v, m) ==
    /\ \/ Committed(v, m)
       \/ RolledBack(v, m)
       \/ Preserved(v, m, m, FALSE)
       \/ Died(v, m)
    /\ UNCHANGED raised

Raise(d) == raised' = [raised EXCEPT ![d] = @ + 1]

\* Mutant: a warning whose outcome is unknown is tried again too.
Warned_Again(v, m) ==
    \/ Committed(v, m) /\ Raise(m)
    \/ RolledBack(v, m) /\ UNCHANGED raised
    \/ Preserved(v, m, 0, TRUE) /\ (Raise(m) \/ UNCHANGED raised)
    \/ Died(v, m) /\ (Raise(m) \/ UNCHANGED raised)

\* One that also publishes WarningRaised for the deadline m: both commit; the
\* update or the warning fails, and the warning is tried again; the outcome of
\* the warning is unknown, and it is not.
Warned(v, m) ==
    \/ Committed(v, m) /\ Raise(m)
    \/ RolledBack(v, m) /\ UNCHANGED raised
    \/ Preserved(v, m, 0, TRUE) /\ UNCHANGED raised
    \/ Preserved(v, m, m, FALSE) /\ (Raise(m) \/ UNCHANGED raised)
    \/ Died(v, m) /\ (Raise(m) \/ UNCHANGED raised)

-----------------------------------------------------------------------------
(* The handlers *)

Renewed == [mem EXCEPT !.state = "MANAGED", !.until = now + LeaseDuration]

\* The deadline a client learns when the handler answers without an error.
Acknowledge(v) == acked' = IF faults' = faults THEN v.until ELSE acked

\* Mutant: a Pong brings an unmanaged Codex back.
renewLease_Unmanaged ==
    /\ phase = "up"
    /\ now + LeaseDuration <= MaxTime
    /\ Changed(Renewed, 0)
    /\ Acknowledge(Renewed)
    /\ UNCHANGED now

\* renewLease, for InterruptTurn, RespondApproval, RespondUserInput and the
\* foreground Codexes of a Pong.
renewLease ==
    /\ phase = "up" /\ mem.state # "UNMANAGED"
    /\ now + LeaseDuration <= MaxTime
    /\ Changed(Renewed, 0)
    /\ Acknowledge(Renewed)
    /\ UNCHANGED now

Unmanaged == [mem EXCEPT !.state = "UNMANAGED", !.until = 0]

UnmanageCodex ==
    /\ phase = "up" /\ mem.state # "UNMANAGED"
    /\ ~manualUnmanageBusy(mem)
    /\ Changed(Unmanaged, 0)
    /\ UNCHANGED <<now, acked>>

\* The turn was accepted by the app-server; that the Codex was IDLE when
\* StartTurn looked is past.
setRunning ==
    /\ phase = "up"
    /\ now + LeaseDuration <= MaxTime
    /\ LET v == [Renewed EXCEPT !.act = "busy"]
       IN  Asserted(v, 0, TRUE) /\ Acknowledge(v)
    /\ UNCHANGED <<now, raised>>

\* Any adapter event: the view is saved with the activity it leads to.
applyAdapterEvent(a) ==
    /\ phase = "up"
    /\ Asserted([mem EXCEPT !.act = a], marker, TRUE)
    /\ UNCHANGED <<now, raised, acked>>

\* A pending request is answered: still busy with its turn or other requests,
\* or idle, which also an error state becomes.
resolvePending(a) ==
    /\ phase = "up"
    /\ a = "busy" => mem.act = "busy"
    /\ Asserted([mem EXCEPT !.act = a], marker, FALSE)
    /\ UNCHANGED <<now, raised, acked>>

\* Mutant: a lease that was announced as expiring does not expire.
Expired_ManagedOnly ==
    mem.state = "MANAGED" /\ now >= mem.until /\ automaticUnmanageSafe(mem)

Expired == now >= mem.until /\ automaticUnmanageSafe(mem)

Expiring == ~Expired /\ now >= mem.until - WarningBefore

WarningDue == marker # mem.until

ExpiringView ==
    [mem EXCEPT !.state = "EXPIRING_SOON",
                !.warns = IF WarningDue /\ ~hasManagementWarning(mem, mem.until)
                          THEN Append(@, mem.until) ELSE @]

NothingToSweep ==
    ~(Managed /\ (Expired \/ (Expiring /\ (mem.state # "EXPIRING_SOON" \/ WarningDue))))

sweepLease ==
    /\ phase \in {"starting", "up"}
    /\ \/ /\ ~NothingToSweep /\ Expired
          /\ Changed(Unmanaged, 0)
       \/ /\ ~NothingToSweep /\ Expiring
          /\ IF WarningDue THEN Warned(ExpiringView, mem.until)
             ELSE Changed(ExpiringView, marker)
       \/ /\ NothingToSweep /\ phase = "starting"
          /\ phase' = "up"
          /\ UNCHANGED <<mem, marker, row, stream, degraded, raised, faults>>
    /\ UNCHANGED <<now, acked>>

-----------------------------------------------------------------------------
(* Restore.  What runs in the app-server is gone: a managed Codex comes back *)
(* idle or UNAVAILABLE, an unmanaged one as it was saved, and one from       *)
(* before leases existed gets a first lease.  keep: noteUnrecoverablePending *)
(* carried the warnings over; it is skipped for a thread without a rollout.  *)

Legacy == row.view.state = "UNSPECIFIED"

Restored(a, keep) ==
    CASE row.view.state = "UNMANAGED" -> row.view
      [] Legacy -> [state |-> "MANAGED", until |-> now + LeaseDuration,
                    act |-> a, warns |-> <<>>]
      [] OTHER -> [row.view EXCEPT !.act = a, !.warns = IF keep THEN @ ELSE <<>>]

\* registerRestored and persistState, which may fail when saved is FALSE.
restoreLocked(a, saved) ==
    /\ Legacy => now + LeaseDuration <= MaxTime
    /\ \E keep \in BOOLEAN : mem' = Restored(a, keep)
    /\ marker' = IF Legacy THEN 0 ELSE row.marker
    /\ row' = IF saved THEN [view |-> mem', marker |-> marker'] ELSE row
    /\ UNCHANGED <<now, raised, acked>>

\* At start nothing else runs until the first sweep is done; a failure ends
\* the process.
HostStart(a) ==
    /\ phase = "down"
    /\ restoreLocked(a, TRUE)
    /\ phase' = "starting"
    /\ stream' = Unread
    /\ degraded' = FALSE
    /\ UNCHANGED faults

\* The runtime became Ready again.  Nothing is published, and the Store is not
\* told; a failure is only logged.
Restore(a, saved) ==
    /\ phase = "up"
    /\ saved \/ faults < MaxFaults
    /\ restoreLocked(a, saved)
    /\ faults' = IF saved THEN faults ELSE faults + 1
    /\ UNCHANGED <<phase, stream, degraded>>

\* The Host dies outside a handler.
Crash ==
    /\ phase # "down"
    /\ Fault
    /\ phase' = "down"
    /\ UNCHANGED <<now, mem, marker, row, stream, degraded, raised, acked>>

\* Wall-clock time passes, also while the Host is down.  (Bound: the first
\* start of a new version comes early enough for a lease to end by MaxTime.)
Tick ==
    /\ now < MaxTime
    /\ Legacy => now + LeaseDuration < MaxTime
    /\ now' = now + 1
    /\ UNCHANGED <<phase, mem, marker, row, stream, degraded, raised, acked, faults>>

-----------------------------------------------------------------------------
\* A row of an earlier version, or of a Codex that was just created.
Init ==
    /\ now = 0
    /\ phase = "down"
    /\ mem = Blank
    /\ marker = 0
    /\ row \in {[view |-> Blank, marker |-> 0],
                [view |-> [Blank EXCEPT !.state = "MANAGED", !.until = LeaseDuration],
                 marker |-> 0]}
    /\ stream = Unread
    /\ degraded = FALSE
    /\ raised = [d \in Times |-> 0]
    /\ acked = 0
    /\ faults = 0

Next ==
    \/ Tick
    \/ renewLease
    \/ UnmanageCodex
    \/ setRunning
    \/ \E a \in {"idle", "busy", "stuck"} : applyAdapterEvent(a)
    \/ \E a \in {"idle", "busy"} : resolvePending(a)
    \/ sweepLease
    \/ \E a \in {"idle", "stuck"} : HostStart(a)
    \/ \E a \in {"idle", "stuck"}, saved \in BOOLEAN : Restore(a, saved)
    \/ Crash

Spec == Init /\ [][Next]_vars

\* The clock runs, RunLeaseSweeper's ticker fires, and a Host that died is
\* started again.
FairSpec ==
    /\ Spec
    /\ WF_vars(Tick)
    /\ WF_vars(sweepLease)
    /\ WF_vars(\E a \in {"idle", "stuck"} : HostStart(a))

-----------------------------------------------------------------------------
\* The types of the clock, the views, the row and the history.
TypeOK ==
    /\ now \in Times
    /\ phase \in {"down", "starting", "up"}
    /\ mem \in Views
    /\ marker \in Nat
    /\ row \in [view : Views, marker : Nat]
    /\ stream.view \in Views /\ {stream.cached, degraded} \subseteq BOOLEAN
    /\ raised \in [Times -> Nat]
    /\ acked \in Nat
    /\ faults \in 0 .. MaxFaults

\* A lease period warns once: no deadline has two committed WarningRaised
\* events, nor two entries in the Codex's warnings, however often the sweep is
\* retried, rolled back or cut off by a crash (sweepLease, warningDeadline).
OneWarningPerDeadline ==
    /\ \A d \in Times : raised[d] <= 1
    /\ \A i, j \in DOMAIN mem.warns : mem.warns[i] = mem.warns[j] => i = j

\* Unless the Host reports that it is degraded, a restart finds the lease that
\* is in force: deadline, state and warning marker of memory and row agree
\* (persistState and rollbackLifecycleState write both or neither).
LeaseIsDurable ==
    phase = "up" /\ ~degraded =>
        /\ row.marker = marker
        /\ row.view.state = mem.state
        /\ row.view.until = mem.until

\* Unless the Host reports that it is degraded, a client that watches is RESET
\* to the lease in force, after rollbacks and restarts too (ReloadDurable).
ResetShowsLease ==
    phase = "up" /\ ~degraded =>
        /\ Served.state = mem.state
        /\ Served.until = mem.until

\* A renewal a client was told of is never lost: no rollback, crash or restart
\* brings an earlier deadline back (managed_until_unix_ms is absolute).
AcknowledgedLeaseKept ==
    phase = "up" /\ mem.state # "UNMANAGED" => mem.until >= acked

\* Only a started turn brings an unmanaged Codex back; no sweep, rollback,
\* Pong, adapter event or restart does (setRunning).
OnlyStartTurnManages ==
    [][phase = "up" /\ phase' = "up" /\ mem.state = "UNMANAGED" /\ mem'.state # "UNMANAGED"
         => setRunning]_vars

\* A Codex that stays idle ends unmanaged once nobody renews its lease (the
\* bound on the clock ends renewals), whatever failed on the way
\* (RunLeaseSweeper sweeps again; so does Restore).
IdleLeaseEnds ==
    <>[](mem.act = "idle") => <>[](mem.state = "UNMANAGED")

\* After the runtime is Ready again a client that watches is RESET to the
\* rebuilt view (runtime_adapter.md: the Host must rebuild the views and force
\* Gateway Watch reset; restoreLocked).
ResetShowsRebuiltView ==
    phase = "up" /\ ~degraded /\ faults = 0 => Served.act = mem.act
=============================================================================
