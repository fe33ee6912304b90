---------------------------- MODULE ActivityStore ----------------------------
(***************************************************************************)
(* The event stream of one Codex: internal/activity/store.go over the      *)
(* event rows of internal/persistence/store.go, with the clients that      *)
(* watch it through the gateway.                                           *)
(*                                                                         *)
(* Streams of different Codexes share no state and a Codex id is never     *)
(* used twice, so one stream is modelled.  Every Store method holds s.mu   *)
(* from start to end: a method is one step.  What can interleave is the    *)
(* order of the methods, the clients' reads of their channels, and crashes *)
(* of the Host.  An event is its event_seq; a view is what wrote it.       *)
(***************************************************************************)
EXTENDS Integers, Sequences

CONSTANTS
    Clients,        \* client connections that watch the Codex
    Capacity,       \* replayCapacity of NewStore
    QueueSize,      \* the queue argument of Watch: one channel's capacity
    MaxSeq,         \* bound: no more than MaxSeq events are committed
    MaxRuns,        \* bound: no more than MaxRuns Host processes run
    Indeterminate,  \* may Commit report an error after taking effect?
    DestroyMayFail  \* may DeleteCodex report an error?

ASSUME CapacityAssumption == Capacity \in Nat \ {0}
ASSUME QueueSizeAssumption == QueueSize \in Nat \ {0}
ASSUME BoundsAssumption == MaxSeq \in Nat /\ MaxRuns \in Nat
ASSUME FailureAssumption == Indeterminate \in BOOLEAN /\ DestroyMayFail \in BOOLEAN

VARIABLES
    exists,     \* SQLite: the Codex row exists
    dHead,      \* SQLite: its committed event head
    dView,      \* SQLite: its current_view_json
    run,        \* the run id of the Host process
    cached,     \* Store.codex has a stream for the Codex
    st,         \* that stream: head, events, view, replayUnsafe, floor, needsReload
    watch,      \* per client: the state of its watcher
    inbox,      \* per client: Replay, then the watcher's channel
    backlog,    \* per client: how many entries of inbox are Replay
    cursor,     \* per client: run id and event_seq it has applied up to
    missed,     \* per client: committed events below its cursor it never saw
    lost,       \* history: events the Store kept from a registered watcher
    terminals   \* history: event_seqs sent to someone as CodexForgotten

durable == <<exists, dHead, dView>>
memory == <<run, cached, st>>
channels == <<watch, inbox, backlog>>
client == <<cursor, missed, lost>>
vars == <<exists, dHead, dView, run, cached, st, watch, inbox, backlog,
          cursor, missed, lost, terminals>>

-----------------------------------------------------------------------------
(* Views.  CommitEvent stores the view with HeadEventSeq set to the event's  *)
(* sequence; persistState stores the manager's copy with whatever            *)
(* HeadEventSeq it has; a version 1.1 view does not parse.                   *)

NoView == [kind |-> "none", head |-> 0]
LegacyView == [kind |-> "legacy", head |-> 0]
EventView(n) == [kind |-> "event", head |-> n]
StateView(n) == [kind |-> "state", head |-> n]
Views == [kind : {"none", "legacy", "event", "state"}, head : Nat]

\* What the Store keeps of a stored view: nothing if it does not parse; its
\* HeadEventSeq is overwritten by cloneView and identifies an event's view only.
Parsed(v) ==
    CASE v.kind = "event" -> v
      [] v.kind = "state" -> StateView(0)
      [] OTHER -> NoView

-----------------------------------------------------------------------------
(* The in-memory stream *)

Nil == -1       \* a nil *uint64

Streams == [head : Nat, events : Seq(Nat), view : Views, replayUnsafe : BOOLEAN,
            floor : Nat \cup {Nil}, needsReload : BOOLEAN]

EmptyStream ==
    [head |-> 0, events |-> <<>>, view |-> NoView, replayUnsafe |-> FALSE,
     floor |-> Nil, needsReload |-> FALSE]

\* Mutant: the old view is kept.
loadDurable_KeepsView(s, head, view) == [s EXCEPT !.head = head]

loadDurable(s, head, view) == [s EXCEPT !.head = head, !.view = Parsed(view)]

\* A row read for the first time is safe to replay only if its view is the
\* view of its head.
FreshStream ==
    [loadDurable(EmptyStream, dHead, dView) EXCEPT
        !.replayUnsafe = CASE dView.kind = "none" -> dHead # 0
                           [] dView.kind = "legacy" -> TRUE
                           [] OTHER -> dView.head # dHead]

\* ensure either fails and leaves everything alone, or returns this stream.
ensure ==
    IF ~cached THEN FreshStream
    ELSE IF st.needsReload
         THEN [loadDurable(st, dHead, dView) EXCEPT !.needsReload = FALSE,
                                                    !.replayUnsafe = TRUE]
         ELSE st

EnsureSucceeds == (cached /\ ~st.needsReload) \/ exists

\* Mutant: the replay buffer survives the reload.
reloadUnsafe_KeepsEvents(s, loaded, head, view) ==
    IF loaded
    THEN [loadDurable(s, head, view) EXCEPT !.replayUnsafe = TRUE, !.floor = Nil,
                                            !.needsReload = FALSE]
    ELSE [s EXCEPT !.replayUnsafe = TRUE, !.floor = Nil, !.needsReload = TRUE]

\* reloadUnsafe, given the head and view that are durable after the failure.
reloadUnsafe(s, loaded, head, view) ==
    LET dropped == [s EXCEPT !.events = <<>>, !.replayUnsafe = TRUE, !.floor = Nil]
    IN  IF loaded
        THEN [loadDurable(dropped, head, view) EXCEPT !.needsReload = FALSE]
        ELSE [dropped EXCEPT !.needsReload = TRUE]

\* Mutant: the buffer is trimmed one event too early.
AppendTrimmed_Early(events, n) ==
    LET all == Append(events, n)
    IN  IF Len(all) >= Capacity
        THEN SubSeq(all, Len(all) - Capacity + 2, Len(all))
        ELSE all

AppendTrimmed(events, n) ==
    LET all == Append(events, n)
    IN  IF Len(all) > Capacity
        THEN SubSeq(all, Len(all) - Capacity + 1, Len(all))
        ELSE all

\* The index of the first buffered event at or after start (one past the end
\* when there is none); the buffer is ascending.
FirstFrom(events, start) ==
    CHOOSE i \in 1 .. Len(events) + 1 :
        /\ \A j \in 1 .. i - 1 : events[j] < start
        /\ i <= Len(events) => events[i] >= start

\* Mutant: any buffered event at or after start is taken for continuity.
continuousReplayAvailable_AnySuffix(events, start, head) ==
    start > head \/ \E i \in 1 .. Len(events) : events[i] >= start

continuousReplayAvailable(events, start, head) ==
    \/ start > head
    \/ LET first == FirstFrom(events, start)
       IN  /\ first + (head - start) <= Len(events)
           /\ \A k \in 0 .. head - start : events[first + k] = start + k

\* Mutant: the event at the cursor is replayed again.
ReplayFrom_Inclusive(events, start) ==
    SubSeq(events, FirstFrom(events, start - 1), Len(events))

ReplayFrom(events, start) == SubSeq(events, FirstFrom(events, start), Len(events))

-----------------------------------------------------------------------------
(* Publish *)

Full(c) == Len(inbox[c]) - backlog[c] >= QueueSize

\* Mutant: the event is dropped for a full channel and the watcher stays.
Deliver_KeepsSlow(n) ==
    /\ inbox' = [c \in Clients |-> IF watch[c] = "live" /\ ~Full(c)
                                   THEN Append(inbox[c], n) ELSE inbox[c]]
    /\ UNCHANGED <<watch, backlog>>

\* Send to every registered watcher; one whose channel is full is marked slow
\* and removed.
Deliver(n) ==
    /\ inbox' = [c \in Clients |-> IF watch[c] = "live" /\ ~Full(c)
                                   THEN Append(inbox[c], n) ELSE inbox[c]]
    /\ watch' = [c \in Clients |-> IF watch[c] = "live" /\ Full(c)
                                   THEN "slow" ELSE watch[c]]
    /\ UNCHANGED backlog

Publish ==
    /\ exists /\ dHead < MaxSeq
    /\ LET n == dHead + 1
           s == ensure
       IN  /\ dHead' = n
           /\ dView' = EventView(n)
           /\ cached' = TRUE
           /\ st' = [s EXCEPT !.head = n, !.view = EventView(n),
                              !.events = AppendTrimmed(s.events, n)]
           /\ Deliver(n)
    /\ UNCHANGED <<exists, run, client, terminals>>

\* CommitEvent returns an error.  The transaction was rolled back, or (with an
\* indeterminate Commit) took effect; reloadUnsafe reads the row or fails.
\* Watchers stay registered.
PublishFails(committed, loaded) ==
    /\ EnsureSucceeds
    /\ loaded => exists
    /\ committed => exists /\ Indeterminate /\ dHead < MaxSeq
    /\ dHead' = IF committed THEN dHead + 1 ELSE dHead
    /\ dView' = IF committed THEN EventView(dHead + 1) ELSE dView
    /\ cached' = TRUE
    /\ st' = reloadUnsafe(ensure, loaded, dHead', dView')
    /\ lost' = [c \in Clients |-> IF committed /\ watch[c] = "live"
                                  THEN lost[c] \cup {dHead + 1} ELSE lost[c]]
    /\ UNCHANGED <<exists, run, channels, cursor, missed, terminals>>

-----------------------------------------------------------------------------
(* State owners *)

\* persistState, persistView: the view is replaced and the head stays.  The
\* HeadEventSeq it carries is the head's or an older one, which 0 stands for.
PersistState(h) ==
    /\ exists
    /\ dView' = StateView(h)
    /\ UNCHANGED <<exists, dHead, memory, channels, client, terminals>>

ReloadDurable(loaded) ==
    /\ loaded => exists
    /\ cached' = TRUE
    /\ st' = reloadUnsafe(IF cached THEN st ELSE EmptyStream, loaded, dHead, dView)
    /\ UNCHANGED <<durable, run, channels, client, terminals>>

-----------------------------------------------------------------------------
(* Watch and ForceReset, called by the gateway's handleWatch *)

\* The Store's half: does the stream s allow a client at after to resume?
Resumes(s, after) ==
    /\ after # Nil
    /\ ~(s.replayUnsafe /\ (s.floor = Nil \/ after < s.floor))
    /\ after <= s.head
    /\ continuousReplayAvailable(s.events, after + 1, s.head)

\* The stream after watchLocked: a RESET moves safeReplayFloor to its head.
Watched(s, resumed) == IF resumed THEN s ELSE [s EXCEPT !.floor = s.head]

\* The cursor handleWatch passes on.  fresh: the request carries none; a
\* cursor of another run goes to ForceReset, which is a Watch without cursor.
After(c, fresh) == IF fresh \/ cursor[c].run # run THEN Nil ELSE cursor[c].seq

\* A client watches, replacing the watch it may have, and reads the response.
Watch(c, fresh) ==
    /\ EnsureSucceeds
    /\ LET s == ensure
           after == After(c, fresh)
           resumed == Resumes(s, after)
           replay == IF resumed THEN ReplayFrom(s.events, after + 1) ELSE <<>>
       IN  /\ cached' = TRUE
           /\ st' = Watched(s, resumed)
           /\ watch' = [watch EXCEPT ![c] = "live"]
           /\ inbox' = [inbox EXCEPT ![c] = replay]
           /\ backlog' = [backlog EXCEPT ![c] = Len(replay)]
           /\ cursor' = IF resumed THEN cursor
                        ELSE [cursor EXCEPT ![c] = [run |-> run, seq |-> s.head]]
           /\ missed' = IF resumed THEN missed ELSE [missed EXCEPT ![c] = {}]
           /\ lost' = IF resumed THEN lost ELSE [lost EXCEPT ![c] = {}]
    /\ UNCHANGED <<durable, run, terminals>>

\* The connection breaks before the response arrives: the Store has run Watch
\* and Cancel, the client has learned nothing.
WatchUnanswered(c, fresh) ==
    /\ EnsureSucceeds
    /\ LET s == ensure
       IN  st' = Watched(s, Resumes(s, After(c, fresh)))
    /\ cached' = TRUE
    /\ watch' = [watch EXCEPT ![c] = "none"]
    /\ inbox' = [inbox EXCEPT ![c] = <<>>]
    /\ backlog' = [backlog EXCEPT ![c] = 0]
    /\ UNCHANGED <<durable, run, client, terminals>>

\* Watch.Cancel, by UnwatchCodex, by a closed connection, or because the
\* gateway saw Slow; what is queued is dropped.
Cancel(c) ==
    /\ watch[c] # "none"
    /\ watch' = [watch EXCEPT ![c] = "none"]
    /\ inbox' = [inbox EXCEPT ![c] = <<>>]
    /\ backlog' = [backlog EXCEPT ![c] = 0]
    /\ UNCHANGED <<durable, memory, client, terminals>>

-----------------------------------------------------------------------------
(* The client (external): it applies events in the order they come, keeps    *)
(* the event_seq of the last one as its cursor, and drops the Codex when it  *)
(* reads CodexForgotten, the last entry of an ended channel.                 *)

Receive(c) ==
    /\ inbox[c] # <<>>
    /\ inbox' = [inbox EXCEPT ![c] = Tail(@)]
    /\ backlog' = [backlog EXCEPT ![c] = IF @ > 0 THEN @ - 1 ELSE 0]
    /\ \/ /\ ~(watch[c] = "ended" /\ Len(inbox[c]) = 1)
          /\ cursor' = [cursor EXCEPT ![c].seq = Head(inbox[c])]
          /\ missed' = [missed EXCEPT ![c] = @ \cup
                            (cursor[c].seq + 1 .. Head(inbox[c]) - 1)]
          /\ UNCHANGED <<watch, lost>>
       \/ /\ watch[c] = "ended" /\ Len(inbox[c]) = 1
          /\ cursor' = [cursor EXCEPT ![c] = [run |-> 0, seq |-> 0]]
          /\ missed' = [missed EXCEPT ![c] = {}]
          /\ lost' = [lost EXCEPT ![c] = {}]
          /\ watch' = [watch EXCEPT ![c] = "none"]
    /\ UNCHANGED <<durable, memory, terminals>>

-----------------------------------------------------------------------------
(* Forget *)

\* The oldest entry of a full channel makes room for CodexForgotten.
Discarded(c) ==
    IF watch[c] = "live" /\ Full(c) THEN {inbox[c][backlog[c] + 1]} ELSE {}

Without(q, i) == SubSeq(q, 1, i - 1) \o SubSeq(q, i + 1, Len(q))

Ended(c, t) ==
    Append(IF Full(c) THEN Without(inbox[c], backlog[c] + 1) ELSE inbox[c], t)

\* The terminal event reaches every watcher before destroy is called.  destroy
\* deletes the row ("ok"), reports an error and leaves it ("kept"), or reports
\* an error after the deletion took effect ("gone").
Forget(outcome) ==
    /\ EnsureSucceeds
    /\ outcome # "kept" => exists
    /\ outcome # "ok" => DestroyMayFail
    /\ LET s == ensure
           t == s.head + 1
       IN  /\ inbox' = [c \in Clients |-> IF watch[c] = "live" THEN Ended(c, t) ELSE inbox[c]]
           /\ lost' = [c \in Clients |-> lost[c] \cup Discarded(c)]
           /\ watch' = [c \in Clients |-> IF watch[c] = "live" THEN "ended" ELSE watch[c]]
           /\ terminals' = terminals \cup
                  (IF \E c \in Clients : watch[c] = "live" THEN {t} ELSE {})
           /\ st' = IF outcome = "ok" THEN EmptyStream ELSE s
    /\ cached' = (outcome # "ok")
    /\ exists' = (exists /\ outcome = "kept")
    /\ UNCHANGED <<dHead, dView, run, backlog, cursor, missed>>

-----------------------------------------------------------------------------
(* The Host process dies and a new one starts: memory and connections are   *)
(* gone, the run id is new.  A transaction that was committing may have      *)
(* taken effect.                                                             *)
HostRestart(committed) ==
    /\ run < MaxRuns
    /\ committed => exists /\ dHead < MaxSeq
    /\ run' = run + 1
    /\ dHead' = IF committed THEN dHead + 1 ELSE dHead
    /\ dView' = IF committed THEN EventView(dHead + 1) ELSE dView
    /\ cached' = FALSE
    /\ st' = EmptyStream
    /\ watch' = [c \in Clients |-> "none"]
    /\ inbox' = [c \in Clients |-> <<>>]
    /\ backlog' = [c \in Clients |-> 0]
    /\ UNCHANGED <<exists, client, terminals>>

-----------------------------------------------------------------------------
\* A new row, a row whose view predates this version, or a row whose head an
\* earlier version advanced without a view.
Init ==
    /\ exists = TRUE
    /\ dHead \in {0, 1}
    /\ dView \in {NoView, LegacyView, StateView(0)}
    /\ run = 1
    /\ cached = FALSE
    /\ st = EmptyStream
    /\ watch = [c \in Clients |-> "none"]
    /\ inbox = [c \in Clients |-> <<>>]
    /\ backlog = [c \in Clients |-> 0]
    /\ cursor = [c \in Clients |-> [run |-> 0, seq |-> 0]]
    /\ missed = [c \in Clients |-> {}]
    /\ lost = [c \in Clients |-> {}]
    /\ terminals = {}

Next ==
    \/ Publish
    \/ \E committed, loaded \in BOOLEAN : PublishFails(committed, loaded)
    \/ \E h \in {0, dHead} : PersistState(h)
    \/ \E loaded \in BOOLEAN : ReloadDurable(loaded)
    \/ \E c \in Clients, fresh \in BOOLEAN :
          Watch(c, fresh) \/ WatchUnanswered(c, fresh)
    \/ \E c \in Clients : Cancel(c) \/ Receive(c)
    \/ \E outcome \in {"ok", "kept", "gone"} : Forget(outcome)
    \/ \E committed \in BOOLEAN : HostRestart(committed)

Spec == Init /\ [][Next]_vars

\* forwardWatch runs as long as its channel has entries.
FairSpec == Spec /\ \A c \in Clients : WF_vars(Receive(c))

-----------------------------------------------------------------------------
\* The types of the rows, the stream and the watchers.
TypeOK ==
    /\ exists \in BOOLEAN
    /\ dHead \in Nat
    /\ dView \in Views
    /\ run \in Nat
    /\ cached \in BOOLEAN
    /\ st \in Streams
    /\ watch \in [Clients -> {"none", "live", "slow", "ended"}]
    /\ inbox \in [Clients -> Seq(Nat)]
    /\ backlog \in [Clients -> Nat]
    /\ cursor \in [Clients -> [run : Nat, seq : Nat]]
    /\ missed \in [Clients -> SUBSET Nat]
    /\ lost \in [Clients -> SUBSET Nat]
    /\ terminals \in SUBSET Nat

\* What a client has applied when it reads entry i of its inbox.
Before(c, i) == IF i = 1 THEN cursor[c].seq ELSE inbox[c][i - 1]

\* The position a client reaches when it has read all that is queued for it.
Position(c) == IF inbox[c] = <<>> THEN cursor[c].seq ELSE inbox[c][Len(inbox[c])]

\* A client never skips an event unawares, except one the Store could not know
\* or had to discard: everything a client has skipped (missed) and everything
\* committed that is not on its way to a registered watcher was withheld from
\* it by an indeterminate commit, or dropped to make room for CodexForgotten.
\* Watch's RESUMED/RESET decision, replay, live delivery, slow removal and
\* reload have to agree for this to hold (activity/store.go Watch, Publish).
NoSilentGap ==
    \A c \in Clients :
        /\ missed[c] \subseteq lost[c]
        /\ watch[c] = "live" => (Position(c) + 1 .. dHead) \subseteq lost[c]

\* Replay and live delivery are in order and without repetition: what waits for
\* a client ascends from its cursor (protocol: event_seq strictly increases).
InOrder ==
    \A c \in Clients : \A i \in 1 .. Len(inbox[c]) : inbox[c][i] > Before(c, i)

\* The replay buffer is the contiguous run of events that ends at head, never
\* longer than the capacity, and head is the durable head unless the stream is
\* known to need a reload.
BufferIsSuffix ==
    /\ Len(st.events) <= Capacity
    /\ \A i \in 1 .. Len(st.events) : st.events[i] = st.head - Len(st.events) + i
    /\ cached /\ ~st.needsReload => st.head = dHead

\* A RESET never pairs the head with the view of another event: an event's view
\* is served only while that event is the head (Publish, loadDurable).
ViewMatchesHead ==
    /\ dView.kind = "event" => dView.head = dHead
    /\ st.view.kind = "event" => st.view.head = st.head

\* After a RESET in this run a short disconnection costs no second RESET: a
\* cursor at or past safeReplayFloor and at most Capacity behind resumes
\* (the promise of the comment on stream.safeReplayFloor).
ResumesWithinCapacity ==
    \A c \in Clients :
        /\ cached /\ ~st.needsReload /\ st.floor # Nil
        /\ cursor[c].run = run
        /\ cursor[c].seq \in st.floor .. st.head
        /\ st.head - cursor[c].seq <= Capacity
        => Resumes(st, cursor[c].seq)

\* One event_seq never names two events: what went out as CodexForgotten is
\* not also committed (protocol v1: (codex_id, event_seq) identifies an event).
EventSeqUnique == terminals \cap (1 .. dHead) = {}

\* A client that reconnects is left with no gap: it is RESET, or resumes from a
\* cursor below which it has seen everything (protocol v1: a Host that cannot
\* prove continuity answers RESET; Publish: never a sequence gap as RESUMED).
ReconnectClosesGaps ==
    [][\A c \in Clients : watch[c] = "none" /\ watch'[c] = "live" => missed'[c] = {}]_vars

\* A client that stays connected catches up with everything that was not
\* withheld from it, again and again (forwardWatch drains the channel).
CatchesUp ==
    \A c \in Clients :
        <>[](watch[c] = "live") => []<>((cursor[c].seq + 1 .. dHead) \subseteq lost[c])
=============================================================================
