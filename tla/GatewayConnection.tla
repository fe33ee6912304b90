-------------------------- MODULE GatewayConnection --------------------------
(***************************************************************************)
(* One WebSocket connection of internal/gateway/server.go: readLoop,       *)
(* writeLoop, heartbeat, a goroutine per request and one per watch, over   *)
(* the bounded queue send, the lane control, closeOnce and watchesMu.      *)
(*                                                                         *)
(* A goroutine that finds send full has dropped its frame, and closes the  *)
(* connection only in its next step: others run in between.  Of the        *)
(* activity store the model has the part a connection sees: the channel    *)
(* of each watch.                                                          *)
(***************************************************************************)
EXTENDS Naturals, Sequences, FiniteSets

CONSTANTS
    Codexes,
    NoCodex,
    Tasks,            \* goroutines of handleRequest (bound: how many at a time)
    SendQueueSize,
    WatchQueueSize,
    MaxWatches,       \* watches a connection may have
    MaxWatchIds,      \* watches it ever gets (bound)
    MaxSeq,           \* events of a Codex (bound)
    MaxInputs,        \* frames the client sends after its hello (bound)
    MaxPings,         \* Pings the heartbeat sends (bound)
    MayBreak          \* whether client or network may end or break the connection

ASSUME QueueAssumption == SendQueueSize \in Nat \ {0} /\ WatchQueueSize \in Nat \ {0}
ASSUME CodexAssumption == NoCodex \notin Codexes
ASSUME BoundAssumption ==
    /\ MaxWatches \in Nat \ {0} /\ MaxSeq \in Nat /\ MaxInputs \in Nat /\ MaxPings \in Nat
    /\ MaxWatchIds \in Nat /\ MayBreak \in BOOLEAN

WatchIds == 1 .. MaxWatchIds

VARIABLES
    reader, writer, heartbeat,     \* the three loops
    task,                          \* requests being handled
    forward,                       \* forwardWatch, by watch
    watches, watchesMu,            \* c.watches and whether its lock is held
    send, control,                 \* c.send; whether c.control holds a Close
    closeOnce, cancelled, ws,      \* how the connection ends
    watch, head, forgotten,        \* the activity store
    inputs, pings,                 \* what the bounds count
    client,                        \* history: the last frame written about each Codex
    closeSent                      \* history: a Close was written

loops == <<reader, writer, heartbeat>>
locked == <<watches, watchesMu>>
ending == <<control, closeOnce, cancelled, ws>>
store == <<watch, head, forgotten>>
bounds == <<inputs, pings>>
written == <<client, closeSent>>
vars == <<loops, task, forward, locked, send, ending, store, bounds, written>>

-----------------------------------------------------------------------------
Kinds == {"hello", "ping", "pong", "response", "watched", "unwatched", "event",
          "forgotten", "close"}

\* A frame.  seq: the number of an event; of a Watch Response, the number after
\* which its events go on (the head of a RESET, after_event_seq of a RESUMED).
Frames == [kind : Kinds, codex : Codexes \cup {NoCodex}, watch : WatchIds \cup {0},
           seq : 0 .. MaxSeq + 1]

Frame(kind, k, w, n) == [kind |-> kind, codex |-> k, watch |-> w, seq |-> n]
Plain(kind) == Frame(kind, NoCodex, 0, 0)

IsEvent(f) == f.kind \in {"event", "forgotten"}

NoWatch == [codex |-> NoCodex, state |-> "none", events |-> <<>>]
IdleTask == [pc |-> "idle", codex |-> NoCodex, watch |-> 0, next |-> 0, last |-> 0]
Nothing == Plain("ping")

Full == Len(send) = SendQueueSize

\* Mutant: the queue has no bound.
enqueue_Unbounded(f) == send' = Append(send, f)

\* enqueue: the frame is queued, or dropped when the queue is full.
enqueue(f) == ~Full /\ send' = Append(send, f)

\* Mutant: the Close takes the data queue's way and is lost when that is full.
protocolClose_SameLane ==
    /\ control' = (control \/ (closeOnce = "free" /\ ~Full))
    /\ closeOnce' = IF closeOnce = "free" THEN "protocol" ELSE closeOnce
    /\ UNCHANGED <<cancelled, ws>>

\* protocolClose: the first close puts a Close on the control lane.
protocolClose ==
    /\ control' = (control \/ closeOnce = "free")
    /\ closeOnce' = IF closeOnce = "free" THEN "protocol" ELSE closeOnce
    /\ UNCHANGED <<cancelled, ws>>

\* Mutant: the context is not cancelled.
shutdownOnce_NotCancelled ==
    /\ closeOnce' = IF closeOnce = "free" THEN "shutdown" ELSE closeOnce
    /\ ws' = IF closeOnce = "free" /\ ws = "up" THEN "closed" ELSE ws
    /\ UNCHANGED <<control, cancelled>>

\* shutdown, its first half.
shutdownOnce ==
    /\ closeOnce' = IF closeOnce = "free" THEN "shutdown" ELSE closeOnce
    /\ cancelled' = (cancelled \/ closeOnce = "free")
    /\ ws' = IF closeOnce = "free" /\ ws = "up" THEN "closed" ELSE ws
    /\ UNCHANGED control

\* The Cancel of a set of watches of the Store: a registered watch is removed
\* and its channel closed; one that is slow or ended is gone already.
Cancelled(ids) ==
    [w \in WatchIds |-> IF w \in ids /\ watch[w].state = "registered"
                        THEN [watch[w] EXCEPT !.state = "closed"] ELSE watch[w]]

Current == {watches[k] : k \in Codexes} \ {0}

\* Mutant: the watches are dropped without their Cancel.
clearWatches_NotCancelled ==
    /\ watchesMu = "free"
    /\ watches' = [k \in Codexes |-> 0]
    /\ UNCHANGED <<watchesMu, watch, head, forgotten>>

\* shutdown, its second half: under watchesMu every watch is cancelled.
clearWatches ==
    /\ watchesMu = "free"
    /\ watch' = Cancelled(Current)
    /\ watches' = [k \in Codexes |-> 0]
    /\ UNCHANGED <<watchesMu, head, forgotten>>

-----------------------------------------------------------------------------
(* readLoop *)

Usable == ws = "up" /\ ~cancelled

\* A ClientHello is answered by sendHello.
ReadHello ==
    /\ reader = "hello" /\ Usable
    /\ \/ enqueue(Plain("hello")) /\ reader' = "open"
       \/ Full /\ reader' = "full" /\ UNCHANGED send
    /\ UNCHANGED <<writer, heartbeat, task, forward, locked, ending, store, bounds, written>>

\* A Request starts a goroutine.  What it asks for: to watch or to unwatch a
\* Codex, or anything that ends in one Response.
ReadRequest(t, what, k) ==
    /\ reader = "open" /\ Usable /\ inputs < MaxInputs
    /\ task[t].pc = "idle"
    /\ task' = [task EXCEPT ![t] = [@ EXCEPT !.pc = what, !.codex = k]]
    /\ inputs' = inputs + 1
    /\ UNCHANGED <<loops, forward, locked, send, ending, store, pings, written>>

ReadPing ==
    /\ reader = "open" /\ Usable /\ inputs < MaxInputs
    /\ inputs' = inputs + 1
    /\ \/ enqueue(Plain("pong")) /\ UNCHANGED reader
       \/ Full /\ reader' = "full" /\ UNCHANGED send
    /\ UNCHANGED <<writer, heartbeat, task, forward, locked, ending, store, pings, written>>

\* The reader's frame was dropped; it goes on reading all the same.
ReaderDropped ==
    /\ reader = "full"
    /\ protocolClose
    /\ reader' = "open"
    /\ UNCHANGED <<writer, heartbeat, task, forward, locked, send, store, bounds, written>>

\* A frame that is too large, malformed, not allowed here, or of a version that
\* is not supported.
ReadBad ==
    /\ reader \in {"hello", "open"} /\ Usable /\ MayBreak
    /\ protocolClose
    /\ reader' = "closing"
    /\ UNCHANGED <<writer, heartbeat, task, forward, locked, send, store, bounds, written>>

\* The client's Close, an error of Read, or no ClientHello in time.
ReadEnds ==
    /\ reader \in {"hello", "open"} /\ (Usable => MayBreak)
    /\ reader' = "closing"
    /\ UNCHANGED <<writer, heartbeat, task, forward, locked, send, ending, store, bounds, written>>

\* The deferred shutdown of readLoop.
ReaderShutdown ==
    /\ \/ /\ reader = "closing" /\ reader' = "clearing"
          /\ shutdownOnce
          /\ UNCHANGED <<locked, store>>
       \/ /\ reader = "clearing" /\ reader' = "done"
          /\ clearWatches
          /\ UNCHANGED ending
    /\ UNCHANGED <<writer, heartbeat, task, forward, send, bounds, written>>

\* The network or the client goes away.
PeerGone ==
    /\ MayBreak /\ ws = "up" /\ ws' = "broken"
    /\ UNCHANGED <<loops, task, forward, locked, send, control, closeOnce, cancelled, store,
                   bounds, written>>

-----------------------------------------------------------------------------
(* writeLoop.  writer.pc: at the "top" of the loop, in the "select" after it, *)
(* "writing" writer.frame, in shutdown after a write that failed, or done.    *)

\* The first select: a Close that waits goes first.
WriterTop ==
    /\ writer.pc = "top"
    /\ \/ control /\ control' = FALSE /\ writer' = [pc |-> "writing", frame |-> Plain("close")]
       \/ ~control /\ UNCHANGED control /\ writer' = [writer EXCEPT !.pc = "select"]
    /\ UNCHANGED <<reader, heartbeat, task, forward, locked, send, closeOnce, cancelled, ws, store,
                   bounds, written>>

\* The second select takes whatever is ready.
WriterSelect ==
    /\ writer.pc = "select"
    /\ \/ /\ control /\ control' = FALSE
          /\ writer' = [pc |-> "writing", frame |-> Plain("close")]
          /\ UNCHANGED send
       \/ /\ send # <<>> /\ send' = Tail(send)
          /\ writer' = [pc |-> "writing", frame |-> Head(send)]
          /\ UNCHANGED control
       \/ /\ cancelled /\ writer' = [writer EXCEPT !.pc = "done"]
          /\ UNCHANGED <<send, control>>
    /\ UNCHANGED <<reader, heartbeat, task, forward, locked, closeOnce, cancelled, ws, store,
                   bounds, written>>

\* What the client knows once the frame is written.
Record(f) ==
    /\ client' = IF f.codex = NoCodex THEN client ELSE [client EXCEPT ![f.codex] = f]
    /\ closeSent' = (closeSent \/ f.kind = "close")

\* writeOutbound, when Write succeeds: after a Close the connection is closed.
Write ==
    /\ writer.pc = "writing" /\ Usable
    /\ Record(writer.frame)
    /\ IF writer.frame.kind = "close"
       THEN /\ writer' = [pc |-> "done", frame |-> Nothing]
            /\ ws' = "closed" /\ cancelled' = TRUE
       ELSE /\ writer' = [pc |-> "top", frame |-> Nothing]
            /\ UNCHANGED <<ws, cancelled>>
    /\ UNCHANGED <<reader, heartbeat, task, forward, locked, send, control, closeOnce, store, bounds>>

\* Write fails or times out, which breaks the connection, and calls shutdown.
WriteFails ==
    /\ writer.pc = "writing" /\ (Usable => MayBreak)
    /\ writer' = [pc |-> "closing", frame |-> Nothing]
    /\ ws' = IF ws = "up" THEN "broken" ELSE ws
    /\ UNCHANGED <<reader, heartbeat, task, forward, locked, send, control, closeOnce, cancelled,
                   store, bounds, written>>

\* The frame cannot be encoded or is too large: writeFormalClose writes a Close,
\* if it can, and closes.
WriteTooLarge ==
    /\ MayBreak
    /\ writer.pc = "writing" /\ writer.frame.kind \in {"response", "watched", "event"}
    /\ \/ Usable /\ Record(Plain("close")) /\ ws' = "closed"
       \/ UNCHANGED written /\ ws' = IF ws = "up" THEN "broken" ELSE ws
    /\ writer' = [pc |-> "done", frame |-> Nothing]
    /\ cancelled' = TRUE
    /\ UNCHANGED <<reader, heartbeat, task, forward, locked, send, control, closeOnce, store, bounds>>

WriterShutdown ==
    /\ \/ /\ writer.pc = "closing" /\ writer' = [writer EXCEPT !.pc = "clearing"]
          /\ shutdownOnce
          /\ UNCHANGED <<locked, store>>
       \/ /\ writer.pc = "clearing" /\ writer' = [writer EXCEPT !.pc = "done"]
          /\ clearWatches
          /\ UNCHANGED ending
    /\ UNCHANGED <<reader, heartbeat, task, forward, send, bounds, written>>

-----------------------------------------------------------------------------
(* heartbeat *)

Ping ==
    /\ heartbeat = "on" /\ pings < MaxPings
    /\ pings' = pings + 1
    /\ \/ enqueue(Plain("ping")) /\ UNCHANGED heartbeat
       \/ Full /\ heartbeat' = "full" /\ UNCHANGED send
    /\ UNCHANGED <<reader, writer, task, forward, locked, ending, store, inputs, written>>

\* Its Ping was dropped, or the client has been silent for too long.
HeartbeatCloses ==
    /\ heartbeat = "full" \/ (heartbeat = "on" /\ (Usable => MayBreak))
    /\ heartbeat' = IF heartbeat = "on" THEN "done" ELSE "on"
    /\ protocolClose
    /\ UNCHANGED <<reader, writer, task, forward, locked, send, store, bounds, written>>

HeartbeatEnds ==
    /\ heartbeat = "on" /\ cancelled
    /\ heartbeat' = "done"
    /\ UNCHANGED <<reader, writer, task, forward, locked, send, ending, store, bounds, written>>

-----------------------------------------------------------------------------
(* handleRequest, handleWatch, handleUnwatch *)

rest == <<loops, bounds, written>>

\* A Response that is about no watch: the result of Dispatch or an error.
Respond(t) ==
    /\ task[t].pc = "respond"
    /\ \/ enqueue(Plain("response")) /\ task' = [task EXCEPT ![t] = IdleTask]
       \/ Full /\ task' = [task EXCEPT ![t].pc = "dropped"] /\ UNCHANGED send
    /\ UNCHANGED <<rest, forward, locked, ending, store>>

\* The check of the context that handleWatch and handleUnwatch begin with.
CheckContext(t) ==
    /\ task[t].pc \in {"watch", "unwatch"}
    /\ task' = [task EXCEPT ![t].pc = CASE cancelled -> "respond"
                                        [] ~cancelled /\ @ = "watch" -> "watching"
                                        [] ~cancelled /\ @ = "unwatch" -> "unwatching"]
    /\ UNCHANGED <<rest, forward, locked, send, ending, store>>

\* Mutant: the watch that is replaced stays registered.
Registered_OldKept(old, w, k) ==
    [watch EXCEPT ![w] = [codex |-> k, state |-> "registered", events |-> <<>>]]

\* Store.Watch and ForceReset: a new watch, registered for the events to come.
Registered(old, w, k) ==
    [Cancelled({old}) EXCEPT ![w] = [codex |-> k, state |-> "registered", events |-> <<>>]]

\* handleWatch under watchesMu: the old watch goes, and a new one is registered
\* unless there are too many or the Store refuses.
Watch(t) ==
    LET k == task[t].codex
        old == watches[k]
        unused == {w \in WatchIds : watch[w].state = "none"}
        room == Cardinality(Current \ {old}) < MaxWatches
    IN
    /\ task[t].pc = "watching" /\ watchesMu = "free"
    /\ \/ /\ watches' = [watches EXCEPT ![k] = 0]
          /\ watch' = Cancelled({old})
          /\ task' = [task EXCEPT ![t].pc = "respond"]
          /\ UNCHANGED watchesMu
       \/ /\ room /\ k \notin forgotten
          /\ \E w \in unused, from \in 0 .. head[k] :
                /\ \A v \in unused : w <= v
                /\ watches' = [watches EXCEPT ![k] = w]
                /\ watch' = Registered(old, w, k)
                /\ task' = [task EXCEPT ![t] = [pc |-> "answering", codex |-> k, watch |-> w,
                                                next |-> from + 1, last |-> head[k]]]
          /\ watchesMu' = "held"
    /\ UNCHANGED <<rest, forward, send, ending, head, forgotten>>

\* The Watch Response is queued ...
AnswerWatch(t) ==
    /\ task[t].pc = "answering"
    /\ \/ /\ enqueue(Frame("watched", task[t].codex, task[t].watch, task[t].next - 1))
          /\ task' = [task EXCEPT ![t].pc = "replaying"]
       \/ /\ Full /\ UNCHANGED send
          /\ task' = [task EXCEPT ![t].pc = "undo"]
    /\ UNCHANGED <<rest, forward, locked, ending, store>>

\* ... then the replay, event by event ...
Replay(t) ==
    /\ task[t].pc = "replaying" /\ task[t].next <= task[t].last
    /\ \/ /\ enqueue(Frame("event", task[t].codex, task[t].watch, task[t].next))
          /\ task' = [task EXCEPT ![t].next = @ + 1]
       \/ /\ Full /\ UNCHANGED send
          /\ task' = [task EXCEPT ![t].pc = "undo"]
    /\ UNCHANGED <<rest, forward, locked, ending, store>>

\* ... and then forwardWatch takes over.
StartForward(t) ==
    /\ task[t].pc = "replaying" /\ task[t].next > task[t].last
    /\ forward' = [forward EXCEPT ![task[t].watch].pc = "run"]
    /\ watchesMu' = "free"
    /\ task' = [task EXCEPT ![t] = IdleTask]
    /\ UNCHANGED <<rest, watches, send, ending, store>>

\* A frame of handleWatch was dropped: the connection closes, the watch goes.
UndoWatch(t) ==
    /\ task[t].pc = "undo"
    /\ protocolClose
    /\ watch' = Cancelled({task[t].watch})
    /\ watches' = [watches EXCEPT ![task[t].codex] = 0]
    /\ watchesMu' = "free"
    /\ task' = [task EXCEPT ![t] = IdleTask]
    /\ UNCHANGED <<rest, forward, send, head, forgotten>>

\* handleUnwatch under watchesMu.
Unwatch(t) ==
    LET k == task[t].codex IN
    /\ task[t].pc = "unwatching" /\ watchesMu = "free"
    /\ watch' = Cancelled({watches[k]})
    /\ watches' = [watches EXCEPT ![k] = 0]
    /\ \/ /\ enqueue(Frame("unwatched", k, 0, 0))
          /\ task' = [task EXCEPT ![t] = IdleTask] /\ UNCHANGED watchesMu
       \/ /\ Full /\ UNCHANGED send
          /\ task' = [task EXCEPT ![t].pc = "unlock"] /\ watchesMu' = "held"
    /\ UNCHANGED <<rest, forward, ending, head, forgotten>>

\* The Response was dropped.
TaskDropped(t) ==
    /\ task[t].pc \in {"dropped", "unlock"}
    /\ protocolClose
    /\ watchesMu' = IF task[t].pc = "unlock" THEN "free" ELSE watchesMu
    /\ task' = [task EXCEPT ![t] = IdleTask]
    /\ UNCHANGED <<rest, forward, watches, send, store>>

-----------------------------------------------------------------------------
(* forwardWatch.  forward[w].pc: it waits in its select ("run"), has received *)
(* an event ("got"), that the watch is "slow" or that its channel is closed   *)
(* ("ended"), has dropped the event under the lock, or found the slow watch   *)
(* to be current.                                                             *)

IsCurrent(w) == w \in Current

\* The select, whatever is ready.
Select(w) ==
    /\ forward[w].pc = "run"
    /\ \/ /\ watch[w].events # <<>>
          /\ forward' = [forward EXCEPT ![w] = [pc |-> "got", event |-> Head(watch[w].events)]]
          /\ watch' = [watch EXCEPT ![w].events = Tail(@)]
       \/ /\ watch[w].events = <<>> /\ watch[w].state = "closed"
          /\ forward' = [forward EXCEPT ![w].pc = "ended"] /\ UNCHANGED watch
       \/ /\ watch[w].state = "slow"
          /\ forward' = [forward EXCEPT ![w].pc = "slow"] /\ UNCHANGED watch
       \/ /\ cancelled
          /\ forward' = [forward EXCEPT ![w].pc = "done"] /\ UNCHANGED watch
    /\ UNCHANGED <<rest, task, locked, send, ending, head, forgotten>>

\* Mutant: the event is queued although the watch was replaced.
Forward_Stale(w) ==
    /\ forward[w].pc = "got" /\ watchesMu = "free"
    /\ enqueue(forward[w].event)
    /\ forward' = [forward EXCEPT ![w].pc = "run"]
    /\ UNCHANGED <<rest, task, locked, ending, store>>

\* An event is queued under watchesMu, if the watch is still current.
Forward(w) ==
    /\ forward[w].pc = "got" /\ watchesMu = "free"
    /\ \/ /\ IsCurrent(w) /\ enqueue(forward[w].event)
          /\ forward' = [forward EXCEPT ![w].pc = "run"] /\ UNCHANGED watchesMu
       \/ /\ IsCurrent(w) /\ Full /\ UNCHANGED send
          /\ forward' = [forward EXCEPT ![w].pc = "dropped"] /\ watchesMu' = "held"
       \/ /\ ~IsCurrent(w)
          /\ forward' = [forward EXCEPT ![w].pc = "done"] /\ UNCHANGED <<send, watchesMu>>
    /\ UNCHANGED <<rest, task, watches, ending, store>>

ForwardDropped(w) ==
    /\ forward[w].pc = "dropped"
    /\ protocolClose
    /\ watchesMu' = "free"
    /\ forward' = [forward EXCEPT ![w].pc = "done"]
    /\ UNCHANGED <<rest, task, watches, send, store>>

\* Mutant: a slow watch is given up without a word.
ForwardSlow_Silent(w) ==
    /\ forward[w].pc = "slow"
    /\ forward' = [forward EXCEPT ![w].pc = "done"]
    /\ UNCHANGED <<rest, task, locked, send, ending, store>>

ForwardSlow(w) ==
    /\ \/ /\ forward[w].pc = "slow" /\ watchesMu = "free"
          /\ forward' = [forward EXCEPT ![w].pc = IF IsCurrent(w) THEN "close" ELSE "done"]
          /\ UNCHANGED ending
       \/ /\ forward[w].pc = "close"
          /\ forward' = [forward EXCEPT ![w].pc = "done"]
          /\ protocolClose
    /\ UNCHANGED <<rest, task, locked, send, store>>

\* Mutant: the place of a watch that ended is not given back.
ForwardEnded_Kept(w) ==
    /\ forward[w].pc = "ended"
    /\ forward' = [forward EXCEPT ![w].pc = "done"]
    /\ UNCHANGED <<rest, task, locked, send, ending, store>>

\* The Store closed the channel: the watch gives its place back.
ForwardEnded(w) ==
    /\ forward[w].pc = "ended" /\ watchesMu = "free"
    /\ watches' = IF IsCurrent(w) THEN [watches EXCEPT ![watch[w].codex] = 0] ELSE watches
    /\ forward' = [forward EXCEPT ![w].pc = "done"]
    /\ UNCHANGED <<rest, task, watchesMu, send, ending, store>>

-----------------------------------------------------------------------------
(* The activity store, as far as the channels of this connection go *)

\* Publish to a watch of the Codex: if its channel is full it is slow and gets
\* nothing any more.
Delivered(k, w) ==
    IF watch[w].codex # k \/ watch[w].state # "registered" THEN watch[w]
    ELSE IF Len(watch[w].events) < WatchQueueSize
         THEN [watch[w] EXCEPT !.events = Append(@, Frame("event", k, w, head[k] + 1))]
         ELSE [watch[w] EXCEPT !.state = "slow"]

Publish(k) ==
    /\ k \notin forgotten /\ head[k] < MaxSeq
    /\ head' = [head EXCEPT ![k] = @ + 1]
    /\ watch' = [w \in WatchIds |-> Delivered(k, w)]
    /\ UNCHANGED <<rest, task, forward, locked, send, ending, forgotten>>

Without(q, i) == SubSeq(q, 1, i - 1) \o SubSeq(q, i + 1, Len(q))

\* Forget at a watch of the Codex: CodexForgotten, if the channel is full in place
\* of an event, and the channel is closed.  The event is the oldest one when it is
\* discarded: forwardWatch may take some after the channel was found full, and
\* their turn comes first.
Ended(k, w, i) ==
    LET q == watch[w].events
        kept == IF Len(q) = WatchQueueSize THEN Without(q, i) ELSE q
    IN  IF watch[w].codex # k \/ watch[w].state # "registered" THEN watch[w]
        ELSE [watch[w] EXCEPT !.events = Append(kept, Frame("forgotten", k, w, head[k] + 1)),
                              !.state = "closed"]

\* The Codex stays when destroy fails.
Forget(k) ==
    /\ k \notin forgotten
    /\ forgotten' \in {forgotten, forgotten \cup {k}}
    /\ \E i \in 1 .. WatchQueueSize : watch' = [w \in WatchIds |-> Ended(k, w, i)]
    /\ UNCHANGED <<rest, task, forward, locked, send, ending, head>>

-----------------------------------------------------------------------------
\* handleConnect
Init ==
    /\ reader = "hello" /\ heartbeat = "on"
    /\ writer = [pc |-> "top", frame |-> Nothing]
    /\ task = [t \in Tasks |-> IdleTask]
    /\ forward = [w \in WatchIds |-> [pc |-> "none", event |-> Nothing]]
    /\ watches = [k \in Codexes |-> 0] /\ watchesMu = "free"
    /\ send = <<>> /\ control = FALSE
    /\ closeOnce = "free" /\ cancelled = FALSE /\ ws = "up"
    /\ watch = [w \in WatchIds |-> NoWatch]
    /\ head \in [Codexes -> 0 .. MaxSeq] /\ forgotten = {}
    /\ inputs = 0 /\ pings = 0
    /\ client = [k \in Codexes |-> Frame("unwatched", k, 0, 0)]
    /\ closeSent = FALSE

ReaderStep == ReaderDropped \/ ReaderShutdown
WriterStep == WriterTop \/ WriterSelect \/ Write \/ WriteFails \/ WriteTooLarge \/ WriterShutdown
HandlerStep(t) ==
    \/ Respond(t) \/ CheckContext(t) \/ Watch(t) \/ AnswerWatch(t) \/ Replay(t)
    \/ StartForward(t) \/ UndoWatch(t) \/ Unwatch(t) \/ TaskDropped(t)
ForwardStep(w) ==
    Select(w) \/ Forward(w) \/ ForwardDropped(w) \/ ForwardSlow(w) \/ ForwardEnded(w)

Next ==
    \/ ReadHello \/ ReadPing \/ ReadBad \/ ReadEnds \/ ReaderStep
    \/ \E t \in Tasks, k \in Codexes, what \in {"watch", "unwatch", "respond"} :
           ReadRequest(t, what, k)
    \/ PeerGone
    \/ WriterStep
    \/ Ping \/ HeartbeatCloses \/ HeartbeatEnds
    \/ \E t \in Tasks : HandlerStep(t)
    \/ \E w \in WatchIds : ForwardStep(w)
    \/ \E k \in Codexes : Publish(k) \/ Forget(k)

Spec == Init /\ [][Next]_vars

\* Goroutines run; a Read returns once the connection is closed; a Write
\* returns, it has a timeout; and the heartbeat gives up on a client that has
\* stopped sending.
FairSpec ==
    /\ Spec
    /\ WF_vars(ReaderStep) /\ WF_vars(~Usable /\ ReadEnds)
    /\ WF_vars(WriterStep)
    /\ WF_vars((heartbeat = "full" \/ reader = "done") /\ HeartbeatCloses)
    /\ WF_vars(HeartbeatEnds)
    /\ \A t \in Tasks : WF_vars(HandlerStep(t))
    /\ \A w \in WatchIds : WF_vars(ForwardStep(w))

-----------------------------------------------------------------------------
\* A request being handled, a forwardWatch, and a watch with its channel.
Handlers == [pc : {"idle", "respond", "dropped", "watch", "watching", "answering", "replaying",
                   "undo", "unwatch", "unwatching", "unlock"},
             codex : Codexes \cup {NoCodex}, watch : WatchIds \cup {0},
             next : 0 .. MaxSeq + 1, last : 0 .. MaxSeq]
Forwards == [pc : {"none", "run", "got", "dropped", "slow", "close", "ended", "done"},
             event : Frames]
Watches == [codex : Codexes \cup {NoCodex}, state : {"none", "registered", "slow", "closed"},
            events : Seq(Frames)]

\* The variables keep their types, and the queues their bounds.
TypeOK ==
    /\ reader \in {"hello", "open", "full", "closing", "clearing", "done"}
    /\ writer \in [pc : {"top", "select", "writing", "closing", "clearing", "done"}, frame : Frames]
    /\ heartbeat \in {"on", "full", "done"}
    /\ task \in [Tasks -> Handlers] /\ forward \in [WatchIds -> Forwards]
    /\ watches \in [Codexes -> WatchIds \cup {0}] /\ watchesMu \in {"free", "held"}
    /\ send \in Seq(Frames) /\ Len(send) <= SendQueueSize
    /\ control \in BOOLEAN /\ closeOnce \in {"free", "protocol", "shutdown"}
    /\ cancelled \in BOOLEAN /\ ws \in {"up", "closed", "broken"}
    /\ watch \in [WatchIds -> Watches]
    /\ \A w \in WatchIds : Len(watch[w].events) <= WatchQueueSize
    /\ head \in [Codexes -> 0 .. MaxSeq] /\ forgotten \subseteq Codexes
    /\ inputs \in 0 .. MaxInputs /\ pings \in 0 .. MaxPings
    /\ client \in [Codexes -> Frames] /\ closeSent \in BOOLEAN

\* What is on its way to the client, in order; nothing once the writer gave up.
Outgoing == CASE writer.pc = "writing" -> <<writer.frame>> \o send
              [] writer.pc \in {"top", "select"} -> send
              [] OTHER -> <<>>

\* The last frame about the Codex of Outgoing[i] that goes before it.
Before(i) ==
    LET k == Outgoing[i].codex
        js == {j \in 1 .. i - 1 : Outgoing[j].codex = k}
    IN  IF js = {} THEN client[k] ELSE Outgoing[CHOOSE j \in js : \A l \in js : l <= j]

\* What a client is sent about a Codex: every event follows, without a gap, the
\* Watch Response or the event of the same watch before it.  No event of a watch
\* that was replaced or unwatched comes after the Response that did so, and the
\* live events continue the replay (handleWatch, handleUnwatch and forwardWatch
\* over watchesMu).  Only a watch that Forget has ended may skip an event, the one
\* that made room for CodexForgotten.
EventsFollowTheirWatch ==
    \A i \in 1 .. Len(Outgoing) : IsEvent(Outgoing[i]) =>
        LET e == Outgoing[i]
            b == Before(i)
        IN  /\ b.kind \in {"watched", "event"} /\ b.watch = e.watch
            /\ e.seq = b.seq + 1 \/ (e.seq = b.seq + 2 /\ watch[e.watch].state = "closed")

\* The Store holds a watcher for this connection only while c.watches has it:
\* one that was replaced, unwatched or undone is cancelled.
NoOrphanWatcher ==
    \A w \in WatchIds : watch[w].state = "registered" => IsCurrent(w)

\* A watch that overflowed closes the connection, unless it is given up first
\* (forwardWatch on watch.Slow).
SlowConsumerClosed ==
    \A w \in WatchIds :
        (watch[w].state = "slow" /\ IsCurrent(w)) ~> (closeOnce # "free" \/ ~IsCurrent(w))

\* A Close that was decided is written, however full the queue, unless the
\* connection breaks first (protocolClose, writeLoop).
CloseDelivered == closeOnce = "protocol" ~> (closeSent \/ ws = "broken")

\* A watch whose Codex was forgotten gives its place back (forwardWatch when the
\* channel is closed), or the connection ends.
EndedWatchFreesPlace ==
    \A w \in WatchIds :
        (watch[w].state = "closed" /\ IsCurrent(w)) ~> (~IsCurrent(w) \/ reader = "done")

\* Once the connection is closing its three loops end and every request is
\* finished, whoever closed it and whatever fails on the way.
LoopsEnd ==
    closeOnce # "free" ~> /\ reader = "done" /\ writer.pc = "done" /\ heartbeat = "done"
                          /\ \A t \in Tasks : task[t].pc = "idle"

=============================================================================
