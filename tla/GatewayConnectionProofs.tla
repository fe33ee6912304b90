----------------------- MODULE GatewayConnectionProofs -----------------------
(***************************************************************************)
(* Proofs about one connection, for any number of Codexes, requests and    *)
(* watches and any queue sizes.                                            *)
(***************************************************************************)
EXTENDS GatewayConnection, TLAPS

\* Zenon proves a step unless the step names SMT.
USE Zenon

-----------------------------------------------------------------------------
(* Types.  The parts of TypeOK that the actions keep or change together.  *)

LoopT ==
    /\ reader \in {"hello", "open", "full", "closing", "clearing", "done"}
    /\ heartbeat \in {"on", "full", "done"}
WriterT == writer \in [pc : {"top", "select", "writing", "closing", "clearing", "done"}, frame : Frames]
TaskT == task \in [Tasks -> Handlers]
ForwardT == forward \in [WatchIds -> Forwards]
LockT == watches \in [Codexes -> WatchIds \cup {0}] /\ watchesMu \in {"free", "held"}
SendT == send \in Seq(Frames) /\ Len(send) <= SendQueueSize
EndT ==
    /\ control \in BOOLEAN /\ closeOnce \in {"free", "protocol", "shutdown"}
    /\ cancelled \in BOOLEAN /\ ws \in {"up", "closed", "broken"}
WatchT ==
    /\ watch \in [WatchIds -> Watches]
    /\ \A w \in WatchIds : Len(watch[w].events) <= WatchQueueSize
HeadT == head \in [Codexes -> 0 .. MaxSeq] /\ forgotten \subseteq Codexes
BoundT == inputs \in 0 .. MaxInputs /\ pings \in 0 .. MaxPings
ClientT == client \in [Codexes -> Frames] /\ closeSent \in BOOLEAN

\* TypeOK is its parts.
LEMMA Parts ==
    TypeOK <=> /\ LoopT /\ WriterT /\ TaskT /\ ForwardT /\ LockT /\ SendT /\ EndT /\ WatchT
               /\ HeadT /\ BoundT /\ ClientT
BY DEF TypeOK, LoopT, WriterT, TaskT, ForwardT, LockT, SendT, EndT, WatchT, HeadT, BoundT, ClientT

\* What TypeOK says of one handler, one watch and one Codex.
LEMMA TaskIs ==
    ASSUME TypeOK, NEW t \in Tasks
    PROVE  /\ task[t] \in Handlers /\ task[t].last \in Nat /\ task[t].next \in Nat
           /\ task[t].next \in 0 .. MaxSeq + 1
<1>1. task[t] \in Handlers
  BY DEF TypeOK
<1>2. ASSUME NEW r \in Handlers PROVE r.last \in Nat /\ r.next \in Nat /\ r.next \in 0 .. MaxSeq + 1
  BY BoundAssumption, SMT DEF Handlers
<1> QED
  BY <1>1, <1>2

\* Of a watch: its channel holds frames, and not too many.
LEMMA WatchIs ==
    ASSUME TypeOK, NEW w \in WatchIds
    PROVE  watch[w] \in Watches /\ watch[w].events \in Seq(Frames) /\ Len(watch[w].events) <= WatchQueueSize
<1>1. watch[w] \in Watches /\ Len(watch[w].events) <= WatchQueueSize
  BY DEF TypeOK
<1>2. ASSUME NEW r \in Watches PROVE r.events \in Seq(Frames)
  BY SMT DEF Watches
<1> QED
  BY <1>1, <1>2

\* Of a forwardWatch: it holds a frame.
LEMMA ForwardIs ==
    ASSUME TypeOK, NEW w \in WatchIds
    PROVE  forward[w].event \in Frames
<1>1. forward[w] \in Forwards
  BY DEF TypeOK
<1>2. ASSUME NEW r \in Forwards PROVE r.event \in Frames
  BY SMT DEF Forwards
<1> QED
  BY <1>1, <1>2

\* Of a head: it is a number, and the next event has one too.
LEMMA HeadIs ==
    ASSUME TypeOK, NEW k \in Codexes
    PROVE  head \in [Codexes -> 0 .. MaxSeq] /\ head[k] \in Nat /\ head[k] + 1 \in 0 .. MaxSeq + 1
<1>1. head \in [Codexes -> 0 .. MaxSeq] /\ head[k] \in 0 .. MaxSeq
  BY DEF TypeOK
<1>2. ASSUME NEW n \in 0 .. MaxSeq PROVE n \in Nat /\ n + 1 \in 0 .. MaxSeq + 1
  BY BoundAssumption, SMT
<1> QED
  BY <1>1, <1>2

\* A place changes hands.
LEMMA PlaceSet ==
    ASSUME TypeOK, NEW k \in Codexes, NEW w, watches' = [watches EXCEPT ![k] = w]
    PROVE  \A j \in Codexes : watches'[j] = IF j = k THEN w ELSE watches[j]
<1>1. watches \in [Codexes -> WatchIds \cup {0}]
  BY DEF TypeOK
<1> QED
  BY <1>1, SMT

\* No watch has the number of an empty place.
LEMMA NotNone == \A w \in WatchIds : w # 0
BY BoundAssumption, SMT DEF WatchIds

\* The first frame of a queue.
LEMMA FirstIs ==
    ASSUME NEW q \in Seq(Frames), q # <<>>
    PROVE  Head(q) = q[1] /\ q[1] \in Frames
BY SMT

\* Frames.
LEMMA FrameType ==
    ASSUME NEW kind \in Kinds, NEW k \in Codexes \cup {NoCodex}, NEW w \in WatchIds \cup {0},
           NEW n \in 0 .. MaxSeq + 1
    PROVE  Frame(kind, k, w, n) \in Frames
BY SMT DEF Frame, Frames

\* A frame about no Codex.
LEMMA PlainType ==
    ASSUME NEW kind \in Kinds PROVE Plain(kind) \in Frames
BY BoundAssumption, SMT DEF Plain, Frame, Frames

\* The frame of a writer that writes nothing.
LEMMA NothingType == Nothing \in Frames
BY PlainType, SMT DEF Nothing, Kinds

\* A queue of frames stays one when a frame is appended or its first one taken.
LEMMA EnqueueType ==
    ASSUME SendT, NEW f \in Frames, enqueue(f)
    PROVE  SendT'
BY QueueAssumption, SMT DEF SendT, enqueue, Full

\* protocolClose and shutdownOnce keep the types of what ends the connection.
LEMMA ClosesType ==
    ASSUME EndT, protocolClose \/ shutdownOnce
    PROVE  EndT'
<1>1. control' \in BOOLEAN /\ cancelled' \in BOOLEAN
  BY DEF EndT, protocolClose, shutdownOnce
<1> QED
  BY <1>1, SMT DEF EndT, protocolClose, shutdownOnce

\* So does the Cancel of watches those of the watches ...
LEMMA CancelledType ==
    ASSUME WatchT, NEW ids
    PROVE  /\ Cancelled(ids) \in [WatchIds -> Watches]
           /\ \A w \in WatchIds : Cancelled(ids)[w].events = watch[w].events
BY SMT DEF WatchT, Cancelled, Watches

\* ... and clearWatches.
LEMMA ClearType ==
    ASSUME WatchT, LockT, HeadT, clearWatches
    PROVE  WatchT' /\ LockT' /\ HeadT'
<1>1. WatchT'
  BY CancelledType, SMT DEF clearWatches, WatchT
<1> QED
  BY <1>1, SMT DEF clearWatches, LockT, HeadT

\* The steps of the loops that touch no watch keep the types.
LEMMA LoopTypes ==
    ASSUME TypeOK,
           \/ ReadHello \/ ReadPing \/ ReadBad \/ ReadEnds \/ ReaderStep \/ PeerGone
           \/ Ping \/ HeartbeatCloses \/ HeartbeatEnds
    PROVE  TypeOK'
<1> USE DEF locked, ending, store, bounds, written, LoopT, WriterT, TaskT, ForwardT, LockT, SendT,
            EndT, WatchT, HeadT, BoundT, ClientT
<1>0. LoopT /\ WriterT /\ TaskT /\ ForwardT /\ LockT /\ SendT /\ EndT /\ WatchT /\ HeadT /\ BoundT /\ ClientT
  BY Parts
<1>1. ASSUME ReadHello \/ ReadPing \/ Ping PROVE SendT'
  BY <1>0, <1>1, EnqueueType, PlainType, SMT DEF ReadHello, ReadPing, Ping, Kinds
<1>2. CASE ReadHello
  BY <1>0, <1>1, <1>2, SMT DEF TypeOK, ReadHello
<1>3. CASE ReadPing
  BY <1>0, <1>1, <1>3, BoundAssumption, SMT DEF TypeOK, ReadPing
<1>4. CASE ReadBad \/ ReaderDropped
  BY <1>0, <1>4, ClosesType, SMT DEF TypeOK, ReadBad, ReaderDropped
<1>5. CASE ReadEnds
  BY <1>0, <1>5, SMT DEF TypeOK, ReadEnds
<1>6. CASE ReaderShutdown
  <2>1. EndT' /\ WatchT' /\ LockT' /\ HeadT'
    BY <1>0, <1>6, ClosesType, ClearType, SMT DEF ReaderShutdown
  <2> QED
    BY <1>0, <1>6, <2>1, SMT DEF TypeOK, ReaderShutdown
<1>7. CASE PeerGone
  BY <1>0, <1>7, SMT DEF TypeOK, PeerGone, loops
<1>8. CASE Ping
  BY <1>0, <1>1, <1>8, BoundAssumption, SMT DEF TypeOK, Ping
<1>9. CASE HeartbeatCloses
  BY <1>0, <1>9, ClosesType, SMT DEF TypeOK, HeartbeatCloses
<1>10. CASE HeartbeatEnds
  BY <1>0, <1>10, SMT DEF TypeOK, HeartbeatEnds
<1> QED
  BY <1>2, <1>3, <1>4, <1>5, <1>6, <1>7, <1>8, <1>9, <1>10 DEF ReaderStep

\* So do the steps of the writer.
LEMMA WriterTypes ==
    ASSUME TypeOK, WriterStep
    PROVE  TypeOK'
<1> USE DEF locked, ending, store, bounds, written, LoopT, WriterT, TaskT, ForwardT, LockT, SendT,
            EndT, WatchT, HeadT, BoundT, ClientT
<1>0. LoopT /\ WriterT /\ TaskT /\ ForwardT /\ LockT /\ SendT /\ EndT /\ WatchT /\ HeadT /\ BoundT /\ ClientT
  BY Parts
<1>a. Plain("close") \in Frames /\ Nothing \in Frames
  BY PlainType, NothingType, SMT DEF Kinds
<1>b. ASSUME NEW f \in Frames, Record(f) PROVE ClientT'
  <2>1. closeSent' \in BOOLEAN
    BY <1>b DEF Record
  <2>2. client' = IF f.codex = NoCodex THEN client ELSE [client EXCEPT ![f.codex] = f]
    BY <1>b DEF Record
  <2>3. client' \in [Codexes -> Frames]
    BY <1>0, <1>b, <2>2, SMT DEF Frames
  <2> QED
    BY <2>1, <2>3
<1>c. WriterT /\ SendT
  BY <1>0
<1>1. CASE WriterTop
  <2>1. WriterT'
    BY <1>0, <1>a, <1>1, SMT DEF WriterTop
  <2>2. EndT'
    BY <1>0, <1>1 DEF WriterTop
  <2> QED
    BY <1>0, <1>1, <2>1, <2>2, SMT DEF TypeOK, WriterTop
<1>2. CASE WriterSelect
  <2>1. WriterT' /\ SendT'
    <3>1. send # <<>> => /\ Head(send) \in Frames /\ Tail(send) \in Seq(Frames)
                         /\ Len(Tail(send)) = Len(send) - 1 /\ Len(send) \in Nat
      BY <1>0, SMT
    <3>2. \/ writer' = [pc |-> "writing", frame |-> Plain("close")] /\ send' = send
          \/ send # <<>> /\ writer' = [pc |-> "writing", frame |-> Head(send)] /\ send' = Tail(send)
          \/ writer' = [writer EXCEPT !.pc = "done"] /\ send' = send
      BY <1>2 DEF WriterSelect
    <3>3. CASE writer' = [pc |-> "writing", frame |-> Plain("close")] /\ send' = send
      BY <1>a, <1>c, <3>3, SMT
    <3>4. CASE send # <<>> /\ writer' = [pc |-> "writing", frame |-> Head(send)] /\ send' = Tail(send)
      <4>1. WriterT'
        BY <3>1, <3>4, SMT
      <4>2. SendT'
        BY <1>c, <3>1, <3>4, QueueAssumption, SMT
      <4> QED
        BY <4>1, <4>2
    <3>5. CASE writer' = [writer EXCEPT !.pc = "done"] /\ send' = send
      BY <1>c, <3>5, SMT
    <3> QED
      BY <3>2, <3>3, <3>4, <3>5
  <2>2. EndT'
    BY <1>0, <1>2 DEF WriterSelect
  <2> QED
    BY <1>0, <1>2, <2>1, <2>2, SMT DEF TypeOK, WriterSelect
<1>3. CASE Write
  <2>1. ClientT'
    BY <1>0, <1>b, <1>3, SMT DEF Write
  <2>2. EndT'
    BY <1>0, <1>3 DEF Write
  <2>3. WriterT'
    BY <1>0, <1>a, <1>3, SMT DEF Write
  <2> QED
    BY <1>0, <1>3, <2>1, <2>2, <2>3, SMT DEF TypeOK, Write
<1>4. CASE WriteFails
  BY <1>0, <1>a, <1>4, SMT DEF TypeOK, WriteFails
<1>5. CASE WriteTooLarge
  <2>1. ClientT'
    BY <1>0, <1>a, <1>b, <1>5, SMT DEF WriteTooLarge
  <2> QED
    BY <1>0, <1>a, <1>5, <2>1, SMT DEF TypeOK, WriteTooLarge
<1>6. CASE WriterShutdown
  <2>1. EndT' /\ WatchT' /\ LockT' /\ HeadT'
    BY <1>0, <1>6, ClosesType, ClearType, SMT DEF WriterShutdown
  <2>2. WriterT'
    <3>1. \/ writer' = [writer EXCEPT !.pc = "clearing"]
          \/ writer' = [writer EXCEPT !.pc = "done"]
      BY <1>6 DEF WriterShutdown
    <3> QED
      BY <1>c, <3>1, SMT
  <2> QED
    BY <1>0, <1>6, <2>1, <2>2, SMT DEF TypeOK, WriterShutdown
<1> QED
  BY <1>1, <1>2, <1>3, <1>4, <1>5, <1>6 DEF WriterStep

\* A request past its first check is about a Codex.
Asked == \A t \in Tasks : task[t].pc \notin {"idle", "respond", "dropped"} => task[t].codex \in Codexes

\* The handlers that have registered a watch and not yet handed it to forwardWatch.
Starts(t) == task[t].pc \in {"answering", "replaying", "undo"}

\* Such a handler has the current watch of its Codex, and nobody forwards it yet.
Starting ==
    \A t \in Tasks : Starts(t) =>
        /\ task[t].watch \in WatchIds /\ watches[task[t].codex] = task[t].watch
        /\ forward[task[t].watch].pc = "none"
        /\ task[t].next >= 1

\* So do a new request and the steps of a handler.
LEMMA RequestTypes ==
    ASSUME TypeOK, NEW t \in Tasks, NEW k \in Codexes, NEW what \in {"watch", "unwatch", "respond"},
           ReadRequest(t, what, k)
    PROVE  TypeOK'
<1>1. TaskT'
  <2>1. task' = [task EXCEPT ![t] = [@ EXCEPT !.pc = what, !.codex = k]] /\ task \in [Tasks -> Handlers]
    BY DEF ReadRequest, TypeOK
  <2>2. [task[t] EXCEPT !.pc = what, !.codex = k] \in Handlers
    <3>1. task[t] \in Handlers
      BY <2>1
    <3> QED BY <3>1, Zenon DEF Handlers
  <2>3. task' \in [Tasks -> Handlers]
    BY <2>1, <2>2, Zenon
  <2> QED BY <2>3 DEF TaskT
<1>2. BoundT'
  BY BoundAssumption, SMT DEF ReadRequest, TypeOK, BoundT
<1>3. UNCHANGED <<loops, forward, locked, send, ending, store, written>>
  BY DEF ReadRequest
<1> QED
  BY <1>1, <1>2, <1>3, SMT DEF TypeOK, TaskT, BoundT, loops, locked, ending, store, written

\* A handler that is done.
LEMMA IdleType == IdleTask \in Handlers
BY BoundAssumption, SMT DEF IdleTask, Handlers

\* The steps of handlers keep the types.
LEMMA HandlerTypes ==
    ASSUME TypeOK, Asked, Starting, NEW t \in Tasks, HandlerStep(t)
    PROVE  TypeOK'
<1> DEFINE k == task[t].codex
           w == task[t].watch
<1>0. LoopT /\ WriterT /\ TaskT /\ ForwardT /\ LockT /\ SendT /\ EndT /\ WatchT /\ HeadT /\ BoundT /\ ClientT
  BY Parts
<1>a. task[t] \in Handlers /\ task \in [Tasks -> Handlers] /\ IdleTask \in Handlers
  BY <1>0, IdleType, SMT DEF TaskT
<1>b. ASSUME NEW pc \in {"respond", "dropped", "watching", "replaying", "undo", "unwatching", "unlock"}
      PROVE  [task EXCEPT ![t].pc = pc] \in [Tasks -> Handlers]
  BY <1>a, SMT DEF Handlers
<1>c. [task EXCEPT ![t] = IdleTask] \in [Tasks -> Handlers]
  BY <1>a, SMT
<1>d. ASSUME TaskT', SendT', LockT', WatchT', ForwardT', EndT',
             UNCHANGED <<rest, head, forgotten>>
      PROVE  TypeOK'
  BY <1>0, <1>d, SMT DEF TypeOK, rest, loops, bounds, written, LoopT, WriterT, TaskT, ForwardT, LockT, SendT,
      EndT, WatchT, HeadT, BoundT, ClientT
<1>1. CASE Respond(t)
  <2>1. TaskT'
    BY <1>1, <1>b, <1>c DEF Respond, TaskT
  <2>2. SendT'
    <3>1. CASE enqueue(Plain("response"))
      BY <1>0, <3>1, EnqueueType, PlainType, SMT DEF Kinds
    <3> QED
      BY <1>0, <1>1, <3>1, SMT DEF Respond, SendT
  <2>3. UNCHANGED <<rest, forward, locked, ending, store>>
    BY <1>1 DEF Respond
  <2> QED
    BY <1>0, <1>d, <2>1, <2>2, <2>3, SMT DEF store, locked, ending, LockT, WatchT, ForwardT, EndT
<1>2. CASE CheckContext(t)
  <2>1. TaskT'
    <3>1. \E pc \in {"respond", "watching", "unwatching"} : task' = [task EXCEPT ![t].pc = pc]
      BY <1>2 DEF CheckContext
    <3>2. PICK pc \in {"respond", "watching", "unwatching"} : task' = [task EXCEPT ![t].pc = pc]
      BY <3>1
    <3>3. pc \in {"respond", "dropped", "watching", "replaying", "undo", "unwatching", "unlock"}
      OBVIOUS
    <3>4. [task EXCEPT ![t].pc = pc] \in [Tasks -> Handlers]
      BY <1>b, <3>3
    <3> QED
      BY <3>2, <3>4 DEF TaskT
  <2>3. UNCHANGED <<rest, forward, locked, send, ending, store>>
    BY <1>2 DEF CheckContext
  <2> QED
    BY <1>0, <1>d, <2>1, <2>3, SMT DEF store, locked, ending, LockT, WatchT, ForwardT, EndT, SendT
<1>3. CASE Watch(t)
  <2>0. k \in Codexes /\ head[k] \in 0 .. MaxSeq /\ watches[k] \in WatchIds \cup {0}
    BY <1>0, <1>3, SMT DEF Watch, Asked, HeadT, LockT
  <2>1. TaskT'
    <3>1. CASE task' = [task EXCEPT ![t].pc = "respond"]
      BY <1>b, <3>1 DEF TaskT
    <3>2. ASSUME NEW v \in WatchIds, NEW from \in 0 .. head[k],
                 task' = [task EXCEPT ![t] = [pc |-> "answering", codex |-> k, watch |-> v,
                                              next |-> from + 1, last |-> head[k]]]
          PROVE  TaskT'
      <4>1. [pc |-> "answering", codex |-> k, watch |-> v, next |-> from + 1, last |-> head[k]] \in Handlers
        BY <2>0, BoundAssumption, SMT DEF Handlers
      <4> QED
        BY <1>a, <3>2, <4>1, SMT DEF TaskT
    <3> QED
      BY <1>3, <3>1, <3>2 DEF Watch
  <2>2. LockT'
    BY <1>0, <1>3, <2>0, SMT DEF Watch, LockT
  <2>3. WatchT'
    <3>1. CASE watch' = Cancelled({watches[k]})
      BY <1>0, <3>1, CancelledType, SMT DEF WatchT
    <3>2. ASSUME NEW v \in WatchIds, watch' = Registered(watches[k], v, k)
          PROVE  WatchT'
      <4> DEFINE old == Cancelled({watches[k]})
                 new == [codex |-> k, state |-> "registered", events |-> <<>>]
      <4>1. old \in [WatchIds -> Watches] /\ \A x \in WatchIds : old[x].events = watch[x].events
        BY <1>0, CancelledType
      <4>2. new \in Watches /\ Len(new.events) = 0
        BY <2>0, SMT DEF Watches
      <4>3. watch' = [old EXCEPT ![v] = new]
        BY <3>2 DEF Registered
      <4> HIDE DEF old, new
      <4> QED
        BY <1>0, <4>1, <4>2, <4>3, QueueAssumption, SMT DEF WatchT
    <3> QED
      BY <1>3, <3>1, <3>2 DEF Watch
  <2>4. UNCHANGED <<rest, forward, send, ending, head, forgotten>>
    BY <1>3 DEF Watch
  <2> QED
    BY <1>0, <1>d, <2>1, <2>2, <2>3, <2>4, SMT DEF ending, ForwardT, EndT, SendT
<1>4. CASE AnswerWatch(t)
  <2>1. TaskT'
    BY <1>4, <1>b DEF AnswerWatch, TaskT
  <2>2. SendT'
    <3>1. CASE enqueue(Frame("watched", k, w, task[t].next - 1))
      <4>1. /\ "watched" \in Kinds /\ k \in Codexes \cup {NoCodex} /\ w \in WatchIds \cup {0}
            /\ task[t].next - 1 \in 0 .. MaxSeq + 1
        BY <1>a, <1>4, BoundAssumption, SMT DEF Kinds, Handlers, AnswerWatch, Starting, Starts
      <4> QED
        BY <1>0, <3>1, <4>1, FrameType, EnqueueType
    <3> QED
      BY <1>0, <1>4, <3>1, SMT DEF AnswerWatch, SendT
  <2>3. UNCHANGED <<rest, forward, locked, ending, store>>
    BY <1>4 DEF AnswerWatch
  <2> QED
    BY <1>0, <1>d, <2>1, <2>2, <2>3, SMT DEF store, locked, ending, LockT, WatchT, ForwardT, EndT
<1>5. CASE Replay(t)
  <2>1. TaskT'
    <3>1. CASE task' = [task EXCEPT ![t].next = @ + 1]
      BY <1>a, <1>5, <3>1, BoundAssumption, SMT DEF Replay, TaskT, Handlers
    <3> QED
      BY <1>5, <1>b, <3>1 DEF Replay, TaskT
  <2>2. SendT'
    <3>1. CASE enqueue(Frame("event", k, w, task[t].next))
      <4>1. /\ "event" \in Kinds /\ k \in Codexes \cup {NoCodex} /\ w \in WatchIds \cup {0}
            /\ task[t].next \in 0 .. MaxSeq + 1
        BY <1>a, SMT DEF Kinds, Handlers
      <4> QED
        BY <1>0, <3>1, <4>1, FrameType, EnqueueType
    <3> QED
      BY <1>0, <1>5, <3>1, SMT DEF Replay, SendT
  <2>3. UNCHANGED <<rest, forward, locked, ending, store>>
    BY <1>5 DEF Replay
  <2> QED
    BY <1>0, <1>d, <2>1, <2>2, <2>3, SMT DEF store, locked, ending, LockT, WatchT, ForwardT, EndT
<1>6. CASE StartForward(t)
  <2>1. TaskT'
    BY <1>6, <1>c DEF StartForward, TaskT
  <2>2. ForwardT'
    <3>1. w \in WatchIds /\ forward' = [forward EXCEPT ![w].pc = "run"]
      BY <1>6 DEF StartForward, Starting, Starts
    <3> HIDE DEF w
    <3> QED
      BY <1>0, <3>1, SMT DEF ForwardT, Forwards
  <2>3. UNCHANGED <<rest, watches, send, ending, store>> /\ watchesMu' = "free"
    BY <1>6 DEF StartForward
  <2> QED
    BY <1>0, <1>d, <2>1, <2>2, <2>3, SMT DEF store, ending, LockT, WatchT, SendT, EndT
<1>7. CASE UndoWatch(t)
  <2>1. TaskT'
    BY <1>7, <1>c DEF UndoWatch, TaskT
  <2>2. EndT'
    BY <1>0, <1>7, ClosesType DEF UndoWatch
  <2>3. WatchT'
    BY <1>0, <1>7, CancelledType, SMT DEF UndoWatch, WatchT
  <2>4. LockT'
    <3>1. watches' = [watches EXCEPT ![k] = 0] /\ watchesMu' = "free"
      BY <1>7 DEF UndoWatch
    <3>2. k \in Codexes
      BY <1>7 DEF Unwatch, UndoWatch, Asked
    <3> HIDE DEF k
    <3> QED
      BY <1>0, <3>1, <3>2, SMT DEF LockT
  <2>5. UNCHANGED <<rest, forward, send, head, forgotten>>
    BY <1>7 DEF UndoWatch
  <2> QED
    BY <1>0, <1>d, <2>1, <2>2, <2>3, <2>4, <2>5, SMT DEF SendT, ForwardT
<1>8. CASE Unwatch(t)
  <2>1. TaskT'
    BY <1>8, <1>b, <1>c DEF Unwatch, TaskT
  <2>2. SendT'
    <3>1. CASE enqueue(Frame("unwatched", k, 0, 0))
      <4>1. "unwatched" \in Kinds /\ k \in Codexes \cup {NoCodex} /\ 0 \in WatchIds \cup {0} /\ 0 \in 0 .. MaxSeq + 1
        BY <1>a, BoundAssumption, SMT DEF Kinds, Handlers
      <4> QED
        BY <1>0, <3>1, <4>1, FrameType, EnqueueType
    <3> QED
      BY <1>0, <1>8, <3>1, SMT DEF Unwatch, SendT
  <2>3. WatchT'
    BY <1>0, <1>8, CancelledType, SMT DEF Unwatch, WatchT
  <2>4. LockT'
    <3>1. watches' = [watches EXCEPT ![k] = 0] /\ watchesMu' \in {watchesMu, "held"}
      BY <1>8 DEF Unwatch
    <3>2. k \in Codexes
      BY <1>8 DEF Unwatch, UndoWatch, Asked
    <3> HIDE DEF k
    <3> QED
      BY <1>0, <3>1, <3>2, SMT DEF LockT
  <2>5. UNCHANGED <<rest, forward, ending, head, forgotten>>
    BY <1>8 DEF Unwatch
  <2> QED
    BY <1>0, <1>d, <2>1, <2>2, <2>3, <2>4, <2>5, SMT DEF ending, ForwardT, EndT
<1>9. CASE TaskDropped(t)
  <2>1. TaskT'
    BY <1>9, <1>c DEF TaskDropped, TaskT
  <2>2. EndT'
    BY <1>0, <1>9, ClosesType DEF TaskDropped
  <2>3. LockT'
    BY <1>0, <1>9, SMT DEF TaskDropped, LockT
  <2>4. UNCHANGED <<rest, forward, send, store>>
    BY <1>9 DEF TaskDropped
  <2> QED
    BY <1>0, <1>d, <2>1, <2>2, <2>3, <2>4, SMT DEF store, SendT, WatchT, ForwardT
<1> QED
  BY <1>1, <1>2, <1>3, <1>4, <1>5, <1>6, <1>7, <1>8, <1>9 DEF HandlerStep

\* The steps of forwardWatch and of the Store.
LEMMA ForwardTypes ==
    ASSUME TypeOK, NEW w \in WatchIds, ForwardStep(w)
    PROVE  TypeOK'
<1>0. LoopT /\ WriterT /\ TaskT /\ ForwardT /\ LockT /\ SendT /\ EndT /\ WatchT /\ HeadT /\ BoundT /\ ClientT
  BY Parts
<1>a. forward \in [WatchIds -> Forwards] /\ forward[w] \in Forwards
  BY <1>0, SMT DEF ForwardT
<1>b. ASSUME NEW pc \in {"run", "dropped", "slow", "close", "ended", "done"}
      PROVE  [forward EXCEPT ![w].pc = pc] \in [WatchIds -> Forwards]
  BY <1>a, SMT DEF Forwards
<1>d. ASSUME SendT', LockT', WatchT', ForwardT', EndT', UNCHANGED <<rest, task, head, forgotten>>
      PROVE  TypeOK'
  BY <1>0, <1>d, SMT DEF TypeOK, rest, loops, bounds, written, LoopT, WriterT, TaskT, ForwardT, LockT, SendT,
      EndT, WatchT, HeadT, BoundT, ClientT
<1>1. CASE Select(w)
  <2>1. ASSUME watch[w].events # <<>>,
               forward' = [forward EXCEPT ![w] = [pc |-> "got", event |-> Head(watch[w].events)]],
               watch' = [watch EXCEPT ![w].events = Tail(@)]
        PROVE  WatchT' /\ ForwardT'
    <3> DEFINE q == Tail(watch[w].events)
               new == [watch[w] EXCEPT !.events = q]
    <3>1. /\ watch[w] \in Watches /\ watch[w].events \in Seq(Frames)
          /\ Head(watch[w].events) \in Frames /\ Tail(watch[w].events) \in Seq(Frames)
          /\ Len(Tail(watch[w].events)) <= WatchQueueSize
      BY <1>0, <2>1, QueueAssumption, SMT DEF WatchT, Watches
    <3>2. ForwardT'
      BY <1>a, <2>1, <3>1, SMT DEF ForwardT, Forwards
    <3>3. new \in Watches /\ new.events = Tail(watch[w].events)
      <4>1. q \in Seq(Frames) /\ watch[w] \in Watches
        BY <3>1
      <4> HIDE DEF q
      <4>2. new \in Watches /\ new.events = q
        BY <4>1, SMT DEF Watches
      <4> QED
        BY <4>2 DEF q
    <3>4. watch' = [watch EXCEPT ![w] = new]
      BY <2>1, SMT
    <3> HIDE DEF new
    <3>5. WatchT'
      <4>1. \A x \in WatchIds : watch'[x] = IF x = w THEN new ELSE watch[x]
        BY <1>0, <3>4, SMT DEF WatchT
      <4>2. Len(new.events) <= WatchQueueSize
        BY <3>1, <3>3
      <4>3. watch' \in [WatchIds -> Watches]
        BY <1>0, <3>3, <3>4, SMT DEF WatchT
      <4> QED
        BY <1>0, <3>3, <3>4, <4>1, <4>2, <4>3 DEF WatchT
    <3> QED
      BY <3>2, <3>5
  <2>2. ASSUME watch' = watch, NEW pc \in {"ended", "slow", "done"}, forward' = [forward EXCEPT ![w].pc = pc]
        PROVE  WatchT' /\ ForwardT'
    <3>1. ForwardT'
      BY <1>b, <2>2 DEF ForwardT
    <3> QED
      BY <1>0, <2>2, <3>1, SMT DEF WatchT
  <2>3. WatchT' /\ ForwardT'
    BY <1>1, <2>1, <2>2 DEF Select
  <2>4. UNCHANGED <<rest, task, locked, send, ending, head, forgotten>>
    BY <1>1 DEF Select
  <2> QED
    BY <1>0, <1>d, <2>3, <2>4, SMT DEF locked, ending, LockT, SendT, EndT
<1>2. CASE Forward(w)
  <2>1. ForwardT'
    BY <1>2, <1>b DEF Forward, ForwardT
  <2>2. SendT'
    <3>1. CASE enqueue(forward[w].event)
      <4>1. forward[w].event \in Frames
        BY <1>a, SMT DEF Forwards
      <4> QED
        BY <1>0, <3>1, <4>1, EnqueueType
    <3> QED
      BY <1>0, <1>2, <3>1, SMT DEF Forward, SendT
  <2>3. LockT'
    <3>1. watches' = watches /\ watchesMu' \in {watchesMu, "held"}
      BY <1>2 DEF Forward
    <3> QED
      BY <1>0, <3>1, SMT DEF LockT
  <2>4. UNCHANGED <<rest, task, ending, store>>
    BY <1>2 DEF Forward
  <2> QED
    BY <1>0, <1>d, <2>1, <2>2, <2>3, <2>4, SMT DEF store, ending, WatchT, EndT
<1>3. CASE ForwardDropped(w)
  <2>1. ForwardT' /\ EndT'
    BY <1>0, <1>3, <1>b, ClosesType DEF ForwardDropped, ForwardT
  <2>2. UNCHANGED <<rest, task, watches, send, store>> /\ watchesMu' = "free"
    BY <1>3 DEF ForwardDropped
  <2> QED
    BY <1>0, <1>d, <2>1, <2>2, SMT DEF store, LockT, WatchT, SendT
<1>4. CASE ForwardSlow(w)
  <2>1. ForwardT'
    BY <1>4, <1>b DEF ForwardSlow, ForwardT
  <2>2. EndT'
    BY <1>0, <1>4, ClosesType, SMT DEF ForwardSlow, ending, EndT
  <2>3. UNCHANGED <<rest, task, locked, send, store>>
    BY <1>4 DEF ForwardSlow
  <2> QED
    BY <1>0, <1>d, <2>1, <2>2, <2>3, SMT DEF store, locked, LockT, WatchT, SendT
<1>5. CASE ForwardEnded(w)
  <2>1. ForwardT'
    BY <1>5, <1>b DEF ForwardEnded, ForwardT
  <2>2. LockT'
    <3>1. watchesMu' = watchesMu /\ \E k : watches' \in {watches, [watches EXCEPT ![k] = 0]}
      BY <1>5 DEF ForwardEnded
    <3> QED
      BY <1>0, <3>1, SMT DEF LockT
  <2>3. UNCHANGED <<rest, task, send, ending, store>>
    BY <1>5 DEF ForwardEnded
  <2> QED
    BY <1>0, <1>d, <2>1, <2>2, <2>3, SMT DEF store, ending, EndT, WatchT, SendT
<1> QED
  BY <1>1, <1>2, <1>3, <1>4, <1>5 DEF ForwardStep

\* What concatenation gives.
LEMMA Joined ==
    ASSUME NEW S, NEW a \in Seq(S), NEW b \in Seq(S)
    PROVE  /\ a \o b \in Seq(S) /\ Len(a \o b) = Len(a) + Len(b)
           /\ \A j \in 1 .. Len(a) : (a \o b)[j] = a[j]
           /\ \A j \in 1 .. Len(b) : (a \o b)[Len(a) + j] = b[j]
BY SMT

\* What is kept of a channel to make room for CodexForgotten.
LEMMA WithoutType ==
    ASSUME NEW q \in Seq(Frames), NEW i \in 1 .. Len(q)
    PROVE  /\ Without(q, i) \in Seq(Frames) /\ Len(Without(q, i)) = Len(q) - 1
           /\ \A j \in 1 .. Len(q) - 1 : Without(q, i)[j] = IF j < i THEN q[j] ELSE q[j + 1]
<1> DEFINE a == SubSeq(q, 1, i - 1)
           b == SubSeq(q, i + 1, Len(q))
<1>0. Len(q) \in Nat
  BY SMT
<1>1. a \in Seq(Frames) /\ Len(a) = i - 1 /\ \A j \in 1 .. i - 1 : a[j] = q[j]
  BY SMT
<1>2. b \in Seq(Frames) /\ Len(b) = Len(q) - i /\ \A j \in 1 .. Len(q) - i : b[j] = q[i + j]
  BY SMT
<1>3. Without(q, i) = a \o b
  BY DEF Without
<1> HIDE DEF a, b
<1>4. /\ a \o b \in Seq(Frames) /\ Len(a \o b) = Len(a) + Len(b)
      /\ \A j \in 1 .. Len(a) : (a \o b)[j] = a[j]
      /\ \A j \in 1 .. Len(b) : (a \o b)[Len(a) + j] = b[j]
  <2>1. a \in Seq(Frames) /\ b \in Seq(Frames)
    BY <1>1, <1>2
  <2> QED
    BY <2>1, Joined, SMT
<1>5. ASSUME NEW j \in 1 .. Len(q) - 1 PROVE (a \o b)[j] = IF j < i THEN q[j] ELSE q[j + 1]
  <2>1. CASE j < i
    BY <1>0, <1>1, <1>4, <2>1, SMT
  <2>2. CASE ~(j < i)
    <3>1. j - Len(a) \in 1 .. Len(b) /\ Len(a) + (j - Len(a)) = j /\ i + (j - Len(a)) = j + 1
          /\ j - Len(a) \in 1 .. Len(q) - i
      BY <1>0, <1>1, <1>2, <2>2, SMT
    <3>2. (a \o b)[Len(a) + (j - Len(a))] = b[j - Len(a)] /\ b[j - Len(a)] = q[i + (j - Len(a))]
      BY <1>2, <1>4, <3>1
    <3> QED
      BY <2>2, <3>1, <3>2
  <2> QED
    BY <2>1, <2>2
<1> QED
  BY <1>0, <1>1, <1>2, <1>3, <1>4, <1>5, SMT

\* Publish and Forget keep the types: a channel never outgrows its bound.
LEMMA StoreTypes ==
    ASSUME TypeOK, NEW k \in Codexes, Publish(k) \/ Forget(k)
    PROVE  TypeOK'
<1>0. LoopT /\ WriterT /\ TaskT /\ ForwardT /\ LockT /\ SendT /\ EndT /\ WatchT /\ HeadT /\ BoundT /\ ClientT
  BY Parts
<1>a. ASSUME NEW w \in WatchIds
      PROVE  /\ watch[w] \in Watches /\ watch[w].events \in Seq(Frames)
             /\ Len(watch[w].events) \in Nat /\ Len(watch[w].events) <= WatchQueueSize
             /\ Frame("event", k, w, head[k]) \in Frames
             /\ Frame("forgotten", k, w, head[k] + 1) \in Frames
             /\ (head[k] < MaxSeq => Frame("event", k, w, head[k] + 1) \in Frames)
  <2>1. /\ "event" \in Kinds /\ "forgotten" \in Kinds /\ k \in Codexes \cup {NoCodex}
        /\ w \in WatchIds \cup {0} /\ head[k] \in 0 .. MaxSeq + 1 /\ head[k] + 1 \in 0 .. MaxSeq + 1
    BY <1>0, BoundAssumption, SMT DEF Kinds, HeadT
  <2>2. /\ watch[w] \in Watches /\ watch[w].events \in Seq(Frames)
        /\ Len(watch[w].events) \in Nat /\ Len(watch[w].events) <= WatchQueueSize
    BY <1>0, SMT DEF WatchT, Watches
  <2> QED
    BY <2>1, <2>2, FrameType
<1>d. ASSUME WatchT', HeadT', UNCHANGED <<rest, task, forward, locked, send, ending>>
      PROVE  TypeOK'
  BY <1>0, <1>d, SMT DEF TypeOK, rest, loops, bounds, written, locked, ending, LoopT, WriterT, TaskT,
      ForwardT, LockT, SendT, EndT, WatchT, HeadT, BoundT, ClientT
<1>1. CASE Publish(k)
  <2>1. HeadT'
    <3>1. head' = [head EXCEPT ![k] = @ + 1] /\ forgotten' = forgotten /\ head[k] < MaxSeq
      BY <1>1 DEF Publish
    <3> QED
      BY <1>0, <3>1, BoundAssumption, SMT DEF HeadT
  <2>2. ASSUME NEW w \in WatchIds
        PROVE  watch'[w] \in Watches /\ Len(watch'[w].events) <= WatchQueueSize
    <3>1. watch'[w] = Delivered(k, w)
      BY <1>1 DEF Publish
    <3>2. Frame("event", k, w, head[k] + 1) \in Frames
      BY <1>1, <1>a DEF Publish
    <3>3. CASE /\ watch'[w] = [watch[w] EXCEPT !.events = Append(@, Frame("event", k, w, head[k] + 1))]
               /\ Len(watch[w].events) < WatchQueueSize
      <4> DEFINE q == Append(watch[w].events, Frame("event", k, w, head[k] + 1))
      <4>2. q \in Seq(Frames) /\ Len(q) <= WatchQueueSize
        BY <1>a, <3>2, <3>3, QueueAssumption, SMT
      <4>3. watch'[w] = [watch[w] EXCEPT !.events = q]
        BY <3>3
      <4> HIDE DEF q
      <4> QED
        BY <1>a, <4>2, <4>3, SMT DEF Watches
    <3>4. CASE watch'[w] = [watch[w] EXCEPT !.state = "slow"]
      BY <1>a, <3>4, SMT DEF Watches
    <3> QED
      BY <1>a, <3>1, <3>3, <3>4 DEF Delivered
  <2>3. WatchT'
    <3>1. watch' = [w \in WatchIds |-> Delivered(k, w)]
      BY <1>1 DEF Publish
    <3> QED
      BY <2>2, <3>1, SMT DEF WatchT
  <2> QED
    BY <1>1, <1>d, <2>1, <2>3 DEF Publish
<1>2. CASE Forget(k)
  <2>1. HeadT'
    <3>1. head' = head /\ forgotten' \in {forgotten, forgotten \cup {k}}
      BY <1>2 DEF Forget
    <3> QED
      BY <1>0, <3>1, SMT DEF HeadT
  <2>2. ASSUME NEW w \in WatchIds
        PROVE  watch'[w] \in Watches /\ Len(watch'[w].events) <= WatchQueueSize
    <3> DEFINE q == watch[w].events
               f == Frame("forgotten", k, w, head[k] + 1)
    <3>1. PICK i \in 1 .. WatchQueueSize : watch'[w] = Ended(k, w, i)
      BY <1>2 DEF Forget
    <3> DEFINE kept == IF Len(q) = WatchQueueSize THEN Without(q, i) ELSE q
    <3>2. CASE watch'[w] = [watch[w] EXCEPT !.events = Append(kept, f), !.state = "closed"]
      <4>1. kept \in Seq(Frames) /\ Len(kept) < WatchQueueSize
        <5>1. CASE Len(q) = WatchQueueSize
          <6>1. q \in Seq(Frames) /\ i \in 1 .. Len(q)
            BY <1>a, <3>1, <5>1
          <6>2. Without(q, i) \in Seq(Frames) /\ Len(Without(q, i)) = Len(q) - 1
            BY <6>1, WithoutType
          <6> HIDE DEF q
          <6> QED
            BY <5>1, <6>2, QueueAssumption, SMT
        <5>2. CASE Len(q) # WatchQueueSize
          BY <1>a, <5>2, QueueAssumption, SMT
        <5> QED
          BY <5>1, <5>2
      <4> DEFINE p == Append(kept, f)
      <4>2. p \in Seq(Frames) /\ Len(p) <= WatchQueueSize
        <5> HIDE DEF kept, f
        <5> QED
          BY <1>a, <4>1, QueueAssumption, SMT DEF f
      <4>3. watch'[w] = [watch[w] EXCEPT !.events = p, !.state = "closed"]
        BY <3>2
      <4> HIDE DEF p
      <4>4. watch[w] \in Watches
        BY <1>a
      <4> HIDE DEF p
      <4> DEFINE one == [watch[w] EXCEPT !.events = p]
      <4>5. one \in Watches /\ one.events = p
        BY <4>2, <4>4, SMT DEF Watches
      <4>6. watch'[w] = [one EXCEPT !.state = "closed"]
        BY <4>3, <4>4, SMT DEF Watches
      <4> HIDE DEF one
      <4> QED
        BY <4>2, <4>5, <4>6, SMT DEF Watches
    <3> QED
      BY <1>a, <3>1, <3>2 DEF Ended
  <2>3. WatchT'
    <3>1. PICK i \in 1 .. WatchQueueSize : watch' = [w \in WatchIds |-> Ended(k, w, i)]
      BY <1>2 DEF Forget
    <3> QED
      BY <2>2, <3>1, SMT DEF WatchT
  <2> QED
    BY <1>2, <1>d, <2>1, <2>3 DEF Forget
<1> QED
  BY <1>1, <1>2

-----------------------------------------------------------------------------
(* The lock and the places of the watches. *)

\* The handlers inside watchesMu between two steps.
Holds(t) == Starts(t) \/ task[t].pc = "unlock"

\* One goroutine at a time is inside watchesMu.
Locked ==
    /\ \A t \in Tasks : Holds(t) => watchesMu = "held"
    /\ \A w \in WatchIds : forward[w].pc = "dropped" => watchesMu = "held"
    /\ \A t, u \in Tasks : Holds(t) /\ Holds(u) => t = u
    /\ \A v, w \in WatchIds : forward[v].pc = "dropped" /\ forward[w].pc = "dropped" => v = w
    /\ \A t \in Tasks, w \in WatchIds : Holds(t) => forward[w].pc # "dropped"

\* A watch in c.watches is one of its Codex.
Places ==
    \A k \in Codexes : watches[k] # 0 => watch[watches[k]].codex = k /\ watch[watches[k]].state # "none"

\* What is forwarded was registered, and a forwardWatch that saw its channel
\* closed was right.
Unused == \A w \in WatchIds : watch[w].state = "none" => forward[w].pc = "none"
Closed == \A w \in WatchIds : forward[w].pc = "ended" => watch[w].state = "closed"

WInv == Asked /\ Locked /\ Places /\ Starting /\ Unused /\ Closed /\ NoOrphanWatcher

\* What a current watch is.
LEMMA CurrentIs ==
    ASSUME NEW w
    PROVE  IsCurrent(w) <=> w # 0 /\ \E k \in Codexes : watches[k] = w
BY DEF IsCurrent, Current

\* Steps that leave watches, handlers and lock alone keep this.
LEMMA CoreSame ==
    ASSUME WInv, UNCHANGED <<task, forward, watches, watchesMu, watch>>
    PROVE  WInv'
<1>1. task' = task /\ forward' = forward /\ watches' = watches /\ watchesMu' = watchesMu /\ watch' = watch
  OBVIOUS
<1>2. Asked' /\ Places' /\ Starting'
  BY <1>1 DEF WInv, Asked, Places, Starting, Starts
<1>4. Locked'
  BY <1>1 DEF WInv, Locked, Holds, Starts
<1>3. Unused' /\ Closed' /\ NoOrphanWatcher'
  BY <1>1 DEF WInv, Unused, Closed, NoOrphanWatcher, IsCurrent, Current
<1> QED
  BY <1>2, <1>3, <1>4 DEF WInv

\* A step of one handler, and what it may become.
Moves(t) ==
    /\ \A u \in Tasks : u # t => task'[u] = task[u]
    /\ task'[t].pc \notin {"idle", "respond", "dropped"} => task'[t].codex \in Codexes

\* The handlers past their request still have a Codex.
LEMMA MovesAsked ==
    ASSUME Asked, NEW t \in Tasks, Moves(t)
    PROVE  Asked'
BY DEF Asked, Moves

\* The handler goes on, inside or outside of the lock.
Talks(t) ==
    /\ Moves(t)
    /\ UNCHANGED <<forward, watches, watchesMu, watch>>
    /\ Holds(t)' <=> Holds(t)
    /\ Starts(t)' =>
          /\ Starts(t) /\ task'[t].codex = task[t].codex /\ task'[t].watch = task[t].watch
          /\ task'[t].next >= 1

\* Such a step keeps lock and places.
LEMMA TalksKeeps ==
    ASSUME WInv, NEW t \in Tasks, Talks(t)
    PROVE  WInv'
<1>1. forward' = forward /\ watches' = watches /\ watchesMu' = watchesMu /\ watch' = watch
  BY DEF Talks
<1>2. \A u \in Tasks : Holds(u)' <=> Holds(u)
  <2> SUFFICES ASSUME NEW u \in Tasks PROVE Holds(u)' <=> Holds(u)
    OBVIOUS
  <2>1. CASE u = t
    BY <2>1 DEF Talks
  <2>2. CASE u # t
    BY <2>2 DEF Talks, Moves, Holds, Starts
  <2> QED
    BY <2>1, <2>2
<1>3. Locked'
  BY <1>1, <1>2 DEF WInv, Locked
<1>4. Starting'
  <2> SUFFICES ASSUME NEW u \in Tasks, Starts(u)'
               PROVE  /\ task'[u].watch \in WatchIds /\ watches'[task'[u].codex] = task'[u].watch
                      /\ forward'[task'[u].watch].pc = "none"
                      /\ task'[u].next >= 1
    BY DEF Starting
  <2>1. CASE u = t
    BY <1>1, <2>1 DEF WInv, Starting, Talks
  <2>2. CASE u # t
    BY <1>1, <2>2 DEF WInv, Starting, Starts, Talks, Moves
  <2> QED
    BY <2>1, <2>2
<1>5. Asked' /\ Places'
  BY <1>1, MovesAsked DEF WInv, Places, Talks
<1>6. Unused' /\ Closed' /\ NoOrphanWatcher'
  BY <1>1 DEF WInv, Unused, Closed, NoOrphanWatcher, IsCurrent, Current
<1> QED
  BY <1>3, <1>4, <1>5, <1>6 DEF WInv

\* A handler leaves the lock; no other goroutine was inside.
Leaves(t) ==
    /\ Moves(t) /\ Holds(t) /\ ~Holds(t)' /\ watchesMu' = "free"
    /\ \A w \in WatchIds : forward'[w].pc = "dropped" => forward[w].pc = "dropped"

\* Then no handler is inside any more ...
LEMMA LeavesLocked ==
    ASSUME Locked, NEW t \in Tasks, Leaves(t)
    PROVE  /\ Locked'
           /\ \A u \in Tasks : ~Holds(u)'
<1>1. ASSUME NEW u \in Tasks PROVE ~Holds(u)'
  <2>1. CASE u = t
    BY <2>1 DEF Leaves
  <2>2. CASE u # t
    <3>1. ~Holds(u)
      BY <2>2 DEF Locked, Leaves
    <3> QED
      BY <2>2, <3>1 DEF Leaves, Moves, Holds, Starts
  <2> QED
    BY <2>1, <2>2
<1>2. \A w \in WatchIds : forward'[w].pc # "dropped"
  BY DEF Locked, Leaves
<1> QED
  BY <1>1, <1>2 DEF Locked

\* ... and none prepares a watch.
LEMMA NoneStarting ==
    ASSUME \A u \in Tasks : ~Holds(u)'
    PROVE  Starting'
BY DEF Starting, Holds

\* The lock is free and the step neither takes it nor is there a goroutine inside.
LEMMA FreeLocked ==
    ASSUME Locked, watchesMu = "free"
    PROVE  (\A t \in Tasks : ~Holds(t)) /\ (\A w \in WatchIds : forward[w].pc # "dropped")
<1>1. watchesMu # "held"
  OBVIOUS
<1> QED
  BY <1>1 DEF Locked

\* What may happen to a watch once it is registered: it becomes slow or is closed.
Fades(before, after) ==
    /\ after.codex = before.codex
    /\ after.state = "none" <=> before.state = "none"
    /\ after.state = "registered" => before.state = "registered"
    /\ before.state = "closed" => after.state = "closed"

\* A Cancel does that, and leaves the events.
LEMMA CancelledFades ==
    ASSUME WatchT, NEW ids, NEW w \in WatchIds
    PROVE  /\ Fades(watch[w], Cancelled(ids)[w])
           /\ Cancelled(ids)[w].state = "registered" => w \notin ids
           /\ Cancelled(ids)[w].events = watch[w].events
<1>1. watch[w] \in Watches
  BY SMT DEF WatchT
<1>2. CASE w \in ids /\ watch[w].state = "registered"
  <2> DEFINE new == [watch[w] EXCEPT !.state = "closed"]
  <2>1. new.codex = watch[w].codex /\ new.state = "closed" /\ new.events = watch[w].events
    BY <1>1, SMT DEF Watches
  <2>2. Cancelled(ids)[w] = new
    BY <1>2 DEF Cancelled
  <2> HIDE DEF new
  <2> QED
    BY <1>2, <2>1, <2>2, SMT DEF Fades
<1>3. CASE ~(w \in ids /\ watch[w].state = "registered")
  <2>1. Cancelled(ids)[w] = watch[w]
    BY <1>3 DEF Cancelled
  <2> QED
    BY <1>3, <2>1 DEF Fades
<1> QED
  BY <1>2, <1>3

\* Watches that fade, with every forwardWatch where it was.
LEMMA FadesKeeps ==
    ASSUME Unused, Closed, forward' = forward, \A w \in WatchIds : Fades(watch[w], watch'[w])
    PROVE  Unused' /\ Closed'
BY DEF Unused, Closed, Fades

\* A place is given up together with the watch in it.
LEMMA Vacated ==
    ASSUME TypeOK, WInv, NEW k \in Codexes, forward' = forward,
           watches' = [watches EXCEPT ![k] = 0], watch' = Cancelled({watches[k]})
    PROVE  Places' /\ Unused' /\ Closed' /\ NoOrphanWatcher'
<1>0. WatchT /\ LockT
  BY Parts
<1>1. \A w \in WatchIds : /\ Fades(watch[w], watch'[w])
                          /\ watch'[w].state = "registered" => w # watches[k]
  BY <1>0, CancelledFades
<1>2. \A l \in Codexes : watches'[l] = IF l = k THEN 0 ELSE watches[l]
  BY <1>0, SMT DEF LockT
<1>3. \A l \in Codexes : watches[l] \in WatchIds \cup {0}
  BY <1>0 DEF LockT
<1>4. Places'
  <2> SUFFICES ASSUME NEW l \in Codexes, watches'[l] # 0
               PROVE  watch'[watches'[l]].codex = l /\ watch'[watches'[l]].state # "none"
    BY DEF Places
  <2>1. watches'[l] = watches[l] /\ watches[l] # 0 /\ watches[l] \in WatchIds
    BY <1>2, <1>3
  <2>2. watch[watches[l]].codex = l /\ watch[watches[l]].state # "none"
    BY <2>1 DEF Places, WInv
  <2>3. Fades(watch[watches[l]], watch'[watches[l]])
    BY <1>1, <2>1
  <2>4. watch'[watches[l]].codex = l /\ watch'[watches[l]].state # "none"
    BY <2>2, <2>3 DEF Fades
  <2> QED
    BY <2>1, <2>4
<1>5. NoOrphanWatcher'
  <2> SUFFICES ASSUME NEW w \in WatchIds, watch'[w].state = "registered" PROVE IsCurrent(w)'
    BY DEF NoOrphanWatcher
  <2>1. watch[w].state = "registered" /\ w # watches[k]
    BY <1>1 DEF Fades
  <2>2. PICK l \in Codexes : watches[l] = w /\ w # 0
    BY <2>1, CurrentIs DEF WInv, NoOrphanWatcher
  <2>3. watches'[l] = w
    BY <1>2, <2>1, <2>2
  <2> QED
    BY <2>2, <2>3 DEF IsCurrent, Current
<1> QED
  BY <1>1, <1>4, <1>5, FadesKeeps DEF WInv

\* The second half of shutdown.
LEMMA ClearKeeps ==
    ASSUME TypeOK, WInv, clearWatches, UNCHANGED <<task, forward>>
    PROVE  WInv'
<1>0. WatchT /\ LockT
  BY Parts
<1>1. /\ task' = task /\ forward' = forward /\ watchesMu = "free" /\ watchesMu' = watchesMu
      /\ watch' = Cancelled(Current) /\ watches' = [k \in Codexes |-> 0]
  BY DEF clearWatches
<1>2. \A w \in WatchIds : /\ Fades(watch[w], watch'[w])
                          /\ watch'[w].state = "registered" => w \notin Current
  BY <1>0, <1>1, CancelledFades
<1>3. NoOrphanWatcher'
  BY <1>2 DEF NoOrphanWatcher, WInv, Fades, IsCurrent
<1>4. Places'
  BY <1>1 DEF Places
<1>5. Unused' /\ Closed'
  BY <1>1, <1>2, FadesKeeps DEF WInv
<1>6. Asked' /\ Locked'
  <2>1. \A t \in Tasks : Holds(t)' <=> Holds(t)
    BY <1>1 DEF Holds, Starts
  <2> QED
    BY <1>1, <2>1 DEF WInv, Asked, Locked
<1>7. Starting'
  <2>1. \A t \in Tasks : ~Holds(t)'
    BY <1>1, FreeLocked DEF WInv, Holds, Starts
  <2> QED
    BY <2>1, NoneStarting
<1> QED
  BY <1>3, <1>4, <1>5, <1>6, <1>7 DEF WInv

\* The steps of the three loops.
LEMMA LoopsKeep ==
    ASSUME TypeOK, WInv,
           \/ ReadHello \/ ReadPing \/ ReadBad \/ ReadEnds \/ ReaderStep \/ PeerGone
           \/ Ping \/ HeartbeatCloses \/ HeartbeatEnds \/ WriterStep
    PROVE  WInv'
<1>1. CASE clearWatches /\ UNCHANGED <<task, forward>>
  BY <1>1, ClearKeeps
<1>2. CASE UNCHANGED <<task, forward, watches, watchesMu, watch>>
  BY <1>2, CoreSame
<1>3. CASE ReaderShutdown \/ WriterShutdown
  BY <1>1, <1>2, <1>3 DEF ReaderShutdown, WriterShutdown, locked, store
<1>4. CASE ReadHello \/ ReadPing \/ ReadBad \/ ReadEnds \/ ReaderDropped \/ PeerGone
  BY <1>2, <1>4 DEF ReadHello, ReadPing, ReadBad, ReadEnds, ReaderDropped, PeerGone, locked, store
<1>5. CASE Ping \/ HeartbeatCloses \/ HeartbeatEnds
  BY <1>2, <1>5 DEF Ping, HeartbeatCloses, HeartbeatEnds, locked, store
<1>6. CASE WriterTop \/ WriterSelect \/ Write \/ WriteFails \/ WriteTooLarge
  BY <1>2, <1>6 DEF WriterTop, WriterSelect, Write, WriteFails, WriteTooLarge, locked, store
<1> QED
  BY <1>3, <1>4, <1>5, <1>6 DEF ReaderStep, WriterStep

\* What a change of one handler's record does.
LEMMA TaskSet ==
    ASSUME TaskT, NEW t \in Tasks, NEW r, task' = [task EXCEPT ![t] = r]
    PROVE  task'[t] = r /\ \A u \in Tasks : u # t => task'[u] = task[u]
BY SMT DEF TaskT

\* A handler that ends.
LEMMA TaskIdle ==
    ASSUME TaskT, NEW t \in Tasks, task' = [task EXCEPT ![t] = IdleTask]
    PROVE  task'[t].pc = "idle" /\ \A u \in Tasks : u # t => task'[u] = task[u]
<1>1. task'[t] = IdleTask /\ \A u \in Tasks : u # t => task'[u] = task[u]
  BY TaskSet
<1> QED
  BY <1>1, SMT DEF IdleTask

\* A handler that goes on.
LEMMA TaskPc ==
    ASSUME TaskT, NEW t \in Tasks, NEW pc, task' = [task EXCEPT ![t].pc = pc]
    PROVE  /\ task'[t].pc = pc /\ task'[t].codex = task[t].codex /\ task'[t].watch = task[t].watch
           /\ task'[t].next = task[t].next /\ task'[t].last = task[t].last
           /\ \A u \in Tasks : u # t => task'[u] = task[u]
<1>1. task[t] \in Handlers
  BY SMT DEF TaskT
<1>2. task'[t] = [task[t] EXCEPT !.pc = pc] /\ \A u \in Tasks : u # t => task'[u] = task[u]
  BY SMT DEF TaskT
<1> QED
  BY <1>1, <1>2, SMT DEF Handlers

\* The steps of handlers that touch neither lock nor watches.
LEMMA RequestTalks ==
    ASSUME TypeOK, NEW t \in Tasks, NEW k \in Codexes, NEW what \in {"watch", "unwatch", "respond"},
           ReadRequest(t, what, k)
    PROVE  Talks(t)
<1>0. TaskT
  BY Parts
<1>1. /\ task[t].pc = "idle" /\ task' = [task EXCEPT ![t] = [@ EXCEPT !.pc = what, !.codex = k]]
      /\ UNCHANGED <<forward, watches, watchesMu, watch>>
  BY DEF ReadRequest, locked, store
<1>2. /\ task'[t].pc = what /\ task'[t].codex = k
      /\ \A u \in Tasks : u # t => task'[u] = task[u]
  <2>1. task[t] \in Handlers
    BY <1>0, SMT DEF TaskT
  <2>2. /\ task'[t] = [task[t] EXCEPT !.pc = what, !.codex = k]
        /\ \A u \in Tasks : u # t => task'[u] = task[u]
    BY <1>0, <1>1, SMT DEF TaskT
  <2> QED
    BY <2>1, <2>2, SMT DEF Handlers
<1>3. ~Holds(t) /\ ~Holds(t)' /\ ~Starts(t)'
  BY <1>1, <1>2, SMT DEF Holds, Starts
<1> QED
  BY <1>1, <1>2, <1>3 DEF Talks, Moves

\* Respond, the check of the context, and the frames of handleWatch are such steps.
LEMMA HandlerTalks ==
    ASSUME TypeOK, WInv, NEW t \in Tasks,
           \/ Respond(t) \/ CheckContext(t) \/ AnswerWatch(t) \/ Replay(t)
           \/ TaskDropped(t) /\ task[t].pc = "dropped"
    PROVE  Talks(t)
<1>0. TaskT
  BY Parts
<1>a. task[t] \in Handlers
  BY <1>0, SMT DEF TaskT
<1>b. /\ task[t].pc \notin {"idle", "respond", "dropped"} => task[t].codex \in Codexes
      /\ Starts(t) => task[t].next >= 1
  BY DEF WInv, Asked, Starting
<1>1. UNCHANGED <<forward, watches, watchesMu, watch>>
  BY DEF Respond, CheckContext, AnswerWatch, Replay, TaskDropped, locked, store
<1>2. ASSUME task' = [task EXCEPT ![t] = IdleTask], ~Holds(t) PROVE Talks(t)
  <2>1. task'[t].pc = "idle" /\ \A u \in Tasks : u # t => task'[u] = task[u]
    BY <1>0, <1>2, TaskIdle
  <2> QED
    BY <1>1, <1>2, <2>1, SMT DEF Talks, Moves, Holds, Starts
<1>3. ASSUME NEW pc \in {"respond", "dropped", "watching", "unwatching"}, ~Holds(t),
             task' = [task EXCEPT ![t].pc = pc],
             pc \in {"respond", "dropped"} \/ task[t].codex \in Codexes
      PROVE  Talks(t)
  <2>1. task'[t].pc = pc /\ task'[t].codex = task[t].codex /\ \A u \in Tasks : u # t => task'[u] = task[u]
    BY <1>0, <1>3, TaskPc
  <2>2. ~Holds(t)' /\ ~Starts(t)'
    BY <2>1, SMT DEF Holds, Starts
  <2> QED
    BY <1>1, <1>3, <2>1, <2>2 DEF Talks, Moves
<1>9. ASSUME NEW pc \in {"replaying", "undo"}, Starts(t), task' = [task EXCEPT ![t].pc = pc]
      PROVE Talks(t)
  <2>1. /\ task'[t].pc = pc /\ task'[t].codex = task[t].codex /\ task'[t].watch = task[t].watch
        /\ task'[t].next = task[t].next
        /\ \A u \in Tasks : u # t => task'[u] = task[u]
    BY <1>0, <1>9, TaskPc
  <2>2. Holds(t) /\ Holds(t)' /\ task[t].codex \in Codexes /\ task[t].next >= 1
    BY <1>9, <1>b, <2>1, SMT DEF Holds, Starts
  <2> QED
    BY <1>1, <1>9, <2>1, <2>2 DEF Talks, Moves
<1>4. CASE Respond(t)
  BY <1>2, <1>3, <1>4 DEF Respond, Holds, Starts
<1>5. CASE CheckContext(t)
  <2>1. \E pc \in {"respond", "watching", "unwatching"} : task' = [task EXCEPT ![t].pc = pc]
    BY <1>5 DEF CheckContext
  <2>2. ~Holds(t) /\ task[t].codex \in Codexes
    BY <1>b, <1>5 DEF CheckContext, Holds, Starts
  <2> QED
    BY <1>3, <2>1, <2>2
<1>6. CASE AnswerWatch(t)
  <2>1. Starts(t) /\ task[t].codex \in Codexes
    BY <1>b, <1>6 DEF AnswerWatch, Starts
  <2> QED
    BY <1>9, <1>6, <2>1 DEF AnswerWatch
<1>7. CASE Replay(t)
  <2>1. Starts(t) /\ task[t].codex \in Codexes /\ task[t].pc = "replaying"
    BY <1>b, <1>7 DEF Replay, Starts
  <2>2. CASE task' = [task EXCEPT ![t].next = @ + 1]
    <3>1. /\ task'[t].pc = task[t].pc /\ task'[t].codex = task[t].codex /\ task'[t].watch = task[t].watch
          /\ task'[t].next = task[t].next + 1
          /\ \A u \in Tasks : u # t => task'[u] = task[u]
      BY <1>0, <1>a, <2>2, SMT DEF TaskT, Handlers
    <3> QED
      BY <1>1, <1>a, <1>b, <2>1, <3>1, BoundAssumption, SMT DEF Talks, Moves, Holds, Starts, Handlers
  <2> QED
    BY <1>9, <1>7, <2>1, <2>2 DEF Replay
<1>8. CASE TaskDropped(t) /\ task[t].pc = "dropped"
  BY <1>2, <1>8 DEF TaskDropped, Holds, Starts
<1> QED
  BY <1>4, <1>5, <1>6, <1>7, <1>8

\* The steps that leave the lock.
LEMMA StartForwardKeeps ==
    ASSUME TypeOK, WInv, NEW t \in Tasks, StartForward(t)
    PROVE  WInv'
<1> DEFINE w == task[t].watch
<1>0. TaskT /\ ForwardT
  BY Parts
<1>1. /\ task[t].pc = "replaying" /\ task' = [task EXCEPT ![t] = IdleTask]
      /\ forward' = [forward EXCEPT ![w].pc = "run"]
      /\ watchesMu' = "free" /\ watches' = watches /\ watch' = watch
  BY DEF StartForward, store
<1>2. w \in WatchIds /\ watches[task[t].codex] = w /\ forward[w].pc = "none" /\ task[t].codex \in Codexes
  BY <1>1 DEF WInv, Starting, Starts, Asked
<1>3. task'[t].pc = "idle" /\ \A u \in Tasks : u # t => task'[u] = task[u]
  BY <1>0, <1>1, TaskIdle
<1>4. forward'[w].pc = "run" /\ \A v \in WatchIds : v # w => forward'[v] = forward[v]
  <2> HIDE DEF w
  <2> QED
    BY <1>0, <1>1, <1>2, SMT DEF ForwardT, Forwards
<1>5. Leaves(t)
  BY <1>1, <1>3, <1>4, SMT DEF Leaves, Moves, Holds, Starts
<1>6. Asked' /\ Locked' /\ Starting'
  BY <1>5, MovesAsked, LeavesLocked, NoneStarting DEF WInv, Leaves
<1>7. watch[w].state # "none"
  <2>1. watches[task[t].codex] # 0
    BY <1>2, SMT DEF WatchIds
  <2> QED
    BY <1>2, <2>1 DEF WInv, Places
<1>8. Unused' /\ Closed'
  <2> HIDE DEF w
  <2> QED
    BY <1>1, <1>2, <1>4, <1>7 DEF WInv, Unused, Closed
<1>9. Places' /\ NoOrphanWatcher'
  BY <1>1 DEF WInv, Places, NoOrphanWatcher, IsCurrent, Current
<1> QED
  BY <1>6, <1>8, <1>9 DEF WInv

\* A handleWatch that could not queue a frame takes its watch back.
LEMMA UndoKeeps ==
    ASSUME TypeOK, WInv, NEW t \in Tasks, UndoWatch(t)
    PROVE  WInv'
<1> DEFINE k == task[t].codex
<1>0. TaskT
  BY Parts
<1>1. /\ task[t].pc = "undo" /\ task' = [task EXCEPT ![t] = IdleTask]
      /\ watch' = Cancelled({task[t].watch}) /\ watches' = [watches EXCEPT ![k] = 0]
      /\ watchesMu' = "free" /\ forward' = forward
  BY DEF UndoWatch
<1>2. k \in Codexes /\ watches[k] = task[t].watch
  BY <1>1 DEF WInv, Starting, Starts, Asked
<1>3. task'[t].pc = "idle" /\ \A u \in Tasks : u # t => task'[u] = task[u]
  BY <1>0, <1>1, TaskIdle
<1>4. Leaves(t)
  BY <1>1, <1>3 DEF Leaves, Moves, Holds, Starts
<1>5. Asked' /\ Locked' /\ Starting'
  BY <1>4, MovesAsked, LeavesLocked, NoneStarting DEF WInv, Leaves
<1>6. Places' /\ Unused' /\ Closed' /\ NoOrphanWatcher'
  BY <1>1, <1>2, Vacated
<1> QED
  BY <1>5, <1>6 DEF WInv

\* A handleUnwatch that could not queue its Response leaves the lock.
LEMMA UnlockKeeps ==
    ASSUME TypeOK, WInv, NEW t \in Tasks, TaskDropped(t), task[t].pc = "unlock"
    PROVE  WInv'
<1>0. TaskT
  BY Parts
<1>1. /\ task' = [task EXCEPT ![t] = IdleTask] /\ watchesMu' = "free"
      /\ watch' = watch /\ watches' = watches /\ forward' = forward
  BY DEF TaskDropped, store
<1>3. task'[t].pc = "idle" /\ \A u \in Tasks : u # t => task'[u] = task[u]
  BY <1>0, <1>1, TaskIdle
<1>4. Leaves(t)
  BY <1>1, <1>3 DEF Leaves, Moves, Holds, Starts
<1>5. Asked' /\ Locked' /\ Starting'
  BY <1>4, MovesAsked, LeavesLocked, NoneStarting DEF WInv, Leaves
<1>6. Places' /\ Unused' /\ Closed' /\ NoOrphanWatcher'
  <2>1. Places' /\ Unused' /\ Closed'
    BY <1>1 DEF WInv, Places, Unused, Closed
  <2>2. NoOrphanWatcher'
    BY <1>1 DEF WInv, NoOrphanWatcher, IsCurrent, Current
  <2> QED
    BY <2>1, <2>2
<1> QED
  BY <1>5, <1>6 DEF WInv

\* A handleWatch that registers nothing gives the place up.
LEMMA Refused ==
    ASSUME TypeOK, NEW t \in Tasks, Watch(t), task' = [task EXCEPT ![t].pc = "respond"]
    PROVE  /\ watches' = [watches EXCEPT ![task[t].codex] = 0]
           /\ watch' = Cancelled({watches[task[t].codex]}) /\ watchesMu' = watchesMu
<1> DEFINE k == task[t].codex
<1>0. TaskT
  BY Parts
<1>1. task'[t].pc = "respond"
  BY <1>0, TaskPc
<1>2. ASSUME NEW r, task' = [task EXCEPT ![t] = r] PROVE r.pc = "respond"
  BY <1>0, <1>1, <1>2, TaskSet
<1>3. ASSUME NEW v, NEW n, task' = [task EXCEPT ![t] = [pc |-> "answering", codex |-> k, watch |-> v,
                                                        next |-> n, last |-> head[k]]]
      PROVE  FALSE
  <2> DEFINE r == [pc |-> "answering", codex |-> k, watch |-> v, next |-> n, last |-> head[k]]
  <2>1. r.pc # "respond"
    BY SMT
  <2>2. task' = [task EXCEPT ![t] = r]
    BY <1>3
  <2> HIDE DEF r
  <2> QED
    BY <1>2, <2>1, <2>2
<1> QED
  BY <1>3 DEF Watch

\* handleUnwatch, and a handleWatch that registers nothing.
LEMMA VacatesKeeps ==
    ASSUME TypeOK, WInv, NEW t \in Tasks,
           Unwatch(t) \/ (Watch(t) /\ task' = [task EXCEPT ![t].pc = "respond"])
    PROVE  WInv'
<1> DEFINE k == task[t].codex
<1>0. TaskT
  BY Parts
<1>1. /\ task[t].pc \in {"watching", "unwatching"} /\ watchesMu = "free" /\ forward' = forward
      /\ \/ watchesMu' = watchesMu /\ task' = [task EXCEPT ![t] = IdleTask]
         \/ watchesMu' = watchesMu /\ task' = [task EXCEPT ![t].pc = "respond"]
         \/ watchesMu' = "held" /\ task' = [task EXCEPT ![t].pc = "unlock"]
      /\ watches' = [watches EXCEPT ![k] = 0] /\ watch' = Cancelled({watches[k]})
  <2>1. CASE Unwatch(t)
    BY <2>1 DEF Unwatch
  <2>2. CASE Watch(t) /\ task' = [task EXCEPT ![t].pc = "respond"]
    <3>1. /\ watches' = [watches EXCEPT ![k] = 0] /\ watch' = Cancelled({watches[k]})
          /\ watchesMu' = watchesMu
      BY <2>2, Refused
    <3> QED
      BY <2>2, <3>1 DEF Watch
  <2> QED
    BY <2>1, <2>2
<1>2. k \in Codexes
  BY <1>1 DEF WInv, Asked
<1>3. Places' /\ Unused' /\ Closed' /\ NoOrphanWatcher'
  BY <1>1, <1>2, Vacated
<1>4. (\A u \in Tasks : ~Holds(u)) /\ (\A w \in WatchIds : forward[w].pc # "dropped")
  BY <1>1, FreeLocked DEF WInv
<1>5. \A u \in Tasks : u # t => task'[u] = task[u]
  <2>1. CASE task' = [task EXCEPT ![t] = IdleTask]
    BY <1>0, <2>1, TaskIdle
  <2>2. ASSUME NEW pc, task' = [task EXCEPT ![t].pc = pc] PROVE \A u \in Tasks : u # t => task'[u] = task[u]
    BY <1>0, <2>2, TaskPc
  <2> QED
    BY <1>1, <2>1, <2>2
<1>6. \/ watchesMu' = watchesMu /\ task'[t].pc \in {"idle", "respond"}
      \/ watchesMu' = "held" /\ task'[t].pc = "unlock" /\ task'[t].codex = k
  BY <1>0, <1>1, TaskIdle, TaskPc
<1>7. Asked'
  <2>1. Moves(t)
    BY <1>2, <1>5, <1>6 DEF Moves
  <2> QED
    BY <2>1, MovesAsked DEF WInv
<1>8. ASSUME NEW u \in Tasks, Holds(u)' PROVE u = t /\ watchesMu' = "held" /\ ~Starts(u)'
  <2>1. CASE u # t
    <3>1. task'[u] = task[u]
      BY <1>5, <2>1
    <3> QED
      BY <1>4, <1>8, <3>1 DEF Holds, Starts
  <2>2. CASE u = t
    BY <1>6, <1>8, <2>2, SMT DEF Holds, Starts
  <2> QED
    BY <2>1, <2>2
<1>9. Locked'
  BY <1>1, <1>4, <1>8 DEF Locked
<1>10. Starting'
  BY <1>8 DEF Starting, Holds
<1> QED
  BY <1>3, <1>7, <1>9, <1>10 DEF WInv

\* handleWatch registers a watch in place of the old one and stays in the lock.
Registers(t, w, k) ==
    /\ w \in WatchIds /\ k \in Codexes /\ watch[w].state = "none"
    /\ task[t].pc = "watching" /\ task[t].codex = k /\ watchesMu = "free"
    /\ watches' = [watches EXCEPT ![k] = w]
    /\ watch' = Registered(watches[k], w, k)
    /\ \E from \in 0 .. head[k] :
          task' = [task EXCEPT ![t] = [pc |-> "answering", codex |-> k, watch |-> w,
                                       next |-> from + 1, last |-> head[k]]]
    /\ watchesMu' = "held" /\ forward' = forward /\ head' = head

\* handleWatch registers a watch or answers with an error.
LEMMA WatchCases ==
    ASSUME WInv, NEW t \in Tasks, Watch(t)
    PROVE  \/ task' = [task EXCEPT ![t].pc = "respond"]
           \/ \E w \in WatchIds, k \in Codexes : Registers(t, w, k)
<1>1. task[t].codex \in Codexes
  BY DEF WInv, Asked, Watch
<1> QED
  BY <1>1 DEF Watch, Registers

\* What it does to the watches and to the handlers.
IsNew(t, w, k) ==
    /\ watch'[w].codex = k /\ watch'[w].state = "registered" /\ watch'[w].events = <<>>
    /\ \A v \in WatchIds : v # w => /\ Fades(watch[v], watch'[v])
                                    /\ watch'[v].state = "registered" => v # watches[k]
                                    /\ watch'[v].events = watch[v].events
    /\ task'[t].pc = "answering" /\ task'[t].codex = k /\ task'[t].watch = w
    /\ task'[t].next >= 1 /\ task'[t].next <= head[k] + 1 /\ task'[t].last = head[k]
    /\ \A u \in Tasks : u # t => task'[u] = task[u]

\* Registering does this.
LEMMA RegistersFacts ==
    ASSUME TypeOK, NEW t \in Tasks, NEW w, NEW k, Registers(t, w, k)
    PROVE  IsNew(t, w, k)
<1>0. TaskT /\ WatchT /\ LockT /\ HeadT /\ w \in WatchIds /\ k \in Codexes
  BY Parts DEF Registers
<1>1. /\ watch'[w] = [codex |-> k, state |-> "registered", events |-> <<>>]
      /\ \A v \in WatchIds : v # w => watch'[v] = Cancelled({watches[k]})[v]
  <2> DEFINE old == Cancelled({watches[k]})
             new == [codex |-> k, state |-> "registered", events |-> <<>>]
  <2>1. watch' = [old EXCEPT ![w] = new] /\ old \in [WatchIds -> Watches]
    BY <1>0, CancelledType DEF Registers, Registered
  <2> HIDE DEF old, new
  <2>2. watch'[w] = new /\ \A v \in WatchIds : v # w => watch'[v] = old[v]
    BY <1>0, <2>1, SMT
  <2> QED
    BY <2>2 DEF old, new
<1>2. watch'[w].codex = k /\ watch'[w].state = "registered" /\ watch'[w].events = <<>>
  BY <1>1, SMT
<1>3. ASSUME NEW v \in WatchIds, v # w
      PROVE  /\ Fades(watch[v], watch'[v]) /\ watch'[v].events = watch[v].events
             /\ watch'[v].state = "registered" => v # watches[k]
  <2>1. watch'[v] = Cancelled({watches[k]})[v]
    BY <1>1, <1>3
  <2>2. /\ Fades(watch[v], Cancelled({watches[k]})[v])
        /\ Cancelled({watches[k]})[v].state = "registered" => v \notin {watches[k]}
        /\ Cancelled({watches[k]})[v].events = watch[v].events
    BY <1>0, CancelledFades
  <2> QED
    BY <2>1, <2>2
<1>4. PICK from \in 0 .. head[k] :
          task' = [task EXCEPT ![t] = [pc |-> "answering", codex |-> k, watch |-> w,
                                       next |-> from + 1, last |-> head[k]]]
  BY DEF Registers
<1>5. /\ task'[t] = [pc |-> "answering", codex |-> k, watch |-> w, next |-> from + 1, last |-> head[k]]
      /\ \A u \in Tasks : u # t => task'[u] = task[u]
  BY <1>0, <1>4, TaskSet
<1>6. head[k] \in Nat
  BY <1>0, SMT DEF HeadT
<1>7. /\ task'[t].pc = "answering" /\ task'[t].codex = k /\ task'[t].watch = w
      /\ task'[t].next >= 1 /\ task'[t].next <= head[k] + 1 /\ task'[t].last = head[k]
  BY <1>5, <1>6, SMT
<1> QED
  BY <1>2, <1>3, <1>5, <1>7 DEF IsNew

\* Registering keeps lock and places: the old watch is cancelled with its place.
LEMMA RegistersKeeps ==
    ASSUME TypeOK, WInv, NEW t \in Tasks, NEW w, NEW k, Registers(t, w, k)
    PROVE  WInv'
<1>0. LockT /\ WatchT /\ w \in WatchIds /\ k \in Codexes
  BY Parts DEF Registers
<1>a. IsNew(t, w, k)
  BY RegistersFacts
<1>1. watch[w].state = "none" /\ watchesMu = "free" /\ watchesMu' = "held" /\ forward' = forward
  BY DEF Registers
<1>2. \A l \in Codexes : watches'[l] = IF l = k THEN w ELSE watches[l]
  BY <1>0, SMT DEF LockT, Registers
<1>3. (\A u \in Tasks : ~Holds(u)) /\ (\A v \in WatchIds : forward[v].pc # "dropped")
  BY <1>1, FreeLocked DEF WInv
<1>4. ASSUME NEW u \in Tasks, Holds(u)' PROVE u = t
  <2> SUFFICES ASSUME u # t PROVE FALSE
    OBVIOUS
  <2>1. task'[u] = task[u]
    BY <1>a DEF IsNew
  <2> QED
    BY <1>3, <1>4, <2>1 DEF Holds, Starts
<1>5. Locked'
  BY <1>1, <1>3, <1>4 DEF Locked
<1>6. Asked'
  <2>1. Moves(t)
    BY <1>0, <1>a DEF IsNew, Moves
  <2> QED
    BY <2>1, MovesAsked DEF WInv
<1>7. forward[w].pc = "none"
  BY <1>0, <1>1 DEF WInv, Unused
<1>8. Starting'
  <2> SUFFICES ASSUME NEW u \in Tasks, Starts(u)'
               PROVE  /\ task'[u].watch \in WatchIds /\ watches'[task'[u].codex] = task'[u].watch
                      /\ forward'[task'[u].watch].pc = "none" /\ task'[u].next >= 1
    BY DEF Starting
  <2>1. u = t
    BY <1>4 DEF Holds
  <2>2. task'[t].codex = k /\ task'[t].watch = w /\ task'[t].next >= 1
    BY <1>a DEF IsNew
  <2> QED
    BY <1>0, <1>1, <1>2, <1>7, <2>1, <2>2
<1>9. Places'
  <2> SUFFICES ASSUME NEW l \in Codexes, watches'[l] # 0
               PROVE  watch'[watches'[l]].codex = l /\ watch'[watches'[l]].state # "none"
    BY DEF Places
  <2>1. CASE l = k
    <3>1. watches'[l] = w
      BY <1>2, <2>1
    <3>2. watch'[w].codex = k /\ watch'[w].state = "registered"
      BY <1>a DEF IsNew
    <3> QED
      BY <2>1, <3>1, <3>2
  <2>2. CASE l # k
    <3>1. watches'[l] = watches[l] /\ watches[l] # 0 /\ watches[l] \in WatchIds
      BY <1>0, <1>2, <2>2 DEF LockT
    <3>2. watch[watches[l]].codex = l /\ watch[watches[l]].state # "none"
      BY <3>1 DEF WInv, Places
    <3>3. watches[l] # w
      BY <1>1, <3>2
    <3>4. Fades(watch[watches[l]], watch'[watches[l]])
      BY <3>1, <3>3, <1>a DEF IsNew
    <3> QED
      BY <3>1, <3>2, <3>4 DEF Fades
  <2> QED
    BY <2>1, <2>2
<1>10. Unused' /\ Closed'
  <2>1. ASSUME NEW v \in WatchIds
        PROVE  /\ watch'[v].state = "none" => forward'[v].pc = "none"
               /\ forward'[v].pc = "ended" => watch'[v].state = "closed"
    <3>1. CASE v = w
      BY <1>1, <1>7, <3>1
    <3>2. CASE v # w
      <4>1. Fades(watch[v], watch'[v])
        BY <3>2, <1>a DEF IsNew
      <4> QED
        BY <1>1, <4>1 DEF WInv, Unused, Closed, Fades
    <3> QED
      BY <3>1, <3>2
  <2> QED
    BY <2>1 DEF Unused, Closed
<1>11. NoOrphanWatcher'
  <2> SUFFICES ASSUME NEW v \in WatchIds, watch'[v].state = "registered" PROVE IsCurrent(v)'
    BY DEF NoOrphanWatcher
  <2>0. v # 0
    BY SMT DEF WatchIds
  <2>1. CASE v = w
    <3>1. watches'[k] = v
      BY <1>0, <1>2, <2>1
    <3> QED
      BY <1>0, <2>0, <3>1 DEF IsCurrent, Current
  <2>2. CASE v # w
    <3>1. watch[v].state = "registered" /\ v # watches[k]
      BY <2>2, <1>a DEF IsNew, Fades
    <3>2. PICK l \in Codexes : watches[l] = v
      BY <3>1, CurrentIs DEF WInv, NoOrphanWatcher
    <3>3. watches'[l] = v
      BY <1>2, <3>1, <3>2
    <3> QED
      BY <2>0, <3>3 DEF IsCurrent, Current
  <2> QED
    BY <2>1, <2>2
<1> QED
  BY <1>5, <1>6, <1>8, <1>9, <1>10, <1>11 DEF WInv

\* A step of one forwardWatch.
Handles(w) ==
    /\ task' = task
    /\ \A v \in WatchIds : v # w => forward'[v] = forward[v]
    /\ forward[w].pc # "none" /\ forward'[w].pc # "none"
    /\ forward'[w].pc = "ended" => watch[w].state = "closed"
    /\ \/ watchesMu' = watchesMu /\ forward[w].pc # "dropped" /\ forward'[w].pc # "dropped"
       \/ watchesMu = "free" /\ watchesMu' = "held"
       \/ watchesMu' = "free" /\ forward[w].pc = "dropped" /\ forward'[w].pc # "dropped"
    /\ \A v \in WatchIds : Fades(watch[v], watch'[v])

\* A step of forwardWatch keeps what it can, and all of it when no place is given up.
LEMMA HandlesKeeps ==
    ASSUME TypeOK, WInv, NEW w \in WatchIds, Handles(w)
    PROVE  /\ Asked' /\ Locked' /\ Unused' /\ Closed'
           /\ watches' = watches => WInv'
<1>1. task' = task
  BY DEF Handles
<1>2. Asked'
  BY <1>1 DEF WInv, Asked
<1>3. \A t \in Tasks : (Holds(t)' <=> Holds(t)) /\ (Starts(t)' <=> Starts(t))
  BY <1>1 DEF Holds, Starts
<1>4. Locked'
  <2>1. CASE watchesMu' = watchesMu /\ forward[w].pc # "dropped" /\ forward'[w].pc # "dropped"
    <3>1. \A v \in WatchIds : forward'[v].pc = "dropped" <=> forward[v].pc = "dropped"
      BY <2>1 DEF Handles
    <3> QED
      BY <1>3, <2>1, <3>1 DEF WInv, Locked
  <2>2. CASE watchesMu = "free" /\ watchesMu' = "held"
    <3>1. (\A t \in Tasks : ~Holds(t)) /\ (\A v \in WatchIds : forward[v].pc # "dropped")
      BY <2>2, FreeLocked DEF WInv
    <3>2. \A v \in WatchIds : forward'[v].pc = "dropped" => v = w
      BY <3>1 DEF Handles
    <3> QED
      BY <1>3, <2>2, <3>1, <3>2 DEF Locked
  <2>3. CASE watchesMu' = "free" /\ forward[w].pc = "dropped" /\ forward'[w].pc # "dropped"
    <3>1. \A v \in WatchIds : forward'[v].pc # "dropped"
      BY <2>3 DEF WInv, Locked, Handles
    <3>2. \A t \in Tasks : ~Holds(t)
      BY <2>3 DEF WInv, Locked
    <3> QED
      BY <1>3, <3>1, <3>2 DEF Locked
  <2> QED
    BY <2>1, <2>2, <2>3 DEF Handles
<1>5. Unused' /\ Closed'
  <2>1. ASSUME NEW v \in WatchIds
        PROVE  /\ watch'[v].state = "none" => forward'[v].pc = "none"
               /\ forward'[v].pc = "ended" => watch'[v].state = "closed"
    <3>1. Fades(watch[v], watch'[v])
      BY DEF Handles
    <3>2. CASE v = w
      BY <3>1, <3>2 DEF WInv, Unused, Handles, Fades
    <3>3. CASE v # w
      <4>1. forward'[v] = forward[v]
        BY <3>3 DEF Handles
      <4> QED
        BY <3>1, <4>1 DEF WInv, Unused, Closed, Fades
    <3> QED
      BY <3>2, <3>3
  <2> QED
    BY <2>1 DEF Unused, Closed
<1>6. ASSUME watches' = watches PROVE Places' /\ NoOrphanWatcher' /\ Starting'
  <2>1. \A v : IsCurrent(v)' <=> IsCurrent(v)
    BY <1>6 DEF IsCurrent, Current
  <2>2. NoOrphanWatcher'
    BY <2>1 DEF WInv, NoOrphanWatcher, Handles, Fades
  <2>3. Starting'
    <3> SUFFICES ASSUME NEW t \in Tasks, Starts(t)'
                 PROVE  /\ task'[t].watch \in WatchIds /\ watches'[task'[t].codex] = task'[t].watch
                        /\ forward'[task'[t].watch].pc = "none" /\ task'[t].next >= 1
      BY DEF Starting
    <3>1. /\ task[t].watch \in WatchIds /\ watches[task[t].codex] = task[t].watch
          /\ forward[task[t].watch].pc = "none" /\ task[t].next >= 1
      BY <1>3 DEF WInv, Starting
    <3>2. task[t].watch # w
      BY <3>1 DEF Handles
    <3>3. forward'[task[t].watch] = forward[task[t].watch]
      BY <3>1, <3>2 DEF Handles
    <3> QED
      BY <1>1, <1>6, <3>1, <3>3
  <2>4. Places'
    <3> SUFFICES ASSUME NEW k \in Codexes, watches[k] # 0, watch[watches[k]].codex = k,
                        watch[watches[k]].state # "none"
                 PROVE  watch'[watches[k]].codex = k /\ watch'[watches[k]].state # "none"
      BY <1>6 DEF WInv, Places
    <3>1. watches[k] \in WatchIds
      BY DEF TypeOK
    <3> QED
      BY <3>1 DEF Handles, Fades
  <2> QED
    BY <2>2, <2>3, <2>4
<1> QED
  BY <1>2, <1>4, <1>5, <1>6 DEF WInv

\* A watch that does not change.
LEMMA FadesSame == \A r : Fades(r, r)
BY DEF Fades

\* A forwardWatch that goes on.
LEMMA ForwardPc ==
    ASSUME ForwardT, NEW w \in WatchIds, NEW pc, forward' = [forward EXCEPT ![w].pc = pc]
    PROVE  /\ forward'[w].pc = pc /\ forward'[w].event = forward[w].event
           /\ \A v \in WatchIds : v # w => forward'[v] = forward[v]
<1>1. forward[w] \in Forwards
  BY SMT DEF ForwardT
<1>2. forward'[w] = [forward[w] EXCEPT !.pc = pc] /\ \A v \in WatchIds : v # w => forward'[v] = forward[v]
  BY SMT DEF ForwardT
<1> QED
  BY <1>1, <1>2, SMT DEF Forwards

\* Receiving an event.
Takes(w) ==
    /\ watch[w].events # <<>>
    /\ forward'[w].pc = "got" /\ forward'[w].event = Head(watch[w].events)
    /\ \A v \in WatchIds : v # w => forward'[v] = forward[v] /\ watch'[v] = watch[v]
    /\ watch'[w].events = Tail(watch[w].events)
    /\ watch'[w].codex = watch[w].codex /\ watch'[w].state = watch[w].state

\* The select of forwardWatch: an event, or what makes it stop.
LEMMA SelectCases ==
    ASSUME TypeOK, NEW w \in WatchIds, Select(w)
    PROVE  /\ forward[w].pc = "run"
           /\ \/ Takes(w)
              \/ /\ watch' = watch /\ \A v \in WatchIds : v # w => forward'[v] = forward[v]
                 /\ \/ forward'[w].pc \in {"slow", "done"}
                    \/ forward'[w].pc = "ended" /\ watch[w].state = "closed" /\ watch[w].events = <<>>
<1>0. ForwardT /\ WatchT
  BY Parts
<1>1. ASSUME watch[w].events # <<>>,
             forward' = [forward EXCEPT ![w] = [pc |-> "got", event |-> Head(watch[w].events)]],
             watch' = [watch EXCEPT ![w].events = Tail(@)]
      PROVE  Takes(w)
  <2>1. forward'[w] = [pc |-> "got", event |-> Head(watch[w].events)]
        /\ \A v \in WatchIds : v # w => forward'[v] = forward[v]
    BY <1>0, <1>1, SMT DEF ForwardT
  <2>2. forward'[w].pc = "got" /\ forward'[w].event = Head(watch[w].events)
    BY <2>1, SMT
  <2>3. /\ watch'[w] = [watch[w] EXCEPT !.events = Tail(watch[w].events)] /\ watch[w] \in Watches
        /\ \A v \in WatchIds : v # w => watch'[v] = watch[v]
    BY <1>0, <1>1, SMT DEF WatchT
  <2>4. /\ watch'[w].events = Tail(watch[w].events)
        /\ watch'[w].codex = watch[w].codex /\ watch'[w].state = watch[w].state
    <3> DEFINE q == Tail(watch[w].events)
    <3>1. watch'[w] = [watch[w] EXCEPT !.events = q]
      BY <2>3
    <3> HIDE DEF q
    <3>2. watch'[w].events = q /\ watch'[w].codex = watch[w].codex /\ watch'[w].state = watch[w].state
      BY <2>3, <3>1, SMT DEF Watches
    <3> QED
      BY <3>2 DEF q
  <2> QED
    BY <1>1, <2>1, <2>2, <2>3, <2>4 DEF Takes
<1>2. ASSUME NEW pc, forward' = [forward EXCEPT ![w].pc = pc]
      PROVE  forward'[w].pc = pc /\ \A v \in WatchIds : v # w => forward'[v] = forward[v]
  BY <1>0, <1>2, ForwardPc
<1>3. CASE watch' = watch /\ forward' = [forward EXCEPT ![w].pc = "ended"]
           /\ watch[w].state = "closed" /\ watch[w].events = <<>>
  BY <1>2, <1>3 DEF Select
<1>4. CASE watch' = watch /\ forward' = [forward EXCEPT ![w].pc = "slow"]
  BY <1>2, <1>4 DEF Select
<1>5. CASE watch' = watch /\ forward' = [forward EXCEPT ![w].pc = "done"]
  BY <1>2, <1>5 DEF Select
<1> QED
  BY <1>1, <1>3, <1>4, <1>5 DEF Select

\* The steps of forwardWatch are such steps.
LEMMA ForwardHandles ==
    ASSUME TypeOK, NEW w \in WatchIds, ForwardStep(w)
    PROVE  Handles(w) /\ (ForwardEnded(w) \/ watches' = watches)
<1>0. ForwardT
  BY Parts
<1>1. CASE Select(w)
  <2>1. \A v \in WatchIds : Fades(watch[v], watch'[v])
    <3>1. CASE Takes(w)
      <4> SUFFICES ASSUME NEW v \in WatchIds PROVE Fades(watch[v], watch'[v])
        OBVIOUS
      <4>1. CASE v = w
        BY <3>1, <4>1 DEF Takes, Fades
      <4>2. CASE v # w
        BY <3>1, <4>2, FadesSame DEF Takes
      <4> QED
        BY <4>1, <4>2
    <3> QED
      BY <1>1, <3>1, SelectCases, FadesSame
  <2>2. task' = task /\ watches' = watches /\ watchesMu' = watchesMu
    BY <1>1 DEF Select, locked
  <2>3. /\ \A v \in WatchIds : v # w => forward'[v] = forward[v]
        /\ forward[w].pc = "run" /\ forward'[w].pc \in {"got", "slow", "done", "ended"}
        /\ forward'[w].pc = "ended" => watch[w].state = "closed"
    <3>1. CASE Takes(w)
      BY <1>1, <3>1, SelectCases DEF Takes
    <3> QED
      BY <1>1, <3>1, SelectCases
  <2> QED
    BY <2>1, <2>2, <2>3, SMT DEF Handles
<1>2. ASSUME NEW pc, forward' = [forward EXCEPT ![w].pc = pc], watch' = watch, task' = task,
             forward[w].pc # "none", pc \notin {"none", "ended"},
             \/ watchesMu' = watchesMu /\ forward[w].pc # "dropped" /\ pc # "dropped"
             \/ watchesMu = "free" /\ watchesMu' = "held"
             \/ watchesMu' = "free" /\ forward[w].pc = "dropped" /\ pc # "dropped"
      PROVE  Handles(w)
  <2>1. forward'[w].pc = pc /\ \A v \in WatchIds : v # w => forward'[v] = forward[v]
    BY <1>0, <1>2, ForwardPc
  <2>2. forward'[w].pc # "none" /\ forward'[w].pc # "ended"
    BY <1>2, <2>1
  <2> QED
    BY <1>2, <2>1, <2>2, FadesSame DEF Handles
<1>3. CASE Forward(w)
  <2>1. task' = task /\ watches' = watches /\ watch' = watch /\ forward[w].pc = "got" /\ watchesMu = "free"
    BY <1>3 DEF Forward, store
  <2>2. \/ watchesMu' = watchesMu /\ forward' = [forward EXCEPT ![w].pc = "run"]
        \/ watchesMu' = watchesMu /\ forward' = [forward EXCEPT ![w].pc = "done"]
        \/ watchesMu' = "held" /\ forward' = [forward EXCEPT ![w].pc = "dropped"]
    BY <1>3 DEF Forward
  <2> QED
    BY <1>2, <2>1, <2>2, SMT
<1>4. CASE ForwardDropped(w)
  <2>1. /\ task' = task /\ watches' = watches /\ watch' = watch /\ forward[w].pc = "dropped"
        /\ watchesMu' = "free" /\ forward' = [forward EXCEPT ![w].pc = "done"]
    BY <1>4 DEF ForwardDropped, store
  <2>2. forward[w].pc # "none" /\ "done" \notin {"none", "ended"} /\ "done" # "dropped"
    BY <2>1, SMT
  <2> QED
    BY <1>2, <2>1, <2>2
<1>5. CASE ForwardSlow(w)
  <2>1. /\ task' = task /\ watches' = watches /\ watch' = watch /\ forward[w].pc \in {"slow", "close"}
        /\ watchesMu' = watchesMu
    BY <1>5 DEF ForwardSlow, store, locked
  <2>2. \/ forward' = [forward EXCEPT ![w].pc = "close"]
        \/ forward' = [forward EXCEPT ![w].pc = "done"]
    BY <1>5 DEF ForwardSlow
  <2> QED
    BY <1>2, <2>1, <2>2, SMT
<1>6. CASE ForwardEnded(w)
  <2>1. /\ task' = task /\ watch' = watch /\ forward[w].pc = "ended"
        /\ watchesMu' = watchesMu /\ forward' = [forward EXCEPT ![w].pc = "done"]
    BY <1>6 DEF ForwardEnded, store
  <2>2. /\ forward[w].pc # "none" /\ forward[w].pc # "dropped"
        /\ "done" \notin {"none", "ended"} /\ "done" # "dropped"
    BY <2>1, SMT
  <2> QED
    BY <1>2, <1>6, <2>1, <2>2
<1> QED
  BY <1>1, <1>3, <1>4, <1>5, <1>6 DEF ForwardStep

\* And they keep lock and places: ForwardEnded gives up a place whose watch is closed.
LEMMA ForwardKeeps ==
    ASSUME TypeOK, WInv, NEW w \in WatchIds, ForwardStep(w)
    PROVE  WInv'
<1>1. Handles(w)
  BY ForwardHandles
<1>2. Asked' /\ Locked' /\ Unused' /\ Closed'
  BY <1>1, HandlesKeeps
<1>3. CASE watches' = watches
  BY <1>1, <1>3, HandlesKeeps
<1>4. CASE ForwardEnded(w) /\ watches' # watches
  <2> DEFINE k == watch[w].codex
  <2>1. /\ IsCurrent(w) /\ watches' = [watches EXCEPT ![k] = 0]
        /\ watch' = watch /\ task' = task /\ watchesMu = "free" /\ forward[w].pc = "ended"
    BY <1>4 DEF ForwardEnded, store
  <2>2. watch[w].state = "closed"
    BY <2>1 DEF WInv, Closed
  <2>3. k \in Codexes /\ watches[k] = w
    BY <2>1, CurrentIs DEF WInv, Places
  <2>4. \A l \in Codexes : watches'[l] = IF l = k THEN 0 ELSE watches[l]
    <3> HIDE DEF k
    <3> QED
      BY <2>1, SMT DEF TypeOK
  <2>5. Starting'
    <3>1. \A t \in Tasks : ~Holds(t)'
      BY <2>1, FreeLocked DEF WInv, Holds, Starts
    <3> QED
      BY <3>1, NoneStarting
  <2>6. Places'
    <3> SUFFICES ASSUME NEW l \in Codexes, watches'[l] # 0
                 PROVE  watch'[watches'[l]].codex = l /\ watch'[watches'[l]].state # "none"
      BY DEF Places
    <3>1. watches'[l] = watches[l]
      BY <2>4
    <3>2. watch[watches[l]].codex = l /\ watch[watches[l]].state # "none"
      BY <3>1 DEF WInv, Places
    <3> QED
      BY <2>1, <3>1, <3>2
  <2>7. NoOrphanWatcher'
    <3> SUFFICES ASSUME NEW v \in WatchIds, watch[v].state = "registered" PROVE IsCurrent(v)'
      BY <2>1 DEF NoOrphanWatcher
    <3>1. v # w
      BY <2>2
    <3>2. PICK l \in Codexes : watches[l] = v /\ v # 0
      BY CurrentIs DEF WInv, NoOrphanWatcher
    <3>3. watches'[l] = v
      BY <2>3, <2>4, <3>1, <3>2
    <3> QED
      BY <3>2, <3>3 DEF IsCurrent, Current
  <2> QED
    BY <1>2, <2>5, <2>6, <2>7 DEF WInv
<1> QED
  BY <1>3, <1>4, ForwardHandles

\* The steps of the Store.
LEMMA DeliveredFades ==
    ASSUME TypeOK, NEW k \in Codexes, NEW w \in WatchIds
    PROVE  /\ Fades(watch[w], Delivered(k, w))
           /\ \A i : Fades(watch[w], Ended(k, w, i))
<1>0. watch[w] \in Watches
  BY DEF TypeOK
<1>1. ASSUME NEW q PROVE Fades(watch[w], [watch[w] EXCEPT !.events = q])
  BY <1>0, SMT DEF Fades, Watches
<1>2. ASSUME watch[w].state = "registered" PROVE Fades(watch[w], [watch[w] EXCEPT !.state = "slow"])
  BY <1>0, <1>2, SMT DEF Fades, Watches
<1>3. ASSUME watch[w].state = "registered", NEW q
      PROVE  Fades(watch[w], [watch[w] EXCEPT !.events = q, !.state = "closed"])
  BY <1>0, <1>3, SMT DEF Fades, Watches
<1>4. Fades(watch[w], Delivered(k, w))
  BY <1>1, <1>2, FadesSame DEF Delivered
<1>5. ASSUME NEW i PROVE Fades(watch[w], Ended(k, w, i))
  BY <1>3, FadesSame DEF Ended
<1> QED
  BY <1>4, <1>5

\* Publish and Forget keep lock and places.
LEMMA StoreKeeps ==
    ASSUME TypeOK, WInv, NEW k \in Codexes, Publish(k) \/ Forget(k)
    PROVE  WInv'
<1>1. task' = task /\ forward' = forward /\ watches' = watches /\ watchesMu' = watchesMu
  BY DEF Publish, Forget, locked
<1>2. \A w \in WatchIds : Fades(watch[w], watch'[w])
  <2>1. CASE Publish(k)
    BY <2>1, DeliveredFades DEF Publish
  <2>2. CASE Forget(k)
    BY <2>2, DeliveredFades DEF Forget
  <2> QED
    BY <2>1, <2>2
<1>3. Asked' /\ Starting'
  BY <1>1 DEF WInv, Asked, Starting, Starts
<1>4. Locked'
  BY <1>1 DEF WInv, Locked, Holds, Starts
<1>5. Places'
  <2> SUFFICES ASSUME NEW l \in Codexes, watches[l] # 0
               PROVE  watch'[watches[l]].codex = l /\ watch'[watches[l]].state # "none"
    BY <1>1 DEF Places
  <2>1. watches[l] \in WatchIds
    BY DEF TypeOK
  <2> QED
    BY <1>2, <2>1 DEF WInv, Places, Fades
<1>6. NoOrphanWatcher'
  <2>1. \A v : IsCurrent(v)' <=> IsCurrent(v)
    BY <1>1 DEF IsCurrent, Current
  <2> QED
    BY <1>2, <2>1 DEF WInv, NoOrphanWatcher, Fades
<1>7. Unused' /\ Closed'
  BY <1>1, <1>2, FadesKeeps DEF WInv
<1> QED
  BY <1>3, <1>4, <1>5, <1>6, <1>7 DEF WInv

\* The first state.
LEMMA InitTypes ==
    ASSUME Init
    PROVE  TypeOK
<1>1. Nothing \in Frames /\ IdleTask \in Handlers
  BY NothingType, IdleType
<1>2. LoopT /\ WriterT
  BY <1>1, SMT DEF Init, LoopT, WriterT
<1>3. TaskT /\ ForwardT
  BY <1>1, SMT DEF Init, TaskT, ForwardT, Forwards
<1>4. LockT /\ HeadT /\ BoundT
  BY BoundAssumption, SMT DEF Init, LockT, HeadT, BoundT
<1>5. SendT
  BY QueueAssumption, SMT DEF Init, SendT
<1>6. EndT
  BY DEF Init, EndT
<1>7. WatchT
  <2>1. NoWatch \in Watches /\ NoWatch.events = <<>> /\ Len(<<>>) = 0
    BY SMT DEF NoWatch, Watches
  <2>2. watch = [w \in WatchIds |-> NoWatch]
    BY DEF Init
  <2> QED
    BY <2>1, <2>2, QueueAssumption, SMT DEF WatchT
<1>8. ClientT
  <2>1. ASSUME NEW k \in Codexes PROVE Frame("unwatched", k, 0, 0) \in Frames
    <3>1. "unwatched" \in Kinds /\ k \in Codexes \cup {NoCodex} /\ 0 \in WatchIds \cup {0} /\ 0 \in 0 .. MaxSeq + 1
      BY BoundAssumption, SMT DEF Kinds
    <3> QED
      BY <3>1, FrameType
  <2>2. client = [k \in Codexes |-> Frame("unwatched", k, 0, 0)] /\ closeSent = FALSE
    BY DEF Init
  <2>3. client \in [Codexes -> Frames]
    BY <2>1, <2>2
  <2> QED
    BY <2>2, <2>3 DEF ClientT
<1> QED
  BY <1>2, <1>3, <1>4, <1>5, <1>6, <1>7, <1>8, Parts

\* Lock and places at first.
LEMMA InitPlaces ==
    ASSUME Init
    PROVE  WInv
<1>1. \A t \in Tasks : task[t].pc = "idle"
  BY SMT DEF Init, IdleTask
<1>2. \A w \in WatchIds : forward[w].pc = "none"
  BY SMT DEF Init
<1>3. \A w \in WatchIds : watch[w].state = "none"
  BY SMT DEF Init, NoWatch
<1>4. \A k \in Codexes : watches[k] = 0
  BY DEF Init
<1>5. \A t \in Tasks : ~Holds(t) /\ ~Starts(t)
  BY <1>1, SMT DEF Holds, Starts
<1>6. Asked /\ Starting /\ Places
  BY <1>1, <1>4, <1>5 DEF Asked, Starting, Places
<1>7. Locked
  BY <1>2, <1>5, SMT DEF Locked
<1>8. Unused /\ Closed /\ NoOrphanWatcher
  BY <1>2, <1>3, SMT DEF Unused, Closed, NoOrphanWatcher
<1> QED
  BY <1>6, <1>7, <1>8 DEF WInv

\* Every step keeps the types, the lock and the places.
LEMMA NextKeeps ==
    ASSUME TypeOK, WInv, [Next]_vars
    PROVE  TypeOK' /\ WInv'
<1>1. CASE \/ ReadHello \/ ReadPing \/ ReadBad \/ ReadEnds \/ ReaderStep \/ PeerGone
           \/ Ping \/ HeartbeatCloses \/ HeartbeatEnds
  BY <1>1, LoopTypes, LoopsKeep
<1>2. CASE WriterStep
  BY <1>2, WriterTypes, LoopsKeep
<1>3. ASSUME NEW t \in Tasks, NEW k \in Codexes, NEW what \in {"watch", "unwatch", "respond"},
             ReadRequest(t, what, k)
      PROVE  TypeOK' /\ WInv'
  BY <1>3, RequestTypes, RequestTalks, TalksKeeps
<1>4. ASSUME NEW t \in Tasks, HandlerStep(t)
      PROVE  TypeOK' /\ WInv'
  <2>1. TypeOK'
    BY <1>4, HandlerTypes DEF WInv
  <2>2. CASE Respond(t) \/ CheckContext(t) \/ AnswerWatch(t) \/ Replay(t)
    BY <2>1, <2>2, HandlerTalks, TalksKeeps
  <2>3. CASE Watch(t)
    BY <2>1, <2>3, WatchCases, VacatesKeeps, RegistersKeeps
  <2>4. CASE TaskDropped(t)
    <3>1. CASE task[t].pc = "dropped"
      BY <2>1, <2>4, <3>1, HandlerTalks, TalksKeeps
    <3>2. CASE task[t].pc = "unlock"
      BY <2>1, <2>4, <3>2, UnlockKeeps
    <3> QED
      BY <2>4, <3>1, <3>2 DEF TaskDropped
  <2> QED
    BY <1>4, <2>1, <2>2, <2>3, <2>4, StartForwardKeeps, UndoKeeps, VacatesKeeps DEF HandlerStep
<1>5. ASSUME NEW w \in WatchIds, ForwardStep(w) PROVE TypeOK' /\ WInv'
  BY <1>5, ForwardTypes, ForwardKeeps
<1>6. ASSUME NEW k \in Codexes, Publish(k) \/ Forget(k) PROVE TypeOK' /\ WInv'
  BY <1>6, StoreTypes, StoreKeeps
<1>7. CASE UNCHANGED vars
  <2>1. WInv'
    BY <1>7, CoreSame DEF vars, locked, store
  <2>2. TypeOK'
    <3>1. UNCHANGED <<reader, writer, heartbeat, task, forward, watches, watchesMu, send>>
      BY <1>7 DEF vars, loops, locked
    <3>2. UNCHANGED <<control, closeOnce, cancelled, ws, watch, head, forgotten, inputs, pings, client, closeSent>>
      BY <1>7 DEF vars, ending, store, bounds, written
    <3> QED
      BY <3>1, <3>2, SMT DEF TypeOK
  <2> QED
    BY <2>1, <2>2
<1> QED
  BY <1>1, <1>2, <1>3, <1>4, <1>5, <1>6, <1>7 DEF Next

\* In every reachable state one goroutine at a time is inside watchesMu, and
\* c.watches, the watches of the Store, the handlers and the forwarders agree.
THEOREM PlacesInvariance == Spec => [](TypeOK /\ WInv)
<1>1. Init => TypeOK /\ WInv
  BY InitTypes, InitPlaces
<1>2. TypeOK /\ WInv /\ [Next]_vars => (TypeOK /\ WInv)'
  BY NextKeeps
<1> QED
  BY <1>1, <1>2, PTL DEF Spec

\* The variables keep their types, and the queues their bounds.
THEOREM TypeCorrect == Spec => []TypeOK
BY PlacesInvariance, PTL

\* The Store holds a watcher for this connection only while c.watches has it.
THEOREM NoOrphanWatcherHolds == Spec => []NoOrphanWatcher
<1>1. WInv => NoOrphanWatcher
  BY DEF WInv
<1> QED
  BY <1>1, PlacesInvariance, PTL

-----------------------------------------------------------------------------
(* What the client is sent.  q stands for the frames on their way to it, c for *)
(* the last one about each Codex that it got, over for the watches that ended. *)

\* b is the last frame about k up to place i of the queue.
Tip(q, c, k, i, b) ==
    \/ b = c[k] /\ \A l \in 1 .. i : q[l].codex # k
    \/ \E j \in 1 .. i : q[j].codex = k /\ b = q[j] /\ \A l \in j + 1 .. i : q[l].codex # k

\* b is of watch w and may have events after it.
Opens(b, w) == b.kind \in {"watched", "event"} /\ b.watch = w

\* The number after n; a watch that ended may skip one.
Next1(over, w, n, m) == m = n + 1 \/ (m = n + 2 /\ w \in over)

Follows(over, e, b) == Opens(b, e.watch) /\ Next1(over, e.watch, b.seq, e.seq)

\* Every event in the queue follows the frame about its Codex before it.
Good(over, q, c) ==
    \A i \in 1 .. Len(q) : IsEvent(q[i]) =>
        /\ q[i].codex \in Codexes
        /\ \E b \in Frames : Tip(q, c, q[i].codex, i - 1, b) /\ Follows(over, q[i], b)

\* The last frame does not depend on what comes later ...
LEMMA TipPrefix ==
    ASSUME NEW q, NEW p, NEW c, NEW k, NEW i \in Nat, \A l \in 1 .. i : p[l] = q[l],
           NEW b, Tip(q, c, k, i, b)
    PROVE  Tip(p, c, k, i, b)
<1>1. \A j \in 1 .. i : \A l \in j + 1 .. i : l \in 1 .. i
  BY SMT
<1>2. CASE b = c[k] /\ \A l \in 1 .. i : q[l].codex # k
  BY <1>2 DEF Tip
<1>3. ASSUME NEW j \in 1 .. i, q[j].codex = k, b = q[j], \A l \in j + 1 .. i : q[l].codex # k
      PROVE  Tip(p, c, k, i, b)
  <2>1. p[j] = q[j] /\ \A l \in j + 1 .. i : p[l] = q[l]
    BY <1>1
  <2> QED
    BY <1>3, <2>1 DEF Tip
<1> QED
  BY <1>2, <1>3 DEF Tip

\* ... stays the last one while others follow ...
LEMMA TipSkip ==
    ASSUME NEW q, NEW c, NEW k, NEW i \in Nat, q[i + 1].codex # k, NEW b, Tip(q, c, k, i, b)
    PROVE  Tip(q, c, k, i + 1, b)
<1>1. \A l \in 1 .. i + 1 : l \in 1 .. i \/ l = i + 1
  BY SMT
<1>2. \A j \in 1 .. i : j \in 1 .. i + 1 /\ \A l \in j + 1 .. i + 1 : l \in j + 1 .. i \/ l = i + 1
  BY SMT
<1> QED
  BY <1>1, <1>2 DEF Tip

\* ... until there is a new one.
LEMMA TipNew ==
    ASSUME NEW q, NEW c, NEW k, NEW i \in Nat \ {0}, q[i].codex = k
    PROVE  Tip(q, c, k, i, q[i])
<1>1. i \in 1 .. i /\ \A l \in i + 1 .. i : FALSE
  BY SMT
<1>2. q[i].codex = k /\ q[i] = q[i] /\ \A l \in i + 1 .. i : q[l].codex # k
  BY <1>1
<1> QED
  BY <1>1, <1>2 DEF Tip

\* It is the same when the first frame is written.
LEMMA TipWritten ==
    ASSUME NEW q, NEW p, NEW c, NEW d, NEW k, NEW i \in Nat \ {0},
           \A l \in 1 .. i - 1 : p[l] = q[l + 1],
           d[k] = IF q[1].codex = k THEN q[1] ELSE c[k],
           NEW b, Tip(q, c, k, i, b)
    PROVE  Tip(p, d, k, i - 1, b)
<1>1. CASE b = c[k] /\ \A l \in 1 .. i : q[l].codex # k
  <2>1. 1 \in 1 .. i /\ \A l \in 1 .. i - 1 : l + 1 \in 1 .. i
    BY SMT
  <2> QED
    BY <1>1, <2>1 DEF Tip
<1>2. ASSUME NEW j \in 1 .. i, q[j].codex = k, b = q[j], \A l \in j + 1 .. i : q[l].codex # k
      PROVE  Tip(p, d, k, i - 1, b)
  <2>1. CASE j = 1
    <3>1. \A l \in 1 .. i - 1 : l + 1 \in j + 1 .. i
      BY <2>1, SMT
    <3> QED
      BY <1>2, <2>1, <3>1 DEF Tip
  <2>2. CASE j # 1
    <3>1. /\ j - 1 \in 1 .. i - 1 /\ (j - 1) + 1 = j
          /\ \A l \in (j - 1) + 1 .. i - 1 : l \in 1 .. i - 1 /\ l + 1 \in j + 1 .. i
      BY <2>2, SMT
    <3>2. p[j - 1] = q[j] /\ \A l \in (j - 1) + 1 .. i - 1 : p[l].codex # k
      BY <1>2, <3>1
    <3> QED
      BY <1>2, <3>1, <3>2 DEF Tip
  <2> QED
    BY <2>1, <2>2
<1> QED
  BY <1>1, <1>2 DEF Tip

\* It is the same when a frame that is about no Codex goes before the others.
LEMMA TipPrepended ==
    ASSUME NEW q, NEW p, NEW c, NEW k, NEW i \in Nat,
           \A l \in 1 .. i : p[l + 1] = q[l], p[1].codex # k,
           NEW b, Tip(q, c, k, i, b)
    PROVE  Tip(p, c, k, i + 1, b)
<1>1. \A l \in 1 .. i + 1 : l = 1 \/ (l - 1 \in 1 .. i /\ (l - 1) + 1 = l)
  BY SMT
<1>2. CASE b = c[k] /\ \A l \in 1 .. i : q[l].codex # k
  <2>1. ASSUME NEW l \in 1 .. i + 1 PROVE p[l].codex # k
    <3>1. CASE l = 1
      BY <3>1
    <3>2. CASE l - 1 \in 1 .. i /\ (l - 1) + 1 = l
      <4>1. p[(l - 1) + 1] = q[l - 1] /\ q[l - 1].codex # k
        BY <1>2, <3>2
      <4> QED
        BY <3>2, <4>1
    <3> QED
      BY <1>1, <3>1, <3>2
  <2> QED
    BY <1>2, <2>1 DEF Tip
<1>3. ASSUME NEW j \in 1 .. i, q[j].codex = k, b = q[j], \A l \in j + 1 .. i : q[l].codex # k
      PROVE  Tip(p, c, k, i + 1, b)
  <2>1. /\ j + 1 \in 1 .. i + 1
        /\ \A l \in (j + 1) + 1 .. i + 1 : l - 1 \in j + 1 .. i /\ l - 1 \in 1 .. i /\ (l - 1) + 1 = l
    BY SMT
  <2>2. p[j + 1] = q[j] /\ \A l \in (j + 1) + 1 .. i + 1 : p[l] = q[l - 1] /\ q[l - 1].codex # k
    BY <1>3, <2>1
  <2> QED
    BY <1>3, <2>1, <2>2 DEF Tip
<1> QED
  BY <1>2, <1>3 DEF Tip

\* More watches may have ended.
LEMMA GoodMore ==
    ASSUME NEW over, NEW more, over \subseteq more, NEW q, NEW c, Good(over, q, c)
    PROVE  Good(more, q, c)
BY DEF Good, Follows, Next1

\* A frame is queued: any that is not an event, or an event that follows.
LEMMA GoodAppend ==
    ASSUME NEW over, NEW q \in Seq(Frames), NEW c, Good(over, q, c), NEW f \in Frames,
           IsEvent(f) => /\ f.codex \in Codexes
                         /\ \E b \in Frames : Tip(q, c, f.codex, Len(q), b) /\ Follows(over, f, b)
    PROVE  Good(over, Append(q, f), c)
<1> DEFINE p == Append(q, f)
           n == Len(q)
<1>1. n \in Nat /\ Len(p) = n + 1 /\ p[n + 1] = f /\ \A l \in 1 .. n : p[l] = q[l]
  BY SMT
<1> HIDE DEF p
<1> SUFFICES ASSUME NEW i \in 1 .. n + 1, IsEvent(p[i])
             PROVE  /\ p[i].codex \in Codexes
                    /\ \E b \in Frames : Tip(p, c, p[i].codex, i - 1, b) /\ Follows(over, p[i], b)
  BY <1>1 DEF Good, p
<1>2. CASE i = n + 1
  <2>1. i - 1 = n /\ p[i] = f
    <3>1. \A m \in Nat : (m + 1) - 1 = m
      BY SMT
    <3> QED
      BY <1>1, <1>2, <3>1
  <2>2. PICK b \in Frames : Tip(q, c, f.codex, n, b) /\ Follows(over, f, b)
    BY <2>1
  <2>3. Tip(p, c, f.codex, n, b)
    BY <1>1, <2>2, TipPrefix
  <2> QED
    BY <2>1, <2>2, <2>3
<1>3. CASE i # n + 1
  <2>1. i \in 1 .. n /\ i - 1 \in Nat /\ \A l \in 1 .. i - 1 : l \in 1 .. n
    BY <1>1, <1>3, SMT
  <2>2. p[i] = q[i]
    BY <1>1, <2>1
  <2>3. PICK b \in Frames : Tip(q, c, q[i].codex, i - 1, b) /\ Follows(over, q[i], b)
    BY <2>1, <2>2 DEF Good
  <2>4. Tip(p, c, q[i].codex, i - 1, b)
    BY <1>1, <2>1, <2>3, TipPrefix
  <2> QED
    BY <2>1, <2>2, <2>3, <2>4 DEF Good
<1> QED
  BY <1>2, <1>3

\* The first frame is written.
LEMMA GoodWritten ==
    ASSUME NEW over, NEW q \in Seq(Frames), q # <<>>, NEW c, NEW d, Good(over, q, c),
           \A k \in Codexes : d[k] = IF q[1].codex = k THEN q[1] ELSE c[k]
    PROVE  Good(over, Tail(q), d)
<1> DEFINE p == Tail(q)
           n == Len(q)
<1>1. n \in Nat \ {0} /\ Len(p) = n - 1 /\ \A l \in 1 .. n - 1 : p[l] = q[l + 1]
  BY SMT
<1> HIDE DEF p
<1> SUFFICES ASSUME NEW i \in 1 .. n - 1, IsEvent(p[i])
             PROVE  /\ p[i].codex \in Codexes
                    /\ \E b \in Frames : Tip(p, d, p[i].codex, i - 1, b) /\ Follows(over, p[i], b)
  BY <1>1 DEF Good, p
<1>2. /\ i + 1 \in 1 .. n /\ i \in Nat \ {0} /\ (i + 1) - 1 = i
      /\ \A l \in 1 .. i - 1 : l \in 1 .. n - 1
  BY <1>1, SMT
<1>3. p[i] = q[i + 1]
  BY <1>1
<1>4. q[i + 1].codex \in Codexes
  BY <1>2, <1>3 DEF Good
<1>5. PICK b \in Frames : Tip(q, c, q[i + 1].codex, i, b) /\ Follows(over, q[i + 1], b)
  BY <1>2, <1>3 DEF Good
<1>6. \A l \in 1 .. i - 1 : p[l] = q[l + 1]
  BY <1>1, <1>2
<1>7. Tip(p, d, q[i + 1].codex, i - 1, b)
  <2> DEFINE k == q[i + 1].codex
  <2>1. d[k] = IF q[1].codex = k THEN q[1] ELSE c[k]
    BY <1>4
  <2>2. Tip(q, c, k, i, b)
    BY <1>5
  <2> HIDE DEF k
  <2>3. Tip(p, d, k, i - 1, b)
    BY <1>2, <1>6, <2>1, <2>2, TipWritten
  <2> QED
    BY <2>3 DEF k
<1> QED
  BY <1>3, <1>4, <1>5, <1>7

\* A frame about no Codex goes before the others.
LEMMA GoodPrepended ==
    ASSUME NEW over, NEW q \in Seq(Frames), NEW c, Good(over, q, c),
           NEW p, Len(p) = Len(q) + 1, ~IsEvent(p[1]), p[1].codex \notin Codexes,
           \A l \in 1 .. Len(q) : p[l + 1] = q[l]
    PROVE  Good(over, p, c)
<1> DEFINE n == Len(q)
<1>1. n \in Nat
  BY SMT
<1> SUFFICES ASSUME NEW i \in 1 .. n + 1, IsEvent(p[i])
             PROVE  /\ p[i].codex \in Codexes
                    /\ \E b \in Frames : Tip(p, c, p[i].codex, i - 1, b) /\ Follows(over, p[i], b)
  BY DEF Good
<1>2. i # 1
  OBVIOUS
<1>3. /\ i - 1 \in 1 .. n /\ (i - 1) + 1 = i /\ (i - 1) - 1 \in Nat /\ ((i - 1) - 1) + 1 = i - 1
      /\ \A l \in 1 .. (i - 1) - 1 : l \in 1 .. n
  BY <1>1, <1>2, SMT
<1>4. p[i] = q[i - 1]
  BY <1>3
<1>5. q[i - 1].codex \in Codexes
  BY <1>3, <1>4 DEF Good
<1>6. PICK b \in Frames : Tip(q, c, q[i - 1].codex, (i - 1) - 1, b) /\ Follows(over, q[i - 1], b)
  BY <1>3, <1>4 DEF Good
<1>7. Tip(p, c, q[i - 1].codex, ((i - 1) - 1) + 1, b)
  <2> DEFINE k == q[i - 1].codex
             j == (i - 1) - 1
  <2>1. p[1].codex # k /\ Tip(q, c, k, j, b) /\ j \in Nat /\ \A l \in 1 .. j : p[l + 1] = q[l]
    BY <1>3, <1>5, <1>6
  <2> HIDE DEF k, j
  <2>2. Tip(p, c, k, j + 1, b)
    BY <2>1, TipPrepended
  <2> QED
    BY <2>2 DEF k, j
<1> QED
  BY <1>3, <1>4, <1>5, <1>6, <1>7

\* What this says of the frames on their way to the client.
Talking == writer.pc \in {"top", "select", "writing"}
Out == IF writer.pc = "writing" THEN <<writer.frame>> \o send ELSE send
Over == {w \in WatchIds : watch[w].state = "closed"}

\* The frames on their way are frames.
LEMMA OutType ==
    ASSUME TypeOK
    PROVE  Out \in Seq(Frames) /\ Len(Out) \in Nat
<1>1. <<writer.frame>> \in Seq(Frames) /\ send \in Seq(Frames)
  BY SMT DEF TypeOK
<1>2. <<writer.frame>> \o send \in Seq(Frames)
  BY <1>1, Joined
<1>3. Out \in Seq(Frames)
  BY <1>1, <1>2 DEF Out
<1> QED
  BY <1>3, SMT

\* EventsFollowTheirWatch is Good of these.
LEMMA GoodFollows ==
    ASSUME TypeOK, Talking => Good(Over, Out, client)
    PROVE  EventsFollowTheirWatch
<1> SUFFICES ASSUME NEW i \in 1 .. Len(Outgoing), IsEvent(Outgoing[i])
             PROVE  LET e == Outgoing[i]
                        b == Before(i)
                    IN  /\ b.kind \in {"watched", "event"} /\ b.watch = e.watch
                        /\ e.seq = b.seq + 1 \/ (e.seq = b.seq + 2 /\ watch[e.watch].state = "closed")
  BY DEF EventsFollowTheirWatch
<1>1. Talking /\ Outgoing = Out
  <2>1. CASE ~Talking
    <3>1. Outgoing = <<>>
      BY <2>1 DEF Outgoing, Talking
    <3> QED
      BY <3>1, SMT
  <2>2. CASE Talking
    BY <2>2, SMT DEF Outgoing, Out, Talking
  <2> QED
    BY <2>1, <2>2
<1> DEFINE q == Outgoing
           k == q[i].codex
           js == {j \in 1 .. i - 1 : q[j].codex = k}
<1>2. PICK b \in Frames : Tip(q, client, k, i - 1, b) /\ Follows(Over, q[i], b)
  <2>1. Good(Over, q, client)
    BY <1>1
  <2> QED
    BY <2>1 DEF Good
<1>3. Before(i) = IF js = {} THEN client[k] ELSE q[CHOOSE j \in js : \A l \in js : l <= j]
  BY DEF Before
<1>4. Before(i) = b
  <2>1. CASE b = client[k] /\ \A l \in 1 .. i - 1 : q[l].codex # k
    <3>1. js = {}
      BY <2>1
    <3> QED
      BY <1>3, <2>1, <3>1
  <2>2. ASSUME NEW j \in 1 .. i - 1, q[j].codex = k, b = q[j], \A l \in j + 1 .. i - 1 : q[l].codex # k
        PROVE  Before(i) = b
    <3>1. j \in js /\ js # {}
      BY <2>2
    <3>2. ASSUME NEW l \in js PROVE l <= j
      <4>1. l \in 1 .. i - 1 /\ l \notin j + 1 .. i - 1
        BY <2>2
      <4> HIDE DEF js
      <4> QED
        BY <4>1, SMT
    <3> DEFINE m == CHOOSE x \in js : \A l \in js : l <= x
    <3>3. m \in js /\ \A l \in js : l <= m
      BY <3>1, <3>2
    <3>4. m <= j /\ j <= m /\ m \in 1 .. i - 1
      BY <3>1, <3>2, <3>3
    <3> HIDE DEF m
    <3>5. m = j
      BY <3>4, SMT
    <3> QED
      BY <1>3, <2>2, <3>1, <3>5 DEF m
  <2> QED
    BY <1>2, <2>1, <2>2 DEF Tip
<1> QED
  BY <1>2, <1>4 DEF Follows, Opens, Next1, Over

\* The last frame about k that the client has got or will get.
Said(k, b) == Tip(Out, client, k, Len(Out), b)

\* The events of a channel go on from number n.
Chain(over, w, k, q, n) ==
    \A i \in 1 .. Len(q) :
        /\ IsEvent(q[i]) /\ q[i].codex = k /\ q[i].watch = w
        /\ q[i].kind = "forgotten" => i = Len(q) /\ w \in over
        /\ Next1(over, w, IF i = 1 THEN n ELSE q[i - 1].seq, q[i].seq)
EndsAt(q, n) == IF q = <<>> THEN n ELSE q[Len(q)].seq

\* Those of w do, and up to the head while it is registered.
Live(w, n) ==
    /\ Chain(Over, w, watch[w].codex, watch[w].events, n)
    /\ watch[w].state = "registered" => head[watch[w].codex] = EndsAt(watch[w].events, n)

More(w) == watch[w].events # <<>> \/ watch[w].state = "registered"

\* A handler that has registered w: its replay goes on from what was said, and the
\* channel from its replay.
Prepared(t, k, w) ==
    /\ task[t].pc \in {"answering", "replaying"} => Live(w, task[t].last) /\ task[t].next <= task[t].last + 1
    /\ task[t].pc = "replaying" =>
          \E b \in Frames : Said(k, b) /\ Opens(b, w) /\ b.seq = task[t].next - 1

\* forwardWatch waits: the channel goes on from what was said.
Runs(k, w) == \E b \in Frames : Said(k, b) /\ Live(w, b.seq) /\ (More(w) => Opens(b, w))

\* forwardWatch has e: it follows what was said, and the channel goes on from it.
Got(k, w, e) ==
    /\ IsEvent(e) /\ e.codex = k /\ e.watch = w /\ Live(w, e.seq)
    /\ e.kind = "forgotten" => watch[w].events = <<>> /\ w \in Over
    /\ \E b \in Frames : Said(k, b) /\ Follows(Over, e, b)

LineOf(k, w) ==
    /\ \A t \in Tasks : task[t].watch = w => Prepared(t, k, w)
    /\ forward[w].pc = "run" => Runs(k, w)
    /\ forward[w].pc = "got" => Got(k, w, forward[w].event)

Lines == \A k \in Codexes, w \in WatchIds : watches[k] = w => LineOf(k, w)

Stream == Talking => Good(Over, Out, client) /\ Lines

\* What a step may do to a watch without touching what was said of it.
Calm(w) ==
    /\ \A n \in Nat : Live(w, n) => Live(w, n)'
    /\ More(w)' => More(w)
    /\ watch[w].events = <<>> /\ w \in Over => watch'[w].events = <<>>

\* Such a step keeps the line of a watch, if it also leaves its goroutines alone.
LEMMA LineKept ==
    ASSUME TypeOK, TypeOK', NEW k \in Codexes, NEW w \in WatchIds, LineOf(k, w), Calm(w),
           Over \subseteq Over',
           \A b \in Frames : Said(k, b) => Said(k, b)',
           \A t \in Tasks : task'[t].watch = w /\ task'[t].pc \in {"answering", "replaying"} => task'[t] = task[t],
           forward'[w].pc \in {"run", "got"} => forward'[w] = forward[w]
    PROVE  LineOf(k, w)'
<1>1. \A b \in Frames : b.seq \in Nat
  BY BoundAssumption, SMT DEF Frames
<1>2. ASSUME NEW t \in Tasks, task'[t].watch = w PROVE Prepared(t, k, w)'
  <2>1. CASE task'[t].pc \in {"answering", "replaying"}
    <3>1. task'[t] = task[t] /\ Prepared(t, k, w)
      BY <1>2, <2>1 DEF LineOf
    <3>2. PICK n \in Nat : n = task[t].last
      BY TaskIs
    <3>3. Live(w, n)' /\ task'[t].next <= task'[t].last + 1 /\ task'[t].last = n
      BY <2>1, <3>1, <3>2 DEF Prepared, Calm
    <3>4. task'[t].pc = "replaying" =>
              \E b \in Frames : Said(k, b)' /\ Opens(b, w) /\ b.seq = task'[t].next - 1
      BY <3>1 DEF Prepared
    <3>5. Live(w, task[t].last)'
      BY <3>3 DEF Live
    <3> QED
      BY <3>3, <3>4, <3>5 DEF Prepared
  <2>2. CASE task'[t].pc \notin {"answering", "replaying"}
    BY <2>2 DEF Prepared
  <2> QED
    BY <2>1, <2>2
<1>3. ASSUME forward'[w].pc = "run" PROVE Runs(k, w)'
  <2>1. PICK b \in Frames : Said(k, b) /\ Live(w, b.seq) /\ (More(w) => Opens(b, w))
    BY <1>3 DEF LineOf, Runs
  <2>2. Said(k, b)' /\ Live(w, b.seq)' /\ (More(w)' => Opens(b, w))
    BY <1>1, <2>1 DEF Calm
  <2> QED
    BY <2>2 DEF Runs
<1>4. ASSUME forward'[w].pc = "got" PROVE Got(k, w, forward[w].event)' /\ forward'[w] = forward[w]
  <2> DEFINE e == forward[w].event
  <2>0. forward'[w] = forward[w] /\ Got(k, w, e)
    BY <1>4 DEF LineOf
  <2>1. e \in Frames /\ forward'[w].event = e
    BY <2>0, ForwardIs
  <2>2. IsEvent(e) /\ e.codex = k /\ e.watch = w /\ Live(w, e.seq)'
    BY <1>1, <2>0, <2>1 DEF Got, Calm
  <2>3. e.kind = "forgotten" => watch'[w].events = <<>> /\ w \in Over'
    BY <2>0 DEF Got, Calm
  <2>4. PICK b \in Frames : Said(k, b)' /\ Follows(Over', e, b)
    BY <2>0 DEF Got, Follows, Next1
  <2> QED
    BY <2>0, <2>1, <2>2, <2>3, <2>4 DEF Got
<1> QED
  BY <1>2, <1>3, <1>4 DEF LineOf

\* A sequence is its elements.
LEMMA SameSeq ==
    ASSUME NEW S, NEW a \in Seq(S), NEW b \in Seq(S), Len(a) = Len(b), \A i \in 1 .. Len(a) : a[i] = b[i]
    PROVE  a = b
BY SMT

\* The second of two sequences put together.
LEMMA JoinedRight ==
    ASSUME NEW S, NEW a \in Seq(S), NEW b \in Seq(S), NEW j \in 1 .. Len(b)
    PROVE  (a \o b)[Len(a) + j] = b[j]
BY SMT

\* A queue of one frame.
LEMMA Singleton ==
    ASSUME NEW x \in Frames
    PROVE  <<x>> \in Seq(Frames) /\ Len(<<x>>) = 1 /\ <<x>>[1] = x
BY SMT

\* A frame put before a queue.
LEMMA Pushed ==
    ASSUME NEW x \in Frames, NEW q \in Seq(Frames)
    PROVE  /\ <<x>> \o q \in Seq(Frames) /\ Len(<<x>> \o q) = Len(q) + 1 /\ (<<x>> \o q)[1] = x
           /\ \A l \in 1 .. Len(q) : (<<x>> \o q)[l + 1] = q[l]
<1>1. ASSUME NEW a \in Seq(Frames), Len(a) = 1, a[1] = x
      PROVE  /\ a \o q \in Seq(Frames) /\ Len(a \o q) = Len(q) + 1 /\ (a \o q)[1] = x
             /\ \A l \in 1 .. Len(q) : (a \o q)[l + 1] = q[l]
  <2> DEFINE p == a \o q
  <2>1. p \in Seq(Frames) /\ Len(p) = Len(a) + Len(q)
    BY Joined
  <2>2. \A j \in 1 .. Len(a) : p[j] = a[j]
    BY Joined
  <2>3. ASSUME NEW j \in 1 .. Len(q) PROVE p[j + 1] = q[j]
    <3>1. p[Len(a) + j] = q[j]
      BY JoinedRight
    <3>2. Len(a) + j = j + 1
      BY <1>1, SMT
    <3> QED
      BY <3>1, <3>2
  <2>4. Len(q) \in Nat
    BY SMT
  <2> HIDE DEF p
  <2>5. Len(p) = Len(q) + 1 /\ p[1] = x /\ \A l \in 1 .. Len(q) : p[l + 1] = q[l]
    BY <1>1, <2>1, <2>2, <2>3, <2>4, SMT
  <2> QED
    BY <2>1, <2>5 DEF p
<1> QED
  BY <1>1, Singleton

\* Its head and its tail make a queue.
LEMMA HeadTail ==
    ASSUME NEW q \in Seq(Frames), q # <<>>
    PROVE  <<Head(q)>> \o Tail(q) = q
<1> DEFINE x == Head(q)
           r == Tail(q)
           p == <<x>> \o r
<1>1. /\ x \in Frames /\ r \in Seq(Frames) /\ Len(r) = Len(q) - 1 /\ Len(q) \in Nat \ {0}
      /\ x = q[1] /\ \A l \in 1 .. Len(r) : r[l] = q[l + 1]
  BY SMT
<1>2. p \in Seq(Frames) /\ Len(p) = Len(r) + 1 /\ p[1] = x /\ \A l \in 1 .. Len(r) : p[l + 1] = r[l]
  BY <1>1, Pushed
<1> HIDE DEF p, r, x
<1>3. Len(p) = Len(q)
  BY <1>1, <1>2, SMT
<1>4. ASSUME NEW i \in 1 .. Len(p) PROVE p[i] = q[i]
  <2>1. i = 1 \/ (i - 1 \in 1 .. Len(r) /\ (i - 1) + 1 = i)
    BY <1>1, <1>2, SMT
  <2> QED
    BY <1>1, <1>2, <2>1
<1>5. p = q
  BY <1>2, <1>3, <1>4, SameSeq
<1> QED
  BY <1>5 DEF p, r, x

\* A frame is queued behind those on their way.
Queued(f) == f \in Frames /\ send' = Append(send, f) /\ writer' = writer /\ client' = client

\* It is then the last of the frames on their way ...
LEMMA OutAppend ==
    ASSUME TypeOK, NEW f, Queued(f)
    PROVE  Out' = Append(Out, f)
<1>0. writer.frame \in Frames /\ send \in Seq(Frames) /\ f \in Frames
  BY SMT DEF TypeOK, Queued
<1>1. send' = Append(send, f) /\ writer' = writer
  BY DEF Queued
<1>2. CASE writer.pc = "writing"
  <2> DEFINE x == writer.frame
             q == <<x>> \o send
             p == <<x>> \o Append(send, f)
  <2>1. /\ q \in Seq(Frames) /\ Len(q) = Len(send) + 1 /\ q[1] = x
        /\ \A l \in 1 .. Len(send) : q[l + 1] = send[l]
    BY <1>0, Pushed
  <2>2. /\ Append(send, f) \in Seq(Frames) /\ Len(Append(send, f)) = Len(send) + 1 /\ Len(send) \in Nat
        /\ Append(send, f)[Len(send) + 1] = f /\ \A l \in 1 .. Len(send) : Append(send, f)[l] = send[l]
    BY <1>0, SMT
  <2>3. /\ p \in Seq(Frames) /\ Len(p) = Len(Append(send, f)) + 1 /\ p[1] = x
        /\ \A l \in 1 .. Len(Append(send, f)) : p[l + 1] = Append(send, f)[l]
    BY <1>0, <2>2, Pushed
  <2>4. Out' = p /\ Out = q
    BY <1>1, <1>2 DEF Out
  <2> HIDE DEF p, q, x
  <2>5. /\ Append(q, f) \in Seq(Frames) /\ Len(Append(q, f)) = Len(q) + 1
        /\ Append(q, f)[Len(q) + 1] = f /\ \A l \in 1 .. Len(q) : Append(q, f)[l] = q[l]
    BY <1>0, <2>1, SMT
  <2>6. Len(p) = Len(Append(q, f))
    BY <2>1, <2>2, <2>3, <2>5
  <2>7. ASSUME NEW i \in 1 .. Len(p) PROVE p[i] = Append(q, f)[i]
    <3>1. CASE i = 1
      <4>1. 1 \in 1 .. Len(q)
        BY <2>1, <2>2, SMT
      <4> QED
        BY <2>1, <2>3, <2>5, <3>1, <4>1
    <3>2. CASE i \in 2 .. Len(send) + 1
      <4>1. i - 1 \in 1 .. Len(send) /\ (i - 1) + 1 = i /\ i - 1 \in 1 .. Len(send) + 1 /\ i \in 1 .. Len(q)
        BY <2>1, <2>2, <3>2, SMT
      <4>2. p[(i - 1) + 1] = Append(send, f)[i - 1] /\ Append(send, f)[i - 1] = send[i - 1]
        BY <2>2, <2>3, <4>1
      <4>3. q[(i - 1) + 1] = send[i - 1] /\ Append(q, f)[i] = q[i]
        BY <2>1, <2>5, <4>1
      <4> QED
        BY <4>1, <4>2, <4>3
    <3>3. CASE i = Len(send) + 2
      <4>1. i = (Len(send) + 1) + 1 /\ Len(send) + 1 \in 1 .. Len(Append(send, f)) /\ i = Len(q) + 1
        BY <2>1, <2>2, <3>3, SMT
      <4>2. p[(Len(send) + 1) + 1] = Append(send, f)[Len(send) + 1]
        BY <2>3, <4>1
      <4> QED
        BY <2>2, <2>5, <4>1, <4>2
    <3>4. i = 1 \/ i \in 2 .. Len(send) + 1 \/ i = Len(send) + 2
      BY <2>2, <2>3, SMT
    <3> QED
      BY <3>1, <3>2, <3>3, <3>4
  <2>8. p = Append(q, f)
    BY <2>3, <2>5, <2>6, <2>7, SameSeq
  <2> QED
    BY <2>4, <2>8
<1>3. CASE writer.pc # "writing"
  BY <1>1, <1>3 DEF Out
<1> QED
  BY <1>2, <1>3

\* ... so it is the last about its Codex, and says nothing of the others ...
LEMMA QueuedSaid ==
    ASSUME TypeOK, NEW f, Queued(f), NEW k \in Codexes
    PROVE  /\ f.codex = k => Said(k, f)'
           /\ f.codex # k => \A b \in Frames : Said(k, b) => Said(k, b)'
<1> DEFINE q == Out
           p == Append(q, f)
<1>1. Out' = p /\ client' = client
  BY OutAppend DEF Queued
<1>2. /\ Len(q) \in Nat /\ Len(p) = Len(q) + 1 /\ p[Len(q) + 1] = f /\ \A l \in 1 .. Len(q) : p[l] = q[l]
      /\ Len(q) + 1 \in Nat \ {0}
  <2>1. q \in Seq(Frames) /\ f \in Frames
    BY OutType DEF Queued
  <2> HIDE DEF q
  <2> QED
    BY <2>1, SMT
<1> HIDE DEF p
<1>3. ASSUME f.codex = k PROVE Said(k, f)'
  <2>1. Tip(p, client, k, Len(q) + 1, p[Len(q) + 1])
    BY <1>2, <1>3, TipNew
  <2> QED
    BY <1>1, <1>2, <2>1 DEF Said
<1>4. ASSUME f.codex # k, NEW b \in Frames, Said(k, b) PROVE Said(k, b)'
  <2>1. Tip(p, client, k, Len(q), b)
    BY <1>2, <1>4, TipPrefix DEF Said
  <2>2. Tip(p, client, k, Len(q) + 1, b)
    BY <1>2, <1>4, <2>1, TipSkip
  <2> QED
    BY <1>1, <1>2, <2>2 DEF Said
<1> QED
  BY <1>3, <1>4

\* ... and the events still follow, if it does.
LEMMA QueuedGood ==
    ASSUME TypeOK, NEW f, Queued(f), Good(Over, Out, client), Over \subseteq Over',
           IsEvent(f) => f.codex \in Codexes /\ \E b \in Frames : Said(f.codex, b) /\ Follows(Over, f, b)
    PROVE  Good(Over, Out, client)'
<1>1. Out' = Append(Out, f) /\ client' = client /\ f \in Frames
  BY OutAppend DEF Queued
<1>2. Good(Over, Append(Out, f), client)
  BY <1>1, OutType, GoodAppend DEF Said
<1>3. Good(Over', Append(Out, f), client)
  BY <1>2, GoodMore
<1> QED
  BY <1>1, <1>3

\* The writer works on the frames on their way.
PipeSame ==
    /\ \A k \in Codexes, b \in Frames : Said(k, b) => Said(k, b)'
    /\ Good(Over, Out, client) => Good(Over, Out', client')

\* Nothing happens to them.
LEMMA OutSame ==
    ASSUME Out' = Out, client' = client
    PROVE  PipeSame
BY DEF PipeSame, Said

\* A Close goes before them.
LEMMA CloseFirst ==
    ASSUME TypeOK, Out = send, Out' = <<Plain("close")>> \o send, client' = client
    PROVE  PipeSame
<1> DEFINE x == Plain("close")
           p == <<x>> \o send
<1>1. x \in Frames /\ send \in Seq(Frames) /\ Len(send) \in Nat
  BY PlainType, SMT DEF Kinds, TypeOK
<1>2. x.codex \notin Codexes /\ ~IsEvent(x)
  <2>1. x.codex = NoCodex /\ x.kind = "close"
    BY SMT DEF Plain, Frame
  <2> QED
    BY <2>1, CodexAssumption, SMT DEF IsEvent
<1>3. /\ Len(p) = Len(send) + 1 /\ p[1] = x /\ \A l \in 1 .. Len(send) : p[l + 1] = send[l]
  BY <1>1, Pushed
<1>4. Out' = p
  OBVIOUS
<1> HIDE DEF p, x
<1>5. ASSUME NEW k \in Codexes, NEW b \in Frames, Said(k, b) PROVE Said(k, b)'
  <2>1. Tip(p, client, k, Len(send) + 1, b)
    BY <1>1, <1>2, <1>3, <1>5, TipPrepended DEF Said
  <2> QED
    BY <1>3, <1>4, <2>1 DEF Said
<1>6. Good(Over, send, client) => Good(Over, p, client)
  BY <1>1, <1>2, <1>3, GoodPrepended
<1> QED
  BY <1>4, <1>5, <1>6 DEF PipeSame

\* The first is written.
LEMMA FirstWritten ==
    ASSUME TypeOK, NEW f \in Frames, Out = <<f>> \o send, Out' = send, Record(f)
    PROVE  PipeSame
<1> DEFINE q == <<f>> \o send
           n == Len(send)
<1>1. send \in Seq(Frames) /\ n \in Nat
  BY SMT DEF TypeOK
<1>2. q \in Seq(Frames) /\ Len(q) = n + 1 /\ q[1] = f /\ \A l \in 1 .. n : q[l + 1] = send[l]
  BY <1>1, Pushed
<1>3. \A k \in Codexes : client'[k] = IF q[1].codex = k THEN q[1] ELSE client[k]
  <2>1. client \in [Codexes -> Frames] /\ f.codex \in Codexes \cup {NoCodex}
    BY SMT DEF TypeOK, Frames
  <2>2. client' = IF f.codex = NoCodex THEN client ELSE [client EXCEPT ![f.codex] = f]
    BY DEF Record
  <2>3. q[1] = f
    BY <1>2
  <2> HIDE DEF q
  <2>4. CASE f.codex = NoCodex
    BY <2>2, <2>3, <2>4, CodexAssumption
  <2>5. CASE f.codex \in Codexes
    <3>1. f.codex # NoCodex
      BY <2>5, CodexAssumption
    <3>2. client' = [client EXCEPT ![f.codex] = f]
      BY <2>2, <3>1
    <3> QED
      BY <2>1, <2>3, <2>5, <3>2, SMT
  <2> QED
    BY <2>1, <2>4, <2>5
<1>4. Out = q /\ Out' = send
  OBVIOUS
<1> HIDE DEF q
<1>5. ASSUME NEW k \in Codexes, NEW b \in Frames, Said(k, b) PROVE Said(k, b)'
  <2>1. n + 1 \in Nat \ {0} /\ (n + 1) - 1 = n
    BY <1>1, SMT
  <2>2. Tip(q, client, k, n + 1, b)
    BY <1>2, <1>4, <1>5 DEF Said
  <2>3. client'[k] = IF q[1].codex = k THEN q[1] ELSE client[k]
    BY <1>3
  <2>4. \A l \in 1 .. (n + 1) - 1 : send[l] = q[l + 1]
    BY <1>2, <2>1
  <2> HIDE DEF n
  <2>5. Tip(send, client', k, (n + 1) - 1, b)
    BY <2>1, <2>2, <2>3, <2>4, TipWritten
  <2>6. Tip(send, client', k, n, b)
    BY <2>1, <2>5
  <2> QED
    BY <1>4, <2>6 DEF Said, n
<1>6. ASSUME Good(Over, q, client) PROVE Good(Over, send, client')
  <2>1. q # <<>> /\ Tail(q) = send
    <3>1. q # <<>> /\ Tail(q) \in Seq(Frames) /\ Len(Tail(q)) = n /\ \A l \in 1 .. n : Tail(q)[l] = q[l + 1]
      BY <1>1, <1>2, SMT
    <3> QED
      BY <1>1, <1>2, <3>1, SameSeq
  <2> QED
    BY <1>2, <1>3, <1>6, <2>1, GoodWritten
<1> QED
  BY <1>4, <1>5, <1>6 DEF PipeSame

\* What the writer does, as long as it goes on.
LEMMA WriterPipe ==
    ASSUME TypeOK, WriterStep, Talking'
    PROVE  Talking /\ PipeSame
<1>0. writer \in [pc : {"top", "select", "writing", "closing", "clearing", "done"}, frame : Frames]
  BY DEF TypeOK
<1>1. CASE WriterTop
  <2>1. writer.pc = "top" /\ send' = send /\ client' = client
    BY <1>1 DEF WriterTop, written
  <2>2. Talking /\ Out = send
    BY <2>1 DEF Talking, Out
  <2>3. CASE writer' = [pc |-> "writing", frame |-> Plain("close")]
    <3>1. writer'.pc = "writing" /\ writer'.frame = Plain("close")
      BY <2>3
    <3>2. Out' = <<Plain("close")>> \o send
      BY <2>1, <3>1 DEF Out
    <3> QED
      BY <2>1, <2>2, <3>2, CloseFirst
  <2>4. CASE writer' = [writer EXCEPT !.pc = "select"]
    <3>1. writer'.pc = "select"
      BY <1>0, <2>4, SMT
    <3>2. Out' = send
      BY <2>1, <3>1 DEF Out
    <3> QED
      BY <2>1, <2>2, <3>2, OutSame
  <2> QED
    BY <1>1, <2>3, <2>4 DEF WriterTop
<1>2. CASE WriterSelect
  <2>1. writer.pc = "select" /\ client' = client
    BY <1>2 DEF WriterSelect, written
  <2>2. Talking /\ Out = send
    BY <2>1 DEF Talking, Out
  <2>3. CASE writer' = [pc |-> "writing", frame |-> Plain("close")] /\ send' = send
    <3>1. writer'.pc = "writing" /\ writer'.frame = Plain("close")
      BY <2>3
    <3>2. Out' = <<Plain("close")>> \o send
      BY <2>3, <3>1 DEF Out
    <3> QED
      BY <2>1, <2>2, <3>2, CloseFirst
  <2>4. CASE send # <<>> /\ send' = Tail(send) /\ writer' = [pc |-> "writing", frame |-> Head(send)]
    <3>1. writer'.pc = "writing" /\ writer'.frame = Head(send)
      BY <2>4
    <3>2. Out' = <<Head(send)>> \o Tail(send)
      BY <2>4, <3>1 DEF Out
    <3>3. send \in Seq(Frames) /\ send # <<>>
      BY <2>4 DEF TypeOK
    <3>4. <<Head(send)>> \o Tail(send) = send
      BY <3>3, HeadTail
    <3> QED
      BY <2>1, <2>2, <3>2, <3>4, OutSame
  <2>5. CASE writer' = [writer EXCEPT !.pc = "done"]
    <3>1. writer'.pc = "done"
      BY <1>0, <2>5, SMT
    <3> QED
      BY <3>1 DEF Talking
  <2> QED
    BY <1>2, <2>3, <2>4, <2>5 DEF WriterSelect
<1>3. CASE Write
  <2>1. writer.pc = "writing" /\ send' = send /\ Record(writer.frame)
    BY <1>3 DEF Write
  <2>2. CASE writer' = [pc |-> "done", frame |-> Nothing]
    <3>1. writer'.pc = "done"
      BY <2>2
    <3> QED
      BY <3>1 DEF Talking
  <2>3. CASE writer' = [pc |-> "top", frame |-> Nothing]
    <3>1. writer'.pc = "top" /\ writer.frame \in Frames
      BY <1>0, <2>3, SMT
    <3>2. Out = <<writer.frame>> \o send /\ Out' = send /\ Talking
      BY <2>1, <3>1 DEF Out, Talking
    <3> QED
      BY <2>1, <3>1, <3>2, FirstWritten
  <2> QED
    BY <1>3, <2>2, <2>3 DEF Write
<1>4. CASE WriteFails \/ WriteTooLarge \/ WriterShutdown
  <2>1. \/ writer' = [pc |-> "closing", frame |-> Nothing] \/ writer' = [pc |-> "done", frame |-> Nothing]
        \/ writer' = [writer EXCEPT !.pc = "clearing"] \/ writer' = [writer EXCEPT !.pc = "done"]
    BY <1>4 DEF WriteFails, WriteTooLarge, WriterShutdown
  <2>2. writer'.pc \in {"closing", "clearing", "done"}
    BY <1>0, <2>1, SMT
  <2> QED
    BY <2>2 DEF Talking
<1> QED
  BY <1>1, <1>2, <1>3, <1>4 DEF WriterStep

\* A channel that goes on does so however many watches have ended.
LEMMA ChainMore ==
    ASSUME NEW over, NEW more, over \subseteq more, NEW w, NEW k, NEW q, NEW n, Chain(over, w, k, q, n)
    PROVE  Chain(more, w, k, q, n)
BY DEF Chain, Next1

\* The events of a watch that has not ended are numbered one after the other.
LEMMA ChainSteps ==
    ASSUME NEW over, NEW w, w \notin over, NEW k, NEW q \in Seq(Frames), NEW n \in Nat, Chain(over, w, k, q, n)
    PROVE  \A i \in 1 .. Len(q) :
               /\ IsEvent(q[i]) /\ q[i].codex = k /\ q[i].watch = w /\ q[i].kind # "forgotten"
               /\ q[i].seq = (IF i = 1 THEN n ELSE q[i - 1].seq) + 1 /\ q[i].seq \in Nat
<1> SUFFICES ASSUME NEW i \in 1 .. Len(q)
             PROVE  /\ IsEvent(q[i]) /\ q[i].codex = k /\ q[i].watch = w /\ q[i].kind # "forgotten"
                    /\ q[i].seq = (IF i = 1 THEN n ELSE q[i - 1].seq) + 1 /\ q[i].seq \in Nat
  OBVIOUS
<1>1. q[i] \in Frames
  BY SMT
<1>2. q[i].seq \in Nat
  BY <1>1, BoundAssumption, SMT DEF Frames
<1> QED
  BY <1>2 DEF Chain, Next1

\* A frame behind the others.
LEMMA Appended ==
    ASSUME NEW q \in Seq(Frames), NEW e \in Frames
    PROVE  /\ Append(q, e) \in Seq(Frames) /\ Len(q) \in Nat /\ Len(Append(q, e)) = Len(q) + 1
           /\ Append(q, e)[Len(q) + 1] = e /\ \A i \in 1 .. Len(q) : Append(q, e)[i] = q[i]
           /\ Append(q, e) # <<>>
BY SMT

NoForgotten(q) == \A i \in 1 .. Len(q) : q[i].kind # "forgotten"

\* An event behind the others.
LEMMA ChainAppend ==
    ASSUME NEW over, NEW more, over \subseteq more, NEW w,
           NEW k, NEW q \in Seq(Frames), NEW n \in Nat, Chain(over, w, k, q, n),
           NoForgotten(q),
           NEW e \in Frames, IsEvent(e), e.codex = k, e.watch = w, e.kind = "forgotten" => w \in more,
           Next1(more, w, EndsAt(q, n), e.seq)
    PROVE  Chain(more, w, k, Append(q, e), n) /\ EndsAt(Append(q, e), n) = e.seq
<1> DEFINE p == Append(q, e)
           m == Len(q)
<1>1. /\ m \in Nat /\ Len(p) = m + 1 /\ p[m + 1] = e /\ p # <<>> /\ \A i \in 1 .. m : p[i] = q[i]
  BY Appended
<1> HIDE DEF p
<1>2. EndsAt(p, n) = e.seq
  BY <1>1 DEF EndsAt
<1>3. ASSUME NEW i \in 1 .. m + 1
      PROVE  /\ IsEvent(p[i]) /\ p[i].codex = k /\ p[i].watch = w
             /\ p[i].kind = "forgotten" => i = Len(p) /\ w \in more
             /\ Next1(more, w, IF i = 1 THEN n ELSE p[i - 1].seq, p[i].seq)
  <2>1. CASE i \in 1 .. m
    <3>1. p[i] = q[i] /\ (i # 1 => p[i - 1] = q[i - 1])
      <4>1. i # 1 => i - 1 \in 1 .. m
        BY <1>1, <2>1, SMT
      <4> QED
        BY <1>1, <2>1, <4>1
    <3>2. /\ IsEvent(q[i]) /\ q[i].codex = k /\ q[i].watch = w /\ q[i].kind # "forgotten"
          /\ Next1(over, w, IF i = 1 THEN n ELSE q[i - 1].seq, q[i].seq)
      BY <2>1 DEF Chain, NoForgotten
    <3>3. Next1(more, w, IF i = 1 THEN n ELSE q[i - 1].seq, q[i].seq)
      BY <3>2 DEF Next1
    <3>4. (IF i = 1 THEN n ELSE q[i - 1].seq) = (IF i = 1 THEN n ELSE p[i - 1].seq)
      BY <3>1
    <3>5. Next1(more, w, IF i = 1 THEN n ELSE p[i - 1].seq, p[i].seq)
      BY <3>1, <3>3, <3>4
    <3> QED
      BY <3>1, <3>2, <3>5
  <2>2. CASE i = m + 1
    <3>1. p[i] = e /\ i = Len(p)
      BY <1>1, <2>2
    <3>2. EndsAt(q, n) = IF i = 1 THEN n ELSE p[i - 1].seq
      <4>1. CASE m = 0
        <5>1. q = <<>> /\ i = 1
          BY <2>2, <4>1, SMT
        <5> QED
          BY <5>1 DEF EndsAt
      <4>2. CASE m # 0
        <5>1. q # <<>> /\ i # 1 /\ i - 1 = m /\ m \in 1 .. m
          BY <1>1, <2>2, <4>2, SMT
        <5>2. p[m] = q[m]
          BY <1>1, <5>1
        <5> QED
          BY <5>1, <5>2 DEF EndsAt
      <4> QED
        BY <4>1, <4>2
    <3> QED
      BY <3>1, <3>2
  <2>3. i \in 1 .. m \/ i = m + 1
    BY <1>1, SMT
  <2> QED
    BY <2>1, <2>2, <2>3
<1> QED
  BY <1>1, <1>2, <1>3 DEF Chain, p

\* An event of the channel is discarded: its watch ends, and may skip one.
LEMMA ChainWithout ==
    ASSUME NEW over, NEW more, over \subseteq more, NEW w, w \notin over, w \in more, NEW k,
           NEW q \in Seq(Frames), NEW n \in Nat, Chain(over, w, k, q, n), NEW i \in 1 .. Len(q)
    PROVE  /\ Chain(more, w, k, Without(q, i), n)
           /\ Next1(more, w, EndsAt(Without(q, i), n), EndsAt(q, n) + 1)
           /\ NoForgotten(Without(q, i))
<1> DEFINE p == Without(q, i)
           m == Len(q)
           s(j) == IF j = 0 THEN n ELSE q[j].seq
<1>1. m \in Nat \ {0} /\ i \in 1 .. m
  BY SMT
<1>2. /\ p \in Seq(Frames) /\ Len(p) = m - 1
      /\ \A j \in 1 .. m - 1 : p[j] = IF j < i THEN q[j] ELSE q[j + 1]
  BY WithoutType
<1>3. ASSUME NEW j \in 1 .. m
      PROVE  /\ IsEvent(q[j]) /\ q[j].codex = k /\ q[j].watch = w /\ q[j].kind # "forgotten"
             /\ s(j) = s(j - 1) + 1 /\ s(j - 1) \in Nat /\ s(j) \in Nat
  <2>1. /\ IsEvent(q[j]) /\ q[j].codex = k /\ q[j].watch = w /\ q[j].kind # "forgotten"
        /\ q[j].seq = (IF j = 1 THEN n ELSE q[j - 1].seq) + 1 /\ q[j].seq \in Nat
    BY ChainSteps
  <2>2. j # 0 /\ (j = 1 <=> j - 1 = 0) /\ (j = 1 \/ j - 1 \in 1 .. m)
    BY <1>1, SMT
  <2>3. \A l \in 1 .. m : q[l].seq \in Nat
    BY ChainSteps
  <2> QED
    BY <2>1, <2>2, <2>3
<1>4. \A j \in 1 .. m : s(j) = q[j].seq
  BY <1>1, SMT
<1> HIDE DEF p, s
<1>5. ASSUME NEW j \in 1 .. m - 1
      PROVE  /\ IsEvent(p[j]) /\ p[j].codex = k /\ p[j].watch = w /\ p[j].kind # "forgotten"
             /\ Next1(more, w, IF j = 1 THEN n ELSE p[j - 1].seq, p[j].seq)
  <2>1. j \in 1 .. m /\ j + 1 \in 1 .. m /\ (j # 1 => j - 1 \in 1 .. m - 1 /\ j - 1 \in 1 .. m)
    BY <1>1, SMT
  <2>2. p[j] = IF j < i THEN q[j] ELSE q[j + 1]
    BY <1>2
  <2>3. IsEvent(p[j]) /\ p[j].codex = k /\ p[j].watch = w /\ p[j].kind # "forgotten"
    BY <1>3, <2>1, <2>2
  <2>4. p[j].seq = IF j < i THEN s(j) ELSE s(j + 1)
    BY <1>4, <2>1, <2>2
  <2>5. (IF j = 1 THEN n ELSE p[j - 1].seq) = IF j <= i THEN s(j - 1) ELSE s(j)
    <3>1. CASE j = 1
      <4>1. j - 1 = 0 /\ j <= i
        BY <1>1, <3>1, SMT
      <4> QED
        BY <3>1, <4>1 DEF s
    <3>2. CASE j # 1
      <4>1. p[j - 1] = IF j - 1 < i THEN q[j - 1] ELSE q[(j - 1) + 1]
        BY <1>2, <2>1, <3>2
      <4>2. (j - 1 < i <=> j <= i) /\ (j - 1) + 1 = j
        BY <1>1, SMT
      <4> QED
        BY <1>4, <2>1, <3>2, <4>1, <4>2
    <3> QED
      BY <3>1, <3>2
  <2> DEFINE a == s(j - 1)
             b == s(j)
             c == s(j + 1)
  <2>6. a \in Nat /\ b = a + 1 /\ c = b + 1
    <3>1. s(j + 1) = s((j + 1) - 1) + 1
      BY <1>3, <2>1
    <3>2. (j + 1) - 1 = j
      BY SMT
    <3> QED
      BY <1>3, <2>1, <3>1, <3>2
  <2> HIDE DEF a, b, c
  <2> DEFINE x == IF j <= i THEN a ELSE b
             y == IF j < i THEN b ELSE c
  <2>7. y = x + 1 \/ y = x + 2
    BY <1>1, <2>6, SMT
  <2>8. Next1(more, w, x, y)
    BY <2>7 DEF Next1
  <2> QED
    BY <2>3, <2>4, <2>5, <2>8 DEF a, b, c
<1>6. Chain(more, w, k, p, n)
  BY <1>2, <1>5 DEF Chain
<1>7. Next1(more, w, EndsAt(p, n), EndsAt(q, n) + 1)
  <2>1. EndsAt(q, n) = s(m)
    <3>1. q # <<>> /\ m \in 1 .. m
      BY <1>1, SMT
    <3> QED
      BY <1>4, <3>1 DEF EndsAt
  <2>2. EndsAt(p, n) = IF i = m THEN s(m - 1) ELSE s(m)
    <3>1. CASE m = 1
      <4>1. p = <<>> /\ i = m /\ m - 1 = 0
        BY <1>1, <1>2, <3>1, SMT
      <4> QED
        BY <4>1 DEF EndsAt, s
    <3>2. CASE m # 1
      <4>1. /\ p # <<>> /\ m - 1 \in 1 .. m - 1 /\ m - 1 \in 1 .. m /\ m \in 1 .. m
            /\ (m - 1 < i <=> i = m) /\ (m - 1) + 1 = m
        BY <1>1, <1>2, <3>2, SMT
      <4>2. p[m - 1] = IF m - 1 < i THEN q[m - 1] ELSE q[(m - 1) + 1]
        BY <1>2, <4>1
      <4> QED
        BY <1>2, <1>4, <4>1, <4>2 DEF EndsAt
    <3> QED
      BY <3>1, <3>2
  <2> DEFINE a == s(m - 1)
             b == s(m)
             x == IF i = m THEN a ELSE b
  <2>3. a \in Nat /\ b = a + 1
    <3>1. m \in 1 .. m
      BY <1>1, SMT
    <3> QED
      BY <1>3, <3>1
  <2> HIDE DEF a, b
  <2>4. b + 1 = x + 1 \/ b + 1 = x + 2
    BY <2>3, SMT
  <2>5. Next1(more, w, x, b + 1)
    BY <2>4 DEF Next1
  <2> QED
    BY <2>1, <2>2, <2>5 DEF a, b
<1> QED
  BY <1>2, <1>5, <1>6, <1>7 DEF NoForgotten, p

\* A watch that has ended stays so.
LEMMA OverGrows ==
    ASSUME \A w \in WatchIds : Fades(watch[w], watch'[w]) \/ watch[w].state = "none"
    PROVE  Over \subseteq Over'
BY DEF Over, Fades

\* Nothing comes into the channel.
LEMMA CalmFades ==
    ASSUME NEW w \in WatchIds, Fades(watch[w], watch'[w]), watch'[w].events = watch[w].events,
           watch'[w].state = "registered" => head'[watch[w].codex] = head[watch[w].codex],
           Over \subseteq Over'
    PROVE  Calm(w)
<1>1. watch'[w].codex = watch[w].codex /\ (watch'[w].state = "registered" => watch[w].state = "registered")
  BY DEF Fades
<1>2. ASSUME NEW n \in Nat, Live(w, n) PROVE Live(w, n)'
  <2>1. Chain(Over', w, watch[w].codex, watch[w].events, n)
    BY <1>2, ChainMore DEF Live
  <2> QED
    BY <1>1, <1>2, <2>1 DEF Live
<1>3. More(w)' => More(w)
  BY <1>1 DEF More
<1> QED
  BY <1>2, <1>3 DEF Calm

\* An event or CodexForgotten comes into a channel, perhaps for another.
LEMMA CalmGrows ==
    ASSUME TypeOK, NEW w \in WatchIds, watch[w].state = "registered",
           NEW k \in Codexes, watch[w].codex = k, watch'[w].codex = k,
           NEW e \in Frames, IsEvent(e), e.codex = k, e.watch = w, e.seq = head[k] + 1,
           Over \subseteq Over', e.kind = "forgotten" => w \in Over',
           watch'[w].state = "registered" => head'[k] = head[k] + 1,
           NEW p, watch'[w].events = Append(p, e),
           \/ p = watch[w].events
           \/ w \in Over' /\ \E i \in 1 .. Len(watch[w].events) : p = Without(watch[w].events, i)
    PROVE  Calm(w)
<1> DEFINE q == watch[w].events
<1>1. q \in Seq(Frames) /\ w \notin Over
  BY WatchIs DEF Over
<1>2. ASSUME NEW n \in Nat, Live(w, n) PROVE Live(w, n)'
  <2>1. Chain(Over, w, k, q, n) /\ head[k] = EndsAt(q, n)
    BY <1>2 DEF Live
  <2>2. /\ p \in Seq(Frames) /\ Chain(Over', w, k, p, n) /\ Next1(Over', w, EndsAt(p, n), e.seq)
        /\ NoForgotten(p)
    <3>1. CASE p = q
      <4>1. Chain(Over', w, k, q, n)
        BY <2>1, ChainMore
      <4>2. NoForgotten(q)
        BY <1>1, <2>1 DEF Chain, NoForgotten
      <4> QED
        BY <1>1, <2>1, <3>1, <4>1, <4>2 DEF Next1
    <3>2. CASE w \in Over' /\ \E i \in 1 .. Len(q) : p = Without(q, i)
      <4>1. PICK i \in 1 .. Len(q) : p = Without(q, i)
        BY <3>2
      <4>2. p \in Seq(Frames)
        BY <1>1, <4>1, WithoutType
      <4>3. /\ Chain(Over', w, k, p, n) /\ Next1(Over', w, EndsAt(p, n), EndsAt(q, n) + 1)
            /\ NoForgotten(p)
        <5> HIDE DEF q
        <5>1. Chain(Over', w, k, Without(q, i), n)
          BY <1>1, <2>1, <3>2, ChainWithout
        <5>2. Next1(Over', w, EndsAt(Without(q, i), n), EndsAt(q, n) + 1)
          BY <1>1, <2>1, <3>2, ChainWithout
        <5>3. NoForgotten(Without(q, i))
          BY <1>1, <2>1, <3>2, ChainWithout
        <5> QED
          BY <4>1, <5>1, <5>2, <5>3
      <4> QED
        BY <2>1, <4>2, <4>3
    <3> QED
      BY <3>1, <3>2
  <2>3. Chain(Over', w, k, Append(p, e), n) /\ EndsAt(Append(p, e), n) = e.seq
    BY <2>2, ChainAppend
  <2> QED
    BY <2>3 DEF Live
<1>3. More(w) /\ ~(w \in Over)
  BY <1>1 DEF More
<1> QED
  BY <1>2, <1>3 DEF Calm

\* Of the activity store.
LEMMA CalmStore ==
    ASSUME TypeOK, NEW k \in Codexes, Publish(k) \/ Forget(k), NEW w \in WatchIds, watch[w].codex \in Codexes
    PROVE  Calm(w) /\ Over \subseteq Over'
<1>1. \A v \in WatchIds : Fades(watch[v], watch'[v])
  <2> SUFFICES ASSUME NEW v \in WatchIds PROVE Fades(watch[v], watch'[v])
    OBVIOUS
  <2>1. watch'[v] = Delivered(k, v) \/ \E i \in 1 .. WatchQueueSize : watch'[v] = Ended(k, v, i)
    BY DEF Publish, Forget
  <2> QED
    BY <2>1, DeliveredFades
<1>2. Over \subseteq Over'
  BY <1>1, OverGrows
<1> DEFINE r == watch[w]
           q == r.events
           s == head[k] + 1
<1>3. /\ r \in Watches /\ q \in Seq(Frames) /\ Len(q) <= WatchQueueSize /\ head \in [Codexes -> 0 .. MaxSeq]
      /\ s \in 0 .. MaxSeq + 1
  BY WatchIs, HeadIs
<1>4. \A kind \in {"event", "forgotten"} :
          LET e == Frame(kind, k, w, s)
          IN  e \in Frames /\ IsEvent(e) /\ e.codex = k /\ e.watch = w /\ e.seq = s /\ e.kind = kind
  <2> SUFFICES ASSUME NEW kind \in {"event", "forgotten"}
               PROVE  LET e == Frame(kind, k, w, s)
                      IN  e \in Frames /\ IsEvent(e) /\ e.codex = k /\ e.watch = w /\ e.seq = s /\ e.kind = kind
    OBVIOUS
  <2>1. kind \in Kinds
    BY SMT DEF Kinds
  <2> HIDE DEF s
  <2>2. Frame(kind, k, w, s) \in Frames
    BY <1>3, <2>1, FrameType
  <2> QED
    BY <2>2 DEF Frame, IsEvent
<1>5. CASE r.codex # k \/ r.state # "registered"
  <2>1. watch'[w] = r /\ head'[r.codex] = IF r.codex = k THEN head'[k] ELSE head[r.codex]
    <3>1. CASE Publish(k)
      <4>1. watch'[w] = Delivered(k, w) /\ head' = [head EXCEPT ![k] = head[k] + 1]
        BY <3>1 DEF Publish
      <4>2. watch'[w] = r
        BY <1>5, <4>1 DEF Delivered
      <4>3. head'[r.codex] = IF r.codex = k THEN head'[k] ELSE head[r.codex]
        BY <1>3, <4>1, SMT
      <4> QED
        BY <4>2, <4>3
    <3>2. CASE Forget(k)
      <4>1. (\E i \in 1 .. WatchQueueSize : watch'[w] = Ended(k, w, i)) /\ head' = head
        BY <3>2 DEF Forget
      <4> QED
        BY <1>5, <4>1 DEF Ended
    <3> QED
      BY <3>1, <3>2
  <2> QED
    BY <1>1, <1>2, <1>5, <2>1, CalmFades
<1>6. CASE r.codex = k /\ r.state = "registered"
  <2>1. CASE Publish(k)
    <3>1. watch'[w] = Delivered(k, w) /\ head' = [head EXCEPT ![k] = head[k] + 1]
      BY <2>1 DEF Publish
    <3>2. head'[k] = s
      BY <1>3, <3>1, SMT
    <3>3. CASE watch'[w] = [r EXCEPT !.events = Append(q, Frame("event", k, w, s))]
      <4> DEFINE e == Frame("event", k, w, s)
      <4>1. e \in Frames /\ IsEvent(e) /\ e.codex = k /\ e.watch = w /\ e.seq = s /\ e.kind # "forgotten"
        BY <1>4
      <4> HIDE DEF e
      <4>2. watch'[w].events = Append(q, e) /\ watch'[w].codex = k /\ watch'[w].state = "registered"
        BY <1>3, <1>6, <3>3, SMT DEF Watches, e
      <4> QED
        BY <1>2, <1>6, <3>2, <4>1, <4>2, CalmGrows
    <3>4. CASE watch'[w] = [r EXCEPT !.state = "slow"]
      <4>1. watch'[w].events = q /\ watch'[w].state = "slow"
        BY <1>3, <3>4, SMT DEF Watches
      <4> QED
        BY <1>1, <1>2, <4>1, CalmFades
    <3> QED
      BY <1>6, <3>1, <3>3, <3>4 DEF Delivered
  <2>2. CASE Forget(k)
    <3>1. PICK i \in 1 .. WatchQueueSize : watch'[w] = Ended(k, w, i)
      BY <2>2 DEF Forget
    <3> DEFINE p == IF Len(q) = WatchQueueSize THEN Without(q, i) ELSE q
               e == Frame("forgotten", k, w, s)
    <3>2. e \in Frames /\ IsEvent(e) /\ e.codex = k /\ e.watch = w /\ e.seq = s
      BY <1>4
    <3>3. watch'[w] = [r EXCEPT !.events = Append(p, e), !.state = "closed"]
      BY <1>6, <3>1 DEF Ended
    <3>4. p = q \/ \E j \in 1 .. Len(q) : p = Without(q, j)
      OBVIOUS
    <3> HIDE DEF e, p
    <3>5. watch'[w].events = Append(p, e) /\ watch'[w].codex = k /\ watch'[w].state = "closed"
      BY <1>3, <1>6, <3>3, SMT DEF Watches
    <3>6. w \in Over'
      BY <3>5 DEF Over
    <3> QED
      BY <1>2, <1>6, <3>2, <3>4, <3>5, <3>6, CalmGrows
  <2> QED
    BY <1>2, <2>1, <2>2
<1> QED
  BY <1>2, <1>5, <1>6

\* A watch that a step leaves in its place, with what is being said of it.
Steady(w) ==
    /\ Calm(w)
    /\ \A t \in Tasks : task'[t].watch = w /\ task'[t].pc \in {"answering", "replaying"} => task'[t] = task[t]
    /\ forward'[w].pc \in {"run", "got"} => forward'[w] = forward[w]

\* What most steps do: watches keep their places or lose them, and what is on its
\* way to the client says the same of each Codex.
LEMMA StreamKept ==
    ASSUME TypeOK, TypeOK', Stream, Over \subseteq Over', Talking' => Talking /\ PipeSame,
           \A k \in Codexes, w \in WatchIds : watches'[k] = w => watches[k] = w /\ Steady(w)
    PROVE  Stream'
<1> SUFFICES ASSUME Talking' PROVE Good(Over, Out, client)' /\ Lines'
  BY DEF Stream
<1>1. Talking /\ PipeSame /\ Good(Over, Out, client) /\ Lines
  BY DEF Stream
<1>2. Good(Over, Out, client)'
  <2>1. Good(Over, Out', client')
    BY <1>1 DEF PipeSame
  <2> QED
    BY <2>1, GoodMore
<1>3. ASSUME NEW k \in Codexes, NEW w \in WatchIds, watches'[k] = w PROVE LineOf(k, w)'
  <2>1. Steady(w) /\ LineOf(k, w)
    BY <1>1, <1>3 DEF Lines
  <2>2. \A b \in Frames : Said(k, b) => Said(k, b)'
    BY <1>1 DEF PipeSame
  <2> QED
    BY <2>1, <2>2, LineKept DEF Steady
<1> QED
  BY <1>2, <1>3 DEF Lines

\* A frame about one Codex is queued: its watch has what is said of it to be shown.
LEMMA StreamSaid ==
    ASSUME TypeOK, TypeOK', Stream, Over \subseteq Over', NEW k \in Codexes,
           NEW f, Queued(f), f.codex = k,
           Talking /\ IsEvent(f) => \E b \in Frames : Said(k, b) /\ Follows(Over, f, b),
           \A j \in Codexes, w \in WatchIds : j # k /\ watches'[j] = w => watches[j] = w /\ Steady(w),
           \A w \in WatchIds : Talking /\ watches'[k] = w => LineOf(k, w)'
    PROVE  Stream'
<1> SUFFICES ASSUME Talking' PROVE Good(Over, Out, client)' /\ Lines'
  BY DEF Stream
<1>1. Talking
  BY DEF Talking, Queued
<1>2. Good(Over, Out, client) /\ Lines
  BY <1>1 DEF Stream
<1>3. Good(Over, Out, client)'
  BY <1>1, <1>2, QueuedGood
<1>4. ASSUME NEW j \in Codexes, NEW w \in WatchIds, watches'[j] = w PROVE LineOf(j, w)'
  <2>1. CASE j = k
    BY <1>1, <1>4, <2>1
  <2>2. CASE j # k
    <3>1. Steady(w) /\ LineOf(j, w)
      BY <1>2, <1>4, <2>2 DEF Lines
    <3>2. \A b \in Frames : Said(j, b) => Said(j, b)'
      BY <2>2, QueuedSaid
    <3> QED
      BY <3>1, <3>2, LineKept DEF Steady
  <2> QED
    BY <2>1, <2>2
<1> QED
  BY <1>3, <1>4 DEF Lines

\* Nothing is queued, or a frame that is about no Codex.
Chats ==
    /\ writer' = writer /\ client' = client
    /\ send' = send \/ \E kind \in {"hello", "ping", "pong", "response"} : send' = Append(send, Plain(kind))

\* What is said of the Codexes stays.
LEMMA ChatsPipe ==
    ASSUME TypeOK, Chats
    PROVE  Talking' => Talking /\ PipeSame
<1>1. Talking' => Talking
  BY DEF Talking, Chats
<1>2. CASE send' = send
  <2>1. Out' = Out /\ client' = client
    BY <1>2 DEF Out, Chats
  <2> QED
    BY <1>1, <2>1, OutSame
<1>3. ASSUME NEW kind \in {"hello", "ping", "pong", "response"}, send' = Append(send, Plain(kind))
      PROVE  PipeSame
  <2> DEFINE f == Plain(kind)
  <2>1. f \in Frames /\ f.codex = NoCodex /\ ~IsEvent(f)
    <3>1. kind \in Kinds
      BY SMT DEF Kinds
    <3>2. f \in Frames
      BY <3>1, PlainType
    <3>3. f.codex = NoCodex /\ f.kind = kind
      BY DEF Plain, Frame
    <3>4. kind \notin {"event", "forgotten"}
      BY SMT
    <3> QED
      BY <3>2, <3>3, <3>4 DEF IsEvent
  <2>2. Queued(f)
    BY <1>3, <2>1 DEF Queued, Chats
  <2> HIDE DEF f
  <2>3. \A k \in Codexes : f.codex # k
    BY <2>1, CodexAssumption
  <2>4. ASSUME NEW k \in Codexes, NEW b \in Frames, Said(k, b) PROVE Said(k, b)'
    BY <2>2, <2>3, <2>4, QueuedSaid
  <2>5. Out' = Append(Out, f) /\ client' = client
    BY <2>2, OutAppend DEF Queued
  <2>6. Good(Over, Out, client) => Good(Over, Append(Out, f), client)
    BY <2>1, OutType, GoodAppend
  <2> QED
    BY <2>4, <2>5, <2>6 DEF PipeSame
<1> QED
  BY <1>1, <1>2, <1>3 DEF Chats

\* A watch has one place.
LEMMA OnePlace ==
    ASSUME WInv, NEW j \in Codexes, NEW k \in Codexes, NEW w \in WatchIds, watches[j] = w, watches[k] = w
    PROVE  j = k
<1>1. w # 0
  BY NotNone
<1>2. watch[w].codex = j
  BY <1>1 DEF WInv, Places
<1>3. watch[w].codex = k
  BY <1>1 DEF WInv, Places
<1> QED
  BY <1>2, <1>3

\* The store is left alone, or watches are cancelled.
LEMMA CalmSame ==
    ASSUME watch' = watch, head' = head
    PROVE  Over \subseteq Over' /\ \A w \in WatchIds : Calm(w)
<1>1. Over \subseteq Over'
  BY DEF Over
<1> QED
  BY <1>1, FadesSame, CalmFades

\* A Cancel puts nothing into a channel.
LEMMA CalmCancelled ==
    ASSUME TypeOK, NEW ids, watch' = Cancelled(ids), head' = head
    PROVE  Over \subseteq Over' /\ \A w \in WatchIds : Calm(w)
<1>0. WatchT
  BY Parts
<1>1. \A w \in WatchIds : Fades(watch[w], watch'[w]) /\ watch'[w].events = watch[w].events
  BY <1>0, CancelledFades
<1>2. Over \subseteq Over'
  BY <1>1, OverGrows
<1> QED
  BY <1>1, <1>2, CalmFades

\* The loops of the connection.
LEMMA QuietStream ==
    ASSUME TypeOK, TypeOK', Stream, UNCHANGED <<watches, task, forward, watch, head>>,
           Talking' => Talking /\ PipeSame
    PROVE  Stream'
<1>1. watches' = watches /\ task' = task /\ forward' = forward /\ watch' = watch /\ head' = head
  OBVIOUS
<1>2. Over \subseteq Over' /\ \A w \in WatchIds : Calm(w)
  BY <1>1, CalmSame
<1>3. \A w \in WatchIds : Steady(w)
  BY <1>1, <1>2 DEF Steady
<1> QED
  BY <1>1, <1>2, <1>3, StreamKept

\* The end of them all.
LEMMA ClearStream ==
    ASSUME TypeOK, TypeOK', Stream, clearWatches, Talking' => Talking /\ PipeSame
    PROVE  Stream'
<1>1. watch' = Cancelled(Current) /\ head' = head /\ watches' = [k \in Codexes |-> 0]
  BY DEF clearWatches
<1>2. Over \subseteq Over'
  BY <1>1, CalmCancelled
<1>3. \A k \in Codexes, w \in WatchIds : watches'[k] # w
  BY <1>1, BoundAssumption, SMT DEF WatchIds
<1> QED
  BY <1>2, <1>3, StreamKept

\* The steps of the three loops keep the stream.
LEMMA LoopsStream ==
    ASSUME TypeOK, TypeOK', Stream,
           \/ ReadHello \/ ReadPing \/ ReadBad \/ ReadEnds \/ ReaderStep \/ PeerGone
           \/ Ping \/ HeartbeatCloses \/ HeartbeatEnds \/ WriterStep
    PROVE  Stream'
<1>1. CASE ReadHello
  <2>1. UNCHANGED <<watches, task, forward, watch, head>> /\ Chats
    BY <1>1 DEF ReadHello, locked, store, written, enqueue, Chats
  <2> QED
    BY <2>1, ChatsPipe, QuietStream
<1>2. CASE ReadPing
  <2>1. UNCHANGED <<watches, task, forward, watch, head>> /\ Chats
    BY <1>2 DEF ReadPing, locked, store, written, enqueue, Chats
  <2> QED
    BY <2>1, ChatsPipe, QuietStream
<1>3. CASE Ping
  <2>1. UNCHANGED <<watches, task, forward, watch, head>> /\ Chats
    BY <1>3 DEF Ping, locked, store, written, enqueue, Chats
  <2> QED
    BY <2>1, ChatsPipe, QuietStream
<1>4. CASE ReadBad \/ ReadEnds \/ ReaderDropped \/ PeerGone \/ HeartbeatCloses \/ HeartbeatEnds
  <2>1. UNCHANGED <<watches, task, forward, watch, head>> /\ UNCHANGED <<writer, client, send>>
    BY <1>4 DEF ReadBad, ReadEnds, ReaderDropped, PeerGone, HeartbeatCloses, HeartbeatEnds, locked,
                store, written, loops
  <2>2. Chats
    BY <2>1 DEF Chats
  <2> QED
    BY <2>1, <2>2, ChatsPipe, QuietStream
<1>5. CASE ReaderShutdown
  <2>1. UNCHANGED <<writer, client, send, task, forward>>
    BY <1>5 DEF ReaderShutdown, written
  <2>2. Chats
    BY <2>1 DEF Chats
  <2>3. CASE clearWatches
    BY <2>2, <2>3, ChatsPipe, ClearStream
  <2>4. CASE UNCHANGED <<locked, store>>
    <3>1. UNCHANGED <<watches, task, forward, watch, head>>
      BY <2>1, <2>4 DEF locked, store
    <3> QED
      BY <2>2, <3>1, ChatsPipe, QuietStream
  <2> QED
    BY <1>5, <2>3, <2>4 DEF ReaderShutdown
<1>6. CASE WriterStep
  <2>1. Talking' => Talking /\ PipeSame
    BY <1>6, WriterPipe
  <2>2. CASE clearWatches
    BY <2>1, <2>2, ClearStream
  <2>3. CASE UNCHANGED <<watches, task, forward, watch, head>>
    BY <2>1, <2>3, QuietStream
  <2> QED
    BY <1>6, <2>2, <2>3 DEF WriterStep, WriterTop, WriterSelect, Write, WriteFails, WriteTooLarge,
                            WriterShutdown, locked, store
<1> QED
  BY <1>1, <1>2, <1>3, <1>4, <1>5, <1>6 DEF ReaderStep

\* A handler that is not preparing a watch.
LEMMA TaskSteady ==
    ASSUME NEW t \in Tasks, \A u \in Tasks : u # t => task'[u] = task[u],
           task'[t].pc \notin {"answering", "replaying"}, forward' = forward,
           NEW w \in WatchIds, Calm(w)
    PROVE  Steady(w)
BY DEF Steady

\* Its step keeps the stream when it gives no watch a place.
LEMMA HandlerQuiet ==
    ASSUME TypeOK, TypeOK', Stream, Chats, NEW t \in Tasks, \A u \in Tasks : u # t => task'[u] = task[u],
           task'[t].pc \notin {"answering", "replaying"}, forward' = forward,
           \A k \in Codexes, w \in WatchIds : watches'[k] = w => watches[k] = w,
           Over \subseteq Over' /\ \A w \in WatchIds : Calm(w)
    PROVE  Stream'
<1>1. \A w \in WatchIds : Steady(w)
  BY TaskSteady
<1> QED
  BY <1>1, ChatsPipe, StreamKept

\* No new place.
LEMMA PlaceGone ==
    ASSUME TypeOK, NEW k \in Codexes, watches' = [watches EXCEPT ![k] = 0]
    PROVE  (\A j \in Codexes, w \in WatchIds : watches'[j] = w => watches[j] = w) /\ watches'[k] = 0
BY BoundAssumption, SMT DEF TypeOK, WatchIds

\* A request starts its handler.
LEMMA RequestStream ==
    ASSUME TypeOK, TypeOK', WInv, Stream, NEW t \in Tasks, NEW k \in Codexes,
           NEW what \in {"watch", "unwatch", "respond"}, ReadRequest(t, what, k)
    PROVE  Stream'
<1>1. UNCHANGED <<forward, watches, watch, head>> /\ Chats
  BY DEF ReadRequest, loops, locked, store, written, Chats
<1>2. Talks(t) /\ task[t].pc = "idle"
  BY RequestTalks DEF ReadRequest
<1>3. (\A u \in Tasks : u # t => task'[u] = task[u]) /\ task'[t].pc \notin {"answering", "replaying"}
  BY <1>2 DEF Talks, Moves, Starts
<1>4. Over \subseteq Over' /\ \A w \in WatchIds : Calm(w)
  BY <1>1, CalmSame
<1> QED
  BY <1>1, <1>2, <1>3, <1>4, HandlerQuiet

\* The handlers that prepare no watch, or give one up.
LEMMA HandlersQuiet ==
    ASSUME TypeOK, TypeOK', WInv, Stream, NEW t \in Tasks,
           \/ Respond(t) \/ CheckContext(t) \/ UndoWatch(t) \/ TaskDropped(t)
           \/ Watch(t) /\ task' = [task EXCEPT ![t].pc = "respond"]
           \/ (AnswerWatch(t) \/ Replay(t)) /\ task' = [task EXCEPT ![t].pc = "undo"]
           \/ Unwatch(t) /\ task' = [task EXCEPT ![t].pc = "unlock"]
    PROVE  Stream'
<1> DEFINE k == task[t].codex
<1>0. TaskT /\ (task[t].pc \notin {"idle", "respond", "dropped"} => k \in Codexes)
  BY Parts DEF WInv, Asked
<1>1. (\A u \in Tasks : u # t => task'[u] = task[u]) /\ task'[t].pc \notin {"answering", "replaying"}
  <2>1. CASE task' = [task EXCEPT ![t] = IdleTask]
    BY <1>0, <2>1, TaskIdle
  <2>2. ASSUME NEW pc \in {"respond", "dropped", "watching", "unwatching", "undo", "unlock"},
               task' = [task EXCEPT ![t].pc = pc]
        PROVE  (\A u \in Tasks : u # t => task'[u] = task[u]) /\ task'[t].pc \notin {"answering", "replaying"}
    <3>1. task'[t].pc = pc /\ \A u \in Tasks : u # t => task'[u] = task[u]
      BY <1>0, <2>2, TaskPc
    <3> QED
      BY <3>1, SMT
  <2>3. CASE CheckContext(t)
    <3>1. (\A u \in Tasks : u # t => task'[u] = task[u]) /\ task'[t].pc \in {"respond", "watching", "unwatching"}
      <4>1. task[t].pc \in {"watch", "unwatch"}
        BY <2>3 DEF CheckContext
      <4> DEFINE pc == CASE cancelled -> "respond"
                         [] ~cancelled /\ task[t].pc = "watch" -> "watching"
                         [] ~cancelled /\ task[t].pc = "unwatch" -> "unwatching"
      <4>2. task' = [task EXCEPT ![t].pc = pc]
        BY <2>3 DEF CheckContext
      <4>3. pc \in {"respond", "watching", "unwatching"}
        BY <4>1
      <4> HIDE DEF pc
      <4> QED
        BY <1>0, <4>2, <4>3, TaskPc
    <3> QED
      BY <3>1, SMT
  <2> QED
    BY <2>1, <2>2, <2>3 DEF Respond, UndoWatch, TaskDropped
<1>2. CASE Respond(t)
  <2>1. UNCHANGED <<forward, watches, watch, head>> /\ Chats
    BY <1>2 DEF Respond, rest, loops, locked, store, written, enqueue, Chats
  <2>2. Over \subseteq Over' /\ \A w \in WatchIds : Calm(w)
    BY <2>1, CalmSame
  <2> QED
    BY <1>1, <2>1, <2>2, HandlerQuiet
<1>3. CASE CheckContext(t) \/ TaskDropped(t) \/ ((AnswerWatch(t) \/ Replay(t)) /\ task' = [task EXCEPT ![t].pc = "undo"])
  <2>1. UNCHANGED <<forward, watches, watch, head>> /\ UNCHANGED <<writer, client>>
    BY <1>3 DEF CheckContext, TaskDropped, AnswerWatch, Replay, rest, loops, locked, store, written
  <2>2. send' = send
    <3>1. CASE CheckContext(t) \/ TaskDropped(t)
      BY <3>1 DEF CheckContext, TaskDropped
    <3>2. CASE (AnswerWatch(t) \/ Replay(t)) /\ task' = [task EXCEPT ![t].pc = "undo"]
      <4>1. task'[t].pc = "undo"
        BY <1>0, <3>2, TaskPc
      <4>2. ~(task' = [task EXCEPT ![t].pc = "replaying"])
        <5>1. SUFFICES ASSUME task' = [task EXCEPT ![t].pc = "replaying"] PROVE FALSE
          OBVIOUS
        <5>2. task'[t].pc = "replaying"
          BY <1>0, <5>1, TaskPc
        <5> QED
          BY <4>1, <5>2
      <4>3. ~(Replay(t) /\ task' = [task EXCEPT ![t].next = task[t].next + 1])
        <5>1. SUFFICES ASSUME Replay(t), task' = [task EXCEPT ![t].next = task[t].next + 1] PROVE FALSE
          OBVIOUS
        <5>2. task[t].pc = "replaying"
          BY <5>1 DEF Replay
        <5>3. task'[t].pc = task[t].pc
          BY <5>1, SMT DEF TypeOK, Handlers
        <5> QED
          BY <4>1, <5>2, <5>3
      <4> QED
        BY <3>2, <4>2, <4>3 DEF AnswerWatch, Replay
    <3> QED
      BY <1>3, <3>1, <3>2
  <2>3. Chats
    BY <2>1, <2>2 DEF Chats
  <2>4. Over \subseteq Over' /\ \A w \in WatchIds : Calm(w)
    BY <2>1, CalmSame
  <2> QED
    BY <1>1, <2>1, <2>3, <2>4, HandlerQuiet
<1>4. CASE UndoWatch(t)
  <2>1. /\ UNCHANGED <<writer, client, send>> /\ forward' = forward /\ head' = head
        /\ watch' = Cancelled({task[t].watch}) /\ watches' = [watches EXCEPT ![k] = 0] /\ k \in Codexes
    BY <1>0, <1>4, SMT DEF UndoWatch, rest, loops, written
  <2>2. Chats
    BY <2>1 DEF Chats
  <2>3. \A j \in Codexes, w \in WatchIds : watches'[j] = w => watches[j] = w
    BY <2>1, PlaceGone
  <2>4. Over \subseteq Over' /\ \A w \in WatchIds : Calm(w)
    BY <2>1, CalmCancelled
  <2> QED
    BY <1>1, <2>1, <2>2, <2>3, <2>4, HandlerQuiet
<1>5. CASE (Watch(t) /\ task' = [task EXCEPT ![t].pc = "respond"]) \/ (Unwatch(t) /\ task' = [task EXCEPT ![t].pc = "unlock"])
  <2>0. task[t].pc \in {"watching", "unwatching"} /\ k \in Codexes
    <3>1. task[t].pc \in {"watching", "unwatching"}
      BY <1>5 DEF Watch, Unwatch
    <3> QED
      BY <1>0, <3>1
  <2>1. /\ forward' = forward /\ head' = head /\ UNCHANGED <<writer, client>>
    BY <1>5 DEF Watch, Unwatch, rest, loops, written
  <2>2. watch' = Cancelled({watches[k]}) /\ watches' = [watches EXCEPT ![k] = 0] /\ send' = send
    <3>1. CASE Unwatch(t) /\ task' = [task EXCEPT ![t].pc = "unlock"]
      <4>1. ~(task' = [task EXCEPT ![t] = IdleTask])
        <5>1. SUFFICES ASSUME task' = [task EXCEPT ![t] = IdleTask] PROVE FALSE
          OBVIOUS
        <5>2. task'[t].pc = "idle"
          BY <1>0, <5>1, TaskIdle
        <5>3. task'[t].pc = "unlock"
          BY <1>0, <3>1, TaskPc
        <5> QED
          BY <5>2, <5>3
      <4> QED
        BY <3>1, <4>1 DEF Unwatch
    <3>2. CASE Watch(t) /\ task' = [task EXCEPT ![t].pc = "respond"]
      <4>1. watch' = Cancelled({watches[k]}) /\ watches' = [watches EXCEPT ![k] = 0]
        BY <3>2, Refused
      <4>2. send' = send
        BY <3>2 DEF Watch
      <4> QED
        BY <4>1, <4>2
    <3> QED
      BY <1>5, <3>1, <3>2
  <2>3. Chats
    BY <2>1, <2>2 DEF Chats
  <2>4. \A j \in Codexes, w \in WatchIds : watches'[j] = w => watches[j] = w
    BY <2>0, <2>2, PlaceGone
  <2>5. Over \subseteq Over' /\ \A w \in WatchIds : Calm(w)
    BY <2>1, <2>2, CalmCancelled
  <2> QED
    BY <1>1, <2>1, <2>3, <2>4, <2>5, HandlerQuiet
<1> QED
  BY <1>2, <1>3, <1>4, <1>5

\* The only handler that prepares a watch is the one inside the lock.
LEMMA OnlyOne ==
    ASSUME WInv, NEW t \in Tasks, Starts(t), \A u \in Tasks : u # t => task'[u] = task[u],
           NEW u \in Tasks, u # t, NEW k, NEW w
    PROVE  Prepared(u, k, w)'
<1>1. ~Starts(u)
  BY DEF WInv, Locked, Holds
<1>2. task'[u].pc \notin {"answering", "replaying"}
  BY <1>1 DEF Starts
<1> QED
  BY <1>2 DEF Prepared

\* What a handler that prepares a watch knows of it.
LEMMA StartsFacts ==
    ASSUME TypeOK, WInv, NEW t \in Tasks, Starts(t)
    PROVE  /\ task[t].codex \in Codexes /\ task[t].watch \in WatchIds
           /\ watches[task[t].codex] = task[t].watch /\ forward[task[t].watch].pc = "none"
           /\ task[t].next >= 1 /\ task[t].next \in 0 .. MaxSeq + 1 /\ task[t].last \in Nat
           /\ Talking /\ Stream => LineOf(task[t].codex, task[t].watch)
           /\ Talking /\ Stream => Prepared(t, task[t].codex, task[t].watch)
<1>1. task[t].pc \notin {"idle", "respond", "dropped"}
  BY SMT DEF Starts
<1>2. /\ task[t].codex \in Codexes /\ task[t].watch \in WatchIds
      /\ watches[task[t].codex] = task[t].watch /\ forward[task[t].watch].pc = "none"
      /\ task[t].next >= 1
  BY <1>1 DEF WInv, Asked, Starting
<1>3. task[t].next \in 0 .. MaxSeq + 1 /\ task[t].last \in Nat
  BY TaskIs
<1>4. Talking /\ Stream => LineOf(task[t].codex, task[t].watch)
  BY <1>2 DEF Stream, Lines
<1>5. LineOf(task[t].codex, task[t].watch) => Prepared(t, task[t].codex, task[t].watch)
  BY DEF LineOf
<1> QED
  BY <1>2, <1>3, <1>4, <1>5

\* A frame of handleWatch is queued: the Watch Response or an event of the replay.
LEMMA PreparesStream ==
    ASSUME TypeOK, TypeOK', WInv, Stream, NEW t \in Tasks, task[t].pc \in {"answering", "replaying"},
           \A u \in Tasks : u # t => task'[u] = task[u],
           task'[t].pc = "replaying", task'[t].codex = task[t].codex, task'[t].watch = task[t].watch,
           task'[t].last = task[t].last,
           UNCHANGED <<forward, watches, watch, head>>,
           NEW f, Queued(f), f.codex = task[t].codex, Opens(f, task[t].watch),
           f.seq = task'[t].next - 1, task'[t].next <= task[t].last + 1,
           Talking /\ IsEvent(f) => \E b \in Frames : Said(task[t].codex, b) /\ Follows(Over, f, b)
    PROVE  Stream'
<1>0. Starts(t)
  BY DEF Starts
<1>1. PICK k \in Codexes, w \in WatchIds, n \in Nat : k = task[t].codex /\ w = task[t].watch /\ n = task[t].last
  BY <1>0, StartsFacts
<1>2. watches[k] = w /\ forward[w].pc = "none"
  BY <1>0, <1>1, StartsFacts
<1>3. Over \subseteq Over' /\ \A v \in WatchIds : Calm(v)
  BY CalmSame
<1>4. \A j \in Codexes, v \in WatchIds : j # k /\ watches'[j] = v => watches[j] = v /\ Steady(v)
  <2> SUFFICES ASSUME NEW j \in Codexes, NEW v \in WatchIds, j # k, watches'[j] = v
               PROVE  watches[j] = v /\ Steady(v)
    OBVIOUS
  <2>1. watches[j] = v /\ v # w /\ forward' = forward
    BY <1>2, OnePlace
  <2>2. \A u \in Tasks : task'[u].watch = v => task'[u] = task[u]
    BY <1>1, <2>1
  <2> QED
    BY <1>3, <2>1, <2>2 DEF Steady
<1>5. ASSUME Talking, NEW v \in WatchIds, watches'[k] = v PROVE LineOf(k, v)'
  <2>1. v = w
    BY <1>2, <1>5
  <2>2. Live(w, n)
    <3>1. Prepared(t, task[t].codex, task[t].watch)
      BY <1>0, <1>5, StartsFacts
    <3> QED
      BY <1>1, <3>1 DEF Prepared
  <2>3. Live(w, n)'
    BY <1>3, <2>2 DEF Calm
  <2>4. Live(w, task[t].last)'
    BY <1>1, <2>3 DEF Live
  <2>5. Said(k, f)' /\ f \in Frames /\ Opens(f, w)
    BY <1>1, QueuedSaid DEF Queued
  <2>6. Prepared(t, k, w)'
    BY <1>1, <2>4, <2>5 DEF Prepared
  <2>7. \A u \in Tasks : Prepared(u, k, w)'
    BY <1>0, <2>6, OnlyOne
  <2>8. forward'[w].pc = "none"
    BY <1>2
  <2> QED
    BY <2>1, <2>7, <2>8 DEF LineOf
<1>6. Talking /\ IsEvent(f) => \E b \in Frames : Said(k, b) /\ Follows(Over, f, b)
  BY <1>1
<1>7. f.codex = k
  BY <1>1
<1> QED
  BY <1>3, <1>4, <1>5, <1>6, <1>7, StreamSaid

\* The Watch Response opens the stream of its watch.
LEMMA AnswerStream ==
    ASSUME TypeOK, TypeOK', WInv, Stream, NEW t \in Tasks, AnswerWatch(t)
    PROVE  Stream'
<1>0. TaskT
  BY Parts
<1>1. CASE task' = [task EXCEPT ![t].pc = "undo"]
  BY <1>1, HandlersQuiet
<1>2. ASSUME task' = [task EXCEPT ![t].pc = "replaying"],
             send' = Append(send, Frame("watched", task[t].codex, task[t].watch, task[t].next - 1))
      PROVE  Stream'
  <2>1. task[t].pc = "answering" /\ UNCHANGED <<forward, watches, watch, head>> /\ UNCHANGED <<writer, client>>
    BY DEF AnswerWatch, rest, loops, locked, store, written
  <2>2. /\ task'[t].pc = "replaying" /\ task'[t].codex = task[t].codex /\ task'[t].watch = task[t].watch
        /\ task'[t].next = task[t].next /\ task'[t].last = task[t].last
        /\ \A u \in Tasks : u # t => task'[u] = task[u]
    BY <1>0, <1>2, TaskPc
  <2>3. Starts(t)
    BY <2>1 DEF Starts
  <2>4. /\ task[t].codex \in Codexes /\ task[t].watch \in WatchIds
        /\ task[t].next >= 1 /\ task[t].next \in 0 .. MaxSeq + 1
    BY <2>3, StartsFacts
  <2> DEFINE f == Frame("watched", task[t].codex, task[t].watch, task[t].next - 1)
  <2>5. f \in Frames
    <3>1. task[t].next - 1 \in 0 .. MaxSeq + 1 /\ "watched" \in Kinds
      BY <2>4, BoundAssumption, SMT DEF Kinds
    <3> QED
      BY <2>4, <3>1, FrameType
  <2>6. f.codex = task[t].codex /\ Opens(f, task[t].watch) /\ f.seq = task'[t].next - 1 /\ f.kind = "watched"
    BY <2>2 DEF Opens, Frame
  <2>7. ~IsEvent(f)
    <3>1. "watched" \notin {"event", "forgotten"}
      BY SMT
    <3> QED
      BY <2>6, <3>1 DEF IsEvent
  <2>8. Queued(f)
    BY <1>2, <2>1, <2>5 DEF Queued
  <2> HIDE DEF f
  <2>9. CASE Talking
    <3>1. task'[t].next <= task[t].last + 1
      BY <2>1, <2>2, <2>3, <2>9, StartsFacts DEF Prepared
    <3> QED
      BY <2>1, <2>2, <2>6, <2>7, <2>8, <3>1, PreparesStream
  <2>10. CASE ~Talking
    BY <2>1, <2>10 DEF Stream, Talking
  <2> QED
    BY <2>9, <2>10
<1> QED
  BY <1>1, <1>2 DEF AnswerWatch, enqueue

\* Numbers next to each other.
LEMMA StepOn ==
    ASSUME NEW n \in Nat
    PROVE  n = (n + 1) - 1 /\ n = (n - 1) + 1 /\ \A m \in Nat : n <= m => n + 1 <= m + 1
BY SMT

\* The events of the replay follow it one by one.
LEMMA ReplayStream ==
    ASSUME TypeOK, TypeOK', WInv, Stream, NEW t \in Tasks, Replay(t)
    PROVE  Stream'
<1>0. TaskT
  BY Parts
<1>1. CASE task' = [task EXCEPT ![t].pc = "undo"]
  BY <1>1, HandlersQuiet
<1>2. ASSUME task' = [task EXCEPT ![t].next = task[t].next + 1],
             send' = Append(send, Frame("event", task[t].codex, task[t].watch, task[t].next))
      PROVE  Stream'
  <2>1. /\ task[t].pc = "replaying" /\ UNCHANGED <<forward, watches, watch, head>> /\ UNCHANGED <<writer, client>>
        /\ task[t].next <= task[t].last
    BY DEF Replay, rest, loops, locked, store, written
  <2>2. /\ task'[t].pc = "replaying" /\ task'[t].codex = task[t].codex /\ task'[t].watch = task[t].watch
        /\ task'[t].next = task[t].next + 1 /\ task'[t].last = task[t].last
        /\ \A u \in Tasks : u # t => task'[u] = task[u]
    <3>1. task[t] \in Handlers
      BY <1>0, SMT DEF TaskT
    <3>2. task'[t] = [task[t] EXCEPT !.next = task[t].next + 1] /\ \A u \in Tasks : u # t => task'[u] = task[u]
      BY <1>0, <1>2, SMT DEF TaskT
    <3>3. /\ task'[t].pc = task[t].pc /\ task'[t].codex = task[t].codex /\ task'[t].watch = task[t].watch
          /\ task'[t].next = task[t].next + 1 /\ task'[t].last = task[t].last
      BY <3>1, <3>2, SMT DEF Handlers
    <3> QED
      BY <2>1, <3>2, <3>3
  <2>3. Starts(t)
    BY <2>1 DEF Starts
  <2>4. /\ task[t].codex \in Codexes /\ task[t].watch \in WatchIds
        /\ task[t].next >= 1 /\ task[t].next \in 0 .. MaxSeq + 1 /\ task[t].last \in Nat
    BY <2>3, StartsFacts
  <2> DEFINE f == Frame("event", task[t].codex, task[t].watch, task[t].next)
  <2>5. f \in Frames
    <3>1. "event" \in Kinds
      BY SMT DEF Kinds
    <3> QED
      BY <2>4, <3>1, FrameType
  <2>6. f.codex = task[t].codex /\ Opens(f, task[t].watch) /\ f.seq = task[t].next /\ f.watch = task[t].watch
    BY DEF Opens, Frame
  <2>7. f.seq = task'[t].next - 1 /\ task'[t].next <= task[t].last + 1
    BY <2>1, <2>2, <2>6, TaskIs, StepOn
  <2>8. Queued(f)
    BY <1>2, <2>1, <2>5 DEF Queued
  <2> HIDE DEF f
  <2>9. ASSUME Talking PROVE \E b \in Frames : Said(task[t].codex, b) /\ Follows(Over, f, b)
    <3>1. Prepared(t, task[t].codex, task[t].watch)
      BY <2>3, <2>9, StartsFacts
    <3>2. PICK b \in Frames : Said(task[t].codex, b) /\ Opens(b, task[t].watch) /\ b.seq = task[t].next - 1
      BY <2>1, <3>1 DEF Prepared
    <3>3. f.seq = b.seq + 1
      BY <2>6, <3>2, TaskIs, StepOn
    <3> QED
      BY <2>6, <3>2, <3>3 DEF Follows, Next1
  <2> QED
    BY <2>1, <2>2, <2>6, <2>7, <2>8, <2>9, PreparesStream
<1> QED
  BY <1>1, <1>2 DEF Replay, enqueue

\* Nothing is queued, and the watch of one Codex has its line to be shown.
LEMMA StreamSilent ==
    ASSUME TypeOK, TypeOK', Stream, Over \subseteq Over', UNCHANGED <<writer, client, send>>,
           NEW k \in Codexes,
           \A j \in Codexes, w \in WatchIds : j # k /\ watches'[j] = w => watches[j] = w /\ Steady(w),
           \A w \in WatchIds : Talking /\ watches'[k] = w => LineOf(k, w)'
    PROVE  Stream'
<1> SUFFICES ASSUME Talking' PROVE Good(Over, Out, client)' /\ Lines'
  BY DEF Stream
<1>1. Chats
  BY DEF Chats
<1>2. Talking /\ PipeSame
  BY <1>1, ChatsPipe
<1>3. Good(Over, Out, client) /\ Lines
  BY <1>2 DEF Stream
<1>4. Good(Over, Out, client)'
  <2>1. Good(Over, Out', client')
    BY <1>2, <1>3 DEF PipeSame
  <2> QED
    BY <2>1, GoodMore
<1>5. ASSUME NEW j \in Codexes, NEW w \in WatchIds, watches'[j] = w PROVE LineOf(j, w)'
  <2>1. CASE j = k
    BY <1>2, <1>5, <2>1
  <2>2. CASE j # k
    <3>1. Steady(w) /\ LineOf(j, w)
      BY <1>3, <1>5, <2>2 DEF Lines
    <3>2. \A b \in Frames : Said(j, b) => Said(j, b)'
      BY <1>2 DEF PipeSame
    <3> QED
      BY <3>1, <3>2, LineKept DEF Steady
  <2> QED
    BY <2>1, <2>2
<1> QED
  BY <1>4, <1>5 DEF Lines

\* The same frames are on their way.
LEMMA SilentSaid ==
    ASSUME UNCHANGED <<writer, client, send>>, NEW k, NEW b, Said(k, b)
    PROVE  Said(k, b)'
<1>1. Out' = Out /\ client' = client
  BY DEF Out
<1> QED
  BY <1>1 DEF Said

\* The replay is done: the channel goes on from it.
LEMMA StartStream ==
    ASSUME TypeOK, TypeOK', WInv, Stream, NEW t \in Tasks, StartForward(t)
    PROVE  Stream'
<1>0. /\ task[t].pc = "replaying" /\ task[t].next > task[t].last
      /\ UNCHANGED <<writer, client, send>> /\ UNCHANGED <<watches, watch, head>>
      /\ task' = [task EXCEPT ![t] = IdleTask] /\ forward' = [forward EXCEPT ![task[t].watch].pc = "run"]
      /\ TaskT /\ ForwardT
  BY Parts DEF StartForward, rest, loops, store, written
<1>1. Starts(t)
  BY <1>0 DEF Starts
<1>2. PICK k \in Codexes, w \in WatchIds, n \in Nat : k = task[t].codex /\ w = task[t].watch /\ n = task[t].last
  BY <1>1, StartsFacts
<1>3. watches[k] = w /\ task[t].next \in Nat
  BY <1>1, <1>2, StartsFacts, TaskIs
<1>4. Over \subseteq Over' /\ \A v \in WatchIds : Calm(v)
  BY <1>0, CalmSame
<1>5. task'[t].pc = "idle" /\ \A u \in Tasks : u # t => task'[u] = task[u]
  BY <1>0, TaskIdle
<1>6. forward'[w].pc = "run" /\ \A v \in WatchIds : v # w => forward'[v] = forward[v]
  BY <1>0, <1>2, ForwardPc
<1>7. \A j \in Codexes, v \in WatchIds : j # k /\ watches'[j] = v => watches[j] = v /\ Steady(v)
  <2> SUFFICES ASSUME NEW j \in Codexes, NEW v \in WatchIds, j # k, watches'[j] = v
               PROVE  watches[j] = v /\ Steady(v)
    OBVIOUS
  <2>1. watches[j] = v /\ v # w
    BY <1>0, <1>3, OnePlace
  <2>2. \A u \in Tasks : task'[u].watch = v /\ task'[u].pc \in {"answering", "replaying"} => task'[u] = task[u]
    BY <1>5
  <2> QED
    BY <1>4, <1>6, <2>1, <2>2 DEF Steady
<1>8. ASSUME Talking, NEW v \in WatchIds, watches'[k] = v PROVE LineOf(k, v)'
  <2>1. v = w
    BY <1>0, <1>3, <1>8
  <2>2. Prepared(t, task[t].codex, task[t].watch)
    BY <1>1, <1>8, StartsFacts
  <2>3. Live(w, n) /\ task[t].next <= n + 1
    BY <1>0, <1>2, <2>2 DEF Prepared
  <2>4. PICK b \in Frames : Said(k, b) /\ Opens(b, w) /\ b.seq = task[t].next - 1
    BY <1>0, <1>2, <2>2 DEF Prepared
  <2>5. b.seq = n
    BY <1>0, <1>2, <1>3, <2>3, <2>4, SMT
  <2>6. Live(w, b.seq)'
    BY <1>4, <2>3, <2>5 DEF Calm
  <2>7. Said(k, b)'
    BY <1>0, <2>4, SilentSaid
  <2>8. Runs(k, w)'
    BY <2>4, <2>6, <2>7 DEF Runs
  <2>9. \A u \in Tasks : Prepared(u, k, w)'
    <3>1. Prepared(t, k, w)'
      BY <1>5 DEF Prepared
    <3> QED
      BY <1>1, <1>5, <3>1, OnlyOne
  <2> QED
    BY <1>6, <2>1, <2>8, <2>9 DEF LineOf
<1> QED
  BY <1>0, <1>4, <1>7, <1>8, StreamSilent

\* A watch is registered: its events will go on from the head.
LEMMA RegistersStream ==
    ASSUME TypeOK, TypeOK', WInv, Stream, NEW t \in Tasks, Watch(t), NEW w, NEW k, Registers(t, w, k)
    PROVE  Stream'
<1>0. /\ w \in WatchIds /\ k \in Codexes /\ watch[w].state = "none" /\ watchesMu = "free"
      /\ watches' = [watches EXCEPT ![k] = w] /\ forward' = forward /\ head' = head
      /\ UNCHANGED <<writer, client, send>>
  BY DEF Registers, Watch, rest, loops, written
<1>a. \A j \in Codexes : watches'[j] = IF j = k THEN w ELSE watches[j]
  <2>1. k \in Codexes /\ watches' = [watches EXCEPT ![k] = w]
    BY <1>0
  <2> QED
    BY <2>1, PlaceSet
<1>1. IsNew(t, w, k)
  BY RegistersFacts
<1>2. /\ watch'[w].codex = k /\ watch'[w].state = "registered" /\ watch'[w].events = <<>>
      /\ task'[t].pc = "answering" /\ task'[t].watch = w
      /\ task'[t].next <= head[k] + 1 /\ task'[t].last = head[k]
      /\ \A u \in Tasks : u # t => task'[u] = task[u]
  BY <1>1 DEF IsNew
<1>3. Over \subseteq Over'
  <2>1. \A v \in WatchIds : Fades(watch[v], watch'[v]) \/ watch[v].state = "none"
    BY <1>0, <1>1 DEF IsNew
  <2> QED
    BY <2>1, OverGrows
<1>4. \A u \in Tasks : ~Holds(u)
  BY <1>0, FreeLocked DEF WInv
<1>5. ASSUME NEW j \in Codexes, NEW v \in WatchIds, j # k, watches'[j] = v
      PROVE  watches[j] = v /\ Steady(v)
  <2>1. watches[j] = v
    BY <1>a, <1>5
  <2>2. v # w
    <3>1. v # 0
      BY NotNone
    <3> QED
      BY <1>0, <2>1, <3>1 DEF WInv, Places
  <2>3. Fades(watch[v], watch'[v]) /\ watch'[v].events = watch[v].events
    BY <1>1, <2>2 DEF IsNew
  <2>4. Calm(v)
    BY <1>0, <1>3, <2>3, CalmFades
  <2>5. ASSUME NEW u \in Tasks, task'[u].watch = v PROVE task'[u] = task[u]
    BY <1>2, <2>2, <2>5
  <2> QED
    BY <1>0, <2>1, <2>4, <2>5 DEF Steady
<1>6. ASSUME Talking, NEW v \in WatchIds, watches'[k] = v PROVE LineOf(k, v)'
  <2>1. v = w
    BY <1>0, <1>a, <1>6
  <2>2. PICK n \in Nat : n = head[k]
    BY <1>0, HeadIs
  <2>3. Live(w, n)'
    <3>1. Chain(Over', w, k, <<>>, n) /\ EndsAt(<<>>, n) = n
      <4>1. 1 .. Len(<<>>) = {}
        BY SMT
      <4> QED
        BY <4>1 DEF Chain, EndsAt
    <3> QED
      BY <1>0, <1>2, <2>2, <3>1 DEF Live
  <2>4. Live(w, task[t].last)'
    BY <1>2, <2>2, <2>3 DEF Live
  <2>5. Prepared(t, k, w)'
    BY <1>2, <2>4 DEF Prepared
  <2>6. ASSUME NEW u \in Tasks, u # t PROVE Prepared(u, k, w)'
    <3>1. task'[u].pc \notin {"answering", "replaying"}
      BY <1>2, <1>4, <2>6 DEF Holds, Starts
    <3> QED
      BY <3>1 DEF Prepared
  <2>7. forward'[w].pc = "none"
    BY <1>0 DEF WInv, Unused
  <2> QED
    BY <2>1, <2>5, <2>6, <2>7 DEF LineOf
<1> QED
  BY <1>0, <1>3, <1>5, <1>6, StreamSilent

\* The answer to an Unwatch is queued.
LEMMA UnwatchStream ==
    ASSUME TypeOK, TypeOK', WInv, Stream, NEW t \in Tasks, Unwatch(t)
    PROVE  Stream'
<1>0. TaskT
  BY Parts
<1>1. CASE task' = [task EXCEPT ![t].pc = "unlock"]
  BY <1>1, HandlersQuiet
<1>2. ASSUME task' = [task EXCEPT ![t] = IdleTask], send' = Append(send, Frame("unwatched", task[t].codex, 0, 0))
      PROVE  Stream'
  <2> DEFINE k == task[t].codex
             f == Frame("unwatched", k, 0, 0)
  <2>1. /\ task[t].pc = "unwatching" /\ watch' = Cancelled({watches[k]}) /\ head' = head
        /\ watches' = [watches EXCEPT ![k] = 0] /\ forward' = forward /\ UNCHANGED <<writer, client>>
    BY DEF Unwatch, rest, loops, written
  <2>2. k \in Codexes
    BY <2>1 DEF WInv, Asked
  <2>3. Over \subseteq Over' /\ \A v \in WatchIds : Calm(v)
    BY <2>1, CalmCancelled
  <2>4. task'[t].pc = "idle" /\ \A u \in Tasks : u # t => task'[u] = task[u]
    BY <1>0, <1>2, TaskIdle
  <2>5. (\A j \in Codexes, v \in WatchIds : watches'[j] = v => watches[j] = v) /\ watches'[k] = 0
    BY <2>1, <2>2, PlaceGone
  <2>6. f \in Frames /\ f.codex = k /\ ~IsEvent(f)
    <3>1. "unwatched" \in Kinds /\ 0 \in 0 .. MaxSeq + 1 /\ "unwatched" \notin {"event", "forgotten"}
      BY BoundAssumption, SMT DEF Kinds
    <3>2. f \in Frames
      BY <2>2, <3>1, FrameType
    <3>3. f.codex = k /\ f.kind = "unwatched"
      BY DEF Frame
    <3> QED
      BY <3>1, <3>2, <3>3 DEF IsEvent
  <2>7. Queued(f)
    BY <1>2, <2>1, <2>6 DEF Queued
  <2>8. \A v \in WatchIds : Steady(v)
    <3>1. task'[t].pc \notin {"answering", "replaying"}
      BY <2>4
    <3> QED
      BY <2>1, <2>3, <2>4, <3>1, TaskSteady
  <2>9. \A v \in WatchIds : watches'[k] # v
    <3>1. 0 \notin WatchIds
      BY NotNone
    <3> QED
      BY <2>5, <3>1
  <2> HIDE DEF k, f
  <2> QED
    BY <2>2, <2>3, <2>5, <2>6, <2>7, <2>8, <2>9, StreamSaid
<1> QED
  BY <1>1, <1>2 DEF Unwatch, enqueue

\* The steps of handlers keep the stream.
LEMMA HandlersStream ==
    ASSUME TypeOK, TypeOK', WInv, Stream, NEW t \in Tasks, HandlerStep(t)
    PROVE  Stream'
<1>1. CASE Watch(t)
  <2>1. CASE task' = [task EXCEPT ![t].pc = "respond"]
    BY <1>1, <2>1, HandlersQuiet
  <2>2. ASSUME NEW w \in WatchIds, NEW k \in Codexes, Registers(t, w, k) PROVE Stream'
    BY <1>1, <2>2, RegistersStream
  <2> QED
    BY <1>1, <2>1, <2>2, WatchCases
<1> QED
  BY <1>1, HandlersQuiet, AnswerStream, ReplayStream, StartStream, UnwatchStream DEF HandlerStep

\* The first event of a channel is taken: it goes on from n, and the rest from it.
First(over, w, k, q, n) ==
    /\ IsEvent(q[1]) /\ q[1].codex = k /\ q[1].watch = w /\ Next1(over, w, n, q[1].seq)
    /\ q[1].kind = "forgotten" => Tail(q) = <<>> /\ w \in over
    /\ Chain(over, w, k, Tail(q), q[1].seq) /\ EndsAt(Tail(q), q[1].seq) = EndsAt(q, n)

\* A channel that goes on has such a first event.
LEMMA ChainTail ==
    ASSUME NEW over, NEW w, NEW k, NEW q \in Seq(Frames), q # <<>>, NEW n, Chain(over, w, k, q, n)
    PROVE  First(over, w, k, q, n)
<1> DEFINE p == Tail(q)
           m == Len(q)
<1>1. /\ m \in Nat \ {0} /\ p \in Seq(Frames) /\ Len(p) = m - 1 /\ 1 \in 1 .. m
      /\ \A i \in 1 .. m - 1 : p[i] = q[i + 1]
  BY SMT
<1> HIDE DEF p
<1>2. (Len(p) = 0 <=> p = <<>>) /\ (m = 1 <=> p = <<>>)
  <2>1. p = <<>> <=> Len(p) = 0
    BY <1>1, SMT
  <2>2. m = 1 <=> Len(p) = 0
    BY <1>1, SMT
  <2> QED
    BY <2>1, <2>2
<1>3. /\ IsEvent(q[1]) /\ q[1].codex = k /\ q[1].watch = w /\ Next1(over, w, n, q[1].seq)
      /\ q[1].kind = "forgotten" => 1 = m /\ w \in over
  BY <1>1 DEF Chain
<1>4. ASSUME NEW i \in 1 .. m - 1
      PROVE  /\ IsEvent(p[i]) /\ p[i].codex = k /\ p[i].watch = w
             /\ p[i].kind = "forgotten" => i = Len(p) /\ w \in over
             /\ Next1(over, w, IF i = 1 THEN q[1].seq ELSE p[i - 1].seq, p[i].seq)
  <2>1. /\ i + 1 \in 1 .. m /\ i + 1 # 1 /\ (i + 1) - 1 = i /\ (i + 1 = m => i = m - 1)
        /\ i # 1 => i - 1 \in 1 .. m - 1 /\ (i - 1) + 1 = i
    BY <1>1, SMT
  <2>2. p[i] = q[i + 1] /\ (i # 1 => p[i - 1] = q[i])
    BY <1>1, <2>1
  <2>3. /\ IsEvent(q[i + 1]) /\ q[i + 1].codex = k /\ q[i + 1].watch = w
        /\ q[i + 1].kind = "forgotten" => i + 1 = m /\ w \in over
        /\ Next1(over, w, IF i + 1 = 1 THEN n ELSE q[(i + 1) - 1].seq, q[i + 1].seq)
    BY <2>1 DEF Chain
  <2>4. Next1(over, w, q[i].seq, q[i + 1].seq)
    BY <2>1, <2>3
  <2>5. q[i].seq = IF i = 1 THEN q[1].seq ELSE p[i - 1].seq
    BY <2>2
  <2>6. Next1(over, w, IF i = 1 THEN q[1].seq ELSE p[i - 1].seq, p[i].seq)
    BY <2>2, <2>4, <2>5
  <2> QED
    BY <1>1, <2>1, <2>2, <2>3, <2>6
<1>5. Chain(over, w, k, p, q[1].seq)
  BY <1>1, <1>4 DEF Chain
<1>6. EndsAt(p, q[1].seq) = EndsAt(q, n)
  <2>1. EndsAt(q, n) = q[m].seq
    BY DEF EndsAt
  <2>2. CASE m = 1
    BY <1>2, <2>1, <2>2 DEF EndsAt
  <2>3. CASE m # 1
    <3>1. m - 1 \in 1 .. m - 1 /\ (m - 1) + 1 = m
      BY <1>1, <2>3, SMT
    <3>2. p[m - 1] = q[m]
      BY <1>1, <3>1
    <3> QED
      BY <1>1, <1>2, <2>1, <2>3, <3>2 DEF EndsAt
  <2> QED
    BY <2>2, <2>3
<1> QED
  BY <1>2, <1>3, <1>5, <1>6 DEF First, p

\* A watch that is forwarded is not being prepared.
LEMMA NotPrepared ==
    ASSUME WInv, NEW w \in WatchIds, forward[w].pc # "none", task' = task, NEW t \in Tasks, task[t].watch = w, NEW k
    PROVE  Prepared(t, k, w)'
<1>1. ~Starts(t)
  BY DEF WInv, Starting
<1>2. task'[t].pc \notin {"answering", "replaying"}
  BY <1>1 DEF Starts
<1> QED
  BY <1>2 DEF Prepared

\* forwardWatch leaves the other watches alone.
LEMMA ForwardOthers ==
    ASSUME WInv, NEW w \in WatchIds, NEW k \in Codexes, watches[k] = w, watches' = watches, task' = task,
           \A v \in WatchIds : v # w => forward'[v] = forward[v],
           \A v \in WatchIds : v # w => Calm(v)
    PROVE  \A j \in Codexes, v \in WatchIds : j # k /\ watches'[j] = v => watches[j] = v /\ Steady(v)
<1> SUFFICES ASSUME NEW j \in Codexes, NEW v \in WatchIds, j # k, watches'[j] = v
             PROVE  watches[j] = v /\ Steady(v)
  OBVIOUS
<1>1. watches[j] = v /\ v # w
  BY OnePlace
<1> QED
  BY <1>1 DEF Steady

\* forwardWatch goes on, ends, or says nothing.
LEMMA ForwardQuiet ==
    ASSUME TypeOK, TypeOK', Stream, NEW w \in WatchIds, task' = task, watch' = watch, head' = head,
           UNCHANGED <<writer, client, send>>,
           \A v \in WatchIds : v # w => forward'[v] = forward[v], forward'[w].pc \notin {"run", "got"},
           \A k \in Codexes, v \in WatchIds : watches'[k] = v => watches[k] = v
    PROVE  Stream'
<1>1. Over \subseteq Over' /\ \A v \in WatchIds : Calm(v)
  BY CalmSame
<1>2. \A v \in WatchIds : Steady(v)
  BY <1>1 DEF Steady
<1>3. Chats
  BY DEF Chats
<1> QED
  BY <1>1, <1>2, <1>3, ChatsPipe, StreamKept

\* forwardWatch takes an event from its channel.
LEMMA TakeStream ==
    ASSUME TypeOK, TypeOK', WInv, Stream, NEW w \in WatchIds, Select(w), Takes(w)
    PROVE  Stream'
<1>0. /\ task' = task /\ watches' = watches /\ head' = head /\ UNCHANGED <<writer, client, send>>
      /\ forward[w].pc = "run"
  BY DEF Select, rest, loops, locked, written
<1> DEFINE q == watch[w].events
<1>1. /\ q # <<>> /\ forward'[w].pc = "got" /\ forward'[w].event = Head(q) /\ watch'[w].events = Tail(q)
      /\ watch'[w].codex = watch[w].codex /\ watch'[w].state = watch[w].state
      /\ \A v \in WatchIds : v # w => forward'[v] = forward[v] /\ watch'[v] = watch[v]
  BY DEF Takes
<1>2. q \in Seq(Frames) /\ Head(q) = q[1] /\ q[1] \in Frames
  BY <1>1, WatchIs, FirstIs
<1>3. Over' = Over
  BY <1>1 DEF Over
<1>4. \A v \in WatchIds : v # w => Calm(v)
  BY <1>0, <1>1, <1>3, FadesSame, CalmFades
<1>5. CASE \A k \in Codexes : watches[k] # w
  <2>1. \A k \in Codexes, v \in WatchIds : watches'[k] = v => watches[k] = v /\ Steady(v)
    BY <1>0, <1>1, <1>4, <1>5 DEF Steady
  <2>2. Chats
    BY <1>0 DEF Chats
  <2> QED
    BY <1>3, <2>1, <2>2, ChatsPipe, StreamKept
<1>6. ASSUME NEW k \in Codexes, watches[k] = w PROVE Stream'
  <2>1. \A j \in Codexes, v \in WatchIds : j # k /\ watches'[j] = v => watches[j] = v /\ Steady(v)
    BY <1>0, <1>1, <1>4, <1>6, ForwardOthers
  <2>2. ASSUME Talking, NEW v \in WatchIds, watches'[k] = v PROVE LineOf(k, v)'
    <3>1. v = w /\ LineOf(k, w)
      BY <1>0, <1>6, <2>2 DEF Stream, Lines
    <3>2. PICK b \in Frames : Said(k, b) /\ Live(w, b.seq) /\ (More(w) => Opens(b, w))
      BY <1>0, <3>1 DEF LineOf, Runs
    <3>3. Opens(b, w)
      BY <1>1, <3>2 DEF More
    <3>4. watch[w].codex = k
      <4>1. w # 0
        BY NotNone
      <4> QED
        BY <1>6, <4>1 DEF WInv, Places
    <3>5. Chain(Over, w, k, q, b.seq) /\ (watch[w].state = "registered" => head[k] = EndsAt(q, b.seq))
      BY <3>2, <3>4 DEF Live
    <3> DEFINE e == q[1]
    <3>6. /\ IsEvent(e) /\ e.codex = k /\ e.watch = w /\ Next1(Over, w, b.seq, e.seq)
          /\ e.kind = "forgotten" => Tail(q) = <<>> /\ w \in Over
          /\ Chain(Over, w, k, Tail(q), e.seq) /\ EndsAt(Tail(q), e.seq) = EndsAt(q, b.seq)
      <4> HIDE DEF q
      <4>1. First(Over, w, k, q, b.seq)
        BY <1>1, <1>2, <3>5, ChainTail
      <4> QED
        BY <4>1 DEF First
    <3>7. PICK x \in Frames : x = e
      BY <1>2
    <3>8. Live(w, x.seq)'
      BY <1>0, <1>1, <1>3, <3>4, <3>5, <3>6, <3>7 DEF Live
    <3>9. Said(k, b)'
      BY <1>0, <3>2, SilentSaid
    <3>10. Got(k, w, x)'
      BY <1>1, <1>3, <3>3, <3>6, <3>7, <3>8, <3>9 DEF Got, Follows
    <3>11. forward'[w].event = x
      BY <1>1, <1>2, <3>7
    <3>12. Got(k, w, forward[w].event)'
      BY <3>10, <3>11 DEF Got, Live
    <3>13. \A t \in Tasks : task'[t].watch = w => Prepared(t, k, w)'
      BY <1>0, NotPrepared
    <3> QED
      BY <1>1, <3>1, <3>12, <3>13 DEF LineOf
  <2> QED
    BY <1>0, <1>3, <2>1, <2>2, StreamSilent
<1> QED
  BY <1>5, <1>6

\* It queues an event.
LEMMA ForwardsEvent ==
    ASSUME TypeOK, TypeOK', WInv, Stream, NEW w \in WatchIds, forward[w].pc = "got", IsCurrent(w),
           send' = Append(send, forward[w].event), forward' = [forward EXCEPT ![w].pc = "run"],
           UNCHANGED <<writer, client, task, watches, watch, head>>
    PROVE  Stream'
<1>1. PICK k \in Codexes : watches[k] = w
  BY CurrentIs
<1>2. PICK e \in Frames : e = forward[w].event
  BY ForwardIs
<1>3. /\ forward'[w].pc = "run" /\ \A v \in WatchIds : v # w => forward'[v] = forward[v]
  BY Parts, ForwardPc
<1>4. Over \subseteq Over' /\ \A v \in WatchIds : Calm(v)
  BY CalmSame
<1>5. Queued(e)
  BY <1>2 DEF Queued
<1>6. CASE ~Talking
  BY <1>6 DEF Stream, Talking
<1>7. CASE Talking
  <2>1. Got(k, w, forward[w].event)
    BY <1>1, <1>7 DEF Stream, Lines, LineOf
  <2>2. /\ IsEvent(e) /\ e.codex = k /\ e.watch = w /\ Live(w, e.seq)
        /\ e.kind = "forgotten" => watch[w].events = <<>> /\ w \in Over
        /\ \E b \in Frames : Said(k, b) /\ Follows(Over, e, b)
    BY <1>2, <2>1 DEF Got
  <2>3. \A j \in Codexes, v \in WatchIds : j # k /\ watches'[j] = v => watches[j] = v /\ Steady(v)
    <3>1. watches' = watches /\ task' = task
      OBVIOUS
    <3> QED
      BY <1>1, <1>3, <1>4, <3>1, ForwardOthers
  <2>4. ASSUME NEW v \in WatchIds, watches'[k] = v PROVE LineOf(k, v)'
    <3>1. v = w
      BY <1>1, <2>4
    <3>2. Said(k, e)'
      BY <1>5, <2>2, QueuedSaid
    <3>3. e.seq \in Nat
      BY BoundAssumption, SMT DEF Frames
    <3>4. Live(w, e.seq)'
      BY <1>4, <2>2, <3>3 DEF Calm
    <3>5. More(w)' => Opens(e, w)
      <4>1. More(w)' => More(w)
        BY <1>4 DEF Calm
      <4>2. e.kind = "forgotten" => ~More(w)
        BY <2>2 DEF More, Over
      <4>3. e.kind # "forgotten" => e.kind = "event"
        BY <2>2 DEF IsEvent
      <4> QED
        BY <2>2, <4>1, <4>2, <4>3 DEF Opens
    <3>6. Runs(k, w)'
      BY <3>2, <3>4, <3>5 DEF Runs
    <3>7. \A t \in Tasks : task'[t].watch = w => Prepared(t, k, w)'
      BY NotPrepared
    <3> QED
      BY <1>3, <3>1, <3>6, <3>7 DEF LineOf
  <2> QED
    BY <1>4, <1>5, <2>2, <2>3, <2>4, StreamSaid
<1> QED
  BY <1>6, <1>7

\* The steps of forwardWatch keep the stream.
LEMMA ForwardsStream ==
    ASSUME TypeOK, TypeOK', WInv, Stream, NEW w \in WatchIds, ForwardStep(w)
    PROVE  Stream'
<1>0. ForwardT
  BY Parts
<1>1. CASE Select(w)
  <2>1. CASE Takes(w)
    BY <1>1, <2>1, TakeStream
  <2>2. CASE /\ watch' = watch /\ \A v \in WatchIds : v # w => forward'[v] = forward[v]
             /\ forward'[w].pc \in {"slow", "done", "ended"}
    <3>1. /\ task' = task /\ watches' = watches /\ head' = head /\ UNCHANGED <<writer, client, send>>
      BY <1>1 DEF Select, rest, loops, locked, written
    <3>2. forward'[w].pc \notin {"run", "got"}
      BY <2>2
    <3> QED
      BY <2>2, <3>1, <3>2, ForwardQuiet
  <2> QED
    BY <1>1, <2>1, <2>2, SelectCases
<1>2. CASE Forward(w)
  <2>1. CASE /\ IsCurrent(w) /\ enqueue(forward[w].event)
             /\ forward' = [forward EXCEPT ![w].pc = "run"]
    BY <1>2, <2>1, ForwardsEvent DEF Forward, enqueue, rest, loops, store, written
  <2>2. ASSUME NEW pc \in {"dropped", "done"}, forward' = [forward EXCEPT ![w].pc = pc], send' = send
        PROVE  Stream'
    <3>1. /\ task' = task /\ watches' = watches /\ watch' = watch /\ head' = head
          /\ UNCHANGED <<writer, client, send>>
      BY <1>2, <2>2 DEF Forward, rest, loops, store, written
    <3>2. forward'[w].pc = pc /\ \A v \in WatchIds : v # w => forward'[v] = forward[v]
      BY <1>0, <2>2, ForwardPc
    <3>3. forward'[w].pc \notin {"run", "got"}
      BY <3>2
    <3> QED
      BY <3>1, <3>2, <3>3, ForwardQuiet
  <2> QED
    BY <1>2, <2>1, <2>2 DEF Forward
<1>3. CASE ForwardDropped(w) \/ ForwardSlow(w) \/ ForwardEnded(w)
  <2>1. /\ task' = task /\ watch' = watch /\ head' = head /\ UNCHANGED <<writer, client, send>>
    BY <1>3 DEF ForwardDropped, ForwardSlow, ForwardEnded, rest, loops, store, written
  <2>2. \E pc \in {"done", "close"} : forward' = [forward EXCEPT ![w].pc = pc]
    BY <1>3 DEF ForwardDropped, ForwardSlow, ForwardEnded
  <2>3. forward'[w].pc \in {"done", "close"} /\ \A v \in WatchIds : v # w => forward'[v] = forward[v]
    BY <1>0, <2>2, ForwardPc
  <2>4. forward'[w].pc \notin {"run", "got"}
    BY <2>3
  <2>5. \A k \in Codexes, v \in WatchIds : watches'[k] = v => watches[k] = v
    <3>1. watches' = watches \/ \E k \in Codexes : watches' = [watches EXCEPT ![k] = 0]
      <4>1. CASE ForwardDropped(w) \/ ForwardSlow(w) \/ (ForwardEnded(w) /\ ~IsCurrent(w))
        BY <4>1 DEF ForwardDropped, ForwardSlow, ForwardEnded, locked
      <4>2. CASE ForwardEnded(w) /\ IsCurrent(w)
        <5>1. watch[w].codex \in Codexes
          BY <4>2, CurrentIs DEF WInv, Places
        <5> QED
          BY <4>2, <5>1 DEF ForwardEnded
      <4> QED
        BY <1>3, <4>1, <4>2
    <3> QED
      BY <3>1, PlaceGone
  <2> QED
    BY <2>1, <2>3, <2>4, <2>5, ForwardQuiet
<1> QED
  BY <1>1, <1>2, <1>3 DEF ForwardStep

\* The activity store publishes or forgets.
LEMMA StoreStream ==
    ASSUME TypeOK, TypeOK', WInv, Stream, NEW k \in Codexes, Publish(k) \/ Forget(k)
    PROVE  Stream'
<1>0. UNCHANGED <<writer, client, send>> /\ task' = task /\ forward' = forward /\ watches' = watches
  BY DEF Publish, Forget, rest, loops, locked, written
<1>1. Over \subseteq Over'
  <2>1. \A v \in WatchIds : Fades(watch[v], watch'[v])
    <3> SUFFICES ASSUME NEW v \in WatchIds PROVE Fades(watch[v], watch'[v])
      OBVIOUS
    <3>1. watch'[v] = Delivered(k, v) \/ \E i \in 1 .. WatchQueueSize : watch'[v] = Ended(k, v, i)
      BY DEF Publish, Forget
    <3> QED
      BY <3>1, DeliveredFades
  <2> QED
    BY <2>1, OverGrows
<1>2. ASSUME NEW j \in Codexes, NEW w \in WatchIds, watches'[j] = w PROVE watches[j] = w /\ Steady(w)
  <2>1. w # 0
    BY NotNone
  <2>2. watches[j] = w /\ watch[w].codex = j
    BY <1>0, <1>2, <2>1 DEF WInv, Places
  <2>3. Calm(w)
    BY <2>2, CalmStore
  <2> QED
    BY <1>0, <2>2, <2>3 DEF Steady
<1>3. Chats
  BY <1>0 DEF Chats
<1> QED
  BY <1>1, <1>2, <1>3, ChatsPipe, StreamKept

\* At first nothing is on its way and nothing is watched.
LEMMA InitStream ==
    ASSUME Init
    PROVE  Stream
<1>1. writer = [pc |-> "top", frame |-> Nothing] /\ send = <<>> /\ watches = [k \in Codexes |-> 0]
  BY DEF Init
<1>2. Out = <<>>
  BY <1>1 DEF Out
<1>3. Good(Over, Out, client)
  <2>1. 1 .. Len(<<>>) = {}
    BY SMT
  <2> QED
    BY <1>2, <2>1 DEF Good
<1>4. Lines
  <2>1. \A k \in Codexes, w \in WatchIds : watches[k] # w
    BY <1>1, BoundAssumption, SMT DEF WatchIds
  <2> QED
    BY <2>1 DEF Lines
<1> QED
  BY <1>3, <1>4 DEF Stream

\* Every step keeps the stream.
LEMMA NextStream ==
    ASSUME TypeOK, TypeOK', WInv, Stream, [Next]_vars
    PROVE  Stream'
<1>1. CASE \/ ReadHello \/ ReadPing \/ ReadBad \/ ReadEnds \/ ReaderStep \/ PeerGone
           \/ Ping \/ HeartbeatCloses \/ HeartbeatEnds \/ WriterStep
  BY <1>1, LoopsStream
<1>2. ASSUME NEW t \in Tasks, NEW k \in Codexes, NEW what \in {"watch", "unwatch", "respond"},
             ReadRequest(t, what, k)
      PROVE  Stream'
  BY <1>2, RequestStream
<1>3. ASSUME NEW t \in Tasks, HandlerStep(t) PROVE Stream'
  BY <1>3, HandlersStream
<1>4. ASSUME NEW w \in WatchIds, ForwardStep(w) PROVE Stream'
  BY <1>4, ForwardsStream
<1>5. ASSUME NEW k \in Codexes, Publish(k) \/ Forget(k) PROVE Stream'
  BY <1>5, StoreStream
<1>6. CASE UNCHANGED vars
  <2>1. UNCHANGED <<watches, task, forward, watch, head>> /\ UNCHANGED <<writer, client, send>>
    BY <1>6 DEF vars, loops, locked, store, written
  <2>2. Chats
    BY <2>1 DEF Chats
  <2> QED
    BY <2>1, <2>2, ChatsPipe, QuietStream
<1> QED
  BY <1>1, <1>2, <1>3, <1>4, <1>5, <1>6 DEF Next

\* Of every watch in c.watches: what its goroutines and its channel still hold goes
\* on from what the client was told last, and so does what is already queued.
THEOREM StreamInvariance == Spec => []Stream
<1>1. Init => Stream
  BY InitStream
<1>2. TypeOK /\ TypeOK' /\ WInv /\ Stream /\ [Next]_vars => Stream'
  BY NextStream
<1> QED
  BY <1>1, <1>2, PlacesInvariance, PTL DEF Spec

\* What a client is sent about a Codex follows the Response to its watch without a
\* gap, however handleWatch, handleUnwatch, forwardWatch and the activity store
\* interleave.
THEOREM EventsFollowTheirWatchHolds == Spec => []EventsFollowTheirWatch
<1>1. TypeOK /\ Stream => EventsFollowTheirWatch
  BY GoodFollows DEF Stream
<1> QED
  BY <1>1, StreamInvariance, TypeCorrect, PTL

=============================================================================
