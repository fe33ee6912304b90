------------------------- MODULE ActivityStoreProofs -------------------------
(***************************************************************************)
(* Proofs about ActivityStore for every number of clients and every        *)
(* capacity, bound and failure assumption: the inductive invariant, what   *)
(* follows from it, and that ActivityStore implements EventFeed.           *)
(***************************************************************************)
EXTENDS ActivityStoreFeed, ActivityStoreLemmas

\* Zenon proves a step unless the step names SMT.
USE Zenon

USE DEF Nil

-----------------------------------------------------------------------------
(* Every action preserves Ind *)

\* A Host that starts satisfies the inductive invariant.
LEMMA InitInd == Init => Ind
<1> SUFFICES ASSUME Init PROVE Ind
  OBVIOUS
<1>1. GoodStream(EmptyStream)
  BY EmptyStreamGood
<1>2. TypeOK
  <2>1. dView \in Views /\ dHead \in Nat /\ run \in Nat
    BY SMT DEF Init, Views, NoView, LegacyView, StateView
  <2>2. inbox \in [Clients -> Seq(Nat)] /\ cursor \in [Clients -> [run : Nat, seq : Nat]]
    BY NothingQueued DEF Init
  <2> QED BY <1>1, <2>1, <2>2 DEF Init, TypeOK, GoodStream
<1>3. StreamInv
  BY SMT, <1>1 DEF Init, StreamInv, NoView, LegacyView, StateView
<1>4. ASSUME NEW c \in Clients PROVE OK(c)
  BY SMT, <1>2, NothingQueued, EmptyAscends DEF Init, OK, ClientOK, TypeOK
<1> QED BY SMT, <1>2, <1>3, <1>4 DEF Ind, Init

\* A committed event (Publish) preserves the inductive invariant.
LEMMA PublishInd ==
    ASSUME Ind, Publish
    PROVE  Ind'
<1> DEFINE n == dHead + 1
           s == ensure
           ev == AppendTrimmed(s.events, n)
<1>0. TypeOK /\ StreamInv /\ run > 0 /\ dHead \in Nat /\ n \in Nat
  BY SMT DEF Ind, TypeOK
<1>1. GoodStream(s) /\ s.head = dHead /\ ~s.needsReload
  BY <1>0, EnsureFacts DEF Publish, EnsureSucceeds
<1>2. /\ dHead' = n /\ dView' = EventView(n) /\ cached' = TRUE
      /\ st' = [s EXCEPT !.head = n, !.view = EventView(n), !.events = ev]
      /\ Deliver(n)
      /\ UNCHANGED <<exists, run, cursor, missed, lost, terminals>>
  BY DEF Publish, client
<1>3. /\ ev \in Seq(Nat) /\ Len(ev) <= Capacity /\ EndsAt(ev, n)
      /\ Len(ev) = Capacity \/ Len(ev) = Len(s.events) + 1
  <2> HIDE DEF s
  <2>1. s.events \in Seq(Nat) /\ EndsAt(s.events, dHead) /\ Len(s.events) <= Capacity
    BY <1>1 DEF GoodStream, Streams
  <2> QED BY <1>0, <2>1, AppendTrimmedFacts
<1>4. EventView(n) \in Views
  BY <1>0 DEF EventView, Views
<1> HIDE DEF s, ev, n
<1>5. StreamInv'
  <2>1. /\ st' \in Streams /\ st'.head = n /\ st'.view = EventView(n) /\ st'.events = ev
        /\ st'.floor = s.floor /\ ~st'.needsReload
    BY <1>0, <1>1, <1>2, <1>3, <1>4 DEF GoodStream, Streams
  <2>2. s.floor # Nil => /\ s.floor <= n
                         /\ Len(ev) = Capacity \/ Len(ev) >= n - s.floor
    <3>1. s.floor \in Nat \cup {Nil} /\ Len(s.events) \in Nat /\ Len(ev) \in Nat
      BY SMT, <1>1, <1>3 DEF GoodStream, Streams
    <3>2. s.floor # Nil => /\ s.floor <= dHead
                           /\ Len(s.events) = Capacity \/ Len(s.events) >= dHead - s.floor
      BY <1>1 DEF GoodStream
    <3> QED BY SMTT(60), <1>0, <1>3, <3>1, <3>2, CapacityAssumption DEF n
  <2>3. GoodStream(st')
    BY SMT, <1>3, <2>1, <2>2 DEF GoodStream, EventView
  <2> QED BY <1>2, <2>1, <2>3 DEF StreamInv, EventView
<1>6. inbox' \in [Clients -> Seq(Nat)] /\ watch' \in [Clients -> {"none", "live", "slow", "ended"}]
  BY SMT, <1>0, <1>2 DEF Deliver, TypeOK
<1>7. TypeOK'
  BY <1>0, <1>2, <1>4, <1>5, <1>6 DEF TypeOK, Deliver, StreamInv, GoodStream
<1>8. ASSUME NEW c \in Clients PROVE OK(c)'
  <2>0. OK(c) /\ inbox[c] \in Seq(Nat) /\ cursor[c].seq \in Nat
        /\ watch[c] \in {"none", "live", "slow", "ended"}
    BY <1>0 DEF Ind, TypeOK
  <2>1. CASE watch[c] = "live" /\ ~Full(c)
    <3>1. watch'[c] = "live" /\ inbox'[c] = Append(inbox[c], n)
      BY <1>2, <2>1 DEF Deliver
    <3> QED BY <1>0, <1>2, <2>0, <2>1, <3>1, DeliveredOK DEF OK, n
  <2>2. CASE ~(watch[c] = "live" /\ ~Full(c))
    <3>1. /\ inbox'[c] = inbox[c] /\ watch'[c] \in {"none", "slow", "ended"}
          /\ watch'[c] = watch[c] \/ (watch[c] = "live" /\ watch'[c] = "slow")
      BY <1>2, <2>0, <2>2 DEF Deliver
    <3> QED BY <1>0, <1>2, <2>0, <3>1, NotRegisteredOK DEF OK, n
  <2> QED BY <2>1, <2>2
<1> QED BY <1>0, <1>2, <1>5, <1>7, <1>8 DEF Ind

\* A failed or indeterminate commit and its reload (Publish, reloadUnsafe)
\* preserve the inductive invariant.
LEMMA PublishFailsInd ==
    ASSUME Ind, NEW committed \in BOOLEAN, NEW loaded \in BOOLEAN,
           PublishFails(committed, loaded)
    PROVE  Ind'
<1>0. TypeOK /\ StreamInv /\ run > 0 /\ dHead \in Nat
  BY DEF Ind, TypeOK
<1>1. GoodStream(ensure)
  BY <1>0, EnsureFacts DEF PublishFails
<1>2. /\ dHead' \in Nat /\ dView' \in Views /\ (dView'.kind = "event" => dView'.head = dHead')
      /\ dHead' = IF committed THEN dHead + 1 ELSE dHead
  BY SMT, <1>0 DEF PublishFails, TypeOK, EventView, Views, StreamInv
<1>3. cached' = TRUE /\ st' = reloadUnsafe(ensure, loaded, dHead', dView')
  BY DEF PublishFails
<1>4. GoodStream(st') /\ (~st'.needsReload => st'.head = dHead')
  <2> DEFINE s == ensure
             d == dHead'
             v == dView'
  <2>1. GoodStream(s) /\ d \in Nat /\ v \in Views /\ (v.kind = "event" => v.head = d)
    BY <1>1, <1>2
  <2>2. st' = reloadUnsafe(s, loaded, d, v)
    BY <1>3
  <2> HIDE DEF s, d, v
  <2>3. GoodStream(st') /\ (~st'.needsReload => st'.head = d)
    BY <2>1, <2>2, ReloadUnsafeFacts
  <2> QED BY <2>3 DEF d
<1>5. StreamInv'
  BY <1>2, <1>4 DEF StreamInv
<1>6. /\ UNCHANGED <<exists, run, watch, inbox, backlog, cursor, missed, terminals>>
      /\ lost' = [c \in Clients |-> IF committed /\ watch[c] = "live"
                                    THEN lost[c] \cup {dHead + 1} ELSE lost[c]]
  BY DEF PublishFails, channels
<1>7. TypeOK'
  BY <1>0, <1>2, <1>3, <1>4, <1>6 DEF TypeOK, GoodStream
<1>8. ASSUME NEW c \in Clients PROVE OK(c)'
  <2>0. OK(c) /\ inbox[c] \in Seq(Nat) /\ cursor[c].seq \in Nat
        /\ watch[c] \in {"none", "live", "slow", "ended"}
    BY <1>0 DEF Ind, TypeOK
  <2>1. CASE ~committed
    BY <1>2, <1>6, <2>0, <2>1 DEF OK
  <2>2. CASE committed /\ watch[c] = "live"
    BY SMT, <1>0, <1>2, <1>6, <2>0, <2>2, WithheldOK DEF OK
  <2>3. CASE committed /\ watch[c] # "live"
    <3>1. watch[c] \in {"none", "slow", "ended"} /\ lost'[c] = lost[c] /\ dHead' = dHead + 1
      BY <1>2, <1>6, <2>0, <2>3
    <3> QED BY ZenonT(30), <1>0, <1>6, <2>0, <3>1, NotRegisteredOK DEF OK
  <2> QED BY <2>1, <2>2, <2>3
<1> QED BY <1>0, <1>5, <1>6, <1>7, <1>8 DEF Ind

\* A state write past the Store (persistState) preserves the inductive invariant.
LEMMA PersistStateInd ==
    ASSUME Ind, NEW h \in {0, dHead}, PersistState(h)
    PROVE  Ind'
<1>1. dHead \in Nat /\ dView' \in Views /\ dView'.kind # "event"
  BY SMT DEF PersistState, StateView, Views, Ind, TypeOK
<1>2. UNCHANGED <<exists, dHead, run, cached, st, watch, inbox, backlog, cursor, missed,
                  lost, terminals>>
  BY DEF PersistState, memory, channels, client
<1> QED BY <1>1, <1>2 DEF Ind, TypeOK, StreamInv, OK

\* ReloadDurable preserves the inductive invariant, whether it loads or not.
LEMMA ReloadDurableInd ==
    ASSUME Ind, NEW loaded \in BOOLEAN, ReloadDurable(loaded)
    PROVE  Ind'
<1> DEFINE s == IF cached THEN st ELSE EmptyStream
<1>0. TypeOK /\ StreamInv
  BY DEF Ind
<1>1. UNCHANGED <<exists, dHead, dView, run, watch, inbox, backlog, cursor, missed, lost,
                  terminals>>
  BY DEF ReloadDurable, durable, channels, client
<1>2. cached' = TRUE /\ st' = reloadUnsafe(s, loaded, dHead, dView)
  BY DEF ReloadDurable
<1>3. GoodStream(s)
  BY <1>0, EmptyStreamGood DEF StreamInv
<1> HIDE DEF s
<1>4. GoodStream(st') /\ (~st'.needsReload => st'.head = dHead)
  BY SMTT(30), <1>0, <1>2, <1>3, ReloadUnsafeFacts DEF TypeOK, StreamInv
<1>5. TypeOK' /\ StreamInv'
  BY SMTT(30), <1>0, <1>1, <1>2, <1>4 DEF TypeOK, StreamInv, GoodStream
<1>6. ASSUME NEW c \in Clients PROVE OK(c)'
  BY <1>1 DEF Ind, OK
<1> QED BY <1>1, <1>5, <1>6 DEF Ind

\* The stream a Watch leaves behind is good and still at its head.
LEMMA WatchedFacts ==
    ASSUME NEW s, GoodStream(s), ~s.needsReload, NEW resumed \in BOOLEAN
    PROVE  /\ GoodStream(Watched(s, resumed))
           /\ Watched(s, resumed).head = s.head
           /\ ~Watched(s, resumed).needsReload
<1> DEFINE t == [s EXCEPT !.floor = s.head]
<1>1. CASE resumed
  BY <1>1 DEF Watched
<1>2. CASE ~resumed
  <2>0. s \in Streams /\ s.head \in Nat /\ Len(s.events) \in Nat
    BY SMT DEF GoodStream, Streams
  <2>1. /\ t \in Streams /\ t.head = s.head /\ t.events = s.events /\ t.view = s.view
        /\ t.floor = s.head /\ ~t.needsReload
    BY <2>0 DEF Streams
  <2>2. Watched(s, resumed) = t
    BY <1>2 DEF Watched
  <2> HIDE DEF t
  <2> QED BY SMT, <2>0, <2>1, <2>2 DEF GoodStream
<1> QED BY <1>1, <1>2

\* A stream at the durable head that lets a cursor resume replays exactly what
\* is after it.
LEMMA ResumeFacts ==
    ASSUME NEW s, GoodStream(s), NEW after \in Nat, Resumes(s, after)
    PROVE  /\ after <= s.head
           /\ ReplayFrom(s.events, after + 1) \in Seq(Nat)
           /\ Len(ReplayFrom(s.events, after + 1)) = s.head - after
           /\ \A k \in 1 .. s.head - after : ReplayFrom(s.events, after + 1)[k] = after + k
<1>1. /\ s.events \in Seq(Nat) /\ s.head \in Nat /\ EndsAt(s.events, s.head)
      /\ after <= s.head /\ continuousReplayAvailable(s.events, after + 1, s.head)
  BY DEF GoodStream, Streams, Resumes
<1>2. after + 1 \in Nat /\ after + 1 <= s.head + 1 /\ s.head - (after + 1) + 1 = s.head - after
  BY SMT, <1>1
<1>3. /\ ReplayFrom(s.events, after + 1) \in Seq(Nat)
      /\ Len(ReplayFrom(s.events, after + 1)) = s.head - (after + 1) + 1
      /\ \A k \in 1 .. s.head - (after + 1) + 1 :
            ReplayFrom(s.events, after + 1)[k] = (after + 1) + k - 1
  BY <1>1, <1>2, ReplayFacts
<1>4. \A k \in 1 .. s.head - after : (after + 1) + k - 1 = after + k
  BY SMT, <1>1
<1> QED BY <1>1, <1>2, <1>3, <1>4

\* An answered Watch, RESUMED or RESET, preserves the inductive invariant.
LEMMA WatchInd ==
    ASSUME Ind, NEW c \in Clients, NEW fresh \in BOOLEAN, Watch(c, fresh)
    PROVE  Ind'
<1> DEFINE s == ensure
           after == After(c, fresh)
           resumed == Resumes(s, after)
           replay == IF resumed THEN ReplayFrom(s.events, after + 1) ELSE <<>>
<1>0. /\ TypeOK /\ StreamInv /\ run > 0 /\ run \in Nat /\ dHead \in Nat
      /\ cursor[c] \in [run : Nat, seq : Nat]
  BY DEF Ind, TypeOK
<1>1. GoodStream(s) /\ s.head = dHead /\ ~s.needsReload
  BY <1>0, EnsureFacts DEF Watch
<1>2. /\ cached' = TRUE
      /\ st' = Watched(s, resumed)
      /\ watch' = [watch EXCEPT ![c] = "live"]
      /\ inbox' = [inbox EXCEPT ![c] = replay]
      /\ backlog' = [backlog EXCEPT ![c] = Len(replay)]
      /\ cursor' = IF resumed THEN cursor
                   ELSE [cursor EXCEPT ![c] = [run |-> run, seq |-> s.head]]
      /\ missed' = IF resumed THEN missed ELSE [missed EXCEPT ![c] = {}]
      /\ lost' = IF resumed THEN lost ELSE [lost EXCEPT ![c] = {}]
      /\ UNCHANGED <<exists, dHead, dView, run, terminals>>
  BY DEF Watch, durable
<1>3. resumed \in BOOLEAN
  BY DEF Resumes
<1>4. resumed => after = cursor[c].seq /\ after \in Nat /\ cursor[c].run = run
  BY <1>0 DEF Resumes, After
<1> HIDE DEF s, after, resumed
<1>5. resumed => /\ after <= dHead /\ replay \in Seq(Nat) /\ Len(replay) = dHead - after
                 /\ \A k \in 1 .. dHead - after : replay[k] = after + k
  <2> SUFFICES ASSUME resumed
               PROVE  /\ after <= dHead /\ replay \in Seq(Nat) /\ Len(replay) = dHead - after
                      /\ \A k \in 1 .. dHead - after : replay[k] = after + k
    OBVIOUS
  <2>1. Resumes(s, after)
    BY DEF resumed
  <2> QED BY <1>1, <1>4, <2>1, ResumeFacts
<1>6. replay \in Seq(Nat) /\ Len(replay) \in Nat
  BY SMT, <1>3, <1>5, NothingQueued
<1>7. GoodStream(st') /\ st'.head = dHead /\ ~st'.needsReload
  BY SMTT(30), <1>1, <1>2, <1>3, WatchedFacts
<1>8. StreamInv'
  BY SMTT(30), <1>0, <1>2, <1>7 DEF StreamInv
<1> HIDE DEF replay
<1>9. TypeOK'
  <2>1. cursor' \in [Clients -> [run : Nat, seq : Nat]]
    BY <1>0, <1>1, <1>2 DEF TypeOK
  <2>2. missed' \in [Clients -> SUBSET Nat] /\ lost' \in [Clients -> SUBSET Nat]
    BY <1>0, <1>2 DEF TypeOK
  <2>3. inbox' \in [Clients -> Seq(Nat)] /\ backlog' \in [Clients -> Nat]
        /\ watch' \in [Clients -> {"none", "live", "slow", "ended"}]
    BY <1>0, <1>2, <1>6 DEF TypeOK
  <2> QED BY SMTT(30), <1>0, <1>2, <1>7, <2>1, <2>2, <2>3 DEF TypeOK, GoodStream
<1>10. ASSUME NEW d \in Clients PROVE OK(d)'
  <2>0. OK(d)
    BY DEF Ind
  <2>1. CASE d # c
    <3>1. /\ watch'[d] = watch[d] /\ inbox'[d] = inbox[d] /\ cursor'[d] = cursor[d]
          /\ missed'[d] = missed[d] /\ lost'[d] = lost[d]
      BY SMTT(30), <1>0, <1>2, <2>1 DEF TypeOK
    <3> QED BY <1>2, <2>0, <3>1 DEF OK
  <2>2. CASE d = c /\ resumed
    <3>1. /\ watch'[d] = "live" /\ inbox'[d] = replay /\ cursor'[d] = cursor[d]
          /\ missed'[d] = missed[d] /\ lost'[d] = lost[d] /\ missed[d] \subseteq lost[d]
      BY SMTT(30), <1>0, <1>2, <2>0, <2>2 DEF TypeOK, OK, ClientOK
    <3>2. ClientOK("live", replay, run, cursor[d].seq, missed[d], lost[d], run, dHead)
      <4>1. /\ cursor[d].seq \in Nat /\ cursor[d].seq <= dHead
            /\ Len(replay) = dHead - cursor[d].seq
            /\ \A k \in 1 .. dHead - cursor[d].seq : replay[k] = cursor[d].seq + k
        BY <1>4, <1>5, <2>2
      <4> QED BY ZenonT(30), <1>0, <1>6, <3>1, <4>1, ResumedOK
    <3>3. cursor[d].run = run /\ run' = run /\ dHead' = dHead
      BY <1>2, <1>4, <2>2
    <3> QED BY SMTT(30), <3>1, <3>2, <3>3 DEF OK
  <2>3. CASE d = c /\ ~resumed
    <3>1. /\ watch'[d] = "live" /\ inbox'[d] = <<>> /\ missed'[d] = {} /\ lost'[d] = {}
          /\ cursor'[d] = [run |-> run, seq |-> dHead]
      BY <1>0, <1>1, <1>2, <2>3 DEF TypeOK, replay
    <3>2. ClientOK("live", <<>>, run, dHead, {}, {}, run, dHead)
      BY <1>0, ResetOK
    <3>3. cursor'[d].run = run /\ cursor'[d].seq = dHead /\ run' = run /\ dHead' = dHead
      BY SMT, <1>2, <3>1
    <3> QED BY SMTT(30), <3>1, <3>2, <3>3 DEF OK
  <2> QED BY <1>3, <2>1, <2>2, <2>3
<1> QED BY <1>0, <1>2, <1>8, <1>9, <1>10 DEF Ind

\* A client whose watch is gone keeps what it knew.
LEMMA GoneOK ==
    ASSUME NEW w, NEW q, NEW cr, NEW cs, NEW m, NEW l, NEW r, NEW h, NEW r2, NEW h2,
           ClientOK(w, q, cr, cs, m, l, r, h), cs <= h2
    PROVE  ClientOK("none", <<>>, cr, cs, m, l, r2, h2)
  BY SMT, EmptyAscends, NothingQueued DEF ClientOK

\* A Watch whose response is lost preserves the inductive invariant.
LEMMA WatchUnansweredInd ==
    ASSUME Ind, NEW c \in Clients, NEW fresh \in BOOLEAN, WatchUnanswered(c, fresh)
    PROVE  Ind'
<1> DEFINE s == ensure
           resumed == Resumes(s, After(c, fresh))
<1>0. TypeOK /\ StreamInv /\ dHead \in Nat
  BY DEF Ind, TypeOK
<1>1. GoodStream(s) /\ s.head = dHead /\ ~s.needsReload
  BY <1>0, EnsureFacts DEF WatchUnanswered
<1>2. /\ cached' = TRUE /\ st' = Watched(s, resumed)
      /\ watch' = [watch EXCEPT ![c] = "none"]
      /\ inbox' = [inbox EXCEPT ![c] = <<>>]
      /\ backlog' = [backlog EXCEPT ![c] = 0]
      /\ UNCHANGED <<exists, dHead, dView, run, cursor, missed, lost, terminals>>
  BY DEF WatchUnanswered, durable, client
<1>3. resumed \in BOOLEAN
  BY DEF Resumes
<1> HIDE DEF s, resumed
<1>4. GoodStream(st') /\ st'.head = dHead /\ ~st'.needsReload
  BY SMTT(30), <1>1, <1>2, <1>3, WatchedFacts
<1>5. TypeOK' /\ StreamInv'
  BY SMTT(30), <1>0, <1>2, <1>4, NothingQueued DEF TypeOK, StreamInv, GoodStream
<1>6. ASSUME NEW d \in Clients PROVE OK(d)'
  <2>0. OK(d)
    BY DEF Ind
  <2>1. CASE d = c
    <3>1. watch'[d] = "none" /\ inbox'[d] = <<>>
      BY SMTT(30), <1>0, <1>2, <2>1 DEF TypeOK
    <3>2. cursor[d].seq <= dHead
      BY SMTT(30), <2>0 DEF OK, ClientOK
    <3> QED BY SMTT(60), <1>2, <2>0, <3>1, <3>2, GoneOK DEF OK
  <2>2. CASE d # c
    <3>1. watch'[d] = watch[d] /\ inbox'[d] = inbox[d]
      BY <1>0, <1>2, <2>2 DEF TypeOK
    <3> QED BY <1>2, <2>0, <3>1 DEF OK
  <2> QED BY <2>1, <2>2
<1> QED BY <1>2, <1>5, <1>6 DEF Ind

\* Watch.Cancel preserves the inductive invariant.
LEMMA CancelInd ==
    ASSUME Ind, NEW c \in Clients, Cancel(c)
    PROVE  Ind'
<1>0. TypeOK /\ StreamInv
  BY DEF Ind
<1>1. /\ watch' = [watch EXCEPT ![c] = "none"]
      /\ inbox' = [inbox EXCEPT ![c] = <<>>]
      /\ backlog' = [backlog EXCEPT ![c] = 0]
      /\ UNCHANGED <<exists, dHead, dView, run, cached, st, cursor, missed, lost, terminals>>
  BY DEF Cancel, durable, memory, client
<1>2. TypeOK' /\ StreamInv'
  BY <1>0, <1>1, NothingQueued DEF TypeOK, StreamInv
<1>3. ASSUME NEW d \in Clients PROVE OK(d)'
  <2>0. OK(d)
    BY SMTT(30) DEF Ind
  <2>1. CASE d = c
    <3>1. watch'[d] = "none" /\ inbox'[d] = <<>>
      BY SMTT(30), <1>0, <1>1, <2>1 DEF TypeOK
    <3>2. cursor[d].seq <= dHead
      BY SMTT(30), <2>0 DEF OK, ClientOK
    <3> QED BY SMTT(60), <1>1, <2>0, <3>1, <3>2, GoneOK DEF OK
  <2>2. CASE d # c
    <3>1. watch'[d] = watch[d] /\ inbox'[d] = inbox[d]
      BY <1>0, <1>1, <2>2 DEF TypeOK
    <3> QED BY <1>1, <2>0, <3>1 DEF OK
  <2> QED BY <2>1, <2>2
<1> QED BY <1>1, <1>2, <1>3 DEF Ind

\* A Host crash, with a commit that took effect or not, preserves the invariant.
LEMMA HostRestartInd ==
    ASSUME Ind, NEW committed \in BOOLEAN, HostRestart(committed)
    PROVE  Ind'
<1>0. TypeOK /\ StreamInv /\ run > 0 /\ run \in Nat /\ dHead \in Nat
  BY DEF Ind, TypeOK
<1>1. /\ run' = run + 1 /\ cached' = FALSE /\ st' = EmptyStream
      /\ watch' = [c \in Clients |-> "none"]
      /\ inbox' = [c \in Clients |-> <<>>]
      /\ backlog' = [c \in Clients |-> 0]
      /\ UNCHANGED <<exists, cursor, missed, lost, terminals>>
  BY DEF HostRestart, client
<1>2. /\ dHead' \in Nat /\ dHead' >= dHead /\ dView' \in Views
      /\ dView'.kind = "event" => dView'.head = dHead'
  BY SMT, <1>0 DEF HostRestart, TypeOK, EventView, Views, StreamInv
<1>3. StreamInv'
  BY <1>1, <1>2, EmptyStreamGood DEF StreamInv
<1>4. TypeOK'
  <2>0. run' \in Nat
    BY SMT, <1>0, <1>1
  <2>3. cached' \in BOOLEAN
    BY <1>1, Zenon
  <2>1. st' \in Streams
    BY <1>1, EmptyStreamGood DEF GoodStream
  <2>2. /\ watch' \in [Clients -> {"none", "live", "slow", "ended"}]
        /\ inbox' \in [Clients -> Seq(Nat)] /\ backlog' \in [Clients -> Nat]
    BY SMTT(30), <1>1, NothingQueued
  <2> QED BY <1>0, <1>1, <1>2, <2>0, <2>1, <2>2, <2>3 DEF TypeOK
<1>5. ASSUME NEW c \in Clients PROVE OK(c)'
  <2>1. OK(c) /\ cursor[c].seq \in Nat
    BY SMTT(30), <1>0 DEF Ind, TypeOK
  <2>2. cursor[c].seq <= dHead
    BY <2>1 DEF OK, ClientOK
  <2>3. cursor[c].seq <= dHead'
    BY SMT, <1>0, <1>2, <2>1, <2>2
  <2> QED BY SMT, <1>1, <2>1, <2>3, GoneOK DEF OK
<1>6. run' > 0
  BY SMT, <1>0, <1>1
<1> QED BY <1>3, <1>4, <1>5, <1>6 DEF Ind

\* A client that reads its next entry preserves the inductive invariant.
LEMMA ReceiveInd ==
    ASSUME Ind, NEW c \in Clients, Receive(c)
    PROVE  Ind'
<1> DEFINE last == watch[c] = "ended" /\ Len(inbox[c]) = 1
           e == Head(inbox[c])
<1>0. /\ TypeOK /\ StreamInv /\ dHead \in Nat /\ run > 0 /\ OK(c)
      /\ inbox[c] \in Seq(Nat) /\ backlog[c] \in Nat
      /\ cursor[c] \in [run : Nat, seq : Nat] /\ missed[c] \in SUBSET Nat
  BY DEF Ind, TypeOK
<1>1. /\ inbox[c] # <<>>
      /\ inbox' = [inbox EXCEPT ![c] = Tail(inbox[c])]
      /\ backlog' = [backlog EXCEPT ![c] = IF backlog[c] > 0 THEN backlog[c] - 1 ELSE 0]
      /\ UNCHANGED <<exists, dHead, dView, run, cached, st, terminals>>
  BY DEF Receive, durable, memory
<1>2. /\ Tail(inbox[c]) \in Seq(Nat) /\ e \in Nat /\ Len(inbox[c]) \in Nat
      /\ Len(inbox[c]) = 1 => Tail(inbox[c]) = <<>>
  <2>1. ASSUME NEW q \in Seq(Nat), q # <<>>
        PROVE  /\ Tail(q) \in Seq(Nat) /\ Head(q) \in Nat /\ Len(q) \in Nat
               /\ Len(Tail(q)) = Len(q) - 1
    BY SMT, <2>1
  <2>2. \A q \in Seq(Nat) : Len(q) = 0 => q = <<>>
    BY NothingQueued
  <2>3. /\ Tail(inbox[c]) \in Seq(Nat) /\ Head(inbox[c]) \in Nat /\ Len(inbox[c]) \in Nat
        /\ Len(Tail(inbox[c])) = Len(inbox[c]) - 1
    BY <1>0, <1>1, <2>1
  <2>4. Len(inbox[c]) = 1 => Len(Tail(inbox[c])) = 0
    BY SMT, <2>3
  <2> QED BY ZenonT(30), <2>2, <2>3, <2>4
<1>3. inbox' \in [Clients -> Seq(Nat)] /\ backlog' \in [Clients -> Nat]
  BY SMT, <1>0, <1>1, <1>2 DEF TypeOK
<1>4. StreamInv'
  BY <1>0, <1>1 DEF StreamInv
<1>5. ASSUME NEW d \in Clients, d # c
      PROVE  inbox'[d] = inbox[d] /\ OK(d)
  BY SMTT(30), <1>0, <1>1, <1>5 DEF TypeOK, Ind
<1>6. CASE ~last
  <2>1. /\ cursor' = [cursor EXCEPT ![c].seq = e]
        /\ missed' = [missed EXCEPT ![c] = missed[c] \cup (cursor[c].seq + 1 .. e - 1)]
        /\ UNCHANGED <<watch, lost>>
    BY <1>6 DEF Receive
  <2> HIDE DEF e
  <2>2. cursor' \in [Clients -> [run : Nat, seq : Nat]] /\ missed' \in [Clients -> SUBSET Nat]
    <3>1. (cursor[c].seq + 1 .. e - 1) \subseteq Nat
      BY SMT, <1>0, <1>2
    <3> QED BY <1>0, <1>2, <2>1, <3>1 DEF TypeOK
  <2>3. TypeOK'
    BY SMTT(30), <1>0, <1>1, <1>3, <2>1, <2>2 DEF TypeOK
  <2>4. OK(c)'
    <3>1. /\ inbox'[c] = Tail(inbox[c]) /\ cursor'[c].seq = e /\ cursor'[c].run = cursor[c].run
          /\ missed'[c] = missed[c] \cup (cursor[c].seq + 1 .. e - 1)
      BY <1>0, <1>1, <2>1 DEF TypeOK
    <3>2. ClientOK(watch[c], Tail(inbox[c]), cursor[c].run, e,
                   missed[c] \cup (cursor[c].seq + 1 .. e - 1), lost[c], run, dHead)
      BY ZenonT(30), <1>0, <1>1, <1>6, ReceivedOK DEF OK, e
    <3> QED BY <1>1, <2>1, <3>1, <3>2 DEF OK
  <2>5. ASSUME NEW d \in Clients, d # c PROVE OK(d)'
    <3>1. cursor'[d] = cursor[d] /\ missed'[d] = missed[d]
      BY <1>0, <2>1, <2>5 DEF TypeOK
    <3> QED BY <1>1, <1>5, <2>1, <2>5, <3>1 DEF OK
  <2> QED BY <1>0, <1>1, <1>4, <2>3, <2>4, <2>5 DEF Ind
<1>7. CASE last
  <2>1. /\ cursor' = [cursor EXCEPT ![c] = [run |-> 0, seq |-> 0]]
        /\ missed' = [missed EXCEPT ![c] = {}]
        /\ lost' = [lost EXCEPT ![c] = {}]
        /\ watch' = [watch EXCEPT ![c] = "none"]
    BY SMTT(30), <1>7 DEF Receive
  <2>2. TypeOK'
    <3>1. cursor' \in [Clients -> [run : Nat, seq : Nat]]
      BY SMTT(30), <1>0, <2>1 DEF TypeOK
    <3> QED BY <1>0, <1>1, <1>3, <2>1, <3>1 DEF TypeOK
  <2>3. OK(c)'
    <3>1. /\ inbox'[c] = <<>> /\ watch'[c] = "none" /\ cursor'[c].seq = 0
          /\ missed'[c] = {} /\ lost'[c] = {} /\ dHead' = dHead
      BY <1>0, <1>1, <1>2, <1>7, <2>1 DEF TypeOK
    <3>2. 0 <= dHead
      BY SMTT(30), <1>0
    <3> QED BY SMT, <3>1, <3>2, NothingQueued, EmptyAscends DEF OK, ClientOK
  <2>4. ASSUME NEW d \in Clients, d # c PROVE OK(d)'
    <3>1. /\ cursor'[d] = cursor[d] /\ missed'[d] = missed[d] /\ lost'[d] = lost[d]
          /\ watch'[d] = watch[d]
      BY SMTT(30), <1>0, <2>1, <2>4 DEF TypeOK
    <3> QED BY <1>1, <1>5, <2>4, <3>1 DEF OK
  <2> QED BY <1>0, <1>1, <1>4, <2>2, <2>3, <2>4 DEF Ind
<1> QED BY <1>6, <1>7

\* Forget, with any outcome of destroy, preserves the inductive invariant.
LEMMA ForgetInd ==
    ASSUME Ind, NEW outcome \in {"ok", "kept", "gone"}, Forget(outcome)
    PROVE  Ind'
<1> DEFINE s == ensure
           t == s.head + 1
<1>0. TypeOK /\ StreamInv /\ dHead \in Nat /\ run > 0
  BY SMTT(30) DEF Ind, TypeOK
<1>1. GoodStream(s) /\ s.head = dHead /\ ~s.needsReload /\ t = dHead + 1
  BY SMTT(30), <1>0, EnsureFacts DEF Forget
<1>2. /\ inbox' = [c \in Clients |-> IF watch[c] = "live" THEN Ended(c, t) ELSE inbox[c]]
      /\ lost' = [c \in Clients |-> lost[c] \cup Discarded(c)]
      /\ watch' = [c \in Clients |-> IF watch[c] = "live" THEN "ended" ELSE watch[c]]
      /\ terminals' = terminals \cup
             (IF \E c \in Clients : watch[c] = "live" THEN {t} ELSE {})
      /\ st' = IF outcome = "ok" THEN EmptyStream ELSE s
      /\ cached' = (outcome # "ok")
      /\ exists' = (exists /\ outcome = "kept")
      /\ UNCHANGED <<dHead, dView, run, backlog, cursor, missed>>
  BY SMTT(30) DEF Forget
<1> HIDE DEF s, t
<1>3. GoodStream(st') /\ (outcome # "ok" => st'.head = dHead)
  <2>1. CASE outcome = "ok"
    <3>1. st' = EmptyStream
      BY <1>2, <2>1
    <3> QED BY <2>1, <3>1, EmptyStreamGood
  <2>2. CASE outcome # "ok"
    <3>1. st' = s
      BY <1>2, <2>2
    <3> QED BY <1>1, <3>1
  <2> QED BY <2>1, <2>2
<1>4. StreamInv'
  BY ZenonT(30), <1>0, <1>2, <1>3 DEF StreamInv
<1>5. ASSUME NEW c \in Clients, watch[c] = "live"
      PROVE  /\ Ended(c, t) \in Seq(Nat) /\ Discarded(c) \subseteq Nat
             /\ ClientOK("ended", Ended(c, t), cursor[c].run, cursor[c].seq, missed[c],
                         lost[c] \cup Discarded(c), run, dHead)
  <2>0. /\ inbox[c] \in Seq(Nat) /\ backlog[c] \in Nat /\ cursor[c].seq \in Nat
        /\ ClientOK("live", inbox[c], cursor[c].run, cursor[c].seq, missed[c], lost[c], run, dHead)
    BY <1>0, <1>5 DEF Ind, TypeOK, OK
  <2>1. CASE Full(c)
    <3> DEFINE j == backlog[c] + 1
               q == Without(inbox[c], j)
    <3>1. j \in 1 .. Len(inbox[c])
      <4>1. ASSUME NEW n \in Nat, NEW b \in Nat, n - b >= QueueSize PROVE b + 1 \in 1 .. n
        BY SMT, <4>1, QueueSizeAssumption
      <4>2. Len(inbox[c]) \in Nat /\ backlog[c] \in Nat
        <5>1. ASSUME NEW m \in Seq(Nat) PROVE Len(m) \in Nat
          BY SMT
        <5> QED BY <2>0, <5>1
      <4>3. Len(inbox[c]) - backlog[c] >= QueueSize
        BY <2>1 DEF Full
      <4> QED BY <4>1, <4>2, <4>3
    <3>2. Discarded(c) = {inbox[c][j]} /\ Ended(c, t) = Append(q, dHead + 1)
      BY ZenonT(30), <1>1, <1>5, <2>1 DEF Discarded, Ended
    <3> HIDE DEF j
    <3>3. q \in Seq(Nat) /\ inbox[c][j] \in Nat
      <4>1. inbox[c][j] \in Nat
        BY SMTT(30), <2>0, <3>1
      <4> QED BY <2>0, <3>1, <4>1, WithoutFacts
    <3>4. ClientOK("live", q, cursor[c].run, cursor[c].seq, missed[c],
                   lost[c] \cup {inbox[c][j]}, run, dHead)
      <4>1. dHead \in Nat
        BY <1>0 DEF Ind, TypeOK
      <4> QED BY <2>0, <3>1, <4>1, DiscardedOK
    <3> HIDE DEF q
    <3>5. ClientOK("ended", Append(q, dHead + 1), cursor[c].run, cursor[c].seq, missed[c],
                   lost[c] \cup {inbox[c][j]}, run, dHead)
      BY <1>0, <2>0, <3>3, <3>4, EndedOK
    <3>6. Append(q, dHead + 1) \in Seq(Nat)
      BY SMTT(30), <1>0, <3>3
    <3> QED BY ZenonT(30), <3>2, <3>3, <3>5, <3>6
  <2>2. CASE ~Full(c)
    <3>1. Discarded(c) = {} /\ Ended(c, t) = Append(inbox[c], dHead + 1)
      BY SMTT(30), <1>1, <2>2 DEF Discarded, Ended
    <3>2. ClientOK("ended", Append(inbox[c], dHead + 1), cursor[c].run, cursor[c].seq,
                   missed[c], lost[c], run, dHead)
      BY <1>0, <2>0, EndedOK
    <3>3. lost[c] \cup {} = lost[c] /\ Append(inbox[c], dHead + 1) \in Seq(Nat)
      BY SMT, <1>0, <2>0
    <3> QED BY <3>1, <3>2, <3>3
  <2> QED BY <2>1, <2>2
<1>6. ASSUME NEW c \in Clients, watch[c] # "live"
      PROVE  Discarded(c) = {}
  BY SMTT(30), <1>6 DEF Discarded
<1>7. TypeOK'
  <2>1. inbox' \in [Clients -> Seq(Nat)]
    BY <1>0, <1>2, <1>5 DEF TypeOK
  <2>2. lost' \in [Clients -> SUBSET Nat]
    BY <1>0, <1>2, <1>5, <1>6 DEF TypeOK
  <2>3. terminals' \in SUBSET Nat
    BY SMT, <1>0, <1>1, <1>2 DEF TypeOK
  <2>4. watch' \in [Clients -> {"none", "live", "slow", "ended"}]
    BY <1>0, <1>2 DEF TypeOK
  <2> QED BY SMTT(30), <1>0, <1>2, <1>3, <2>1, <2>2, <2>3, <2>4 DEF TypeOK, GoodStream
<1>8. ASSUME NEW c \in Clients PROVE OK(c)'
  <2>0. OK(c)
    BY SMTT(30) DEF Ind
  <2>1. CASE watch[c] = "live"
    <3>1. watch'[c] = "ended" /\ inbox'[c] = Ended(c, t) /\ lost'[c] = lost[c] \cup Discarded(c)
      BY <1>2, <2>1
    <3> QED BY ZenonT(30), <1>2, <1>5, <2>1, <3>1 DEF OK
  <2>2. CASE watch[c] # "live"
    <3>1. watch'[c] = watch[c] /\ inbox'[c] = inbox[c] /\ lost'[c] = lost[c]
      BY <1>2, <1>6, <2>2
    <3> QED BY ZenonT(30), <1>2, <2>0, <3>1 DEF OK
  <2> QED BY <2>1, <2>2
<1> QED BY <1>0, <1>2, <1>4, <1>7, <1>8 DEF Ind

-----------------------------------------------------------------------------
(* Theorems *)

\* Every step, stuttering included, preserves the inductive invariant.
LEMMA NextInd == Ind /\ [Next]_vars => Ind'
<1> SUFFICES ASSUME Ind, [Next]_vars PROVE Ind'
  OBVIOUS
<1>1. CASE Publish
  BY <1>1, PublishInd
<1>2. ASSUME NEW committed \in BOOLEAN, NEW loaded \in BOOLEAN, PublishFails(committed, loaded)
      PROVE  Ind'
  BY <1>2, PublishFailsInd
<1>3. ASSUME NEW h \in {0, dHead}, PersistState(h) PROVE Ind'
  BY <1>3, PersistStateInd
<1>4. ASSUME NEW loaded \in BOOLEAN, ReloadDurable(loaded) PROVE Ind'
  BY <1>4, ReloadDurableInd
<1>5. ASSUME NEW c \in Clients, NEW fresh \in BOOLEAN,
             Watch(c, fresh) \/ WatchUnanswered(c, fresh)
      PROVE  Ind'
  BY <1>5, WatchInd, WatchUnansweredInd
<1>6. ASSUME NEW c \in Clients, Cancel(c) \/ Receive(c) PROVE Ind'
  BY <1>6, CancelInd, ReceiveInd
<1>7. ASSUME NEW outcome \in {"ok", "kept", "gone"}, Forget(outcome) PROVE Ind'
  BY <1>7, ForgetInd
<1>8. ASSUME NEW committed \in BOOLEAN, HostRestart(committed) PROVE Ind'
  BY <1>8, HostRestartInd
<1>9. CASE UNCHANGED vars
  BY <1>9 DEF vars, Ind, TypeOK, StreamInv, OK
<1> QED BY <1>1, <1>2, <1>3, <1>4, <1>5, <1>6, <1>7, <1>8, <1>9 DEF Next

\* The inductive invariant holds in every reachable state.
THEOREM Invariance == Spec => []Ind
<1>1. Init => Ind
  BY InitInd
<1>2. Ind /\ [Next]_vars => Ind'
  BY NextInd
<1> QED BY <1>1, <1>2, PTL DEF Spec

\* The variables keep their types, for all constants.
THEOREM TypeCorrect == Spec => []TypeOK
<1>1. Ind => TypeOK
  BY SMTT(30) DEF Ind
<1> QED BY <1>1, Invariance, PTL

\* However Publish, its failures, reloads, watches, slow consumers, Forget and
\* Host crashes interleave, a client only ever skips events that were withheld
\* from it by an indeterminate commit or discarded for CodexForgotten.
THEOREM NoSilentGapHolds == Spec => []NoSilentGap
<1>1. Ind => NoSilentGap
  BY ZenonT(30) DEF Ind, OK, ClientOK, NoSilentGap, Pos, Position
<1> QED BY <1>1, Invariance, PTL

\* Replay followed by live delivery is strictly ascending for every client.
THEOREM InOrderHolds == Spec => []InOrder
<1>1. Ind => InOrder
  <2> SUFFICES ASSUME Ind, NEW c \in Clients, NEW i \in 1 .. Len(inbox[c])
               PROVE  inbox[c][i] > Before(c, i)
    BY DEF InOrder
  <2>1. OK(c)
    BY DEF Ind
  <2>2. inbox[c][i] > Bef(inbox[c], cursor[c].seq, i)
    BY <2>1 DEF OK, ClientOK
  <2> QED BY <2>2 DEF Bef, Before
<1> QED BY <1>1, Invariance, PTL

\* The replay buffer is the bounded contiguous suffix that ends at the durable
\* head (appendTrimmed, reloadUnsafe), whatever failed before.
THEOREM BufferIsSuffixHolds == Spec => []BufferIsSuffix
<1>1. Ind => BufferIsSuffix
  BY ZenonT(30) DEF Ind, StreamInv, GoodStream, EndsAt, BufferIsSuffix
<1> QED BY <1>1, Invariance, PTL

\* The view a RESET serves, when it is an event's, is that of the head, on disk and
\* in memory (loadDurable, and what a failed Publish leaves behind).
THEOREM ViewMatchesHeadHolds == Spec => []ViewMatchesHead
<1>1. Ind => ViewMatchesHead
  BY ZenonT(30) DEF Ind, StreamInv, GoodStream, ViewMatchesHead
<1> QED BY <1>1, Invariance, PTL

\* A cursor at or past safeReplayFloor and at most Capacity behind resumes.
THEOREM ResumesWithinCapacityHolds == Spec => []ResumesWithinCapacity
<1>1. Ind => ResumesWithinCapacity
  <2> SUFFICES ASSUME Ind, NEW c \in Clients,
                      cached, ~st.needsReload, st.floor # Nil, cursor[c].run = run,
                      cursor[c].seq \in st.floor .. st.head,
                      st.head - cursor[c].seq <= Capacity
               PROVE  Resumes(st, cursor[c].seq)
    BY ZenonT(30) DEF ResumesWithinCapacity
  <2> DEFINE a == cursor[c].seq
  <2>1. /\ st.events \in Seq(Nat) /\ Len(st.events) \in Nat /\ st.head \in Nat /\ st.floor \in Nat
        /\ EndsAt(st.events, st.head) /\ a \in Nat /\ a <= st.head /\ a >= st.floor
        /\ Len(st.events) = Capacity \/ Len(st.events) >= st.head - st.floor
    BY SMTT(30) DEF Ind, TypeOK, StreamInv, GoodStream, Streams
  <2>2. st.head - (a + 1) + 1 <= Len(st.events) /\ a + 1 <= st.head + 1 /\ a + 1 \in Nat
    <3>1. ASSUME NEW h \in Nat, NEW f \in Nat, NEW x \in Nat, NEW n \in Nat, x <= h, x >= f,
                 h - x <= Capacity, n = Capacity \/ n >= h - f
          PROVE  h - (x + 1) + 1 <= n /\ x + 1 <= h + 1 /\ x + 1 \in Nat
      BY SMT, <3>1, CapacityAssumption
    <3> HIDE DEF a
    <3>2. st.head - a <= Capacity
      BY DEF a
    <3> QED BY ZenonT(30), <2>1, <3>1, <3>2
  <2>3. continuousReplayAvailable(st.events, a + 1, st.head)
    BY <2>1, <2>2, AvailableFacts
  <2>4. a # Nil /\ a <= st.head /\ ~(a < st.floor)
    <3>1. ASSUME NEW x \in Nat, NEW f \in Nat, x >= f PROVE x # Nil /\ ~(x < f)
      BY SMT, <3>1 DEF Nil
    <3> HIDE DEF a
    <3> QED BY <2>1, <3>1
  <2> QED BY <2>3, <2>4 DEF Resumes
<1> QED BY <1>1, Invariance, PTL

-----------------------------------------------------------------------------
(* ActivityStore implements EventFeed.                                       *)

USE DEF Feed!Away

position == [c \in Clients |-> IF cursor[c].run = 0 THEN -1 ELSE cursor[c].seq]

\* Steps that leave the head, the cursors and lost alone are invisible.
LEMMA Invisible ==
    ASSUME UNCHANGED <<dHead, cursor, lost>>
    PROVE  UNCHANGED Feed!feed
  BY DEF Feed!feed

\* How the mapped position follows the cursor of one client.
LEMMA PositionUpdate ==
    ASSUME cursor \in [Clients -> [run : Nat, seq : Nat]], NEW c \in Clients,
           NEW v \in [run : Nat, seq : Nat], cursor' = [cursor EXCEPT ![c] = v]
    PROVE  position' = [position EXCEPT ![c] = IF v.run = 0 THEN -1 ELSE v.seq]
<1>1. cursor'[c] = v
  OBVIOUS
<1>2. ASSUME NEW d \in Clients, d # c PROVE cursor'[d] = cursor[d]
  BY <1>2
<1> QED BY <1>1, <1>2 DEF position

\* A committed event is a Log step, hidden from those it was withheld from.
LEMMA CommitLogs ==
    ASSUME Ind, NEW from \in SUBSET Clients, Indeterminate \/ from = {},
           dHead' = dHead + 1, cursor' = cursor,
           lost' = [c \in Clients |-> IF c \in from THEN lost[c] \cup {dHead + 1} ELSE lost[c]]
    PROVE  Feed!FeedNext
<1>1. Feed!Log(from)
  BY DEF Feed!Log
<1> QED BY <1>1 DEF Feed!FeedNext

\* Init and every step of the Store are those of the feed.
LEMMA InitFeed == Init => Feed!FeedInit
  BY SMT DEF Init, Feed!FeedInit

\* Publish is a Log step that is hidden from nobody.
LEMMA PublishFeed ==
    ASSUME Ind, Publish
    PROVE  Feed!FeedNext
<1>1. dHead' = dHead + 1 /\ cursor' = cursor /\ lost' = lost
  BY DEF Publish, client
<1>2. lost' = [c \in Clients |-> IF c \in {} THEN lost[c] \cup {dHead + 1} ELSE lost[c]]
  BY <1>1 DEF Ind, TypeOK
<1>3. {} \in SUBSET Clients
  OBVIOUS
<1> QED BY <1>1, <1>2, <1>3, CommitLogs

\* A failed Publish is invisible, or a Log step hidden from the live watchers.
LEMMA PublishFailsFeed ==
    ASSUME Ind, NEW committed \in BOOLEAN, NEW loaded \in BOOLEAN,
           PublishFails(committed, loaded)
    PROVE  Feed!FeedNext \/ UNCHANGED Feed!feed
<1>1. CASE committed
  <2> DEFINE from == {c \in Clients : watch[c] = "live"}
  <2>1. /\ dHead' = dHead + 1 /\ cursor' = cursor /\ Indeterminate
        /\ lost' = [c \in Clients |-> IF c \in from THEN lost[c] \cup {dHead + 1} ELSE lost[c]]
    BY <1>1 DEF PublishFails
  <2> QED BY <2>1, CommitLogs
<1>2. CASE ~committed
  <2>1. dHead' = dHead /\ cursor' = cursor /\ lost' = lost
    BY <1>2 DEF PublishFails, Ind, TypeOK
  <2> QED BY <2>1, Invisible
<1> QED BY <1>1, <1>2

\* A crash is invisible, or logs the event that was being committed.
LEMMA HostRestartFeed ==
    ASSUME Ind, NEW committed \in BOOLEAN, HostRestart(committed)
    PROVE  Feed!FeedNext \/ UNCHANGED Feed!feed
<1>1. cursor' = cursor /\ lost' = lost
  BY DEF HostRestart, client
<1>2. CASE committed
  <2>1. dHead' = dHead + 1
    BY <1>2 DEF HostRestart
  <2>2. lost' = [c \in Clients |-> IF c \in {} THEN lost[c] \cup {dHead + 1} ELSE lost[c]]
    BY <1>1 DEF Ind, TypeOK
  <2>3. {} \in SUBSET Clients
    OBVIOUS
  <2> QED BY <1>1, <2>1, <2>2, <2>3, CommitLogs
<1>3. CASE ~committed
  <2>1. dHead' = dHead
    BY <1>3 DEF HostRestart
  <2> QED BY <1>1, <2>1, Invisible
<1> QED BY <1>2, <1>3

\* A RESET is a Snapshot; a RESUMED answer is invisible.
LEMMA WatchFeed ==
    ASSUME Ind, NEW c \in Clients, NEW fresh \in BOOLEAN, Watch(c, fresh)
    PROVE  Feed!FeedNext \/ UNCHANGED Feed!feed
<1> DEFINE resumed == Resumes(ensure, After(c, fresh))
<1>0. TypeOK /\ StreamInv /\ run > 0 /\ run \in Nat
  BY DEF Ind, TypeOK
<1>1. dHead' = dHead /\ ensure.head = dHead
  BY <1>0, EnsureFacts DEF Watch, durable
<1>2. CASE resumed
  <2>1. cursor' = cursor /\ lost' = lost
    BY <1>2 DEF Watch
  <2> QED BY <1>1, <2>1, Invisible
<1>3. CASE ~resumed
  <2>1. cursor' = [cursor EXCEPT ![c] = [run |-> run, seq |-> dHead]]
        /\ lost' = [lost EXCEPT ![c] = {}]
    BY <1>1, <1>3 DEF Watch
  <2>2. position' = [position EXCEPT ![c] = dHead]
    <3> DEFINE v == [run |-> run, seq |-> dHead]
    <3>1. v \in [run : Nat, seq : Nat] /\ v.run # 0 /\ v.seq = dHead
      BY SMT, <1>0 DEF TypeOK
    <3>2. cursor' = [cursor EXCEPT ![c] = v] /\ cursor \in [Clients -> [run : Nat, seq : Nat]]
      BY <1>0, <2>1 DEF TypeOK
    <3> HIDE DEF v
    <3> QED BY <3>1, <3>2, PositionUpdate
  <2>3. Feed!Snapshot(c)
    BY <1>1, <2>1, <2>2 DEF Feed!Snapshot, position
  <2> QED BY <2>3 DEF Feed!FeedNext
<1> QED BY <1>2, <1>3

\* A client that reads an event takes a NextEvent step; CodexForgotten is Leave.
LEMMA ReceiveFeed ==
    ASSUME Ind, NEW c \in Clients, Receive(c)
    PROVE  Feed!FeedNext
<1> DEFINE last == watch[c] = "ended" /\ Len(inbox[c]) = 1
           e == Head(inbox[c])
<1>0. /\ TypeOK /\ run > 0 /\ run \in Nat /\ OK(c) /\ dHead \in Nat /\ dHead' = dHead
      /\ inbox[c] \in Seq(Nat) /\ inbox[c] # <<>> /\ cursor[c] \in [run : Nat, seq : Nat]
  BY DEF Ind, TypeOK, Receive, durable
<1>1. CASE ~last
  <2>1. cursor' = [cursor EXCEPT ![c].seq = e] /\ lost' = lost
    BY <1>1 DEF Receive
  <2>2. Len(inbox[c]) \in Nat /\ 1 \in 1 .. Len(inbox[c]) /\ e = inbox[c][1] /\ e \in Nat
    BY SMT, <1>0
  <2>3. /\ cursor[c].run = run /\ e > cursor[c].seq /\ e <= dHead
        /\ (cursor[c].seq + 1 .. e - 1) \subseteq lost[c]
    <3>1. cursor[c].run = run
      BY <1>0 DEF OK, ClientOK
    <3>2. e > Bef(inbox[c], cursor[c].seq, 1) /\ (e <= dHead \/ (watch[c] = "ended" /\ 1 = Len(inbox[c])))
          /\ (Bef(inbox[c], cursor[c].seq, 1) + 1 .. e - 1) \subseteq lost[c]
      BY <1>0, <2>2 DEF OK, ClientOK
    <3>3. Bef(inbox[c], cursor[c].seq, 1) = cursor[c].seq
      BY DEF Bef
    <3> QED BY <1>1, <3>1, <3>2, <3>3
  <2> HIDE DEF e
  <2>4. position[c] = cursor[c].seq /\ position' = [position EXCEPT ![c] = e] /\ cursor[c].seq # -1
    <3> DEFINE v == [cursor[c] EXCEPT !.seq = e]
    <3>1. v \in [run : Nat, seq : Nat] /\ v.run # 0 /\ v.seq = e
      BY SMTT(30), <1>0, <2>2, <2>3
    <3>2. cursor' = [cursor EXCEPT ![c] = v] /\ cursor \in [Clients -> [run : Nat, seq : Nat]]
      BY <1>0, <2>1 DEF TypeOK
    <3> HIDE DEF v
    <3>3. position' = [position EXCEPT ![c] = e]
      BY <3>1, <3>2, PositionUpdate
    <3>4. position[c] = cursor[c].seq /\ cursor[c].seq # -1
      BY SMT, <1>0, <2>3 DEF position
    <3> QED BY <3>3, <3>4
  <2>5. e \in position[c] + 1 .. dHead
    BY SMTT(30), <1>0, <2>2, <2>3, <2>4
  <2>6. Feed!NextEvent(c)
    BY <1>0, <2>1, <2>3, <2>4, <2>5 DEF Feed!NextEvent, position
  <2> QED BY <2>6 DEF Feed!FeedNext
<1>2. CASE last
  <2>1. cursor' = [cursor EXCEPT ![c] = [run |-> 0, seq |-> 0]] /\ lost' = [lost EXCEPT ![c] = {}]
    BY <1>2 DEF Receive
  <2>2. position' = [position EXCEPT ![c] = -1]
    BY <1>0, <2>1 DEF position, TypeOK
  <2>3. Feed!Leave(c)
    BY <1>0, <2>1, <2>2 DEF Feed!Leave, position
  <2> QED BY <2>3 DEF Feed!FeedNext
<1> QED BY <1>1, <1>2

\* Forget is a Close step: it hides only what no client has applied yet.
LEMMA ForgetFeed ==
    ASSUME Ind, NEW outcome \in {"ok", "kept", "gone"}, Forget(outcome)
    PROVE  Feed!FeedNext
<1> DEFINE from == [c \in Clients |-> Discarded(c)]
<1>0. TypeOK /\ dHead \in Nat /\ dHead' = dHead /\ cursor' = cursor
  BY DEF Ind, TypeOK, Forget
<1>1. lost' = [c \in Clients |-> lost[c] \cup from[c]]
  BY DEF Forget
<1>2. ASSUME NEW c \in Clients
      PROVE  Discarded(c) \subseteq position[c] + 1 .. dHead /\ Discarded(c) \subseteq 1 .. dHead
  <2>0. /\ inbox[c] \in Seq(Nat) /\ backlog[c] \in Nat /\ cursor[c] \in [run : Nat, seq : Nat]
        /\ OK(c)
    BY <1>0 DEF Ind, TypeOK
  <2>1. CASE watch[c] = "live" /\ Full(c)
    <3> DEFINE j == backlog[c] + 1
    <3>1. j \in 1 .. Len(inbox[c]) /\ Discarded(c) = {inbox[c][j]}
      BY SMTT(30), <2>0, <2>1, QueueSizeAssumption DEF Full, Discarded
    <3> HIDE DEF j
    <3>2. inbox[c][j] \in Nat /\ inbox[c][j] <= dHead
      BY SMTT(30), <2>0, <2>1, <3>1 DEF OK, ClientOK
    <3>3. inbox[c][j] > cursor[c].seq
      BY <2>0, <3>1 DEF OK, ClientOK, Ascends
    <3>4. position[c] \in Int /\ position[c] <= cursor[c].seq
      BY SMT, <2>0 DEF position
    <3>5. inbox[c][j] \in position[c] + 1 .. dHead /\ inbox[c][j] \in 1 .. dHead
      BY SMTT(30), <1>0, <2>0, <3>2, <3>3, <3>4
    <3> QED BY <3>1, <3>5
  <2>2. CASE ~(watch[c] = "live" /\ Full(c))
    BY <2>2 DEF Discarded
  <2> QED BY <2>1, <2>2
<1>3. from \in [Clients -> SUBSET (1 .. dHead)]
  BY <1>2
<1>4. \A c \in Clients : from[c] \subseteq position[c] + 1 .. dHead
  BY <1>2
<1> HIDE DEF from
<1>5. Feed!Close(from)
  BY <1>0, <1>1, <1>4 DEF Feed!Close, position
<1> QED BY <1>3, <1>5 DEF Feed!FeedNext

\* Every step of the Store, its clients and the Host maps to a step of the feed
\* or to no step: the Store implements the abstract event feed.
THEOREM Refinement == Spec => ImplementsFeed
<1>1. Init => Feed!FeedInit
  BY InitFeed
<1>2. Ind /\ [Next]_vars => [Feed!FeedNext]_(Feed!feed)
  <2> SUFFICES ASSUME Ind, [Next]_vars PROVE Feed!FeedNext \/ UNCHANGED Feed!feed
    OBVIOUS
  <2>1. CASE Publish
    BY <2>1, PublishFeed
  <2>2. ASSUME NEW committed \in BOOLEAN, NEW loaded \in BOOLEAN, PublishFails(committed, loaded)
        PROVE  Feed!FeedNext \/ UNCHANGED Feed!feed
    BY <2>2, PublishFailsFeed
  <2>3. ASSUME NEW h \in {0, dHead}, PersistState(h) PROVE UNCHANGED Feed!feed
    BY <2>3, Invisible DEF PersistState, client
  <2>4. ASSUME NEW loaded \in BOOLEAN, ReloadDurable(loaded) PROVE UNCHANGED Feed!feed
    BY <2>4, Invisible DEF ReloadDurable, durable, client
  <2>5. ASSUME NEW c \in Clients, NEW fresh \in BOOLEAN,
               Watch(c, fresh) \/ WatchUnanswered(c, fresh)
        PROVE  Feed!FeedNext \/ UNCHANGED Feed!feed
    <3>1. CASE Watch(c, fresh)
      BY <3>1, WatchFeed
    <3>2. CASE WatchUnanswered(c, fresh)
      BY <3>2, Invisible DEF WatchUnanswered, durable, client
    <3> QED BY <2>5, <3>1, <3>2
  <2>6. ASSUME NEW c \in Clients, Cancel(c) \/ Receive(c)
        PROVE  Feed!FeedNext \/ UNCHANGED Feed!feed
    <3>1. CASE Cancel(c)
      BY <3>1, Invisible DEF Cancel, durable, client
    <3>2. CASE Receive(c)
      BY <3>2, ReceiveFeed
    <3> QED BY <2>6, <3>1, <3>2
  <2>7. ASSUME NEW outcome \in {"ok", "kept", "gone"}, Forget(outcome) PROVE Feed!FeedNext
    BY <2>7, ForgetFeed
  <2>8. ASSUME NEW committed \in BOOLEAN, HostRestart(committed)
        PROVE  Feed!FeedNext \/ UNCHANGED Feed!feed
    BY <2>8, HostRestartFeed
  <2>9. CASE UNCHANGED vars
    BY <2>9, Invisible DEF vars
  <2> QED BY <2>1, <2>2, <2>3, <2>4, <2>5, <2>6, <2>7, <2>8, <2>9 DEF Next
<1> QED BY <1>1, <1>2, Invariance, PTL DEF Spec, ImplementsFeed, Feed!FeedSpec
=============================================================================
