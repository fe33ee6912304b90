------------------------- MODULE ActivityStoreLemmas -------------------------
(***************************************************************************)
(* What the operators of ActivityStore return and preserve, and the        *)
(* inductive invariant stated with them: the replay buffer, the in-memory  *)
(* stream, and one client.  No action is mentioned here.                   *)
(***************************************************************************)
EXTENDS ActivityStore, TLAPS

\* Zenon proves a step unless the step names SMT.
USE Zenon

USE DEF Nil

\* The events of two sequences, one after the other.
LEMMA Joined ==
    ASSUME NEW a \in Seq(Nat), NEW b \in Seq(Nat)
    PROVE  /\ a \o b \in Seq(Nat) /\ Len(a \o b) = Len(a) + Len(b)
           /\ \A i \in 1 .. Len(a) + Len(b) :
                 (a \o b)[i] = IF i <= Len(a) THEN a[i] ELSE b[i - Len(a)]
<1>1. a \o b \in Seq(Nat) /\ Len(a \o b) = Len(a) + Len(b)
  BY SMT
<1>2. ASSUME NEW i \in 1 .. Len(a) + Len(b), i <= Len(a)
      PROVE  (a \o b)[i] = a[i]
  BY SMT, <1>2
<1>3. ASSUME NEW i \in 1 .. Len(a) + Len(b), ~(i <= Len(a))
      PROVE  (a \o b)[i] = b[i - Len(a)]
  BY SMT, <1>3
<1> QED BY <1>1, <1>2, <1>3

\* An empty Replay or channel holds nothing, and any other one a first event.
LEMMA NothingQueued ==
    ASSUME NEW S
    PROVE  /\ << >> \in Seq(S)
           /\ Len(<< >>) = 0
           /\ \A q \in Seq(S) : q # << >> => Len(q) \in Nat \ {0}
  BY SMT

\* ev is the contiguous run of sequence numbers that ends at h.
EndsAt(ev, h) == \A i \in 1 .. Len(ev) : ev[i] = h - Len(ev) + i

-----------------------------------------------------------------------------
(* The replay buffer *)

\* Appending the next event and trimming keeps the buffer a contiguous suffix
\* within the capacity, one longer unless it is full (Publish).
LEMMA AppendTrimmedFacts ==
    ASSUME NEW ev \in Seq(Nat), NEW h \in Nat, EndsAt(ev, h), Len(ev) <= Capacity
    PROVE  /\ AppendTrimmed(ev, h + 1) \in Seq(Nat)
           /\ Len(AppendTrimmed(ev, h + 1)) <= Capacity
           /\ EndsAt(AppendTrimmed(ev, h + 1), h + 1)
           /\ \/ Len(AppendTrimmed(ev, h + 1)) = Capacity
              \/ Len(AppendTrimmed(ev, h + 1)) = Len(ev) + 1
<1> DEFINE all == Append(ev, h + 1)
           r == AppendTrimmed(ev, h + 1)
<1> USE CapacityAssumption
<1>0. Len(ev) \in Nat
  BY SMT
<1>1. all \in Seq(Nat) /\ Len(all) = Len(ev) + 1
  BY SMT
<1>2. ASSUME NEW i \in 1 .. Len(ev) + 1 PROVE all[i] = h - Len(ev) + i
  <2>1. CASE i = Len(ev) + 1
    BY SMT, <1>0, <2>1
  <2>2. CASE i \in 1 .. Len(ev)
    BY SMT, <1>0, <2>2 DEF EndsAt
  <2> QED BY SMT, <1>0, <2>1, <2>2
<1>3. CASE Len(ev) + 1 > Capacity
  <2>1. r = SubSeq(all, Len(all) - Capacity + 1, Len(all))
    BY SMTT(30), <1>1, <1>3 DEF AppendTrimmed
  <2> HIDE DEF all, r
  <2>2. Len(ev) = Capacity
    BY SMT, <1>0, <1>3
  <2>3. r \in Seq(Nat) /\ Len(r) = Capacity /\ \A i \in 1 .. Capacity : r[i] = all[i + 1]
    BY SMTT(30), <1>1, <2>1, <2>2
  <2>4. ASSUME NEW i \in 1 .. Len(r) PROVE r[i] = h + 1 - Len(r) + i
    <3>1. i + 1 \in 1 .. Len(ev) + 1
      BY SMT, <2>2, <2>3
    <3>2. r[i] = all[i + 1] /\ all[i + 1] = h - Len(ev) + (i + 1)
      BY <1>2, <2>3, <3>1
    <3> QED BY SMT, <2>2, <2>3, <3>2
  <2> QED BY SMT, <2>3, <2>4 DEF EndsAt, r
<1>4. CASE ~(Len(ev) + 1 > Capacity)
  <2>1. r = all
    BY <1>1, <1>4 DEF AppendTrimmed
  <2> HIDE DEF all, r
  <2>2. ASSUME NEW i \in 1 .. Len(r) PROVE r[i] = h + 1 - Len(r) + i
    <3>1. i \in 1 .. Len(ev) + 1 /\ Len(r) = Len(ev) + 1
      BY <1>1, <2>1
    <3>2. r[i] = h - Len(ev) + i
      BY <1>2, <2>1, <3>1
    <3> QED BY SMT, <1>0, <3>1, <3>2
  <2> QED BY SMT, <1>0, <1>1, <1>4, <2>1, <2>2 DEF EndsAt, r
<1> QED BY <1>3, <1>4

\* In a contiguous buffer FirstFrom is where start is, or the end.
LEMMA FirstFromFacts ==
    ASSUME NEW ev \in Seq(Nat), NEW h \in Nat, EndsAt(ev, h),
           NEW start \in Nat, start <= h + 1
    PROVE  /\ FirstFrom(ev, start) \in 1 .. Len(ev) + 1
           /\ h - start + 1 <= Len(ev) => FirstFrom(ev, start) = Len(ev) - (h - start)
           /\ h - start + 1 > Len(ev) => FirstFrom(ev, start) = 1
<1> DEFINE n == Len(ev)
           P(i) == /\ \A j \in 1 .. i - 1 : ev[j] < start
                   /\ i <= n => ev[i] >= start
           w == IF h - start + 1 <= n THEN n - (h - start) ELSE 1
<1>0. n \in Nat /\ \A i \in 1 .. n : ev[i] = h - n + i
  BY SMT DEF EndsAt
<1>1. w \in 1 .. n + 1
  BY SMT, <1>0
<1>2. P(w)
  <2> HIDE DEF n
  <2>1. CASE h - start + 1 <= n
    BY SMT, <1>0, <2>1
  <2>2. CASE ~(h - start + 1 <= n)
    BY SMT, <1>0, <2>2
  <2> QED BY <2>1, <2>2
<1>3. FirstFrom(ev, start) = CHOOSE i \in 1 .. n + 1 : P(i)
  BY DEF FirstFrom
<1>4. ASSUME NEW i \in 1 .. n + 1, P(i) PROVE i = w
  <2> HIDE DEF n
  <2>1. CASE i < w
    BY SMT, <1>0, <1>1, <1>4, <2>1
  <2>2. CASE i > w
    <3>1. w \in 1 .. i - 1 /\ w \in 1 .. n /\ ev[w] < start
      BY SMT, <1>0, <1>1, <1>4, <2>2
    <3> QED BY SMT, <1>0, <1>2, <3>1
  <2> QED BY SMT, <1>0, <1>1, <2>1, <2>2
<1> HIDE DEF n, P
<1>5. FirstFrom(ev, start) \in 1 .. n + 1 /\ P(FirstFrom(ev, start))
  <2> HIDE DEF w
  <2> QED BY <1>1, <1>2, <1>3
<1>6. FirstFrom(ev, start) = w
  BY <1>4, <1>5
<1> QED BY SMT, <1>0, <1>1, <1>6 DEF n

\* In a contiguous buffer replay is available exactly when the buffer reaches
\* back to start.
LEMMA AvailableFacts ==
    ASSUME NEW ev \in Seq(Nat), NEW h \in Nat, EndsAt(ev, h),
           NEW start \in Nat, start <= h + 1
    PROVE  continuousReplayAvailable(ev, start, h) <=> h - start + 1 <= Len(ev)
<1> DEFINE first == FirstFrom(ev, start)
<1>0. /\ Len(ev) \in Nat
      /\ first \in 1 .. Len(ev) + 1
      /\ h - start + 1 <= Len(ev) => first = Len(ev) - (h - start)
      /\ h - start + 1 > Len(ev) => first = 1
  BY SMT, FirstFromFacts
<1>1. continuousReplayAvailable(ev, start, h) <=>
        \/ start > h
        \/ /\ first + (h - start) <= Len(ev)
           /\ \A k \in 0 .. h - start : ev[first + k] = start + k
  BY DEF continuousReplayAvailable
<1> HIDE DEF first
<1>2. CASE start > h
  BY SMT, <1>0, <1>1, <1>2
<1>3. CASE start <= h /\ h - start + 1 <= Len(ev)
  <2>1. ASSUME NEW k \in 0 .. h - start PROVE ev[first + k] = start + k
    <3>1. first = Len(ev) - (h - start) /\ Len(ev) \in Nat
      BY <1>0, <1>3
    <3>2. first + k \in 1 .. Len(ev)
      BY SMT, <1>3, <3>1
    <3>3. ev[first + k] = h - Len(ev) + (first + k)
      BY <3>2 DEF EndsAt
    <3> QED BY SMT, <3>1, <3>3
  <2> QED BY SMT, <1>0, <1>1, <1>3, <2>1
<1>4. CASE start <= h /\ h - start + 1 > Len(ev)
  BY SMT, <1>0, <1>1, <1>4
<1> QED BY SMT, <1>0, <1>2, <1>3, <1>4

\* An available replay is exactly start .. h (watchLocked's loop).
LEMMA ReplayFacts ==
    ASSUME NEW ev \in Seq(Nat), NEW h \in Nat, EndsAt(ev, h),
           NEW start \in Nat, start <= h + 1,
           continuousReplayAvailable(ev, start, h)
    PROVE  /\ ReplayFrom(ev, start) \in Seq(Nat)
           /\ Len(ReplayFrom(ev, start)) = h - start + 1
           /\ \A k \in 1 .. h - start + 1 : ReplayFrom(ev, start)[k] = start + k - 1
<1> DEFINE first == FirstFrom(ev, start)
<1>1. Len(ev) \in Nat /\ h - start + 1 <= Len(ev)
  BY SMT, AvailableFacts
<1>2. first = Len(ev) - (h - start) /\ first \in 1 .. Len(ev) + 1
  BY <1>1, FirstFromFacts
<1>3. ReplayFrom(ev, start) = SubSeq(ev, first, Len(ev))
  BY DEF ReplayFrom
<1> HIDE DEF first
<1>4. SubSeq(ev, first, Len(ev)) \in Seq(Nat)
  BY SMT, <1>1, <1>2
<1>5. Len(SubSeq(ev, first, Len(ev))) = h - start + 1
  BY SMT, <1>1, <1>2
<1>6. ASSUME NEW k \in 1 .. h - start + 1
      PROVE  SubSeq(ev, first, Len(ev))[k] = start + k - 1
  <2>1. SubSeq(ev, first, Len(ev))[k] = ev[first + k - 1]
    BY SMT, <1>1, <1>2
  <2>2. first + k - 1 \in 1 .. Len(ev)
    BY SMT, <1>1, <1>2
  <2>3. ev[first + k - 1] = h - Len(ev) + (first + k - 1)
    BY <2>2 DEF EndsAt
  <2> QED BY SMT, <1>1, <1>2, <2>1, <2>3
<1> QED BY ZenonT(30), <1>3, <1>4, <1>5, <1>6

-----------------------------------------------------------------------------
(* The in-memory stream *)

\* The part of the invariant that is about one stream.
GoodStream(s) ==
    /\ s \in Streams
    /\ Len(s.events) <= Capacity
    /\ EndsAt(s.events, s.head)
    /\ s.view.kind = "event" => s.view.head = s.head
    /\ s.needsReload => s.events = <<>> /\ s.floor = Nil
    /\ s.floor # Nil => /\ s.floor <= s.head
                        /\ Len(s.events) = Capacity \/ Len(s.events) >= s.head - s.floor

StreamInv ==
    /\ GoodStream(st)
    /\ dView.kind = "event" => dView.head = dHead
    /\ cached /\ ~st.needsReload => st.head = dHead

\* An empty buffer without floor makes any stream good.
LEMMA NothingBuffered ==
    ASSUME NEW s \in Streams, s.events = <<>>, s.floor = Nil,
           s.view.kind = "event" => s.view.head = s.head
    PROVE  GoodStream(s)
  BY SMT, CapacityAssumption DEF GoodStream, EndsAt

\* The stream ReloadDurable creates is good.
LEMMA EmptyStreamGood == GoodStream(EmptyStream)
  BY SMT, CapacityAssumption DEF GoodStream, EmptyStream, Streams, Views, NoView, EndsAt

\* Reading the row keeps a stream good if nothing is buffered.
LEMMA LoadFacts ==
    ASSUME NEW s, GoodStream(s), s.events = <<>>, s.floor = Nil,
           NEW head \in Nat, NEW view \in Views, view.kind = "event" => view.head = head
    PROVE  /\ GoodStream(loadDurable(s, head, view))
           /\ loadDurable(s, head, view).head = head
           /\ loadDurable(s, head, view).events = <<>>
           /\ loadDurable(s, head, view).floor = Nil
<1>1. Parsed(view) \in Views /\ (Parsed(view).kind = "event" => Parsed(view).head = head)
  BY DEF Parsed, Views, StateView, NoView
<1> DEFINE r == loadDurable(s, head, view)
<1>2. s \in Streams /\ <<>> \in Seq(Nat)
  BY SMT DEF GoodStream
<1>3. /\ r \in Streams /\ r.head = head /\ r.events = <<>> /\ r.floor = Nil
      /\ r.view = Parsed(view)
  BY <1>1, <1>2 DEF Streams, loadDurable
<1> HIDE DEF r
<1>4. GoodStream(r)
  BY <1>1, <1>3, NothingBuffered
<1> QED BY <1>3, <1>4 DEF r

\* reloadUnsafe returns a good stream, at the durable head or marked for reload.
LEMMA ReloadUnsafeFacts ==
    ASSUME NEW s, GoodStream(s), NEW loaded \in BOOLEAN,
           NEW head \in Nat, NEW view \in Views, view.kind = "event" => view.head = head
    PROVE  /\ GoodStream(reloadUnsafe(s, loaded, head, view))
           /\ ~reloadUnsafe(s, loaded, head, view).needsReload =>
                 reloadUnsafe(s, loaded, head, view).head = head
<1> DEFINE dropped == [s EXCEPT !.events = <<>>, !.replayUnsafe = TRUE, !.floor = Nil]
           read == loadDurable(dropped, head, view)
           r == reloadUnsafe(s, loaded, head, view)
<1>0. s \in Streams /\ <<>> \in Seq(Nat) /\ (s.view.kind = "event" => s.view.head = s.head)
  BY SMT DEF GoodStream
<1>1. GoodStream(dropped) /\ dropped.events = <<>> /\ dropped.floor = Nil
  <2>1. /\ dropped \in Streams /\ dropped.events = <<>> /\ dropped.floor = Nil
        /\ dropped.view = s.view /\ dropped.head = s.head
    BY <1>0 DEF Streams
  <2> HIDE DEF dropped
  <2> QED BY <1>0, <2>1, NothingBuffered
<1>2. GoodStream(read) /\ read.head = head /\ read.events = <<>> /\ read.floor = Nil
  <2> HIDE DEF dropped
  <2> QED BY SMT, <1>1, LoadFacts
<1>3. r = IF loaded THEN [read EXCEPT !.needsReload = FALSE]
                    ELSE [dropped EXCEPT !.needsReload = TRUE]
  BY DEF reloadUnsafe
<1> HIDE DEF dropped, read, r
<1>4. GoodStream(r) /\ (~r.needsReload => r.head = head)
  BY <1>1, <1>2, <1>3 DEF GoodStream, Streams
<1> QED BY <1>4 DEF r

\* When ensure succeeds its stream is good and at the durable head.
LEMMA EnsureFacts ==
    ASSUME TypeOK, StreamInv, EnsureSucceeds
    PROVE  GoodStream(ensure) /\ ensure.head = dHead /\ ~ensure.needsReload
<1> USE DEF StreamInv
<1>0. dHead \in Nat /\ dView \in Views /\ cached \in BOOLEAN /\ exists \in BOOLEAN
  BY DEF TypeOK
<1>1. CASE ~cached
  <2> DEFINE read == loadDurable(EmptyStream, dHead, dView)
  <2>1. GoodStream(read) /\ read.head = dHead /\ read.events = <<>> /\ read.floor = Nil
    BY SMT, <1>0, LoadFacts, EmptyStreamGood DEF EmptyStream
  <2>2. read.needsReload = FALSE
    BY DEF loadDurable, EmptyStream
  <2>3. PICK u \in BOOLEAN : ensure = [read EXCEPT !.replayUnsafe = u]
    BY <1>0, <1>1 DEF ensure, FreshStream, Views
  <2> HIDE DEF read
  <2> QED BY <2>1, <2>2, <2>3 DEF GoodStream, Streams
<1>2. CASE cached /\ st.needsReload
  <2> DEFINE read == loadDurable(st, dHead, dView)
  <2>1. GoodStream(read) /\ read.head = dHead /\ read.events = <<>> /\ read.floor = Nil
    BY <1>0, <1>2, LoadFacts DEF GoodStream
  <2>2. ensure = [read EXCEPT !.needsReload = FALSE, !.replayUnsafe = TRUE]
    BY <1>2 DEF ensure
  <2> HIDE DEF read
  <2> QED BY <2>1, <2>2 DEF GoodStream, Streams
<1>3. CASE cached /\ ~st.needsReload
  BY <1>3 DEF ensure
<1> QED BY <1>0, <1>1, <1>2, <1>3

-----------------------------------------------------------------------------
(* One client.  The invariant of a client as a predicate on values: watch    *)
(* state w, inbox q, cursor cr and cs, missed m, lost l, run r, head h.      *)

Bef(q, cs, i) == IF i = 1 THEN cs ELSE q[i - 1]
Pos(q, cs) == IF q = <<>> THEN cs ELSE q[Len(q)]

\* Every entry is above the cursor and above the entries before it.
Ascends(q, cs) ==
    \A i \in 1 .. Len(q) : q[i] > cs /\ \A j \in 1 .. i - 1 : q[j] < q[i]

ClientOK(w, q, cr, cs, m, l, r, h) ==
    /\ Ascends(q, cs)
    /\ m \subseteq l
    /\ w = "live" => (Pos(q, cs) + 1 .. h) \subseteq l
    /\ \A i \in 1 .. Len(q) : q[i] > Bef(q, cs, i)
    /\ \A i \in 1 .. Len(q) : (Bef(q, cs, i) + 1 .. q[i] - 1) \subseteq l
    /\ cs <= h
    /\ \A i \in 1 .. Len(q) : q[i] <= h \/ (w = "ended" /\ i = Len(q))
    /\ IF w = "none" THEN q = <<>> ELSE cr = r

OK(c) == ClientOK(watch[c], inbox[c], cursor[c].run, cursor[c].seq,
                  missed[c], lost[c], run, dHead)

Ind ==
    /\ TypeOK
    /\ StreamInv
    /\ run > 0
    /\ \A c \in Clients : OK(c)

\* Nothing queued ascends.
LEMMA EmptyAscends == \A cs : Ascends(<<>>, cs)
  BY SMT, NothingQueued DEF Ascends

\* A delivered event is the next one for a registered watcher (Publish).
LEMMA DeliveredOK ==
    ASSUME NEW q \in Seq(Nat), NEW cr, NEW cs \in Nat, NEW m, NEW l, NEW r, NEW h \in Nat,
           ClientOK("live", q, cr, cs, m, l, r, h)
    PROVE  ClientOK("live", Append(q, h + 1), cr, cs, m, l, r, h + 1)
<1> DEFINE a == Append(q, h + 1)
<1>1. /\ a \in Seq(Nat) /\ Len(q) \in Nat /\ Len(a) = Len(q) + 1 /\ a # <<>>
      /\ a[Len(a)] = h + 1 /\ \A i \in 1 .. Len(q) : a[i] = q[i] /\ q[i] \in Nat
  <2>1. a \in Seq(Nat) /\ Len(q) \in Nat /\ Len(a) = Len(q) + 1 /\ a[Len(q) + 1] = h + 1
    BY SMT
  <2>2. \A i \in 1 .. Len(q) : a[i] = q[i] /\ q[i] \in Nat
    BY SMT
  <2>3. a # <<>>
    BY SMT, <2>1, NothingQueued
  <2> QED BY <2>1, <2>2, <2>3
<1>2. Pos(q, cs) \in Nat /\ Pos(q, cs) <= h /\ (Pos(q, cs) + 1 .. h) \subseteq l
  BY SMT, <1>1 DEF ClientOK, Pos
<1>3. Pos(a, cs) = h + 1
  BY <1>1 DEF Pos
<1>4. ASSUME NEW i \in 1 .. Len(q)
      PROVE  /\ Bef(a, cs, i) = Bef(q, cs, i) /\ a[i] = q[i]
             /\ a[i] > Bef(a, cs, i) /\ (Bef(a, cs, i) + 1 .. a[i] - 1) \subseteq l
             /\ a[i] <= h + 1
  BY SMTT(60), <1>1 DEF ClientOK, Bef
<1>5. Bef(a, cs, Len(q) + 1) = Pos(q, cs)
  BY SMT, <1>1 DEF Bef, Pos
<1> HIDE DEF a
<1>6. \A i \in 1 .. Len(a) : i \in 1 .. Len(q) \/ i = Len(q) + 1
  BY SMT, <1>1
<1>7. (Pos(a, cs) + 1 .. h + 1) \subseteq l
  BY SMT, <1>3
<1>8. ASSUME NEW i \in 1 .. Len(a)
      PROVE  /\ a[i] > Bef(a, cs, i) /\ (Bef(a, cs, i) + 1 .. a[i] - 1) \subseteq l
             /\ a[i] <= h + 1
  <2>1. CASE i = Len(q) + 1
    BY SMT, <1>1, <1>2, <1>5, <2>1
  <2> QED BY <1>4, <1>6, <2>1
<1>9. Ascends(a, cs)
  <2>1. ASSUME NEW i \in 1 .. Len(a), NEW j \in 1 .. i - 1
        PROVE  a[i] > cs /\ a[j] < a[i]
    <3>1. CASE i = Len(q) + 1
      <4>1. j \in 1 .. Len(q) /\ a[j] = q[j] /\ q[j] <= h /\ q[j] \in Nat /\ cs <= h
        BY SMT, <1>1, <3>1 DEF ClientOK
      <4> QED BY SMTT(30), <1>1, <3>1, <4>1
    <3>2. CASE i \in 1 .. Len(q)
      <4>1. j \in 1 .. Len(q)
        BY SMT, <1>1, <3>2
      <4> QED BY <1>1, <3>2, <4>1 DEF ClientOK, Ascends
    <3> QED BY <1>6, <3>1, <3>2
  <2>2. ASSUME NEW i \in 1 .. Len(a) PROVE a[i] > cs
    <3>1. CASE i = Len(q) + 1
      BY SMT, <1>1, <3>1 DEF ClientOK
    <3>2. CASE i \in 1 .. Len(q)
      BY <1>1, <3>2 DEF ClientOK, Ascends
    <3> QED BY <1>6, <3>1, <3>2
  <2> QED BY <2>1, <2>2 DEF Ascends
<1> QED BY SMT, <1>7, <1>8, <1>9 DEF ClientOK, a

\* A committed event leaves a client alone that is not registered any more.
LEMMA NotRegisteredOK ==
    ASSUME NEW w, NEW v \in {"none", "slow", "ended"}, w = v \/ (w = "live" /\ v = "slow"),
           NEW q \in Seq(Nat), NEW cr, NEW cs \in Nat, NEW m, NEW l, NEW r, NEW h \in Nat,
           ClientOK(w, q, cr, cs, m, l, r, h)
    PROVE  ClientOK(v, q, cr, cs, m, l, r, h + 1)
<1>1. \A i \in 1 .. Len(q) : q[i] <= h => q[i] <= h + 1
  BY SMT
<1> QED BY SMT, <1>1 DEF ClientOK

\* An event committed behind the Store's back is accounted for in lost.
LEMMA WithheldOK ==
    ASSUME NEW q \in Seq(Nat), NEW cr, NEW cs \in Nat, NEW m, NEW l, NEW r, NEW h \in Nat,
           ClientOK("live", q, cr, cs, m, l, r, h)
    PROVE  ClientOK("live", q, cr, cs, m, l \cup {h + 1}, r, h + 1)
<1>1. \A i \in 1 .. Len(q) : q[i] <= h => q[i] <= h + 1
  BY SMT
<1>2. (Pos(q, cs) + 1 .. h + 1) \subseteq (Pos(q, cs) + 1 .. h) \cup {h + 1}
  <2>1. Pos(q, cs) \in Nat
    BY SMTT(30) DEF Pos
  <2> QED BY SMT, <2>1
<1> QED BY SMT, <1>1, <1>2 DEF ClientOK

\* Reading the first entry moves the cursor over withheld events only.
LEMMA ReceivedOK ==
    ASSUME NEW w, NEW q \in Seq(Nat), q # <<>>, NEW cr, NEW cs \in Nat, NEW m, NEW l,
           NEW r, NEW h \in Nat, ClientOK(w, q, cr, cs, m, l, r, h),
           ~(w = "ended" /\ Len(q) = 1)
    PROVE  ClientOK(w, Tail(q), cr, Head(q), m \cup (cs + 1 .. Head(q) - 1), l, r, h)
<1> DEFINE t == Tail(q)
<1>1. /\ t \in Seq(Nat) /\ Len(q) \in Nat /\ Len(q) > 0 /\ Len(t) = Len(q) - 1
      /\ Head(q) = q[1] /\ \A i \in 1 .. Len(t) : t[i] = q[i + 1]
  BY SMT
<1>2. Pos(t, Head(q)) = Pos(q, cs)
  <2>0. t = <<>> <=> Len(t) = 0
    BY <1>1, NothingQueued
  <2> HIDE DEF t
  <2>1. CASE Len(q) = 1
    BY SMT, <1>1, <2>0, <2>1 DEF Pos
  <2>2. CASE Len(q) > 1
    <3>0. Len(q) \in Nat /\ Len(t) = Len(q) - 1
      BY <1>1
    <3>1. Len(t) \in 1 .. Len(t) /\ Len(t) + 1 = Len(q) /\ Len(t) # 0
      BY SMTT(60), <2>2, <3>0
    <3> QED BY <1>1, <2>0, <3>1 DEF Pos
  <2> QED BY SMT, <1>1, <2>1, <2>2
<1>3. ASSUME NEW i \in 1 .. Len(t)
      PROVE  Bef(t, Head(q), i) = Bef(q, cs, i + 1) /\ t[i] = q[i + 1]
             /\ i + 1 \in 1 .. Len(q) /\ (i + 1 = Len(q) <=> i = Len(t))
  <2>1. CASE i = 1
    BY SMT, <1>1, <2>1 DEF Bef
  <2>2. CASE i > 1
    BY SMT, <1>1, <2>2 DEF Bef
  <2> QED BY SMT, <1>1, <2>1, <2>2
<1>4. 1 \in 1 .. Len(q) /\ Bef(q, cs, 1) = cs /\ Head(q) <= h
  <2>1. 1 \in 1 .. Len(q) /\ Bef(q, cs, 1) = cs
    BY SMT, <1>1 DEF Bef
  <2>2. q[1] <= h \/ (w = "ended" /\ 1 = Len(q))
    BY <2>1 DEF ClientOK
  <2> QED BY <1>1, <2>1, <2>2
<1>5. (cs + 1 .. Head(q) - 1) \subseteq l
  BY <1>1, <1>4 DEF ClientOK
<1>6. w # "none"
  BY DEF ClientOK
<1> HIDE DEF t
<1>7. Ascends(t, Head(q))
  <2>1. ASSUME NEW i \in 1 .. Len(t)
        PROVE  t[i] > Head(q) /\ \A j \in 1 .. i - 1 : t[j] < t[i]
    <3>1. i + 1 \in 1 .. Len(q) /\ t[i] = q[i + 1] /\ 1 \in 1 .. (i + 1) - 1
      BY SMT, <1>1, <1>3
    <3>2. ASSUME NEW j \in 1 .. i - 1
          PROVE  j + 1 \in 1 .. (i + 1) - 1 /\ t[j] = q[j + 1]
      <4>1. j \in 1 .. Len(t) /\ j + 1 \in 1 .. (i + 1) - 1
        BY SMT, <1>1
      <4> QED BY <1>1, <4>1
    <3>3. \A j \in 1 .. (i + 1) - 1 : q[j] < q[i + 1]
      BY <3>1 DEF ClientOK, Ascends
    <3> QED BY <1>1, <3>1, <3>2, <3>3
  <2> QED BY <2>1 DEF Ascends
<1> QED BY <1>1, <1>2, <1>3, <1>4, <1>5, <1>6, <1>7 DEF ClientOK, t

\* A RESET leaves a client at the head with nothing missed.
LEMMA ResetOK ==
    ASSUME NEW r, NEW h \in Nat
    PROVE  ClientOK("live", <<>>, r, h, {}, {}, r, h)
  BY SMT, EmptyAscends DEF ClientOK, Pos

\* A replay of exactly the events after the cursor brings it to the head.
LEMMA ResumedOK ==
    ASSUME NEW cs \in Nat, NEW m, NEW l, NEW r, NEW h \in Nat, m \subseteq l, cs <= h,
           NEW q \in Seq(Nat), Len(q) = h - cs, \A k \in 1 .. h - cs : q[k] = cs + k
    PROVE  ClientOK("live", q, r, cs, m, l, r, h)
<1>1. Pos(q, cs) = h
  <2>1. CASE h = cs
    BY SMT, <2>1, NothingQueued DEF Pos
  <2>2. CASE h > cs
    BY SMT, <2>2, NothingQueued DEF Pos
  <2> QED BY SMT, <2>1, <2>2
<1>2. ASSUME NEW i \in 1 .. Len(q) PROVE Bef(q, cs, i) = cs + i - 1 /\ q[i] = cs + i
  <2>1. CASE i = 1
    BY SMT, <2>1 DEF Bef
  <2>2. CASE i > 1
    BY SMT, <2>2 DEF Bef
  <2> QED BY SMT, <2>1, <2>2
<1>3. (h + 1 .. h) \subseteq l
  BY SMT
<1>4. ASSUME NEW i \in 1 .. Len(q)
      PROVE  /\ q[i] > Bef(q, cs, i) /\ (Bef(q, cs, i) + 1 .. q[i] - 1) \subseteq l
             /\ q[i] <= h
  BY SMTT(60), <1>2
<1>5. Ascends(q, cs)
  BY SMT DEF Ascends
<1> QED BY <1>1, <1>3, <1>4, <1>5 DEF ClientOK

\* What RemoveAt does to a sequence.
LEMMA WithoutFacts ==
    ASSUME NEW q \in Seq(Nat), NEW j \in 1 .. Len(q)
    PROVE  /\ Without(q, j) \in Seq(Nat)
           /\ Len(Without(q, j)) = Len(q) - 1
           /\ \A i \in 1 .. Len(q) - 1 :
                 Without(q, j)[i] = IF i < j THEN q[i] ELSE q[i + 1]
<1> DEFINE a == SubSeq(q, 1, j - 1)
           b == SubSeq(q, j + 1, Len(q))
<1>0. Len(q) \in Nat
  BY SMT
<1>1. a \in Seq(Nat) /\ Len(a) = j - 1 /\ \A i \in 1 .. j - 1 : a[i] = q[i]
  BY SMT, <1>0
<1>2. b \in Seq(Nat) /\ Len(b) = Len(q) - j /\ \A i \in 1 .. Len(q) - j : b[i] = q[i + j]
  BY SMT, <1>0
<1>3. Without(q, j) = a \o b
  BY DEF Without
<1> HIDE DEF a, b
<1>4. /\ a \o b \in Seq(Nat) /\ Len(a \o b) = Len(a) + Len(b)
      /\ \A i \in 1 .. Len(a) + Len(b) : (a \o b)[i] = IF i <= Len(a) THEN a[i] ELSE b[i - Len(a)]
  BY <1>1, <1>2, Joined
<1>5. ASSUME NEW i \in 1 .. Len(q) - 1
      PROVE  (a \o b)[i] = IF i < j THEN q[i] ELSE q[i + 1]
  <2>0. i \in 1 .. Len(a) + Len(b) /\ (i <= Len(a) <=> i < j)
    BY SMT, <1>0, <1>1, <1>2
  <2>1. CASE i < j
    BY SMT, <1>0, <1>1, <1>4, <2>0, <2>1
  <2>2. CASE i >= j
    <3>1. i - (j - 1) \in 1 .. Len(q) - j /\ i - (j - 1) + j = i + 1
      BY SMT, <1>0, <2>2
    <3>2. (a \o b)[i] = b[i - (j - 1)]
      BY SMTT(60), <1>1, <1>4, <2>0, <2>2
    <3>3. b[i - (j - 1)] = q[i + 1]
      BY <1>2, <3>1
    <3>4. ~(i < j)
      BY SMT, <1>0, <2>2
    <3> QED BY <3>2, <3>3, <3>4
  <2>3. i < j \/ i >= j
    BY SMT, <1>0
  <2> QED BY <2>1, <2>2, <2>3
<1> QED BY SMTT(60), <1>0, <1>1, <1>2, <1>3, <1>4, <1>5

\* Discarding a queued event and recording it in lost keeps the client right.
LEMMA DiscardedOK ==
    ASSUME NEW q \in Seq(Nat), NEW cr, NEW cs \in Nat, NEW m, NEW l, NEW r, NEW h \in Nat,
           ClientOK("live", q, cr, cs, m, l, r, h), NEW j \in 1 .. Len(q)
    PROVE  ClientOK("live", Without(q, j), cr, cs, m, l \cup {q[j]}, r, h)
<1> DEFINE a == Without(q, j)
           n == Len(q)
           k == l \cup {q[j]}
<1>1. /\ n \in Nat /\ n > 0 /\ a \in Seq(Nat) /\ Len(a) = n - 1
      /\ \A i \in 1 .. n - 1 : a[i] = IF i < j THEN q[i] ELSE q[i + 1]
  BY SMT, WithoutFacts
<1>2. \A i \in 1 .. n : q[i] \in Nat /\ Bef(q, cs, i) \in Nat
  BY SMT DEF Bef
<1>3. \A i \in 1 .. n : /\ q[i] > Bef(q, cs, i)
                        /\ (Bef(q, cs, i) + 1 .. q[i] - 1) \subseteq l
                        /\ q[i] <= h
  BY DEF ClientOK
<1>4. Pos(q, cs) = q[n] /\ (q[n] + 1 .. h) \subseteq l
  BY SMT, <1>1, NothingQueued DEF ClientOK, Pos
<1> HIDE DEF a, n
<1>5. ASSUME NEW i \in 1 .. n - 1, i < j
      PROVE  a[i] = q[i] /\ Bef(a, cs, i) = Bef(q, cs, i) /\ i \in 1 .. n
  BY SMT, <1>1, <1>5 DEF Bef
<1>6. ASSUME NEW i \in 1 .. n - 1, i > j
      PROVE  a[i] = q[i + 1] /\ Bef(a, cs, i) = Bef(q, cs, i + 1) /\ i + 1 \in 1 .. n
  BY SMTT(60), <1>1, <1>6 DEF Bef
<1>7. ASSUME j \in 1 .. n - 1
      PROVE  /\ a[j] = q[j + 1] /\ Bef(a, cs, j) = Bef(q, cs, j) /\ j + 1 \in 1 .. n
             /\ Bef(q, cs, j + 1) = q[j]
  <2>1. CASE j = 1
    BY SMT, <1>1, <1>7, <2>1 DEF Bef
  <2>2. CASE j > 1
    BY SMT, <1>1, <1>7, <2>2 DEF Bef
  <2> QED BY SMT, <2>1, <2>2
<1>8. ASSUME NEW i \in 1 .. n - 1
      PROVE  /\ a[i] > Bef(a, cs, i) /\ (Bef(a, cs, i) + 1 .. a[i] - 1) \subseteq k
             /\ a[i] <= h
  <2>1. CASE i < j
    BY <1>3, <1>5, <2>1
  <2>2. CASE i > j
    BY <1>3, <1>6, <2>2
  <2>3. CASE i = j
    <3>1. /\ j \in 1 .. n /\ j + 1 \in 1 .. n /\ a[i] = q[j + 1]
          /\ Bef(a, cs, i) = Bef(q, cs, j) /\ Bef(q, cs, j + 1) = q[j]
      BY SMT, <1>1, <1>7, <2>3
    <3>2. /\ q[j] > Bef(q, cs, j) /\ (Bef(q, cs, j) + 1 .. q[j] - 1) \subseteq l
          /\ q[j + 1] > q[j] /\ (q[j] + 1 .. q[j + 1] - 1) \subseteq l /\ q[j + 1] <= h
          /\ q[j] \in Nat /\ q[j + 1] \in Nat /\ Bef(q, cs, j) \in Nat
      BY SMTT(30), <1>2, <1>3, <3>1
    <3>3. ASSUME NEW x \in Bef(q, cs, j) + 1 .. q[j + 1] - 1 PROVE x \in k
      <4>1. x \in Bef(q, cs, j) + 1 .. q[j] - 1 \/ x = q[j] \/ x \in q[j] + 1 .. q[j + 1] - 1
        <5>1. q[j] \in Nat /\ q[j + 1] \in Nat /\ Bef(q, cs, j) \in Nat
          BY <3>2
        <5>2. ASSUME NEW u \in Nat, NEW v \in Nat, NEW y \in Nat, x \in u + 1 .. y - 1
              PROVE  x \in u + 1 .. v - 1 \/ x = v \/ x \in v + 1 .. y - 1
          BY SMT, <5>2
        <5> QED BY ZenonT(30), <5>1, <5>2
      <4> QED BY SMTT(30), <3>2, <4>1
    <3>4. a[i] > Bef(a, cs, i)
      BY SMTT(30), <3>1, <3>2
    <3> QED BY SMTT(30), <3>1, <3>2, <3>3, <3>4
  <2> QED BY SMT, <2>1, <2>2, <2>3
<1>9. (Pos(a, cs) + 1 .. h) \subseteq k
  <2>1. CASE j < n
    <3>1. Pos(a, cs) = q[n]
      <4>1. n - 1 \in 1 .. n - 1 /\ a # <<>> /\ a[n - 1] = q[n]
        BY SMT, <1>1, <2>1, NothingQueued
      <4> QED BY <1>1, <4>1 DEF Pos
    <3> QED BY <1>4, <3>1
  <2>2. CASE j = n
    <3>1. Pos(a, cs) = Bef(q, cs, n)
      <4>1. CASE n = 1
        BY SMT, <1>1, <4>1, NothingQueued DEF Pos, Bef
      <4>2. CASE n > 1
        <5>1. n - 1 \in 1 .. n - 1 /\ a # <<>> /\ a[n - 1] = q[n - 1]
          BY SMT, <1>1, <2>2, <4>2, NothingQueued
        <5> QED BY SMT, <1>1, <4>2, <5>1 DEF Pos, Bef
      <4> QED BY SMT, <1>1, <4>1, <4>2
    <3>2. /\ q[n] > Bef(q, cs, n) /\ (Bef(q, cs, n) + 1 .. q[n] - 1) \subseteq l
          /\ q[n] \in Nat /\ Bef(q, cs, n) \in Nat
      BY SMT, <1>1, <1>2, <1>3
    <3> QED BY SMTT(30), <1>4, <2>2, <3>1, <3>2
  <2> QED BY SMTT(60), <1>1, <2>1, <2>2 DEF n
<1>10. m \subseteq k /\ cs <= h /\ cr = r
  BY DEF ClientOK
<1> HIDE DEF k
<1>11. Ascends(a, cs)
  <2> DEFINE at(i) == IF i < j THEN i ELSE i + 1
  <2>0. Ascends(q, cs)
    BY DEF ClientOK
  <2>1. ASSUME NEW i \in 1 .. n - 1 PROVE at(i) \in 1 .. n /\ a[i] = q[at(i)]
    <3>1. a[i] = IF i < j THEN q[i] ELSE q[i + 1]
      BY <1>1
    <3>2. n \in Nat
      BY <1>1
    <3>3. CASE i < j
      BY SMT, <3>1, <3>2, <3>3
    <3>4. CASE ~(i < j)
      BY SMT, <3>1, <3>2, <3>4
    <3> QED BY <3>3, <3>4
  <2>2. \A i \in 1 .. n - 1 : \A x \in 1 .. i - 1 : x \in 1 .. n - 1 /\ at(x) \in 1 .. at(i) - 1
    BY SMT, <1>1
  <2> HIDE DEF at
  <2>3. ASSUME NEW i \in 1 .. n - 1 PROVE a[i] > cs /\ \A x \in 1 .. i - 1 : a[x] < a[i]
    <3>1. q[at(i)] > cs /\ \A x \in 1 .. at(i) - 1 : q[x] < q[at(i)]
      BY SMTT(30), <2>0, <2>1 DEF Ascends, n
    <3> QED BY <2>1, <2>2, <3>1
  <2> QED BY <1>1, <2>3 DEF Ascends
<1>12. ClientOK("live", a, cr, cs, m, k, r, h)
  BY SMTT(30), <1>1, <1>8, <1>9, <1>10, <1>11 DEF ClientOK
<1> QED BY <1>12 DEF a, k

\* CodexForgotten may follow what is queued for a registered watcher.
LEMMA EndedOK ==
    ASSUME NEW q \in Seq(Nat), NEW cr, NEW cs \in Nat, NEW m, NEW l, NEW r, NEW h \in Nat,
           ClientOK("live", q, cr, cs, m, l, r, h)
    PROVE  ClientOK("ended", Append(q, h + 1), cr, cs, m, l, r, h)
<1> DEFINE a == Append(q, h + 1)
<1>1. Len(q) \in Nat /\ Len(a) = Len(q) + 1 /\ \A i \in 1 .. Len(q) : a[i] = q[i] /\ q[i] <= h
  BY SMT DEF ClientOK
<1>2. ClientOK("live", a, cr, cs, m, l, r, h + 1)
  BY DeliveredOK
<1>3. cs <= h /\ \A i \in 1 .. Len(a) : a[i] <= h \/ i = Len(a)
  BY SMT, <1>1 DEF ClientOK
<1> HIDE DEF a
<1>4. ClientOK("ended", a, cr, cs, m, l, r, h)
  BY <1>2, <1>3 DEF ClientOK
<1> QED BY <1>4 DEF a

=============================================================================
