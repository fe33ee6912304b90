----------------------------- MODULE LeaseProofs -----------------------------
(***************************************************************************)
(* Proofs about Lease, for every lease duration, warning time and number of *)
(* failures, and however long the clock runs.                               *)
(***************************************************************************)
EXTENDS Lease, TLAPS

\* Zenon proves a step unless the step names SMT.
USE Zenon

\* A view v saved with marker m is fit to be in force, given the warnings
\* raised so far and the latest deadline a client was told of.
Sound(v, m, warned, told) ==
    /\ v.state # "UNMANAGED" => v.until >= told
    /\ \A d \in Times : warned[d] > 0 /\ v.until = d => m = d
    /\ \A i, j \in DOMAIN v.warns : v.warns[i] = v.warns[j] => i = j

SameLease(v, w) == v.state = w.state /\ v.until = w.until

\* What the row says could be restored at any time; what memory says is in
\* force; and unless the Host is degraded row, memory and Store agree.
Core ==
    /\ Sound(row.view, row.marker, raised, acked)
    /\ phase # "down" =>
          /\ Sound(mem, marker, raised, acked) /\ mem.state # "UNSPECIFIED"
          /\ mem.state = "UNMANAGED" => row.view.state = "UNMANAGED"
          /\ ~degraded => /\ row.marker = marker /\ SameLease(row.view, mem)
                          /\ stream.cached => SameLease(stream.view, mem)

\* No deadline is raised twice, or before its time, or told of too early.
History ==
    /\ acked <= now + LeaseDuration
    /\ \A d \in Times : raised[d] <= 1 /\ (raised[d] > 0 => now + WarningBefore >= d)

IInv == TypeOK /\ Core /\ History

-----------------------------------------------------------------------------
\* The first row is sound and nothing was raised or told of.
LEMMA InitInv == Init => IInv
<1> SUFFICES ASSUME Init PROVE IInv
  OBVIOUS
<1> USE LeaseAssumption, BoundsAssumption
<1>a. <<>> \in Seq(Nat)
  BY SMT
<1>c. Blank \in Views
  BY <1>a DEF Blank, Views
<1>1. Blank \in Views /\ [Blank EXCEPT !.state = "MANAGED", !.until = LeaseDuration] \in Views
  BY <1>c DEF Views
<1>2. row \in [view : Views, marker : Nat]
  BY SMT, <1>1 DEF Init
<1>3. {stream.cached, degraded} \subseteq BOOLEAN
  BY DEF Init, Unread
<1>4. TypeOK
  BY SMT, <1>1, <1>2, <1>3 DEF Init, TypeOK, Unread, Times
<1>d. Blank.until = 0 /\ Blank.warns = <<>>
  BY DEF Blank
<1>e. row.view \in {Blank, [Blank EXCEPT !.state = "MANAGED", !.until = LeaseDuration]}
  BY SMT DEF Init
<1>5. row.view.until \in Nat /\ row.view.warns = <<>>
  BY <1>c, <1>d, <1>e DEF Views
<1>6. Core
  BY SMT, <1>5 DEF Init, Core, Sound
<1>7. History
  BY SMT DEF Init, History
<1> QED BY <1>4, <1>6, <1>7 DEF IInv

-----------------------------------------------------------------------------
(* What each way to end a change keeps.  v and m are the change's view and   *)
(* marker, which are sound with what was raised and told by then.            *)

\* A change that commits is in force everywhere.
LEMMA CommittedCore ==
    ASSUME NEW v, NEW m, v.state # "UNSPECIFIED", Sound(v, m, raised', acked'), Committed(v, m)
    PROVE  Core'
<1>1. row'.view = v /\ row'.marker = m /\ stream'.view = v /\ mem' = v /\ marker' = m
  BY DEF Committed, Cached
<1> QED BY <1>1 DEF Core, SameLease

\* A change that is rolled back leaves memory alone, and what it could not take
\* back is sound too.
LEMMA RolledBackCore ==
    ASSUME Core, phase # "down", NEW v, NEW m, Sound(v, m, raised', acked'), RolledBack(v, m),
           mem.state # "UNMANAGED", UNCHANGED <<raised, acked>>
    PROVE  Core'
<1>1. CASE row' = [view |-> mem, marker |-> marker] /\ stream' = Cached(mem) /\ UNCHANGED degraded
  <2>1. row'.view = mem /\ row'.marker = marker /\ stream'.view = mem
    BY <1>1 DEF Cached
  <2> QED BY <2>1 DEF Core, SameLease, RolledBack
<1>2. CASE row' = [view |-> mem, marker |-> marker] /\ degraded' = TRUE
  <2>1. row'.view = mem /\ row'.marker = marker
    BY <1>2
  <2> QED BY <1>2, <2>1 DEF Core, RolledBack
<1>3. CASE row' = [view |-> v, marker |-> m] /\ degraded' = TRUE
  <2>1. row'.view = v /\ row'.marker = m
    BY <1>3
  <2> QED BY <1>3, <2>1 DEF Core, RolledBack
<1> QED BY <1>1, <1>2, <1>3 DEF RolledBack

\* A change that may have been published is kept, and reported.
LEMMA PreservedCore ==
    ASSUME NEW v, NEW m, NEW p, NEW save \in BOOLEAN, v.state # "UNSPECIFIED",
           Sound(v, m, raised', acked'), Sound(v, p, raised', acked'), Preserved(v, m, p, save)
    PROVE  Core'
<1>1. row'.view = v /\ row'.marker \in {m, p} /\ mem' = v /\ marker' = p /\ degraded' = TRUE
  <2>1. row' \in {[view |-> v, marker |-> m], [view |-> v, marker |-> p]}
    BY DEF Preserved
  <2> QED BY SMT, <2>1 DEF Preserved
<1>2. Sound(row'.view, row'.marker, raised', acked')
  BY <1>1
<1> QED BY <1>1, <1>2 DEF Core

\* After the Host died only the row counts.
LEMMA DiedCore ==
    ASSUME NEW v, NEW m, Sound(v, m, raised', acked'), Died(v, m)
    PROVE  Core'
<1>1. row'.view = v /\ row'.marker = m /\ phase' = "down"
  BY DEF Died
<1> QED BY <1>1 DEF Core

\* setRunning, applyAdapterEvent and resolvePending keep their view whatever
\* fails: row, memory and Store part only when that is reported, or in what is
\* not part of the lease.
LEMMA AssertedCore ==
    ASSUME Core, phase = "up", NEW v, NEW m, NEW report \in BOOLEAN, v.state # "UNSPECIFIED",
           Sound(v, m, raised', acked'), Asserted(v, m, report), raised' = raised,
           faults' # faults => acked' = acked,
           report \/ (SameLease(v, mem) /\ m = marker), faults \in Nat,
           v.state = "UNMANAGED" => SameLease(v, mem)
    PROVE  Core'
<1>1. CASE Committed(v, m)
  BY <1>1, CommittedCore
<1>2. CASE Died(v, m)
  BY <1>2, DiedCore
<1>3. CASE Fault /\ mem' = v /\ marker' = m /\ degraded' = (degraded \/ report)
           /\ UNCHANGED <<phase, row, stream>>
  <2>1. acked' = acked
    BY SMT, <1>3 DEF Fault
  <2> QED BY <1>3, <2>1 DEF Core, SameLease
<1>4. CASE Fault /\ mem' = v /\ marker' = m /\ row' = [view |-> v, marker |-> m]
           /\ stream' \in {Cached(v), Unread} /\ UNCHANGED phase
  <2>1. row'.view = v /\ row'.marker = m
    BY <1>4
  <2>2. stream'.cached => stream'.view = v
    BY SMT, <1>4 DEF Cached, Unread
  <2> QED BY <1>4, <2>1, <2>2 DEF Core, SameLease
<1> QED BY <1>1, <1>2, <1>3, <1>4 DEF Asserted

\* Whatever way a change ends, the state stays typed.
LEMMA EndTypes ==
    ASSUME TypeOK, NEW v \in Views, NEW m \in Nat,
           \/ Committed(v, m) \/ RolledBack(v, m) \/ Died(v, m)
           \/ \E p \in {m, 0}, save \in BOOLEAN : Preserved(v, m, p, save)
           \/ \E report \in BOOLEAN : Asserted(v, m, report)
    PROVE  /\ phase' \in {"down", "starting", "up"} /\ mem' \in Views /\ marker' \in Nat
           /\ row' \in [view : Views, marker : Nat] /\ stream'.view \in Views
           /\ {stream'.cached, degraded'} \subseteq BOOLEAN /\ faults' \in 0 .. MaxFaults
<1>0. /\ Cached(v).view \in Views /\ Unread.view \in Views /\ Cached(mem).view \in Views
      /\ Cached(v).cached = TRUE /\ Cached(mem).cached = TRUE /\ Unread.cached = FALSE
  <2>1. Blank \in Views
    <3>1. <<>> \in Seq(Nat)
      BY SMT
    <3> QED BY <3>1 DEF Blank, Views
  <2> QED BY <2>1 DEF Cached, Unread, TypeOK
<1>1. stream' \in {stream, Cached(v), Cached(mem), Unread}
  BY DEF Committed, RolledBack, Died, Preserved, Asserted
<1>2. row' \in {row, [view |-> v, marker |-> m], [view |-> v, marker |-> 0], [view |-> mem, marker |-> marker]}
  BY DEF Committed, RolledBack, Died, Preserved, Asserted
<1>3. mem' \in {mem, v} /\ marker' \in {marker, m, 0}
  BY DEF Committed, RolledBack, Died, Preserved, Asserted
<1>4. phase' \in {phase, "up", "down"}
  BY DEF Committed, RolledBack, Died, Preserved, Asserted, AfterFailure
<1>5. faults' \in 0 .. MaxFaults
  BY SMT, BoundsAssumption DEF Committed, RolledBack, Died, Preserved, Asserted, Fault, TypeOK
<1>6. degraded' \in {degraded, TRUE, FALSE}
  BY DEF Committed, RolledBack, Died, Preserved, Asserted
<1>7. {stream'.cached, degraded'} \subseteq BOOLEAN
  BY <1>0, <1>1, <1>6 DEF TypeOK
<1>8. stream'.view \in Views /\ row' \in [view : Views, marker : Nat]
  BY SMT, <1>0, <1>1, <1>2 DEF TypeOK
<1> QED BY SMT, <1>3, <1>4, <1>5, <1>7, <1>8 DEF TypeOK

-----------------------------------------------------------------------------
(* The handlers.                                                             *)

\* What a handler keeps beside Core: types and history, when it raises nothing
\* and tells of no deadline later than a new lease's.
LEMMA HandlerKeeps ==
    ASSUME IInv, UNCHANGED <<now, raised>>, acked' \in Nat, acked' <= now + LeaseDuration,
           phase' \in {"down", "starting", "up"}, mem' \in Views, marker' \in Nat,
           row' \in [view : Views, marker : Nat], stream'.view \in Views,
           {stream'.cached, degraded'} \subseteq BOOLEAN, faults' \in 0 .. MaxFaults
    PROVE  TypeOK' /\ History'
<1>1. TypeOK'
  BY DEF IInv, TypeOK
<1>2. History'
  BY DEF IInv, History
<1> QED BY <1>1, <1>2

\* A renewed view is sound, whether or not the client is told: its deadline is
\* later than any that was raised, since a warning comes after the renewal.
LEMMA RenewedSound ==
    ASSUME IInv, NEW a \in {mem.act, "busy"}, phase # "down"
    PROVE  LET v == [Renewed EXCEPT !.act = a] IN
           /\ v \in Views /\ v.state = "MANAGED" /\ v.until = now + LeaseDuration /\ v.warns = mem.warns
           /\ Sound(v, 0, raised, acked) /\ Sound(v, 0, raised, v.until)
<1> DEFINE v == [Renewed EXCEPT !.act = a]
<1>1. mem \in Views /\ now \in Nat /\ LeaseDuration \in Nat /\ acked \in Nat
  BY SMT, LeaseAssumption DEF IInv, TypeOK, Times
<1>2. v \in Views /\ v.state = "MANAGED" /\ v.until = now + LeaseDuration /\ v.warns = mem.warns
  <2>1. /\ Renewed \in Views /\ Renewed.state = "MANAGED" /\ Renewed.until = now + LeaseDuration
        /\ Renewed.warns = mem.warns
    <3>1. now + LeaseDuration \in Nat
      BY SMT, <1>1
    <3> QED BY <1>1, <3>1 DEF Renewed, Views
  <2>2. a \in {"idle", "busy", "stuck"}
    BY <1>1 DEF Views
  <2> QED BY <2>1, <2>2 DEF Views
<1>3. \A d \in Times : raised[d] > 0 => now + LeaseDuration > d
  BY SMT, <1>1, LeaseAssumption DEF IInv, History, Times
<1>4. \A i, j \in DOMAIN v.warns : v.warns[i] = v.warns[j] => i = j
  BY <1>2 DEF IInv, Core, Sound
<1>5. acked <= now + LeaseDuration
  BY DEF IInv, History
<1>6. \A d \in Times : raised[d] > 0 /\ v.until = d => 0 = d
  BY SMT, <1>1, <1>2, <1>3 DEF Times
<1>7. v.until >= acked /\ v.until >= v.until
  BY SMT, <1>1, <1>2, <1>5
<1>8. Sound(v, 0, raised, acked)
  BY <1>4, <1>6, <1>7 DEF Sound
<1>9. Sound(v, 0, raised, v.until)
  BY <1>4, <1>6, <1>7 DEF Sound
<1> QED BY <1>2, <1>8, <1>9

\* An unmanaged view is sound.
LEMMA UnmanagedSound ==
    ASSUME IInv, phase # "down"
    PROVE  Unmanaged \in Views /\ Unmanaged.state = "UNMANAGED" /\ Sound(Unmanaged, 0, raised, acked)
<1>1. mem \in Views
  BY DEF IInv, TypeOK
<1>2. /\ Unmanaged \in Views /\ Unmanaged.state = "UNMANAGED" /\ Unmanaged.until = 0
      /\ Unmanaged.warns = mem.warns
  BY <1>1 DEF Unmanaged, Views
<1> QED BY <1>2 DEF IInv, Core, Sound

\* renewLease keeps the invariant.
LEMMA RenewInv == ASSUME IInv, renewLease PROVE IInv'
<1>1. Renewed = [Renewed EXCEPT !.act = mem.act]
  BY DEF Renewed, IInv, TypeOK, Views
<1>2. /\ Renewed \in Views /\ Renewed.state = "MANAGED" /\ Renewed.until = now + LeaseDuration
      /\ Sound(Renewed, 0, raised, acked) /\ Sound(Renewed, 0, raised, Renewed.until)
  BY <1>1, RenewedSound DEF renewLease
<1>3. Core /\ TypeOK /\ faults \in Nat /\ phase = "up" /\ mem.state # "UNMANAGED" /\ UNCHANGED raised
  BY SMT DEF IInv, TypeOK, renewLease, Changed
<1>4. acked' \in {acked, Renewed.until} /\ Sound(Renewed, 0, raised', acked')
  BY <1>2, <1>3 DEF renewLease, Acknowledge
<1>5. Core'
  <2>1. CASE Committed(Renewed, 0)
    BY <1>2, <1>4, <2>1, CommittedCore
  <2>2. CASE RolledBack(Renewed, 0)
    <3>1. acked' = acked
      BY SMT, <1>3, <2>2 DEF RolledBack, Fault, renewLease, Acknowledge
    <3> QED BY <1>3, <1>4, <2>2, <3>1, RolledBackCore
  <2>3. CASE Preserved(Renewed, 0, 0, FALSE)
    BY <1>2, <1>4, <2>3, PreservedCore
  <2>4. CASE Died(Renewed, 0)
    BY <1>4, <2>4, DiedCore
  <2> QED BY <2>1, <2>2, <2>3, <2>4 DEF renewLease, Changed
<1>6. acked' \in Nat /\ acked' <= now + LeaseDuration
  BY SMT, <1>2, <1>4, LeaseAssumption DEF IInv, TypeOK, History, Times, Views
<1>7. UNCHANGED <<now, raised>>
  BY <1>3 DEF renewLease
<1>8. /\ phase' \in {"down", "starting", "up"} /\ mem' \in Views /\ marker' \in Nat
      /\ row' \in [view : Views, marker : Nat] /\ stream'.view \in Views
      /\ {stream'.cached, degraded'} \subseteq BOOLEAN /\ faults' \in 0 .. MaxFaults
  BY <1>2, <1>3, EndTypes DEF renewLease, Changed
<1> QED BY <1>5, <1>6, <1>7, <1>8, HandlerKeeps DEF IInv

\* A change of which no client is told and that raises no warning keeps the
\* invariant when its view is sound.
LEMMA ChangedInv ==
    ASSUME IInv, phase # "down", NEW v \in Views, NEW m \in Nat, v.state # "UNSPECIFIED",
           mem.state # "UNMANAGED", Sound(v, m, raised, acked), Changed(v, m), UNCHANGED <<now, acked>>
    PROVE  IInv'
<1>1. Core /\ TypeOK /\ UNCHANGED raised /\ Sound(v, m, raised', acked')
  BY DEF IInv, Changed
<1>2. Core'
  <2>1. CASE Committed(v, m)
    BY <1>1, <2>1, CommittedCore
  <2>2. CASE RolledBack(v, m)
    BY <1>1, <2>2, RolledBackCore
  <2>3. CASE Preserved(v, m, m, FALSE)
    BY <1>1, <2>3, PreservedCore
  <2>4. CASE Died(v, m)
    BY <1>1, <2>4, DiedCore
  <2> QED BY <2>1, <2>2, <2>3, <2>4 DEF Changed
<1>3. acked' \in Nat /\ acked' <= now + LeaseDuration
  BY DEF IInv, TypeOK, History
<1>4. /\ phase' \in {"down", "starting", "up"} /\ mem' \in Views /\ marker' \in Nat
      /\ row' \in [view : Views, marker : Nat] /\ stream'.view \in Views
      /\ {stream'.cached, degraded'} \subseteq BOOLEAN /\ faults' \in 0 .. MaxFaults
  BY <1>1, EndTypes DEF Changed
<1> QED BY <1>1, <1>2, <1>3, <1>4, HandlerKeeps DEF IInv

\* setRunning keeps the invariant.
LEMMA RunningInv == ASSUME IInv, setRunning PROVE IInv'
<1> DEFINE v == [Renewed EXCEPT !.act = "busy"]
<1>1. /\ v \in Views /\ v.state = "MANAGED" /\ v.until = now + LeaseDuration
      /\ Sound(v, 0, raised, acked) /\ Sound(v, 0, raised, v.until)
  BY RenewedSound DEF setRunning
<1>2. Core /\ TypeOK /\ faults \in Nat /\ phase = "up" /\ UNCHANGED <<now, raised>>
  BY SMT DEF IInv, TypeOK, setRunning
<1>3. acked' = IF faults' = faults THEN v.until ELSE acked
  BY DEF setRunning, Acknowledge
<1>4. Sound(v, 0, raised', acked')
  BY <1>1, <1>2, <1>3
<1>5. Asserted(v, 0, TRUE)
  BY DEF setRunning
<1>6. Core'
  BY <1>1, <1>2, <1>3, <1>4, <1>5, AssertedCore
<1>7. acked' \in Nat /\ acked' <= now + LeaseDuration
  BY SMT, <1>1, <1>3, LeaseAssumption DEF IInv, TypeOK, History, Times
<1>8. /\ phase' \in {"down", "starting", "up"} /\ mem' \in Views /\ marker' \in Nat
      /\ row' \in [view : Views, marker : Nat] /\ stream'.view \in Views
      /\ {stream'.cached, degraded'} \subseteq BOOLEAN /\ faults' \in 0 .. MaxFaults
  BY <1>1, <1>2, <1>5, EndTypes
<1> QED BY <1>2, <1>6, <1>7, <1>8, HandlerKeeps DEF IInv

\* applyAdapterEvent and resolvePending keep the invariant: they leave the lease alone.
LEMMA ActivityInv ==
    ASSUME IInv, NEW a \in {"idle", "busy", "stuck"}, NEW report \in BOOLEAN, phase = "up",
           Asserted([mem EXCEPT !.act = a], marker, report), UNCHANGED <<now, raised, acked>>
    PROVE  IInv'
<1> DEFINE v == [mem EXCEPT !.act = a]
<1>1. Core /\ TypeOK /\ faults \in Nat /\ marker \in Nat /\ mem \in Views
  BY SMT DEF IInv, TypeOK
<1>2. v \in Views /\ v.state = mem.state /\ v.until = mem.until /\ v.warns = mem.warns
  BY <1>1 DEF Views
<1>3. Sound(v, marker, raised', acked') /\ SameLease(v, mem) /\ v.state # "UNSPECIFIED"
  BY <1>1, <1>2 DEF Core, Sound, SameLease
<1>4. Core'
  BY <1>1, <1>3, AssertedCore
<1>5. acked' \in Nat /\ acked' <= now + LeaseDuration
  BY DEF IInv, TypeOK, History
<1>6. /\ phase' \in {"down", "starting", "up"} /\ mem' \in Views /\ marker' \in Nat
      /\ row' \in [view : Views, marker : Nat] /\ stream'.view \in Views
      /\ {stream'.cached, degraded'} \subseteq BOOLEAN /\ faults' \in 0 .. MaxFaults
  BY <1>1, <1>2, EndTypes
<1> QED BY <1>4, <1>5, <1>6, HandlerKeeps DEF IInv

\* What the sweep makes of an expiring lease: the deadline stays, and its
\* warning is listed once.
LEMMA ExpiringFacts ==
    ASSUME IInv, phase # "down"
    PROVE  /\ ExpiringView \in Views /\ ExpiringView.state = "EXPIRING_SOON"
           /\ ExpiringView.until = mem.until
           /\ ~WarningDue => ExpiringView.warns = mem.warns
           /\ \A i, j \in DOMAIN ExpiringView.warns :
                 ExpiringView.warns[i] = ExpiringView.warns[j] => i = j
<1> DEFINE add == WarningDue /\ ~hasManagementWarning(mem, mem.until)
           w == IF add THEN Append(mem.warns, mem.until) ELSE mem.warns
<1>1. mem \in Views /\ mem.warns \in Seq(Nat) /\ mem.until \in Nat
  BY DEF IInv, TypeOK, Views
<1>2. w \in Seq(Nat)
  BY SMT, <1>1
<1>3. ExpiringView = [mem EXCEPT !.state = "EXPIRING_SOON", !.warns = w]
  BY <1>1 DEF ExpiringView, Views
<1>4. /\ ExpiringView \in Views /\ ExpiringView.state = "EXPIRING_SOON"
      /\ ExpiringView.until = mem.until /\ ExpiringView.warns = w
  <2> HIDE DEF w
  <2> QED BY <1>1, <1>2, <1>3 DEF Views
<1>5. \A i, j \in DOMAIN mem.warns : mem.warns[i] = mem.warns[j] => i = j
  BY DEF IInv, Core, Sound
<1>6. \A i, j \in DOMAIN w : w[i] = w[j] => i = j
  <2>1. CASE add
    <3>1. \A i \in DOMAIN mem.warns : mem.warns[i] # mem.until
      BY <2>1 DEF hasManagementWarning
    <3>2. w = Append(mem.warns, mem.until)
      BY <2>1
    <3> HIDE DEF w
    <3>3. DOMAIN w = DOMAIN mem.warns \cup {Len(mem.warns) + 1} /\ w[Len(mem.warns) + 1] = mem.until
      BY SMT, <1>1, <3>2
    <3>4. \A i \in DOMAIN mem.warns : w[i] = mem.warns[i]
      BY SMT, <1>1, <3>2
    <3> QED BY <1>5, <3>1, <3>3, <3>4
  <2>2. CASE ~add
    BY <1>5, <2>2
  <2> QED BY <2>1, <2>2
<1> QED BY <1>4, <1>6

\* A sweep that raises the warning of the current deadline keeps the invariant:
\* since the marker differs from it the warning was not raised before.
LEMMA WarnedInv ==
    ASSUME IInv, phase # "down", mem.state # "UNMANAGED", Expiring, WarningDue,
           Warned(ExpiringView, mem.until), UNCHANGED <<now, acked>>
    PROVE  IInv'
<1> DEFINE v == ExpiringView
           m == mem.until
<1>1. Core /\ TypeOK /\ mem \in Views /\ m \in Nat /\ now \in Nat
  BY SMT DEF IInv, TypeOK, Views, Times
<1>2. /\ v \in Views /\ v.state = "EXPIRING_SOON" /\ v.until = m
      /\ \A i, j \in DOMAIN v.warns : v.warns[i] = v.warns[j] => i = j
  BY ExpiringFacts
<1>3. m \in Times => raised[m] = 0
  BY SMT, <1>1 DEF Core, Sound, WarningDue, TypeOK
<1>4. m >= acked
  BY <1>1 DEF Core, Sound
<1>5. \A warned : Sound(v, m, warned, acked)
  BY <1>2, <1>4 DEF Sound
<1>6. Sound(v, 0, raised, acked)
  BY SMT, <1>2, <1>3, <1>4 DEF Sound
<1> HIDE DEF v, m
<1>7. Core'
  <2>1. CASE Committed(v, m)
    BY <1>2, <1>5, <2>1, CommittedCore
  <2>2. CASE RolledBack(v, m) /\ UNCHANGED raised
    BY <1>1, <1>5, <2>2, RolledBackCore
  <2>3. CASE Preserved(v, m, 0, TRUE) /\ UNCHANGED raised
    BY <1>2, <1>5, <1>6, <2>3, PreservedCore
  <2>4. CASE Preserved(v, m, m, FALSE)
    BY <1>2, <1>5, <2>4, PreservedCore
  <2>5. CASE Died(v, m)
    BY <1>5, <2>5, DiedCore
  <2> QED BY <2>1, <2>2, <2>3, <2>4, <2>5 DEF Warned, v, m
<1>8. raised' = raised \/ raised' = [raised EXCEPT ![m] = @ + 1]
  BY DEF Warned, Raise, m
<1>9. raised' \in [Times -> Nat] /\ \A d \in Times : raised'[d] = raised[d] \/ (d = m /\ raised'[d] = 1)
  <2>1. raised \in [Times -> Nat]
    BY <1>1 DEF TypeOK
  <2> QED BY SMT, <1>3, <1>8, <2>1
<1>10. now + WarningBefore >= m
  BY SMT, <1>1, LeaseAssumption DEF Expiring, m
<1>11. History'
  BY SMT, <1>9, <1>10 DEF IInv, History
<1>12. /\ phase' \in {"down", "starting", "up"} /\ mem' \in Views /\ marker' \in Nat
       /\ row' \in [view : Views, marker : Nat] /\ stream'.view \in Views
       /\ {stream'.cached, degraded'} \subseteq BOOLEAN /\ faults' \in 0 .. MaxFaults
  BY <1>1, <1>2, EndTypes DEF Warned, v, m
<1>13. TypeOK'
  BY <1>1, <1>9, <1>12 DEF TypeOK
<1> QED BY <1>7, <1>11, <1>13 DEF IInv

\* The sweep keeps the invariant.
LEMMA SweepInv == ASSUME IInv, sweepLease PROVE IInv'
<1>1. phase # "down" /\ UNCHANGED <<now, acked>> /\ Core /\ marker \in Nat
  BY DEF sweepLease, IInv, TypeOK
<1>2. CASE ~NothingToSweep /\ Expired /\ Changed(Unmanaged, 0)
  <2>1. mem.state # "UNMANAGED"
    BY <1>2 DEF NothingToSweep, Managed
  <2> QED BY <1>1, <1>2, <2>1, UnmanagedSound, ChangedInv
<1>3. CASE ~NothingToSweep /\ Expiring /\ WarningDue /\ Warned(ExpiringView, mem.until)
  <2>1. mem.state # "UNMANAGED"
    BY <1>3 DEF NothingToSweep, Managed
  <2> QED BY <1>1, <1>3, <2>1, WarnedInv
<1>4. CASE ~NothingToSweep /\ Expiring /\ ~WarningDue /\ Changed(ExpiringView, marker)
  <2>1. mem.state # "UNMANAGED"
    BY <1>4 DEF NothingToSweep, Managed
  <2>2. Sound(ExpiringView, marker, raised, acked)
    BY <1>1, <1>4, <2>1, ExpiringFacts DEF Core, Sound
  <2> QED BY <1>1, <1>4, <2>1, <2>2, ExpiringFacts, ChangedInv
<1>5. CASE NothingToSweep /\ phase = "starting" /\ phase' = "up"
           /\ UNCHANGED <<mem, marker, row, stream, degraded, raised, faults>>
  BY <1>1, <1>5 DEF IInv, TypeOK, Core, History
<1> QED BY <1>2, <1>3, <1>4, <1>5 DEF sweepLease

-----------------------------------------------------------------------------
(* Restore, crashes and the clock.                                           *)

\* What Restore builds from the row is in force: a saved lease is taken over
\* with its marker, and a first lease ends later than any that was warned of.
LEMMA RestoredFacts ==
    ASSUME IInv, NEW a \in {"idle", "stuck"}, NEW saved \in BOOLEAN, restoreLocked(a, saved)
    PROVE  /\ mem' \in Views /\ marker' \in Nat /\ mem'.state # "UNSPECIFIED"
           /\ Sound(mem', marker', raised, acked)
           /\ mem'.state = "UNMANAGED" => row.view.state = "UNMANAGED"
           /\ ~Legacy => SameLease(mem', row.view) /\ marker' = row.marker
<1>1. row.view \in Views /\ row.marker \in Nat /\ now \in Nat /\ acked \in Nat /\ LeaseDuration \in Nat
  BY SMT, LeaseAssumption DEF IInv, TypeOK, Times
<1>2. Sound(row.view, row.marker, raised, acked)
  BY DEF IInv, Core
<1>3. <<>> \in Seq(Nat) /\ now + LeaseDuration \in Nat
  BY SMT, <1>1
<1>4. PICK keep \in BOOLEAN : mem' = Restored(a, keep)
  BY DEF restoreLocked
<1>5. CASE row.view.state = "UNMANAGED"
  <2>1. mem' = row.view /\ marker' = row.marker
    BY <1>4, <1>5 DEF Restored, restoreLocked, Legacy
  <2> QED BY <1>1, <1>2, <1>5, <2>1 DEF SameLease
<1>6. CASE Legacy
  <2>1. mem' = [state |-> "MANAGED", until |-> now + LeaseDuration, act |-> a, warns |-> <<>>]
        /\ marker' = 0
    BY <1>4, <1>6 DEF Restored, restoreLocked, Legacy
  <2>2. mem' \in Views
    BY <1>3, <2>1 DEF Views
  <2>3. \A d \in Times : raised[d] > 0 => now + LeaseDuration > d
    BY SMT, <1>1, LeaseAssumption DEF IInv, History, Times
  <2>4. now + LeaseDuration >= acked
    BY <1>1 DEF IInv, History
  <2>5. /\ mem'.state = "MANAGED" /\ mem'.until = now + LeaseDuration
        /\ \A i, j \in DOMAIN mem'.warns : mem'.warns[i] = mem'.warns[j] => i = j
    BY SMT, <2>1
  <2>6. Sound(mem', 0, raised, acked)
    BY SMT, <1>1, <2>3, <2>4, <2>5 DEF Sound, Times
  <2> QED BY <1>6, <2>1, <2>2, <2>5, <2>6
<1>7. CASE row.view.state # "UNMANAGED" /\ ~Legacy
  <2> DEFINE w == IF keep THEN row.view.warns ELSE <<>>
  <2>1. mem' = [row.view EXCEPT !.act = a, !.warns = w] /\ marker' = row.marker
    BY <1>1, <1>4, <1>7 DEF Restored, restoreLocked, Legacy, Views
  <2>2. w \in Seq(Nat) /\ \A i, j \in DOMAIN w : w[i] = w[j] => i = j
    BY SMT, <1>1, <1>2, <1>3 DEF Views, Sound
  <2> HIDE DEF w
  <2>3. /\ mem' \in Views /\ mem'.state = row.view.state /\ mem'.until = row.view.until
        /\ mem'.warns = w
    BY <1>1, <2>1, <2>2 DEF Views
  <2>4. Sound(mem', marker', raised, acked)
    BY <1>2, <2>1, <2>2, <2>3 DEF Sound
  <2> QED BY <1>1, <1>7, <2>1, <2>3, <2>4 DEF SameLease, Legacy
<1> QED BY <1>5, <1>6, <1>7

\* The Host's start keeps the invariant: nothing is in force but the row.
LEMMA HostStartInv == ASSUME IInv, NEW a \in {"idle", "stuck"}, HostStart(a) PROVE IInv'
<1>1. /\ restoreLocked(a, TRUE) /\ phase' = "starting" /\ stream' = Unread /\ degraded' = FALSE
      /\ UNCHANGED <<faults, now, raised, acked>>
  BY DEF HostStart, restoreLocked
<1>2. /\ mem' \in Views /\ marker' \in Nat /\ mem'.state # "UNSPECIFIED"
      /\ Sound(mem', marker', raised, acked)
  BY <1>1, RestoredFacts
<1>3. row' = [view |-> mem', marker |-> marker']
  BY <1>1 DEF restoreLocked
<1>4. row'.view = mem' /\ row'.marker = marker' /\ stream'.cached = FALSE /\ row' \in [view : Views, marker : Nat]
  BY <1>1, <1>2, <1>3 DEF Unread
<1>5. Core'
  BY <1>1, <1>2, <1>4 DEF Core, SameLease
<1>6. stream'.view \in Views
  <2>1. <<>> \in Seq(Nat)
    BY SMT
  <2> QED BY <1>1, <2>1 DEF Unread, Blank, Views
<1>7. {stream'.cached, degraded'} \subseteq BOOLEAN
  BY <1>1, <1>4
<1>8. acked' \in Nat /\ acked' <= now + LeaseDuration /\ faults' \in 0 .. MaxFaults
  BY <1>1 DEF IInv, TypeOK, History
<1> QED BY <1>1, <1>2, <1>4, <1>5, <1>6, <1>7, <1>8, HandlerKeeps DEF IInv

\* Restore while the Host runs keeps the invariant, also when it cannot save:
\* unless the Host is degraded the row has the lease in force.
LEMMA RestoreInv ==
    ASSUME IInv, NEW a \in {"idle", "stuck"}, NEW saved \in BOOLEAN, Restore(a, saved)
    PROVE  IInv'
<1>1. restoreLocked(a, saved) /\ phase = "up" /\ UNCHANGED <<phase, stream, degraded, now, raised, acked>>
  BY DEF Restore, restoreLocked
<1>2. /\ mem' \in Views /\ marker' \in Nat /\ mem'.state # "UNSPECIFIED"
      /\ Sound(mem', marker', raised, acked)
      /\ mem'.state = "UNMANAGED" => row.view.state = "UNMANAGED"
      /\ ~Legacy => SameLease(mem', row.view) /\ marker' = row.marker
  BY <1>1, RestoredFacts
<1>3. row' = row \/ row' = [view |-> mem', marker |-> marker']
  BY <1>1 DEF restoreLocked
<1>4. row' = row \/ (row'.view = mem' /\ row'.marker = marker' /\ row' \in [view : Views, marker : Nat])
  BY SMT, <1>2, <1>3
<1>5. ~degraded => SameLease(mem', mem) /\ marker' = marker /\ SameLease(row.view, mem')
  BY <1>1, <1>2 DEF IInv, Core, SameLease, Legacy
<1>6. Core'
  <2>1. CASE row' = row
    BY <1>1, <1>2, <1>5, <2>1 DEF IInv, Core, SameLease
  <2>2. CASE row'.view = mem' /\ row'.marker = marker'
    BY <1>1, <1>2, <1>5, <2>2 DEF IInv, Core, SameLease
  <2> QED BY <1>4, <2>1, <2>2
<1>7. acked' \in Nat /\ acked' <= now + LeaseDuration
  BY <1>1 DEF IInv, TypeOK, History
<1>8. faults' \in 0 .. MaxFaults
  BY SMT, BoundsAssumption DEF Restore, IInv, TypeOK
<1>9. row' \in [view : Views, marker : Nat] /\ stream'.view \in Views
      /\ phase' \in {"down", "starting", "up"}
  BY <1>1, <1>4 DEF IInv, TypeOK
<1>10. {stream'.cached, degraded'} \subseteq BOOLEAN
  BY <1>1 DEF IInv, TypeOK
<1> QED BY <1>1, <1>2, <1>6, <1>7, <1>8, <1>9, <1>10, HandlerKeeps DEF IInv

\* A crash and the clock keep the invariant.
LEMMA CrashTickInv == ASSUME IInv, Crash \/ Tick PROVE IInv'
<1>1. CASE Crash
  <2>1. faults' \in 0 .. MaxFaults
    BY SMT, <1>1, BoundsAssumption DEF Crash, Fault, IInv, TypeOK
  <2> QED BY <1>1, <2>1 DEF Crash, IInv, TypeOK, Core, History
<1>2. CASE Tick
  <2>1. now' \in Times /\ now' = now + 1 /\ now \in Nat
    BY SMT, <1>2, BoundsAssumption DEF Tick, IInv, TypeOK, Times
  <2>2. UNCHANGED <<phase, mem, marker, row, stream, degraded, raised, acked, faults>>
    BY <1>2 DEF Tick
  <2>3. History'
    BY SMT, <2>1, <2>2, LeaseAssumption DEF IInv, History, TypeOK, Times
  <2> QED BY <2>1, <2>2, <2>3 DEF IInv, TypeOK, Core
<1> QED BY <1>1, <1>2

-----------------------------------------------------------------------------
\* IInv holds in every reachable state.
THEOREM Invariance == Spec => []IInv
<1>1. ASSUME IInv, [Next]_vars PROVE IInv'
  <2>1. CASE UnmanageCodex
    BY <1>1, <2>1, UnmanagedSound, ChangedInv DEF UnmanageCodex
  <2>2. ASSUME NEW a \in {"idle", "busy", "stuck"}, applyAdapterEvent(a) PROVE IInv'
    BY <1>1, <2>2, ActivityInv DEF applyAdapterEvent
  <2>3. ASSUME NEW a \in {"idle", "busy"}, resolvePending(a) PROVE IInv'
    BY <1>1, <2>3, ActivityInv DEF resolvePending
  <2>4. CASE UNCHANGED vars
    BY <1>1, <2>4 DEF IInv, TypeOK, Core, History, vars
  <2> QED BY <1>1, <2>1, <2>2, <2>3, <2>4, RenewInv, RunningInv, SweepInv, HostStartInv,
             RestoreInv, CrashTickInv DEF Next
<1> QED BY InitInv, <1>1, PTL DEF Spec

\* The state stays well typed.
THEOREM TypeCorrect == Spec => []TypeOK
<1>1. IInv => TypeOK
  BY DEF IInv
<1> QED BY Invariance, <1>1, PTL

\* The Host goes down with the memory it had or with what it just saved.
LEMMA DownKeepsMemory ==
    ASSUME [Next]_vars, phase' = "down"
    PROVE  mem' = mem \/ mem' = row'.view
<1>1. ASSUME NEW v, NEW m, Committed(v, m) \/ RolledBack(v, m) \/ Died(v, m)
      PROVE  mem' = mem \/ mem' = row'.view
  BY <1>1 DEF Committed, RolledBack, Died
<1>2. ASSUME NEW v, NEW m, NEW p, NEW save \in BOOLEAN, Preserved(v, m, p, save)
      PROVE  mem' = row'.view
  <2>1. row' \in {[view |-> v, marker |-> m], [view |-> v, marker |-> p]} /\ mem' = v
    BY <1>2 DEF Preserved
  <2> QED BY SMT, <2>1
<1>3. ASSUME NEW v, NEW m, Changed(v, m) PROVE mem' = mem \/ mem' = row'.view
  BY <1>1, <1>2, <1>3 DEF Changed
<1>4. ASSUME NEW v, NEW m, Warned(v, m) PROVE mem' = mem \/ mem' = row'.view
  BY <1>1, <1>2, <1>4 DEF Warned
<1>5. ASSUME NEW v, NEW m, NEW report, phase = "up", Asserted(v, m, report)
      PROVE  mem' = mem \/ mem' = row'.view
  BY <1>1, <1>5 DEF Asserted
<1>6. CASE renewLease \/ UnmanageCodex \/ sweepLease
  BY <1>3, <1>4, <1>6 DEF renewLease, UnmanageCodex, sweepLease
<1>7. CASE setRunning
  BY <1>5, <1>7 DEF setRunning
<1>8. CASE (\E a \in {"idle", "busy", "stuck"} : applyAdapterEvent(a))
           \/ \E a \in {"idle", "busy"} : resolvePending(a)
  BY <1>5, <1>8 DEF applyAdapterEvent, resolvePending
<1>9. CASE Tick \/ Crash \/ UNCHANGED vars
  BY <1>9 DEF Tick, Crash, vars
<1>10. \A a \in {"idle", "stuck"}, saved \in BOOLEAN : ~HostStart(a) /\ ~Restore(a, saved)
  BY DEF HostStart, Restore
<1> QED BY <1>6, <1>7, <1>8, <1>9, <1>10 DEF Next

\* No lease period warns twice, for any duration, warning time and number of
\* failures, crashes and restarts.
THEOREM OneWarningHolds == Spec => []OneWarningPerDeadline
<1>1. ASSUME Init PROVE OneWarningPerDeadline
  <2>1. mem.warns = <<>> /\ \A d \in Times : raised[d] = 0
    BY <1>1 DEF Init, Blank
  <2> QED BY SMT, <2>1 DEF OneWarningPerDeadline
<1>2. ASSUME IInv', OneWarningPerDeadline, [Next]_vars PROVE OneWarningPerDeadline'
  <2>1. \A d \in Times : raised'[d] <= 1
    BY <1>2 DEF IInv, History
  <2>2. \A i, j \in DOMAIN mem'.warns : mem'.warns[i] = mem'.warns[j] => i = j
    <3>1. CASE phase' # "down"
      BY <1>2, <3>1 DEF IInv, Core, Sound
    <3>2. CASE phase' = "down"
      <4>1. mem' = mem \/ mem' = row'.view
        BY <1>2, <3>2, DownKeepsMemory
      <4> QED BY <1>2, <4>1 DEF IInv, Core, Sound, OneWarningPerDeadline
    <3> QED BY <3>1, <3>2
  <2> QED BY <2>1, <2>2 DEF OneWarningPerDeadline
<1> QED BY Invariance, <1>1, <1>2, PTL DEF Spec

\* Unless the Host is degraded a restart finds the lease in force.
THEOREM LeaseIsDurableHolds == Spec => []LeaseIsDurable
<1>1. IInv => LeaseIsDurable
  BY DEF IInv, Core, SameLease, LeaseIsDurable
<1> QED BY Invariance, <1>1, PTL

\* Unless the Host is degraded a RESET shows the lease in force.
THEOREM ResetShowsLeaseHolds == Spec => []ResetShowsLease
<1>1. IInv => ResetShowsLease
  BY DEF IInv, Core, SameLease, ResetShowsLease, Served
<1> QED BY Invariance, <1>1, PTL

\* A deadline a client was told of is never taken back.
THEOREM AcknowledgedLeaseKeptHolds == Spec => []AcknowledgedLeaseKept
<1>1. IInv => AcknowledgedLeaseKept
  BY DEF IInv, Core, Sound, AcknowledgedLeaseKept
<1> QED BY Invariance, <1>1, PTL

\* Only an accepted turn manages an unmanaged Codex again.
THEOREM OnlyStartTurnManagesHolds == Spec => OnlyStartTurnManages
<1>1. ASSUME IInv, [Next]_vars
      PROVE  [phase = "up" /\ phase' = "up" /\ mem.state = "UNMANAGED" /\ mem'.state # "UNMANAGED"
                => setRunning]_vars
  <2> SUFFICES ASSUME Next, phase = "up", phase' = "up", mem.state = "UNMANAGED",
                      mem'.state # "UNMANAGED"
               PROVE  setRunning
    BY <1>1
  <2>1. row.view.state = "UNMANAGED" /\ mem \in Views
    BY <1>1 DEF IInv, Core, TypeOK
  <2>2. ~renewLease /\ ~UnmanageCodex
    BY DEF renewLease, UnmanageCodex
  <2>3. \A a \in {"idle", "busy", "stuck"} : [mem EXCEPT !.act = a].state = "UNMANAGED"
    BY <2>1 DEF Views
  <2>4. \A a \in {"idle", "busy", "stuck"}, report \in BOOLEAN :
           ~Asserted([mem EXCEPT !.act = a], marker, report)
    BY <2>3 DEF Asserted, Committed, Died
  <2>5. ~sweepLease
    BY DEF sweepLease, NothingToSweep, Managed
  <2>6. ~Tick /\ ~Crash
    BY DEF Tick, Crash
  <2>7. \A a \in {"idle", "stuck"}, saved \in BOOLEAN : ~HostStart(a) /\ ~Restore(a, saved)
    <3>1. \A a \in {"idle", "stuck"}, keep \in BOOLEAN : Restored(a, keep) = row.view
      BY <2>1 DEF Restored, Legacy
    <3>2. \A a \in {"idle", "stuck"}, saved \in BOOLEAN : ~restoreLocked(a, saved)
      BY <2>1, <3>1 DEF restoreLocked
    <3> QED BY <3>2 DEF HostStart, Restore
  <2> QED BY <2>2, <2>4, <2>5, <2>6, <2>7 DEF Next, applyAdapterEvent, resolvePending
<1> QED BY Invariance, <1>1, PTL DEF Spec, OnlyStartTurnManages
=============================================================================
