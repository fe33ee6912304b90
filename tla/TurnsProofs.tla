----------------------------- MODULE TurnsProofs -----------------------------
(***************************************************************************)
(* Proofs about Turns, for any number of turns, requests, clients, failures *)
(* and lost connections.                                                    *)
(***************************************************************************)
EXTENDS Turns, TLAPS

\* Zenon proves a step unless the step names SMT.
USE Zenon

InWire(q) == \E i \in DOMAIN wire : wire[i].ask = q
Writes(r, q) == respond[r].pc = "write" /\ respond[r].ask = q /\ OwnsAdapter(r)

\* The right to answer a request is in one place: on its way to the adapter, in
\* the adapter's table, or with one responder; and while it is, nobody answered.
Right(q) ==
    /\ asked[q] = "no" => ~InWire(q) /\ q \notin pending /\ answers[q] = <<>>
    /\ InWire(q) => q \notin pending /\ answers[q] = <<>>
    /\ q \in pending => answers[q] = <<>>
    /\ \A r \in Responders : Writes(r, q) =>
          /\ asked[q] # "no" /\ ~InWire(q) /\ q \notin pending /\ answers[q] = <<>>
          /\ \A u \in Responders : Writes(u, q) => u = r

Tokens ==
    /\ \A q \in Asks : Right(q)
    /\ \A i, j \in DOMAIN wire : wire[i].ask = wire[j].ask /\ wire[i].ask \in Asks => i = j
    /\ ~ready => wire = <<>> /\ pending = {}

\* What was answered, and what is recorded of it.
Recorded ==
    /\ \A q \in Asks : answers[q] = <<>> \/ \E d \in Decisions : answers[q] = <<d>>
    /\ \A r \in Responders : respond[r].pc = "save" =>
          answers[respond[r].ask] = <<respond[r].decision>>
    /\ \A q \in Asks : resolved[q] # None => answers[q] = <<resolved[q]>>

\* What is shown is in the table or being answered over this connection.
Held ==
    ready /\ ~stale /\ faults = 0 =>
        \A q \in view.pending : q \in pending
            \/ \E r \in Responders : /\ respond[r].ask = q /\ respond[r].pc \in {"write", "save"}
                                     /\ respond[r].epoch = epoch

\* What is in the table is shown or its event is on its way.
Tabled ==
    epoch = 0 =>
        /\ ~stale
        /\ \A q \in pending : q \in view.pending \/ \E i \in DOMAIN events : events[i].ask = q

\* What a responder chose to answer stays shown until it is answered.
Chosen ==
    epoch = 0 =>
        \A r \in Responders :
            respond[r].pc \in {"take", "write"} /\ answers[respond[r].ask] = <<>> =>
                respond[r].ask \in view.pending

Shown == Held /\ Tabled /\ Chosen

IInv == TypeOK /\ Tokens /\ Recorded /\ Shown

\* What the app-server and the connection do.
ServerStep ==
    \/ \E q \in Asks, t \in Turns : ServerAsks(q, t)
    \/ \E t \in Turns : ServerEnds(t)
    \/ \E st \in {"active", "idle", "error"}, t \in Turns \cup {None} : ServerSays(st, t)
    \/ consume \/ Lose \/ Reconnect

-----------------------------------------------------------------------------
\* The first of the notifications not yet taken.
LEMMA HeadOf ==
    ASSUME NEW S, NEW s \in Seq(S), s # <<>>
    PROVE  Head(s) \in S /\ Head(s) = s[1] /\ 1 \in DOMAIN s
<1>1. Len(s) \in Nat /\ Len(s) # 0 /\ DOMAIN s = 1 .. Len(s)
  BY SMT
<1>2. 1 \in DOMAIN s
  BY SMT, <1>1
<1> QED BY SMT, <1>2

\* At first nothing is asked and nobody answers.
LEMMA InitInv == Init => IInv
<1> SUFFICES ASSUME Init PROVE IInv
  OBVIOUS
<1>1. TypeOK
  <2>1. view \in Views
    BY DEF Init, Views
  <2>2. start \in [Starters -> Starts] /\ respond \in [Responders -> Responses]
    BY DEF Init, NoStart, Starts, Responses
  <2>3. /\ wire \in Seq(Notes) /\ events \in Seq(Notes) /\ left \in Seq(Seq(Notes))
        /\ answers \in [Asks -> Seq(Decisions)]
    BY SMT DEF Init
  <2>4. {ready, stale} \subseteq BOOLEAN
    BY DEF Init
  <2>5. \A r \in Responders : respond[r].epoch <= epoch
    BY SMT DEF Init, NoAnswer
  <2> QED BY <2>1, <2>2, <2>3, <2>4, <2>5 DEF Init, TypeOK
<1>2. Tokens
  BY SMT DEF Init, Tokens, Right, InWire, Writes, NoAnswer
<1>3. Recorded
  BY DEF Init, Recorded, NoAnswer
<1>4. Shown
  BY DEF Init, Shown, Held, Tabled, Chosen, NoAnswer
<1> QED BY <1>1, <1>2, <1>3, <1>4 DEF IInv

\* Types are kept by what the app-server does and by the connection.
LEMMA ServerTypes ==
    ASSUME TypeOK, ServerStep
    PROVE  TypeOK'
<1>1. ASSUME NEW q \in Asks, NEW t \in Turns, ServerAsks(q, t) PROVE TypeOK'
  <2>1. Ask(q, t) \in Notes
    BY DEF Ask, Notes
  <2>2. wire' \in Seq(Notes)
    BY SMT, <1>1, <2>1 DEF ServerAsks, TypeOK
  <2> QED BY <1>1, <2>2 DEF ServerAsks, TypeOK, told
<1>2. ASSUME NEW t \in Turns, ServerEnds(t) PROVE TypeOK'
  <2>1. Over(t) \in Notes
    BY DEF Over, Notes
  <2>2. wire' \in Seq(Notes)
    BY SMT, <1>2, <2>1 DEF ServerEnds, TypeOK
  <2>3. asked' \in [Asks -> {"no", "open", "closed"}] /\ upstream' \in [Turns -> {"none", "running", "over"}]
    BY <1>2 DEF ServerEnds, TypeOK
  <2> QED BY <1>2, <2>2, <2>3 DEF ServerEnds, TypeOK, told
<1>3. CASE consume
  <2>1. Head(wire) \in Notes /\ Tail(wire) \in Seq(Notes)
    BY SMT, <1>3 DEF consume, TypeOK
  <2>2. wire' \in Seq(Notes) /\ events' \in Seq(Notes)
    BY SMT, <1>3, <2>1 DEF consume, TypeOK
  <2>3. pending' \subseteq Asks
    BY <1>3, <2>1 DEF consume, TypeOK, Notes
  <2> QED BY <1>3, <2>2, <2>3 DEF consume, TypeOK, server, told
<1>4. CASE Lose
  <2>1. wire' \in Seq(Notes) /\ pending' \subseteq Asks
    BY SMT, <1>4 DEF Lose
  <2>2. {ready', stale'} \subseteq BOOLEAN
    BY <1>4 DEF Lose, TypeOK
  <2> QED BY <1>4, <2>1, <2>2 DEF Lose, TypeOK, server, told
<1>5. CASE Reconnect
  <2>1. \A r \in Responders : respond[r].epoch \in Nat
    BY SMT DEF TypeOK, Responses, NoAnswer
  <2>2. epoch' \in Nat /\ \A r \in Responders : respond'[r].epoch <= epoch'
    BY SMT, <1>5, <2>1 DEF Reconnect, TypeOK
  <2>4. events' \in Seq(Notes) /\ left' \in Seq(Seq(Notes))
    BY SMT, <1>5 DEF Reconnect, TypeOK
  <2>3. {ready', stale'} \subseteq BOOLEAN
    BY <1>5 DEF Reconnect, TypeOK
  <2> QED BY <1>5, <2>2, <2>3, <2>4 DEF Reconnect, TypeOK, server
<1>6. ASSUME NEW st \in {"active", "idle", "error"}, NEW t \in Turns \cup {None}, ServerSays(st, t)
      PROVE  TypeOK'
  <2>1. Status(st, t) \in Notes
    BY <1>6 DEF ServerSays, Status, Notes, Running
  <2>2. wire' \in Seq(Notes) /\ said' \in Nat
    BY SMT, <1>6, <2>1 DEF ServerSays, TypeOK
  <2> QED BY <1>6, <2>2 DEF ServerSays, TypeOK, server
<1> QED BY <1>1, <1>2, <1>3, <1>4, <1>5, <1>6 DEF ServerStep

\* Types are kept by StartTurn.
LEMMA StartTypes == ASSUME TypeOK, NEW s \in Starters, StartStep(s) PROVE TypeOK'
<1>0. start[s] \in Starts /\ NoStart \in Starts
  BY DEF TypeOK, Starts, NoStart
<1>1. CASE StartTurn(s)
  <2>1. start' \in [Starters -> Starts]
    BY <1>0, <1>1 DEF StartTurn, TypeOK, Starts
  <2> QED BY <1>1, <2>1 DEF StartTurn, TypeOK, server, told
<1>2. CASE CallTurnStart(s)
  <2>1. CASE TurnNotAccepted(s)
    <3>1. start' \in [Starters -> Starts] /\ faults' \in Nat
      BY SMT, <1>0, <2>1 DEF TurnNotAccepted, TypeOK, Fault
    <3> QED BY <1>2, <2>1, <3>1 DEF CallTurnStart, TurnNotAccepted, TypeOK, told
  <2>2. ASSUME NEW t \in Turns, TurnAccepted(s, t) PROVE TypeOK'
    <3>1. Started(t) \in Notes /\ [pc |-> "agent", turn |-> t] \in Starts
      BY DEF Started, Notes, Starts
    <3>2. wire' \in Seq(Notes)
      BY SMT, <2>2, <3>1 DEF TurnAccepted, TypeOK
    <3>a. faults' \in Nat
      BY SMT, <2>2 DEF TurnAccepted, TypeOK, Fault
    <3>b. start \in [Starters -> Starts]
      BY DEF TypeOK
    <3>3. faults' \in Nat /\ start' \in [Starters -> Starts]
      BY <1>0, <2>2, <3>1, <3>a, <3>b DEF TurnAccepted
    <3>4. upstream' \in [Turns -> {"none", "running", "over"}]
      BY <2>2 DEF TurnAccepted, TypeOK
    <3> QED BY <1>2, <3>2, <3>3, <3>4 DEF CallTurnStart, TypeOK, told
  <2> QED BY <1>2, <2>1, <2>2 DEF CallTurnStart
<1>3. CASE WorkspaceAgentStarted(s)
  <2>1. agents' \subseteq Turns \cup {None} /\ faults' \in Nat
    BY SMT, <1>0, <1>3 DEF WorkspaceAgentStarted, TypeOK, Starts, Fault
  <2>2. start' \in [Starters -> Starts]
    BY <1>0, <1>3 DEF WorkspaceAgentStarted, TypeOK, Starts
  <2> QED BY <1>3, <2>1, <2>2 DEF WorkspaceAgentStarted, TypeOK, server, told
<1>4. CASE setRunning(s)
  <2>1. start[s].turn \in Turns
    BY <1>0, <1>4 DEF setRunning, Starts
  <2>2. view' \in Views
    BY <1>4, <2>1 DEF setRunning, TypeOK, ensureActiveTurn, Views
  <2>3. faults' \in Nat
    BY SMT, <1>4 DEF setRunning, TypeOK, Fault
  <2>a. [start[s] EXCEPT !.pc = "message"] \in Starts
    BY <1>0, <1>4 DEF setRunning, Starts
  <2>b. start \in [Starters -> Starts]
    BY DEF TypeOK
  <2>4. start' \in [Starters -> Starts]
    BY <1>0, <1>4, <2>a, <2>b DEF setRunning
  <2> QED BY <1>4, <2>2, <2>3, <2>4 DEF setRunning, TypeOK, server, told
<1>5. CASE publishAcceptedUserMessage(s)
  <2>1. start[s].turn \in Turns
    BY <1>0, <1>5 DEF publishAcceptedUserMessage, Starts
  <2>2. view' \in Views
    BY <1>5, <2>1 DEF publishAcceptedUserMessage, TypeOK, ensureActiveTurn, Views
  <2>3. faults' \in Nat /\ start' \in [Starters -> Starts]
    BY SMT, <1>0, <1>5 DEF publishAcceptedUserMessage, TypeOK, Fault
  <2> QED BY <1>5, <2>2, <2>3 DEF publishAcceptedUserMessage, TypeOK, server, told
<1> QED BY <1>1, <1>2, <1>3, <1>4, <1>5 DEF StartStep

\* Types are kept by the responders.
LEMMA RespondTypes ==
    ASSUME TypeOK, NEW r \in Responders,
           \/ RespondStep(r)
           \/ \E q \in Asks, d \in Decisions : RespondApproval(r, q, d)
    PROVE  TypeOK'
<1>0. respond[r] \in Responses /\ NoAnswer \in Responses /\ NoAnswer.epoch = 0
  BY DEF TypeOK, Responses, NoAnswer
<1>a. respond[r].pc \in {"take", "write", "save"} =>
         /\ respond[r].ask \in Asks /\ respond[r].decision \in Decisions
         /\ \A c \in {"take", "write", "save"} : /\ [respond[r] EXCEPT !.pc = c] \in Responses
                                                /\ [respond[r] EXCEPT !.pc = c].epoch = respond[r].epoch
  BY SMT, <1>0 DEF Responses, NoAnswer
<1>b. /\ respond \in [Responders -> Responses] /\ epoch \in Nat
      /\ \A u \in Responders : respond[u].epoch <= epoch
  BY DEF TypeOK
<1>1. ASSUME NEW q \in Asks, NEW d \in Decisions, RespondApproval(r, q, d) PROVE TypeOK'
  <2>1. [pc |-> "take", ask |-> q, decision |-> d, epoch |-> epoch] \in Responses
    BY DEF TypeOK, Responses
  <2> QED BY SMT, <1>1, <2>1 DEF RespondApproval, TypeOK, server, told
<1>2. CASE takePending(r)
  <2>a. \/ respond' = [respond EXCEPT ![r] = [respond[r] EXCEPT !.pc = "write"]]
        \/ respond' = [respond EXCEPT ![r] = NoAnswer]
    BY <1>2 DEF takePending
  <2>b. [respond[r] EXCEPT !.pc = "write"].epoch <= epoch /\ NoAnswer.epoch <= epoch
    BY SMT, <1>0, <1>a, <1>b, <1>2 DEF takePending
  <2>c. [respond[r] EXCEPT !.pc = "write"] \in Responses
    BY <1>a, <1>2 DEF takePending
  <2>d. PICK v \in Responses : v.epoch <= epoch /\ respond' = [respond EXCEPT ![r] = v]
    BY <1>0, <2>a, <2>b, <2>c
  <2>1. respond' \in [Responders -> Responses] /\ \A u \in Responders : respond'[u].epoch <= epoch
    BY <1>b, <2>d
  <2>2. pending' \subseteq Asks
    BY <1>2 DEF takePending, TypeOK
  <2> QED BY <1>2, <2>1, <2>2 DEF takePending, TypeOK, server, told
<1>3. CASE Respond(r)
  <2>a. \/ respond' = [respond EXCEPT ![r] = [respond[r] EXCEPT !.pc = "save"]]
        \/ respond' = [respond EXCEPT ![r] = NoAnswer]
    BY <1>3 DEF Respond
  <2>b. [respond[r] EXCEPT !.pc = "save"].epoch <= epoch /\ NoAnswer.epoch <= epoch
    BY SMT, <1>0, <1>a, <1>b, <1>3 DEF Respond
  <2>c. [respond[r] EXCEPT !.pc = "save"] \in Responses
    BY <1>a, <1>3 DEF Respond
  <2>d. PICK v \in Responses : v.epoch <= epoch /\ respond' = [respond EXCEPT ![r] = v]
    BY <1>0, <2>a, <2>b, <2>c
  <2>1. respond' \in [Responders -> Responses] /\ \A u \in Responders : respond'[u].epoch <= epoch
    BY <1>b, <2>d
  <2>2. pending' \subseteq Asks /\ faults' \in Nat
    BY SMT, <1>3, <1>a DEF Respond, TypeOK, Fault
  <2>3. Append(answers[respond[r].ask], respond[r].decision) \in Seq(Decisions)
    BY SMT, <1>3, <1>a DEF Respond, TypeOK
  <2>4. answers' \in [Asks -> Seq(Decisions)]
    BY <1>3, <2>3 DEF Respond, TypeOK
  <2>5. asked' \in [Asks -> {"no", "open", "closed"}]
    BY <1>3 DEF Respond, TypeOK
  <2> QED BY <1>3, <2>1, <2>2, <2>4, <2>5 DEF Respond, TypeOK, told
<1>4. CASE resolvePending(r)
  <2>1. Answered(view, respond[r].ask) \in Views
    BY DEF TypeOK, Answered, Views
  <2>2. view' \in Views
    BY <1>4, <2>1 DEF resolvePending, TypeOK
  <2>a. respond[r].decision \in Decisions
    BY <1>4, <1>a DEF resolvePending
  <2>b. resolved' \in [Asks -> Decisions \cup {None}]
    BY <1>4, <2>a DEF resolvePending, TypeOK
  <2>3. faults' \in Nat /\ resolved' \in [Asks -> Decisions \cup {None}]
    BY SMT, <1>4, <2>b DEF resolvePending, TypeOK, Fault
  <2>4. respond' \in [Responders -> Responses] /\ \A u \in Responders : respond'[u].epoch <= epoch
    BY SMT, <1>0, <1>4 DEF resolvePending, TypeOK
  <2> QED BY <1>4, <2>2, <2>3, <2>4 DEF resolvePending, TypeOK, server, told
<1> QED BY <1>1, <1>2, <1>3, <1>4 DEF RespondStep

\* The event loop applies the first event of the current adapter, or of one before it.
LEMMA EventOf ==
    ASSUME TypeOK, applyAdapterEvent
    PROVE  \E e \in Notes :
              /\ Applied(e) /\ events' \in Seq(Notes) /\ left' \in Seq(Seq(Notes))
              /\ \/ events # <<>> /\ e = Head(events) /\ events' = Tail(events)
                    /\ UNCHANGED <<left, overtaken>>
                 \/ UNCHANGED events /\ overtaken' = (overtaken \/ ~stale)
<1>0. events \in Seq(Notes) /\ left \in Seq(Seq(Notes))
  BY DEF TypeOK
<1>1. CASE events # <<>> /\ Applied(Head(events)) /\ events' = Tail(events)
           /\ UNCHANGED <<left, overtaken>>
  <2>1. Head(events) \in Notes /\ Tail(events) \in Seq(Notes)
    BY SMT, <1>0, <1>1
  <2> QED BY <1>0, <1>1, <2>1
<1>2. ASSUME NEW k \in DOMAIN left, left[k] # <<>>, Applied(Head(left[k])),
             left' = [left EXCEPT ![k] = Tail(@)], overtaken' = (overtaken \/ ~stale),
             UNCHANGED events
      PROVE  \E e \in Notes :
                /\ Applied(e) /\ events' \in Seq(Notes) /\ left' \in Seq(Seq(Notes))
                /\ UNCHANGED events /\ overtaken' = (overtaken \/ ~stale)
  <2>1. left[k] \in Seq(Notes)
    BY SMT, <1>0
  <2>2. Head(left[k]) \in Notes /\ Tail(left[k]) \in Seq(Notes)
    BY SMT, <1>2, <2>1
  <2>3. left' \in Seq(Seq(Notes))
    BY SMT, <1>0, <1>2, <2>2
  <2> QED BY <1>0, <1>2, <2>2, <2>3
<1> QED BY <1>1, <1>2 DEF applyAdapterEvent

\* Types are kept by the event loop and by Restore.
LEMMA LoopTypes == ASSUME TypeOK, applyAdapterEvent \/ restoreLocked PROVE TypeOK'
<1>1. CASE applyAdapterEvent
  <2>1. PICK e \in Notes : Applied(e) /\ events' \in Seq(Notes) /\ left' \in Seq(Seq(Notes))
    BY <1>1, EventOf
  <2>2. view' \in Views
    <3>1. CASE e.kind = "started"
      <4>1. ensureActiveTurn(view, e.turn) \in Views
        BY <2>1, <3>1 DEF ensureActiveTurn, TypeOK, Views, Notes
      <4> QED BY <2>1, <3>1, <4>1 DEF Applied, EventView
    <3>2. CASE e.kind = "ask"
      <4>1. [view EXCEPT !.pending = @ \cup {e.ask}, !.status = "WAITING"] \in Views
        BY <2>1, <3>2 DEF TypeOK, Views, Notes
      <4> QED BY <2>1, <3>2, <4>1 DEF Applied, EventView, TypeOK
    <3>3. CASE e.kind = "over"
      <4>1. \A st \in {"IDLE", "ERROR"} :
               [view EXCEPT !.status = st, !.turnId = None, !.activeTurn = None] \in Views
        BY DEF TypeOK, Views
      <4> QED BY <2>1, <3>3, <4>1 DEF Applied, EventView
    <3>4. CASE e.kind \notin {"started", "ask", "over"}
      <4>1. applyCodexParams(e) \in Views
        BY DEF TypeOK, Views, applyCodexParams
      <4> QED BY <2>1, <3>4, <4>1 DEF Applied, EventView
    <3> QED BY <3>1, <3>2, <3>3, <3>4
  <2>3. agents' \subseteq Turns \cup {None} /\ faults' \in Nat
    BY SMT, <2>1 DEF Applied, TypeOK, Fault
  <2> QED BY <2>1, <2>2, <2>3 DEF Applied, TypeOK, server
<1>2. CASE restoreLocked
  <2>1. view' \in Views
    <3>1. PICK st \in {"UNAVAILABLE", "IDLE"} :
             view' = [status |-> st, turnId |-> None, activeTurn |-> None, pending |-> {}]
      BY <1>2 DEF restoreLocked
    <3> QED BY <3>1 DEF Views
  <2>2. agents' \subseteq Turns \cup {None} /\ faults' \in Nat
    BY SMT, <1>2 DEF restoreLocked, TypeOK, Views, Running, Fault
  <2>3. {ready', stale'} \subseteq BOOLEAN
    BY <1>2 DEF restoreLocked, TypeOK
  <2> QED BY <1>2, <2>1, <2>2, <2>3 DEF restoreLocked, TypeOK, server, told
<1> QED BY <1>1, <1>2

-----------------------------------------------------------------------------
\* What Tokens reads, but for the responders.
table == <<asked, answers, epoch, ready, wire, pending>>

\* The right to answer stays in one place when the app-server asks, when a
\* notification goes out or is consumed, and when the connection is lost or regained.
LEMMA ServerTokens ==
    ASSUME IInv, ServerStep
    PROVE  Tokens'
<1> USE NoneAssumption
<1>0. wire \in Seq(Notes) /\ TypeOK /\ Tokens
  BY DEF IInv, TypeOK
<1>1. ASSUME NEW q \in Asks, NEW t \in Turns, ServerAsks(q, t) PROVE Tokens'
  <2>1. Ask(q, t) \in Notes /\ Ask(q, t).ask = q
    BY DEF Ask, Notes
  <2>2. \A p \in Asks : InWire(p)' <=> InWire(p) \/ p = q
    BY SMT, <1>0, <1>1, <2>1 DEF ServerAsks, InWire
  <2>3. \A i, j \in DOMAIN wire' : wire'[i].ask = wire'[j].ask /\ wire'[i].ask \in Asks => i = j
    <3>1. wire' = Append(wire, Ask(q, t)) /\ ~InWire(q)
      BY <1>0, <1>1 DEF ServerAsks, Tokens, Right
    <3>2. \A i, j \in DOMAIN wire : wire[i].ask = wire[j].ask /\ wire[i].ask \in Asks => i = j
      BY <1>0 DEF Tokens
    <3> QED BY <1>0, <2>1, <3>1, <3>2, SMTT(30) DEF InWire
  <2>4. \A r \in Responders, p \in Asks : Writes(r, p)' <=> Writes(r, p)
    BY <1>1 DEF ServerAsks, Writes, OwnsAdapter
  <2>5. /\ ready /\ UNCHANGED <<ready, answers, pending>> /\ asked[q] = "no" /\ asked'[q] # "no"
        /\ \A p \in Asks \ {q} : asked'[p] = asked[p]
    BY <1>0, <1>1 DEF ServerAsks, TypeOK
  <2>6. ASSUME NEW p \in Asks PROVE Right(p)'
    <3>1. Right(p)
      BY <1>0 DEF Tokens
    <3> QED BY <2>2, <2>4, <2>5, <3>1 DEF Right
  <2> QED BY <2>3, <2>5, <2>6 DEF Tokens
<1>2. ASSUME NEW t \in Turns, ServerEnds(t) PROVE Tokens'
  <2>1. Over(t) \in Notes /\ Over(t).ask \notin Asks
    BY DEF Over, Notes
  <2>2. \A p \in Asks : InWire(p)' <=> InWire(p)
    BY SMT, <1>0, <1>2, <2>1 DEF ServerEnds, InWire
  <2>3. \A i, j \in DOMAIN wire' : wire'[i].ask = wire'[j].ask /\ wire'[i].ask \in Asks => i = j
    BY SMT, <1>0, <1>2, <2>1 DEF ServerEnds, Tokens, Right
  <2>4. \A r \in Responders, p \in Asks : Writes(r, p)' <=> Writes(r, p)
    BY <1>2 DEF ServerEnds, Writes, OwnsAdapter
  <2>5. \A p \in Asks : asked'[p] = "no" <=> asked[p] = "no"
    BY <1>2 DEF ServerEnds
  <2>6. ~ready => wire' = <<>> /\ pending' = {}
    BY <1>0, <1>2 DEF ServerEnds, Tokens, Right
  <2> QED BY <1>0, <1>2, <2>2, <2>3, <2>4, <2>5, <2>6 DEF ServerEnds, Tokens, Right
<1>3. CASE consume
  <2> DEFINE h == Head(wire)
  <2>1. h \in Notes /\ wire # <<>> /\ h = wire[1] /\ 1 \in DOMAIN wire
    <3>1. wire # <<>>
      BY <1>3 DEF consume
    <3> QED BY <1>0, <3>1, HeadOf
  <2>2. /\ h.ask \in Asks <=> h.kind = "ask"
        /\ pending' = pending \cup ({h.ask} \cap Asks)
    BY <1>3, <2>1 DEF consume, Notes
  <2>a. \A i \in DOMAIN wire' : i \in Nat /\ i >= 1 /\ i + 1 \in DOMAIN wire /\ wire'[i] = wire[i + 1]
    BY SMT, <1>0, <1>3 DEF consume
  <2>b. \A i \in DOMAIN wire : i # 1 => i - 1 \in DOMAIN wire' /\ wire'[i - 1] = wire[i]
    BY SMT, <1>0, <1>3 DEF consume
  <2>c. \A i, j \in DOMAIN wire : wire[i].ask = wire[j].ask /\ wire[i].ask \in Asks => i = j
    BY <1>0 DEF Tokens, Right
  <2>3. \A p \in Asks : InWire(p)' <=> InWire(p) /\ p # h.ask
    <3>1. ASSUME NEW p \in Asks, NEW i \in DOMAIN wire', wire'[i].ask = p
          PROVE  InWire(p) /\ p # h.ask
      BY SMT, <2>1, <2>a, <2>c, <3>1 DEF InWire
    <3>2. ASSUME NEW p \in Asks, NEW i \in DOMAIN wire, wire[i].ask = p, p # h.ask
          PROVE  InWire(p)'
      BY <2>1, <2>b, <3>2 DEF InWire
    <3> QED BY <3>1, <3>2 DEF InWire
  <2>4. \A i, j \in DOMAIN wire' : wire'[i].ask = wire'[j].ask /\ wire'[i].ask \in Asks => i = j
    <3> SUFFICES ASSUME NEW i \in DOMAIN wire', NEW j \in DOMAIN wire',
                        wire'[i].ask = wire'[j].ask, wire'[i].ask \in Asks
                 PROVE  i = j
      OBVIOUS
    <3>1. i + 1 = j + 1
      BY <2>a, <2>c
    <3> QED BY SMT, <2>a, <3>1
  <2>5. \A r \in Responders, p \in Asks : Writes(r, p)' <=> Writes(r, p)
    BY <1>3 DEF consume, Writes, OwnsAdapter
  <2>6. h.ask \in Asks => InWire(h.ask)
    BY <2>1 DEF InWire
  <2>7. UNCHANGED <<asked, answers, ready>> /\ ready
    BY <1>0, <1>3, <2>1 DEF consume, server, Tokens
  <2>8. ASSUME NEW p \in Asks PROVE Right(p)'
    <3>1. Right(p)
      BY <1>0 DEF Tokens
    <3>2. CASE p = h.ask
      BY <2>2, <2>3, <2>5, <2>6, <2>7, <3>1, <3>2 DEF Right
    <3>3. CASE p # h.ask
      BY <2>2, <2>3, <2>5, <2>7, <3>1, <3>3 DEF Right
    <3> QED BY <3>2, <3>3
  <2> QED BY <2>4, <2>7, <2>8 DEF Tokens
<1>4. CASE Lose
  <2>1. \A r \in Responders, p \in Asks : ~Writes(r, p)'
    BY <1>4 DEF Lose, Writes, OwnsAdapter
  <2>2. \A p \in Asks : ~InWire(p)'
    BY SMT, <1>4 DEF Lose, InWire
  <2> QED BY SMT, <1>0, <1>4, <2>1, <2>2 DEF Lose, Tokens, Right, server
<1>5. CASE Reconnect
  <2>1. \A r \in Responders, p \in Asks : ~Writes(r, p)'
    BY SMT, <1>0, <1>5 DEF Reconnect, Writes, OwnsAdapter, TypeOK, Responses, NoAnswer
  <2>2. \A p \in Asks : InWire(p)' <=> InWire(p)
    BY <1>5 DEF Reconnect, InWire
  <2> QED BY <1>0, <1>5, <2>1, <2>2 DEF Reconnect, Tokens, Right, server
<1>6. ASSUME NEW st \in {"active", "idle", "error"}, NEW t \in Turns \cup {None}, ServerSays(st, t)
      PROVE  Tokens'
  <2>1. Status(st, t) \in Notes /\ Status(st, t).ask \notin Asks
    BY <1>6 DEF ServerSays, Status, Notes, Running
  <2>2. \A p \in Asks : InWire(p)' <=> InWire(p)
    BY SMT, <1>0, <1>6, <2>1 DEF ServerSays, InWire
  <2>3. \A i, j \in DOMAIN wire' : wire'[i].ask = wire'[j].ask /\ wire'[i].ask \in Asks => i = j
    BY SMT, <1>0, <1>6, <2>1 DEF ServerSays, Tokens
  <2>4. \A r \in Responders, p \in Asks : Writes(r, p)' <=> Writes(r, p)
    BY <1>6 DEF ServerSays, Writes, OwnsAdapter
  <2> QED BY <1>0, <1>6, <2>2, <2>3, <2>4 DEF ServerSays, Tokens, Right, server
<1> QED BY <1>1, <1>2, <1>3, <1>4, <1>5, <1>6 DEF ServerStep

\* The right to answer stays in one place when StartTurn, the event loop or
\* Restore takes a step: of what Tokens reads they add only a started notification.
LEMMA ViewTokens ==
    ASSUME IInv,
           \/ \E s \in Starters : StartStep(s)
           \/ applyAdapterEvent \/ restoreLocked
           \/ UNCHANGED vars
    PROVE  Tokens' /\ Recorded'
<1> USE NoneAssumption
<1>0. wire \in Seq(Notes) /\ Tokens /\ Recorded
  BY DEF IInv, TypeOK
<1>1. CASE UNCHANGED <<table, respond, resolved>>
  <2>1. \A r \in Responders, p \in Asks : Writes(r, p)' <=> Writes(r, p)
    BY <1>1 DEF table, Writes, OwnsAdapter
  <2>2. \A p \in Asks : InWire(p)' <=> InWire(p)
    BY <1>1 DEF table, InWire
  <2> QED BY <1>0, <1>1, <2>1, <2>2 DEF Tokens, Right, Recorded, table
<1>2. ASSUME NEW s \in Starters, NEW t \in Turns, CallTurnStart(s), TurnAccepted(s, t)
      PROVE  Tokens' /\ Recorded'
  <2>1. Started(t) \in Notes /\ Started(t).ask \notin Asks
    BY DEF Started, Notes
  <2>2. \A p \in Asks : InWire(p)' <=> InWire(p)
    BY SMT, <1>0, <1>2, <2>1 DEF TurnAccepted, InWire
  <2>3. \A i, j \in DOMAIN wire' : wire'[i].ask = wire'[j].ask /\ wire'[i].ask \in Asks => i = j
    BY SMT, <1>0, <1>2, <2>1 DEF TurnAccepted, Tokens, Right
  <2>4. \A r \in Responders, p \in Asks : Writes(r, p)' <=> Writes(r, p)
    BY <1>2 DEF CallTurnStart, Writes, OwnsAdapter
  <2>5. ready /\ ready'
    BY <1>2 DEF TurnAccepted, CallTurnStart
  <2> QED BY <1>0, <1>2, <2>2, <2>3, <2>4, <2>5 DEF CallTurnStart, Tokens, Right, Recorded
<1>3. ASSUME NEW s \in Starters, StartStep(s) PROVE Tokens' /\ Recorded'
  <2>1. CASE TurnNotAccepted(s) /\ CallTurnStart(s)
    BY <1>1, <2>1 DEF TurnNotAccepted, CallTurnStart, table
  <2>2. CASE StartTurn(s) \/ WorkspaceAgentStarted(s) \/ setRunning(s) \/ publishAcceptedUserMessage(s)
    BY <1>1, <2>2 DEF StartTurn, WorkspaceAgentStarted, setRunning, publishAcceptedUserMessage,
                      table, server
  <2> QED BY <1>2, <1>3, <2>1, <2>2 DEF StartStep, CallTurnStart
<1>4. CASE applyAdapterEvent \/ restoreLocked \/ UNCHANGED vars
  BY <1>1, <1>4 DEF applyAdapterEvent, Applied, restoreLocked, vars, table, server
<1> QED BY <1>3, <1>4

-----------------------------------------------------------------------------
\* A request that got an answer does not count as unanswered.
LEMMA AppendNotEmpty ==
    ASSUME NEW S, NEW seq \in Seq(S), NEW d \in S PROVE Append(seq, d) # <<>>
<1> SUFFICES ASSUME Append(seq, d) = <<>> PROVE FALSE
  OBVIOUS
<1>1. Len(Append(seq, d)) = Len(seq) + 1 /\ Len(seq) \in Nat
  BY SMT
<1> QED BY SMT, <1>1

\* A responder that acts has a request and a decision.
LEMMA RespondersAsk ==
    ASSUME TypeOK, NEW r \in Responders, respond[r].pc # "idle"
    PROVE  /\ respond[r].ask \in Asks /\ respond[r].decision \in Decisions
           /\ respond[r].pc \in {"take", "write", "save"}
BY SMT DEF TypeOK, Responses, NoAnswer

\* Choosing what to answer, takePending, Respond and resolvePending keep the
\* right to answer in one place: who takes a request is the only one to write.
LEMMA RespondTokens ==
    ASSUME IInv, NEW r \in Responders,
           \/ RespondStep(r)
           \/ \E q \in Asks, d \in Decisions : RespondApproval(r, q, d)
    PROVE  Tokens' /\ Recorded'
<1>0. TypeOK /\ Tokens /\ Recorded /\ respond \in [Responders -> Responses]
  BY DEF IInv, TypeOK
<1> DEFINE q == respond[r].ask
<1>a. respond[r].pc # "idle" => q \in Asks /\ respond[r].decision \in Decisions
  BY <1>0, RespondersAsk
<1>1. CASE (\E p \in Asks, d \in Decisions : RespondApproval(r, p, d)) \/ resolvePending(r)
  <2>a. \A u \in Responders \ {r} : respond'[u] = respond[u]
    BY <1>0, <1>1 DEF RespondApproval, resolvePending
  <2>b. respond'[r].pc \in {"take", "idle"}
    <3>1. NoAnswer.pc = "idle"
      BY DEF NoAnswer
    <3>2. CASE resolvePending(r)
      BY <1>0, <3>1, <3>2 DEF resolvePending
    <3>3. ASSUME NEW p \in Asks, NEW d \in Decisions, RespondApproval(r, p, d)
          PROVE  respond'[r].pc = "take"
      BY <1>0, <3>3 DEF RespondApproval
    <3> QED BY <1>1, <3>2, <3>3
  <2>c. UNCHANGED <<ready, epoch>>
    BY <1>1 DEF RespondApproval, resolvePending
  <2>1. \A u \in Responders, p \in Asks : Writes(u, p)' => Writes(u, p)
    BY <2>a, <2>b, <2>c DEF Writes, OwnsAdapter
  <2>2. \A p \in Asks : InWire(p)' <=> InWire(p)
    BY <1>1 DEF RespondApproval, resolvePending, InWire
  <2>3. UNCHANGED table
    BY <1>1 DEF RespondApproval, resolvePending, table, server
  <2>4. Tokens'
    BY <1>0, <2>1, <2>2, <2>3 DEF Tokens, Right, table
  <2>5. \A u \in Responders : respond'[u].pc = "save" => respond'[u] = respond[u]
    BY <2>a, <2>b
  <2>6. \A p \in Asks : resolved'[p] # None => answers[p] = <<resolved'[p]>>
    BY <1>0, <1>1, <1>a DEF RespondApproval, resolvePending, Recorded, TypeOK
  <2> QED BY <1>0, <2>3, <2>4, <2>5, <2>6 DEF Recorded, table
<1>2. CASE takePending(r)
  <2>1. \A p \in Asks : InWire(p)' <=> InWire(p)
    BY <1>2 DEF takePending, InWire
  <2>2. \A u \in Responders \ {r}, p \in Asks : Writes(u, p)' <=> Writes(u, p)
    BY <1>0, <1>2 DEF takePending, Writes, OwnsAdapter
  <2>a. [respond[r] EXCEPT !.pc = "write"].ask = q /\ [respond[r] EXCEPT !.pc = "write"].pc = "write"
    BY SMT, <1>0 DEF Responses, NoAnswer
  <2>b. \/ /\ q \in pending /\ pending' = pending \ {q}
           /\ respond'[r] = [respond[r] EXCEPT !.pc = "write"]
        \/ respond'[r] = NoAnswer
    BY <1>0, <1>2 DEF takePending
  <2>c. NoAnswer.pc = "idle"
    BY DEF NoAnswer
  <2>3. \A p \in Asks : Writes(r, p)' => p = q /\ q \in pending /\ pending' = pending \ {q}
    BY <2>a, <2>b, <2>c DEF Writes
  <2>4. pending' \subseteq pending /\ UNCHANGED <<asked, answers, epoch, ready, wire, resolved>>
    BY <1>2 DEF takePending, server
  <2>5. Tokens'
    <3>1. ASSUME NEW p \in Asks PROVE Right(p)'
      <4>1. Right(p)
        BY <1>0 DEF Tokens
      <4>2. CASE Writes(r, p)'
        BY <2>1, <2>2, <2>3, <2>4, <4>1, <4>2 DEF Right
      <4>3. CASE ~Writes(r, p)'
        BY <2>1, <2>2, <2>4, <4>1, <4>3 DEF Right
      <4> QED BY <4>2, <4>3
    <3> QED BY <1>0, <2>4, <3>1 DEF Tokens
  <2>d. \A u \in Responders \ {r} : respond'[u] = respond[u]
    BY <1>0, <1>2 DEF takePending
  <2>6. \A u \in Responders : respond'[u].pc = "save" => respond'[u] = respond[u]
    BY <2>a, <2>b, <2>c, <2>d
  <2> QED BY <1>0, <2>4, <2>5, <2>6 DEF Recorded
<1>3. CASE Respond(r)
  <2>0. q \in Asks /\ respond[r].decision \in Decisions /\ respond[r].pc = "write"
    BY <1>3, <1>a DEF Respond
  <2>1. \A p \in Asks : InWire(p)' <=> InWire(p)
    BY <1>3 DEF Respond, InWire
  <2>2. \A u \in Responders \ {r}, p \in Asks : Writes(u, p)' <=> Writes(u, p)
    BY <1>0, <1>3 DEF Respond, Writes, OwnsAdapter
  <2>a. [respond[r] EXCEPT !.pc = "save"].pc = "save"
    BY SMT, <1>0 DEF Responses, NoAnswer
  <2>b. respond'[r] = [respond[r] EXCEPT !.pc = "save"] \/ respond'[r] = NoAnswer
    BY <1>0, <1>3 DEF Respond
  <2>c. NoAnswer.pc = "idle"
    BY DEF NoAnswer
  <2>3. \A p \in Asks : ~Writes(r, p)'
    BY <2>a, <2>b, <2>c DEF Writes
  <2>4. UNCHANGED <<epoch, ready, wire, resolved>>
    BY <1>3 DEF Respond
  <2>5. OwnsAdapter(r) => Writes(r, q)
    BY <2>0 DEF Writes
  <2>6. \A u \in Responders \ {r}: respond'[u] = respond[u]
    BY <1>0, <1>3 DEF Respond
  <2>7. CASE OwnsAdapter(r) /\ answers' = [answers EXCEPT ![q] = Append(@, respond[r].decision)]
             /\ asked' = [asked EXCEPT ![q] = "closed"] /\ pending' = pending
             /\ respond' = [respond EXCEPT ![r].pc = "save"]
    <3>a. answers[q] = <<>>
      BY <1>0, <2>0, <2>5, <2>7 DEF Tokens, Right
    <3>b. answers'[q] = Append(answers[q], respond[r].decision)
      BY <1>0, <2>0, <2>7 DEF TypeOK
    <3>1. answers[q] = <<>> /\ answers'[q] = <<respond[r].decision>>
      BY SMT, <3>a, <3>b
    <3>2. \A p \in Asks \ {q} : answers'[p] = answers[p] /\ asked'[p] = asked[p]
      BY <1>0, <2>7 DEF TypeOK
    <3>3. asked'[q] = "closed"
      BY <1>0, <2>0, <2>7 DEF TypeOK
    <3>4. ~InWire(q) /\ q \notin pending /\ \A u \in Responders : Writes(u, q) => u = r
      BY <1>0, <2>0, <2>5, <2>7 DEF Tokens, Right
    <3>5. Tokens'
      BY SMT, <1>0, <2>1, <2>2, <2>3, <2>4, <2>7, <3>2, <3>3, <3>4 DEF Tokens, Right
    <3>6. respond'[r].ask = q /\ respond'[r].decision = respond[r].decision
      BY SMT, <1>0, <2>7 DEF Responses, NoAnswer
    <3>c. \A d : <<d>> # <<>>
      OBVIOUS
    <3>d. \A p \in Asks : answers'[p] = <<>> \/ \E d \in Decisions : answers'[p] = <<d>>
      <4>1. \A p \in Asks : answers[p] = <<>> \/ \E d \in Decisions : answers[p] = <<d>>
        BY <1>0 DEF Recorded
      <4> QED BY SMT, <2>0, <3>1, <3>2, <4>1
    <3>e. ASSUME NEW u \in Responders, respond'[u].pc = "save"
          PROVE  answers'[respond'[u].ask] = <<respond'[u].decision>>
      <4>1. CASE u = r
        BY <3>1, <3>6, <4>1
      <4>2. CASE u # r
        <5>1. respond'[u] = respond[u] /\ answers[respond[u].ask] = <<respond[u].decision>>
          BY <1>0, <2>6, <3>e, <4>2 DEF Recorded
        <5>2. respond[u].ask \in Asks \ {q}
          BY <1>0, <3>1, <3>c, <3>e, <5>1, RespondersAsk
        <5> QED BY <3>2, <5>1, <5>2
      <4> QED BY <4>1, <4>2
    <3>f. \A p \in Asks : resolved[p] # None => p # q
      BY <1>0, <3>1, <3>c DEF Recorded
    <3>7. Recorded'
      BY <1>0, <2>4, <3>2, <3>d, <3>e, <3>f DEF Recorded
    <3> QED BY <3>5, <3>7
  <2>8. CASE UNCHANGED <<asked, answers>> /\ respond' = [respond EXCEPT ![r] = NoAnswer]
             /\ IF OwnsAdapter(r) THEN pending' = pending \cup {q} ELSE pending' = pending
    <3>1. Tokens'
      <4>1. ASSUME NEW p \in Asks PROVE Right(p)'
        <5>1. Right(p)
          BY <1>0 DEF Tokens
        <5>2. CASE p = q /\ OwnsAdapter(r)
          <6>1. /\ asked[p] # "no" /\ ~InWire(p) /\ answers[p] = <<>>
                /\ \A u \in Responders \ {r} : ~Writes(u, p)
            BY <2>5, <5>1, <5>2 DEF Right
          <6> QED BY <2>1, <2>2, <2>3, <2>8, <6>1 DEF Right
        <5>3. CASE ~(p = q /\ OwnsAdapter(r))
          <6>1. p \in pending' <=> p \in pending
            BY <2>8, <5>3
          <6> QED BY <2>1, <2>2, <2>3, <2>8, <5>1, <6>1 DEF Right
        <5> QED BY <5>2, <5>3
      <4>2. ~ready' => wire' = <<>> /\ pending' = {}
        BY <1>0, <2>4, <2>8 DEF Tokens, OwnsAdapter
      <4> QED BY <1>0, <2>4, <4>1, <4>2 DEF Tokens
    <3>2. \A u \in Responders : respond'[u].pc = "save" => respond'[u] = respond[u]
      BY <1>0, <2>8 DEF NoAnswer
    <3> QED BY <1>0, <2>4, <2>8, <3>1, <3>2 DEF Recorded
  <2> QED BY <1>3, <2>7, <2>8 DEF Respond
<1> QED BY <1>1, <1>2, <1>3 DEF RespondStep

-----------------------------------------------------------------------------
\* What is shown still agrees with the adapter's table when the app-server acts,
\* a notification is consumed, or the connection is lost or regained.
LEMMA ServerShown ==
    ASSUME IInv, ServerStep
    PROVE  Shown' /\ Recorded'
<1> USE NoneAssumption
<1>0. TypeOK /\ Shown /\ Recorded
  BY DEF IInv
<1>1. CASE UNCHANGED <<answers, epoch, ready, events, pending, view, stale, respond, faults, resolved>>
  <2>1. Recorded'
    BY <1>0, <1>1 DEF Recorded
  <2>2. Held'
    BY <1>0, <1>1 DEF Shown, Held
  <2>3. Tabled' /\ Chosen'
    BY <1>0, <1>1 DEF Shown, Tabled, Chosen
  <2> QED BY <2>1, <2>2, <2>3 DEF Shown
<1>2. CASE consume
  <2>1. Head(wire) \in Notes
    <3>1. wire # <<>> /\ wire \in Seq(Notes)
      BY <1>0, <1>2 DEF consume, TypeOK
    <3> QED BY <3>1, HeadOf
  <2>2. \A q \in pending' : q \in pending \/ q = Head(wire).ask
    BY <1>2 DEF consume
  <2>a. events \in Seq(Notes) /\ events' = Append(events, Head(wire))
    BY <1>0, <1>2 DEF consume, TypeOK
  <2>3. \A i \in DOMAIN events : i \in DOMAIN events' /\ events'[i] = events[i]
    BY SMT, <2>1, <2>a
  <2>4. \E i \in DOMAIN events' : events'[i] = Head(wire)
    <3>1. Len(events) + 1 \in DOMAIN events' /\ events'[Len(events) + 1] = Head(wire)
      BY SMT, <2>1, <2>a
    <3> QED BY <3>1
  <2>5. pending \subseteq pending'
    BY <1>2 DEF consume
  <2>6. UNCHANGED <<answers, epoch, ready, view, stale, respond, faults, resolved>>
    BY <1>2 DEF consume, server
  <2>7. Recorded'
    BY <1>0, <2>6 DEF Recorded
  <2>8. epoch = 0 => \A q \in pending' :
           q \in view.pending \/ \E i \in DOMAIN events' : events'[i].ask = q
    BY <1>0, <2>2, <2>3, <2>4 DEF Shown, Tabled
  <2>h. Held'
    BY SMT, <1>0, <2>5, <2>6 DEF Shown, Held
  <2>t. Tabled'
    BY <1>0, <2>6, <2>8 DEF Shown, Tabled
  <2>c. Chosen'
    BY <1>0, <2>6 DEF Shown, Chosen
  <2> QED BY <2>7, <2>h, <2>t, <2>c DEF Shown
<1>3. CASE Lose
  BY <1>0, <1>3 DEF Lose, Shown, Held, Tabled, Chosen, Recorded, server
<1>4. CASE Reconnect
  <2>1. epoch' # 0 /\ (stale' \/ ~ready')
    BY SMT, <1>0, <1>4 DEF Reconnect, TypeOK
  <2>2. Recorded'
    BY <1>0, <1>4 DEF Reconnect, Recorded, server
  <2> QED BY <2>1, <2>2 DEF Shown, Held, Tabled, Chosen
<1>5. \/ UNCHANGED <<answers, epoch, ready, events, pending, view, stale, respond, faults, resolved>>
      \/ consume \/ Lose \/ Reconnect
  BY DEF ServerStep, ServerAsks, ServerEnds, ServerSays, server
<1> QED BY <1>1, <1>2, <1>3, <1>4, <1>5

\* StartTurn hides no request: setRunning and publishAcceptedUserMessage change
\* the view and leave what it shows as pending alone.
LEMMA StartShown == ASSUME IInv, NEW s \in Starters, StartStep(s) PROVE Shown'
<1>0. TypeOK /\ Shown
  BY DEF IInv
<1>1. UNCHANGED <<answers, epoch, ready, events, pending, stale, respond>>
  BY DEF StartStep, StartTurn, CallTurnStart, WorkspaceAgentStarted, setRunning,
         publishAcceptedUserMessage, server
<1>2. faults' = faults \/ faults' # 0
  BY SMT, <1>0 DEF StartStep, StartTurn, CallTurnStart, TurnAccepted, TurnNotAccepted,
              WorkspaceAgentStarted, setRunning, publishAcceptedUserMessage, Fault, TypeOK
<1>3. view'.pending = view.pending
  <2>1. CASE setRunning(s)
    BY <1>0, <2>1 DEF setRunning, ensureActiveTurn, TypeOK, Views
  <2>2. CASE publishAcceptedUserMessage(s)
    BY <1>0, <2>2 DEF publishAcceptedUserMessage, ensureActiveTurn, TypeOK, Views
  <2>3. CASE StartTurn(s) \/ CallTurnStart(s) \/ WorkspaceAgentStarted(s)
    BY <2>3 DEF StartTurn, CallTurnStart, WorkspaceAgentStarted
  <2> QED BY <2>1, <2>2, <2>3 DEF StartStep
<1>h. Held'
  BY <1>0, <1>1, <1>2, <1>3 DEF Shown, Held
<1>t. Tabled'
  BY <1>0, <1>1, <1>2, <1>3 DEF Shown, Tabled
<1>c. Chosen'
  BY <1>0, <1>1, <1>2, <1>3 DEF Shown, Chosen
<1> QED BY <1>h, <1>t, <1>c DEF Shown

\* The event loop shows a request only while the current adapter can answer it,
\* and leaves none behind; Restore runs only after a reconnection.
LEMMA LoopShown ==
    ASSUME IInv, applyAdapterEvent \/ restoreLocked \/ UNCHANGED vars
    PROVE  Shown'
<1>0. TypeOK /\ Shown /\ Tokens
  BY DEF IInv
<1>1. CASE applyAdapterEvent
  <2>1. PICK e \in Notes :
           /\ Applied(e)
           /\ \/ events # <<>> /\ e = Head(events) /\ events' = Tail(events)
              \/ UNCHANGED events
    BY <1>0, <1>1, EventOf
  <2>2. e.kind # "ask" => e.ask \notin Asks
    BY NoneAssumption DEF Notes
  <2>3. view'.pending = IF e.kind = "ask" /\ ready /\ e.ask \in pending
                        THEN view.pending \cup {e.ask} ELSE view.pending
    <3>1. CASE e.kind = "started"
      BY <1>0, <2>1, <3>1 DEF Applied, EventView, ensureActiveTurn, TypeOK, Views
    <3>2. CASE e.kind = "ask"
      BY <1>0, <2>1, <3>2 DEF Applied, EventView, TypeOK, Views
    <3>3. CASE e.kind = "over"
      <4>1. PICK st \in {"IDLE", "ERROR"} :
               view' = [view EXCEPT !.status = st, !.turnId = None, !.activeTurn = None]
        BY <2>1, <3>3 DEF Applied, EventView
      <4> QED BY <1>0, <3>3, <4>1 DEF TypeOK, Views
    <3>4. CASE e.kind \notin {"started", "ask", "over"}
      BY <1>0, <2>1, <3>4 DEF Applied, EventView, applyCodexParams, TypeOK, Views
    <3> QED BY <3>1, <3>2, <3>3, <3>4
  <2>4. \A i \in DOMAIN events : \/ \E j \in DOMAIN events' : events'[j] = events[i]
                                \/ events[i] = e
    <3>1. CASE UNCHANGED events
      BY <3>1
    <3>2. CASE events # <<>> /\ e = Head(events) /\ events' = Tail(events)
      <4>0. events \in Seq(Notes)
        BY <1>0 DEF TypeOK
      <4>1. e = events[1]
        BY <3>2, <4>0, HeadOf
      <4>2. \A i \in DOMAIN events : i # 1 => i - 1 \in DOMAIN events' /\ events'[i - 1] = events[i]
        BY SMT, <3>2, <4>0
      <4> QED BY <4>1, <4>2
    <3> QED BY <2>1, <3>1, <3>2
  <2>5. UNCHANGED <<answers, epoch, ready, pending, stale, respond>>
    BY <2>1 DEF Applied, server
  <2>6. faults' = faults \/ faults' # 0
    <3>1. faults' = faults \/ Fault
      BY <2>1 DEF Applied
    <3> QED BY SMT, <1>0, <3>1 DEF Fault, TypeOK
  <2>7. ASSUME epoch = 0, NEW q \in pending
        PROVE  q \in view'.pending \/ \E i \in DOMAIN events' : events'[i].ask = q
    <3>1. q \in Asks /\ ready
      BY <1>0, <2>7 DEF TypeOK, Tokens, Right
    <3>2. CASE q \in view.pending
      BY <2>3, <3>2
    <3>3. ASSUME NEW i \in DOMAIN events, events[i].ask = q
          PROVE  q \in view'.pending \/ \E j \in DOMAIN events' : events'[j].ask = q
      BY <2>2, <2>3, <2>4, <3>1, <3>3
    <3> QED BY <1>0, <2>7, <3>2, <3>3 DEF Shown, Tabled
  <2>h. Held'
    BY SMT, <1>0, <2>3, <2>5, <2>6, <2>7 DEF Shown, Held
  <2>t. Tabled'
    BY <1>0, <2>3, <2>5, <2>6, <2>7 DEF Shown, Tabled
  <2>c. Chosen'
    BY <1>0, <2>3, <2>5, <2>6, <2>7 DEF Shown, Chosen
  <2> QED BY <2>h, <2>t, <2>c DEF Shown
<1>2. CASE restoreLocked
  <2>1. view'.pending = {} /\ UNCHANGED epoch
    <3>1. PICK st \in {"UNAVAILABLE", "IDLE"} :
             view' = [status |-> st, turnId |-> None, activeTurn |-> None, pending |-> {}]
      BY <1>2 DEF restoreLocked
    <3> QED BY <1>2, <3>1 DEF restoreLocked
  <2>2. epoch # 0
    BY <1>0, <1>2 DEF restoreLocked, Shown, Tabled
  <2>h. Held'
    BY <2>1, <2>2 DEF Shown, Held
  <2>t. Tabled'
    BY <2>1, <2>2 DEF Shown, Tabled
  <2>c. Chosen'
    BY <2>1, <2>2 DEF Shown, Chosen
  <2> QED BY <2>h, <2>t, <2>c DEF Shown
<1>3. CASE UNCHANGED vars
  BY SMT, <1>0, <1>3 DEF Shown, Held, Tabled, Chosen, vars
<1> QED BY <1>1, <1>2, <1>3

\* A responder that neither writes nor saves can change without leaving a shown
\* request unanswerable.
LEMMA HeldKept ==
    ASSUME Held, NEW r \in Responders, respond[r].pc \notin {"write", "save"},
           \A u \in Responders \ {r} : respond'[u] = respond[u],
           UNCHANGED <<epoch, ready, stale, view, faults, pending>>
    PROVE  Held'
<1> SUFFICES ASSUME ready, ~stale, faults = 0, NEW p \in view.pending, p \notin pending
             PROVE  \E u \in Responders : /\ respond'[u].ask = p
                                           /\ respond'[u].pc \in {"write", "save"}
                                           /\ respond'[u].epoch = epoch
  BY SMT DEF Held
<1>1. PICK u \in Responders : /\ respond[u].ask = p /\ respond[u].pc \in {"write", "save"}
                              /\ respond[u].epoch = epoch
  BY DEF Held
<1>2. respond'[u] = respond[u]
  BY <1>1
<1> QED BY <1>1, <1>2

\* Answering keeps what is shown in step with the table: a request is hidden
\* only when its answer is recorded, and comes back when the answer was not sent.
LEMMA RespondShown ==
    ASSUME IInv, NEW r \in Responders,
           \/ RespondStep(r)
           \/ \E q \in Asks, d \in Decisions : RespondApproval(r, q, d)
    PROVE  Shown'
<1>0. TypeOK /\ Tokens /\ Recorded /\ Shown /\ respond \in [Responders -> Responses]
  BY DEF IInv, TypeOK
<1> DEFINE q == respond[r].ask
           now(c) == [respond[r] EXCEPT !.pc = c]
<1>a. respond[r].pc # "idle" => q \in Asks /\ respond[r].decision \in Decisions
  BY <1>0, RespondersAsk
<1>b. NoAnswer.pc = "idle"
  BY DEF NoAnswer
<1>c. \A c \in {"write", "save"} :
         now(c).pc = c /\ now(c).ask = q /\ now(c).epoch = respond[r].epoch
  BY SMT, <1>0 DEF Responses, NoAnswer
<1>d. \A u \in Responders \ {r} : respond'[u] = respond[u]
  BY <1>0 DEF RespondStep, RespondApproval, takePending, Respond, resolvePending
<1>e. UNCHANGED <<epoch, ready, events, stale>>
  BY DEF RespondStep, RespondApproval, takePending, Respond, resolvePending
<1>1. ASSUME NEW p \in Asks, NEW d \in Decisions, RespondApproval(r, p, d) PROVE Shown'
  <2>1. respond'[r] = [pc |-> "take", ask |-> p, decision |-> d, epoch |-> epoch]
    BY <1>0, <1>1 DEF RespondApproval
  <2>2. respond[r].pc = "idle" /\ UNCHANGED <<answers, pending, view, faults>>
    BY <1>1 DEF RespondApproval, server
  <2>3. epoch = 0 => p \in view.pending
    BY SMT, <1>1 DEF RespondApproval
  <2>h. Held'
    BY <1>0, <1>d, <1>e, <2>2, HeldKept DEF Shown
  <2>t. Tabled'
    BY <1>0, <1>d, <1>e, <2>1, <2>2 DEF Shown, Tabled
  <2>c. Chosen'
    <3> SUFFICES ASSUME epoch = 0, NEW u \in Responders, respond'[u].pc \in {"take", "write"},
                        answers[respond'[u].ask] = <<>>
                 PROVE  respond'[u].ask \in view.pending
      BY <1>e, <2>2 DEF Chosen
    <3>1. CASE u = r
      <4>1. respond'[u].ask = p
        BY SMT, <2>1, <3>1
      <4> QED BY <2>3, <4>1
    <3>2. CASE u # r
      BY <1>0, <1>d, <3>2 DEF Shown, Chosen
    <3> QED BY <3>1, <3>2
  <2> QED BY <2>h, <2>t, <2>c DEF Shown
<1>2. CASE takePending(r)
  <2>1. UNCHANGED <<answers, view, faults>> /\ respond[r].pc = "take"
    BY <1>2 DEF takePending, server
  <2>2. CASE OwnsAdapter(r) /\ q \in pending
    <3>1. pending' = pending \ {q} /\ respond'[r] = now("write") /\ respond[r].epoch = epoch
      BY <1>0, <1>2, <2>2 DEF takePending, OwnsAdapter
    <3>2. respond'[r].pc = "write" /\ respond'[r].ask = q /\ respond'[r].epoch = epoch
      BY <1>c, <3>1
    <3>3. ASSUME ready, ~stale, faults = 0, NEW p \in view.pending
          PROVE  p \in pending' \/ \E u \in Responders : /\ respond'[u].ask = p
                                                          /\ respond'[u].pc \in {"write", "save"}
                                                          /\ respond'[u].epoch = epoch
      <4>1. CASE p = q
        BY <3>2, <4>1
      <4>2. CASE p # q /\ p \in pending
        BY <3>1, <4>2
      <4>3. CASE p \notin pending
        <5>1. PICK u \in Responders : /\ respond[u].ask = p /\ respond[u].pc \in {"write", "save"}
                                      /\ respond[u].epoch = epoch
          BY <1>0, <3>3, <4>3 DEF Shown, Held
        <5>2. respond'[u] = respond[u]
          BY <1>d, <2>1, <5>1
        <5> QED BY <5>1, <5>2
      <4> QED BY <4>1, <4>2, <4>3
    <3>4. ASSUME epoch = 0, NEW u \in Responders, respond'[u].pc \in {"take", "write"},
                 answers[respond'[u].ask] = <<>>
          PROVE  respond'[u].ask \in view.pending
      BY <1>0, <1>d, <2>1, <3>2, <3>4 DEF Shown, Chosen
    <3>h. Held'
      BY SMT, <1>0, <1>e, <2>1, <3>1, <3>3, <3>4 DEF Shown, Held
    <3>t. Tabled'
      BY <1>0, <1>e, <2>1, <3>1, <3>3, <3>4 DEF Shown, Tabled
    <3>c. Chosen'
      BY <1>0, <1>e, <2>1, <3>1, <3>3, <3>4 DEF Shown, Chosen
    <3> QED BY <3>h, <3>t, <3>c DEF Shown
  <2>3. CASE ~(OwnsAdapter(r) /\ q \in pending)
    <3>1. pending' = pending /\ respond'[r] = NoAnswer
      BY <1>0, <1>2, <2>3 DEF takePending
    <3>h. Held'
      BY <1>0, <1>d, <1>e, <2>1, <3>1, HeldKept DEF Shown
    <3>t. Tabled'
      BY <1>0, <1>b, <1>d, <1>e, <2>1, <3>1 DEF Shown, Tabled
    <3>c. Chosen'
      BY <1>0, <1>b, <1>d, <1>e, <2>1, <3>1 DEF Shown, Chosen
    <3> QED BY <3>h, <3>t, <3>c DEF Shown
  <2> QED BY <2>2, <2>3
<1>3. CASE Respond(r)
  <2>1. UNCHANGED view /\ respond[r].pc = "write" /\ q \in Asks
    BY <1>3, <1>a DEF Respond
  <2>2. CASE OwnsAdapter(r) /\ answers' = [answers EXCEPT ![q] = Append(@, respond[r].decision)]
             /\ UNCHANGED <<pending, faults>> /\ respond' = [respond EXCEPT ![r].pc = "save"]
    <3>1. respond'[r] = now("save") /\ respond[r].epoch = epoch
      BY <1>0, <2>2 DEF OwnsAdapter
    <3>a. answers[q] \in Seq(Decisions) /\ respond[r].decision \in Decisions
      BY <1>0, <1>a, <2>1 DEF TypeOK
    <3>b. Append(answers[q], respond[r].decision) # <<>>
      BY <3>a, AppendNotEmpty
    <3>d. answers'[q] = Append(answers[q], respond[r].decision)
      BY <1>0, <2>1, <2>2 DEF TypeOK
    <3>2. answers'[q] # <<>> /\ \A p \in Asks \ {q} : answers'[p] = answers[p]
      BY <1>0, <2>2, <3>b, <3>d DEF TypeOK
    <3>3. ASSUME epoch = 0, NEW u \in Responders, respond'[u].pc \in {"take", "write"},
                 answers'[respond'[u].ask] = <<>>
          PROVE  respond'[u].ask \in view.pending
      <4>1. u # r
        BY <1>c, <3>1, <3>3
      <4>2. respond'[u] = respond[u] /\ respond[u].ask \in Asks \ {q}
        BY <1>0, <1>d, <3>2, <3>3, <4>1, RespondersAsk
      <4> QED BY <1>0, <3>2, <3>3, <4>2 DEF Shown, Chosen
    <3>h. Held'
      BY SMT, <1>0, <1>c, <1>d, <1>e, <2>1, <2>2, <3>1, <3>3 DEF Shown, Held
    <3>t. Tabled'
      BY <1>0, <1>c, <1>d, <1>e, <2>1, <2>2, <3>1, <3>3 DEF Shown, Tabled
    <3>c. Chosen'
      BY <1>0, <1>c, <1>d, <1>e, <2>1, <2>2, <3>1, <3>3 DEF Shown, Chosen
    <3> QED BY <3>h, <3>t, <3>c DEF Shown
  <2>3. CASE UNCHANGED <<asked, answers>> /\ respond' = [respond EXCEPT ![r] = NoAnswer]
             /\ IF OwnsAdapter(r) THEN Fault /\ pending' = pending \cup {q}
                                  ELSE UNCHANGED <<pending, faults>>
    <3>1. respond'[r] = NoAnswer
      BY <1>0, <2>3
    <3>2. CASE OwnsAdapter(r)
      <4>1. faults' # 0 /\ pending' = pending \cup {q}
        BY SMT, <1>0, <2>3, <3>2 DEF Fault, TypeOK
      <4>2. answers[q] = <<>>
        BY <1>0, <2>1, <3>2 DEF Tokens, Right, Writes
      <4>h. Held'
        BY <1>0, <1>b, <1>d, <1>e, <2>1, <2>3, <3>1, <4>1, <4>2 DEF Shown, Held
      <4>t. Tabled'
        <5>1. epoch = 0 => q \in view.pending
          BY <1>0, <2>1, <4>2 DEF Shown, Chosen
        <5> QED BY <1>0, <1>e, <2>1, <4>1, <5>1 DEF Shown, Tabled
      <4>c. Chosen'
        BY <1>0, <1>b, <1>d, <1>e, <2>1, <2>3, <3>1, <4>1, <4>2 DEF Shown, Chosen
      <4> QED BY <4>h, <4>t, <4>c DEF Shown
    <3>3. CASE ~OwnsAdapter(r)
      <4>1. UNCHANGED <<pending, faults>> /\ ~(ready /\ respond[r].epoch = epoch)
        BY <2>3, <3>3 DEF OwnsAdapter
      <4>h. Held'
        <5> SUFFICES ASSUME ready, ~stale, faults = 0, NEW p \in view.pending, p \notin pending
                     PROVE  \E u \in Responders : /\ respond'[u].ask = p
                                                   /\ respond'[u].pc \in {"write", "save"}
                                                   /\ respond'[u].epoch = epoch
          BY <1>e, <2>1, <4>1 DEF Held
        <5>1. PICK u \in Responders : /\ respond[u].ask = p /\ respond[u].pc \in {"write", "save"}
                                      /\ respond[u].epoch = epoch
          BY <1>0 DEF Shown, Held
        <5>2. respond'[u] = respond[u]
          BY <1>d, <4>1, <5>1
        <5> QED BY <5>1, <5>2
      <4>t. Tabled'
        BY <1>0, <1>b, <1>d, <1>e, <2>1, <2>3, <3>1, <4>1 DEF Shown, Tabled
      <4>c. Chosen'
        BY <1>0, <1>b, <1>d, <1>e, <2>1, <2>3, <3>1, <4>1 DEF Shown, Chosen
      <4> QED BY <4>h, <4>t, <4>c DEF Shown
    <3> QED BY <3>2, <3>3
  <2> QED BY <1>3, <2>2, <2>3 DEF Respond
<1>4. CASE resolvePending(r)
  <2>1. UNCHANGED <<answers, pending>> /\ respond'[r] = NoAnswer /\ respond[r].pc = "save"
    BY <1>0, <1>4 DEF resolvePending, server
  <2>2. answers[q] # <<>>
    <3>1. answers[q] = <<respond[r].decision>>
      BY <1>0, <2>1 DEF Recorded
    <3>2. \A d : <<d>> # <<>>
      OBVIOUS
    <3> QED BY <3>1, <3>2
  <2>3. q \notin pending
    BY <1>0, <1>a, <2>1, <2>2 DEF Tokens, Right
  <2>4. CASE view' = Answered(view, q) /\ UNCHANGED faults
    <3>1. view'.pending = view.pending \ {q}
      BY <1>0, <2>4 DEF Answered, TypeOK, Views
    <3>h. Held'
      <4> SUFFICES ASSUME ready, ~stale, faults = 0, NEW p \in view.pending, p # q, p \notin pending
                   PROVE  \E u \in Responders : /\ respond'[u].ask = p
                                                 /\ respond'[u].pc \in {"write", "save"}
                                                 /\ respond'[u].epoch = epoch
        BY <1>e, <2>1, <2>4, <3>1 DEF Held
      <4>1. PICK u \in Responders : /\ respond[u].ask = p /\ respond[u].pc \in {"write", "save"}
                                    /\ respond[u].epoch = epoch
        BY <1>0 DEF Shown, Held
      <4>2. respond'[u] = respond[u]
        BY <1>d, <4>1
      <4> QED BY <4>1, <4>2
    <3>t. Tabled'
      BY <1>0, <1>b, <1>d, <1>e, <2>1, <2>2, <2>3, <2>4, <3>1 DEF Shown, Tabled
    <3>c. Chosen'
      BY <1>0, <1>b, <1>d, <1>e, <2>1, <2>2, <2>3, <2>4, <3>1 DEF Shown, Chosen
    <3> QED BY <3>h, <3>t, <3>c DEF Shown
  <2>5. CASE Fault /\ UNCHANGED view
    <3>1. faults' # 0
      BY SMT, <1>0, <2>5 DEF Fault, TypeOK
    <3>h. Held'
      BY <1>0, <1>b, <1>d, <1>e, <2>1, <2>5, <3>1 DEF Shown, Held
    <3>t. Tabled'
      BY <1>0, <1>b, <1>d, <1>e, <2>1, <2>5, <3>1 DEF Shown, Tabled
    <3>c. Chosen'
      BY <1>0, <1>b, <1>d, <1>e, <2>1, <2>5, <3>1 DEF Shown, Chosen
    <3> QED BY <3>h, <3>t, <3>c DEF Shown
  <2> QED BY <1>4, <2>4, <2>5 DEF resolvePending
<1> QED BY <1>1, <1>2, <1>3, <1>4 DEF RespondStep

-----------------------------------------------------------------------------
\* IInv holds in every reachable state.
THEOREM Invariance == Spec => []IInv
<1>1. ASSUME IInv, [Next]_vars PROVE IInv'
  <2>1. TypeOK
    BY <1>1 DEF IInv
  <2>2. ASSUME ServerStep PROVE IInv'
    BY <1>1, <2>1, <2>2, ServerTypes, ServerTokens, ServerShown DEF IInv
  <2>3. ASSUME NEW s \in Starters, StartStep(s) PROVE IInv'
    BY <1>1, <2>1, <2>3, StartTypes, ViewTokens, StartShown DEF IInv
  <2>4. ASSUME NEW r \in Responders,
               \/ RespondStep(r)
               \/ \E q \in Asks, d \in Decisions : RespondApproval(r, q, d)
        PROVE  IInv'
    BY <1>1, <2>1, <2>4, RespondTypes, RespondTokens, RespondShown DEF IInv
  <2>5. CASE applyAdapterEvent \/ restoreLocked
    BY <1>1, <2>1, <2>5, LoopTypes, ViewTokens, LoopShown DEF IInv
  <2>6. CASE UNCHANGED vars
    <3>1. TypeOK'
      BY <2>1, <2>6 DEF vars, TypeOK
    <3> QED BY <1>1, <2>6, <3>1, ViewTokens, LoopShown DEF IInv
  <2> QED BY <1>1, <2>2, <2>3, <2>4, <2>5, <2>6 DEF Next, InterruptTurn, ServerStep
<1> QED BY InitInv, <1>1, PTL DEF Spec

\* The state stays well typed; in particular every notification names a turn
\* the app-server may start and no responder holds an adapter not yet made.
THEOREM TypeCorrect == Spec => []TypeOK
<1>1. IInv => TypeOK
  BY DEF IInv
<1> QED BY Invariance, <1>1, PTL

\* However many clients answer a request, over however many connections, the
\* app-server gets one answer and it is the one resolved_pending records.
THEOREM AnsweredOnceHolds == Spec => []AnsweredOnce
<1>1. IInv => AnsweredOnce
  <2> SUFFICES ASSUME IInv, NEW q \in Asks
               PROVE  Len(answers[q]) <= 1 /\ (resolved[q] # None => answers[q] = <<resolved[q]>>)
    BY DEF AnsweredOnce
  <2>1. answers[q] = <<>> \/ \E d \in Decisions : answers[q] = <<d>>
    BY DEF IInv, Recorded
  <2>2. Len(answers[q]) <= 1
    <3>1. CASE answers[q] = <<>>
      BY SMT, <3>1
    <3>2. ASSUME NEW d \in Decisions, answers[q] = <<d>> PROVE Len(answers[q]) <= 1
      BY SMT, <3>2
    <3> QED BY <2>1, <3>1, <3>2
  <2> QED BY <2>2 DEF IInv, Recorded
<1> QED BY Invariance, <1>1, PTL

\* The requests shown to clients are those the adapter can answer.
THEOREM PendingAgreesHolds == Spec => []PendingAgrees
<1>1. IInv => PendingAgrees
  BY DEF IInv, Shown, Held, Tabled, PendingAgrees
<1> QED BY Invariance, <1>1, PTL

-----------------------------------------------------------------------------
(* One turn at a time.                                                       *)

\* With one client, and while the connection lasts, every answer to turn/start arrives
\* and no event says idle during a turn: one turn runs, and it is known, to its handler
\* or in the view, so that no other is started.
OneClient == \A s, u \in Starters : s = u
Known(s, t) ==
    /\ start[s].pc # "call"
    /\ \/ start[s].pc \in {"agent", "run"} /\ start[s].turn = t
       \/ view.status # "IDLE" /\ view.activeTurn # None
Alone ==
    OneClient /\ epoch = 0 /\ ~unheard /\ ~idled =>
        /\ \A t, u \in Running : t = u
        /\ \A s \in Starters, t \in Running : Known(s, t)

\* What is shown of a turn changes only with the handler of StartTurn, the answer to
\* a request and the events.
LEMMA AloneSame ==
    ASSUME Alone, UNCHANGED <<start, view, epoch, unheard, idled>>, Running' \subseteq Running
    PROVE  Alone'
  BY DEF Alone, Known

\* A failure is counted.
LEMMA FaultCounts == ASSUME TypeOK, Fault PROVE faults' # 0
  BY SMT DEF TypeOK, Fault

\* Handlers and the view are typed.
LEMMA Parts ==
    ASSUME TypeOK
    PROVE  /\ \A s \in Starters : start[s] \in Starts
           /\ \A s \in Starters : start[s].pc \in {"agent", "run", "message"} <=> start[s].turn \in Turns
           /\ \A s \in Starters : start[s].turn # None <=> start[s].turn \in Turns
           /\ view.pending \subseteq Asks /\ view.turnId \in Turns \cup {None}
           /\ \A t \in Turns : t # None
<1>1. \A t \in Turns : t # None
  BY SMT DEF Turns, None
<1>2. \A s \in Starters : start[s] \in Starts
  BY DEF TypeOK
<1>3. \A x \in Starts : /\ x.pc \in {"agent", "run", "message"} <=> x.turn \in Turns
                        /\ x.turn # None <=> x.turn \in Turns
  BY <1>1 DEF Starts
<1>4. view.pending \subseteq Asks /\ view.turnId \in Turns \cup {None}
  BY DEF TypeOK, Views
<1> QED BY <1>1, <1>2, <1>3, <1>4

\* A notification names a turn, unless it is about the thread as a whole.
LEMMA NoteParts ==
    ASSUME NEW n \in Notes
    PROVE  /\ n.kind \in {"started", "active", "ask", "over", "idle", "error"}
           /\ n.kind \in {"started", "active", "ask", "over"} => n.turn \in Turns
           /\ n.turn \in Turns \cup {None}
  BY DEF Notes

\* Where StartTurn goes on: the handler, the view and the workspace after the step.
Went(s) ==
    LET t == start[s].turn IN
    /\ start'[s].turn \in {t, None} /\ start'[s].pc # "call"
    /\ \A u \in Starters : u # s => start'[u] = start[u]
    /\ start[s].pc = "agent" => start'[s].pc = "run" /\ start'[s].turn = t
    /\ start[s].pc = "run" => view'.status # "IDLE"
    /\ view.status # "IDLE" => view'.status # "IDLE"
    /\ start[s].pc = "run" => view'.activeTurn = t
    /\ view'.activeTurn \in {view.activeTurn, t}
    /\ view'.turnId \in {view.turnId, t}
    /\ agents' \subseteq agents \cup {t}

\* What the three steps of StartTurn after the answer to turn/start do.
LEMMA GoingOn ==
    ASSUME TypeOK, NEW s \in Starters,
           WorkspaceAgentStarted(s) \/ setRunning(s) \/ publishAcceptedUserMessage(s)
    PROVE  /\ Went(s) /\ GoesOn(s) /\ start[s].turn \in Turns
           /\ start[s].pc \in {"agent", "run", "message"}
           /\ UNCHANGED <<upstream, epoch, ready, wire, events, stale, unheard, idled>>
           /\ faults' = faults \/ Fault
<1>0. start[s] \in Starts /\ start \in [Starters -> Starts] /\ view \in Views
  BY DEF TypeOK
<1>1. /\ GoesOn(s) /\ start[s].pc \in {"agent", "run", "message"}
      /\ UNCHANGED <<upstream, epoch, ready, wire, events, stale, unheard, idled>>
      /\ faults' = faults \/ Fault
  BY DEF WorkspaceAgentStarted, setRunning, publishAcceptedUserMessage, server, told
<1>2. start[s].turn \in Turns
  BY <1>1, Parts
<1>3. NoStart.turn = None /\ NoStart.pc = "idle"
  BY DEF NoStart
<1>4. CASE WorkspaceAgentStarted(s)
  <2>1. start' = [start EXCEPT ![s].pc = "run"] /\ view' = view /\ start[s].pc = "agent"
        /\ agents' \subseteq agents \cup {start[s].turn}
    BY <1>4 DEF WorkspaceAgentStarted
  <2>2. start'[s].pc = "run" /\ start'[s].turn = start[s].turn
    BY <1>0, <2>1 DEF Starts
  <2>3. \A u \in Starters : u # s => start'[u] = start[u]
    BY <1>0, <2>1
  <2> QED BY <1>1, <1>2, <2>1, <2>2, <2>3 DEF Went
<1>5. CASE setRunning(s)
  <2>1. view' = [ensureActiveTurn(view, start[s].turn) EXCEPT
                   !.status = IF @ = "WAITING" THEN @ ELSE "RUNNING",
                   !.turnId = start[s].turn]
        /\ start[s].pc = "run" /\ agents' = agents
    BY <1>5 DEF setRunning
  <2>2. /\ view'.status \in {"RUNNING", "WAITING"} /\ view'.activeTurn = start[s].turn
        /\ view'.turnId = start[s].turn
    BY <1>0, <2>1 DEF ensureActiveTurn, Views
  <2>3. start' = [start EXCEPT ![s].pc = "message"] \/ start' = [start EXCEPT ![s] = NoStart]
    BY <1>5 DEF setRunning
  <2>4. [start[s] EXCEPT !.pc = "message"].turn = start[s].turn
        /\ [start[s] EXCEPT !.pc = "message"].pc = "message"
    BY SMT, <1>0 DEF Starts
  <2>5. start'[s] = [start[s] EXCEPT !.pc = "message"] \/ start'[s] = NoStart
    BY <1>0, <2>3
  <2>6. start'[s].turn \in {start[s].turn, None} /\ start'[s].pc # "call"
    BY <1>3, <2>4, <2>5
  <2>7. \A u \in Starters : u # s => start'[u] = start[u]
    BY <1>0, <2>3
  <2> QED BY <1>1, <1>2, <2>1, <2>2, <2>6, <2>7 DEF Went
<1>6. CASE publishAcceptedUserMessage(s)
  <2>1. /\ view' = ensureActiveTurn(view, start[s].turn) \/ view' = view
        /\ start[s].pc = "message" /\ agents' = agents /\ start' = [start EXCEPT ![s] = NoStart]
    BY <1>6 DEF publishAcceptedUserMessage
  <2>2. /\ view'.status = view.status /\ view'.activeTurn \in {view.activeTurn, start[s].turn}
        /\ view'.turnId = view.turnId
    BY <1>0, <2>1 DEF ensureActiveTurn, Views
  <2>3. start'[s] = NoStart /\ \A u \in Starters : u # s => start'[u] = start[u]
    BY <1>0, <2>1
  <2> QED BY <1>1, <1>2, <1>3, <2>1, <2>2, <2>3 DEF Went
<1> QED BY <1>1, <1>2, <1>4, <1>5, <1>6

\* StartTurn begins only when no turn runs, and what it began stays known.
LEMMA StartAlone == ASSUME IInv, Alone, NEW s \in Starters, StartStep(s) PROVE Alone'
<1>0. TypeOK /\ start \in [Starters -> Starts]
  BY DEF IInv, TypeOK
<1> SUFFICES ASSUME OneClient, epoch' = 0, ~unheard', ~idled'
             PROVE  /\ \A t, u \in Running' : t = u
                    /\ \A t \in Running' : Known(s, t)'
  BY DEF Alone, OneClient
<1>1. CASE StartTurn(s)
  <2>1. Running' = {}
    BY <1>1 DEF StartTurn, server, told, Alone, Known, Running
  <2> QED BY <2>1
<1>2. CASE CallTurnStart(s) /\ TurnNotAccepted(s)
  <2>1. Running' = {}
    BY <1>2 DEF CallTurnStart, TurnNotAccepted, told, Alone, Known, Running
  <2> QED BY <2>1
<1>3. ASSUME NEW t \in Turns, CallTurnStart(s), TurnAccepted(s, t)
      PROVE  /\ \A v, u \in Running' : v = u
             /\ \A v \in Running' : Known(s, v)'
  <2>1. start' = [start EXCEPT ![s] = [pc |-> "agent", turn |-> t]] /\ ~unheard
    BY SMT, <1>3 DEF TurnAccepted
  <2>2. Running = {}
    BY <1>3, <2>1 DEF CallTurnStart, told, Alone, Known
  <2>3. upstream' = [upstream EXCEPT ![t] = "running"]
    BY <1>3 DEF TurnAccepted
  <2>4. \A u \in Running' : u = t
    BY <1>0, <2>2, <2>3 DEF Running, TypeOK
  <2>5. start'[s].pc = "agent" /\ start'[s].turn = t
    BY <1>0, <2>1
  <2> QED BY <2>4, <2>5 DEF Known
<1>4. CASE WorkspaceAgentStarted(s) \/ setRunning(s) \/ publishAcceptedUserMessage(s)
  <2>1. /\ Went(s) /\ start[s].turn \in Turns /\ start[s].pc \in {"agent", "run", "message"}
        /\ UNCHANGED <<upstream, epoch, unheard, idled>>
    BY <1>0, <1>4, GoingOn
  <2>2. Running' = Running /\ start[s].turn # None
    BY <1>0, <2>1, Parts DEF Running
  <2>3. /\ \A t, u \in Running : t = u
        /\ \A t \in Running : Known(s, t)
    BY <2>1 DEF Alone
  <2>4. ASSUME NEW t \in Running PROVE Known(s, t)'
    BY <2>1, <2>2, <2>3 DEF Known, Went
  <2> QED BY <2>2, <2>3, <2>4
<1> QED BY <1>1, <1>2, <1>3, <1>4 DEF StartStep, CallTurnStart

\* What recording an answer does to the view.
LEMMA Resolving ==
    ASSUME TypeOK, NEW r \in Responders, resolvePending(r)
    PROVE  /\ UNCHANGED <<upstream, epoch, ready, wire, events, stale, agents, start, unheard, idled>>
           /\ overtaken' = (overtaken \/ respond[r].epoch # epoch)
           /\ view'.turnId = view.turnId /\ view'.activeTurn = view.activeTurn
           /\ \/ view'.status = view.status
              \/ view'.status = "RUNNING" /\ view.activeTurn # None
              \/ view'.status = "IDLE" /\ view.activeTurn = None
           /\ faults' = faults \/ Fault
<1>1. view \in Views
  BY DEF TypeOK
<1>2. CASE view' = view
  BY <1>2 DEF resolvePending, server, told
<1>3. CASE view' = Answered(view, respond[r].ask)
  <2>1. /\ view'.turnId = view.turnId /\ view'.activeTurn = view.activeTurn
        /\ \/ view'.status = view.status
           \/ view'.status = "RUNNING" /\ view.activeTurn # None
           \/ view'.status = "IDLE" /\ view.activeTurn = None
    BY SMT, <1>1, <1>3 DEF Answered, Views
  <2> QED BY <2>1 DEF resolvePending, server, told
<1> QED BY <1>2, <1>3 DEF resolvePending

\* What an event does to the view and the workspace.
Shows(e) ==
    /\ e.kind = "over" =>
          view'.turnId = None /\ view'.activeTurn = None /\ view'.status \in {"IDLE", "ERROR"}
    /\ e.kind # "over" =>
          /\ view'.turnId = view.turnId
          /\ view'.activeTurn = IF e.kind = "started" THEN e.turn ELSE view.activeTurn
          /\ view'.status = view.status \/ view'.status \in {"IDLE", "ERROR"}
                \/ e.kind \in {"ask", "active"}
          /\ view.status # "IDLE" /\ e.kind # "idle" => view'.status # "IDLE"

\* The view after an event.
LEMMA Showing == ASSUME TypeOK, NEW e \in Notes, Applied(e) PROVE Shows(e)
<1>0. view \in Views /\ view' \in EventView(e)
  BY DEF TypeOK, Applied
<1>1. CASE e.kind = "started"
  BY <1>0, <1>1 DEF EventView, ensureActiveTurn, Views, Shows
<1>2. CASE e.kind = "ask"
  BY <1>0, <1>2 DEF EventView, Views, Shows
<1>3. CASE e.kind = "over"
  <2>1. PICK st \in {"IDLE", "ERROR"} :
           view' = [view EXCEPT !.status = st, !.turnId = None, !.activeTurn = None]
    BY <1>0, <1>3 DEF EventView
  <2> QED BY <1>0, <1>3, <2>1 DEF Views, Shows
<1>4. CASE e.kind \notin {"started", "ask", "over"}
  <2>1. view' = applyCodexParams(e)
    BY <1>0, <1>4 DEF EventView
  <2>2. /\ view'.turnId = view.turnId /\ view'.activeTurn = view.activeTurn
        /\ view'.status = CASE e.kind = "idle" -> "IDLE"
                            [] e.kind = "active" -> IF view.status = "IDLE" THEN "RUNNING"
                                                                            ELSE view.status
                            [] OTHER -> "ERROR"
    BY <1>0, <2>1 DEF applyCodexParams, Views
  <2>3. CASE e.kind = "idle"
    BY <2>2, <2>3 DEF Shows
  <2>4. CASE e.kind = "active"
    BY <2>2, <2>4 DEF Shows
  <2>5. CASE e.kind \notin {"idle", "active"}
    BY <1>4, <2>2, <2>5 DEF Shows
  <2> QED BY <2>3, <2>4, <2>5
<1> QED BY <1>1, <1>2, <1>3, <1>4

\* The invariant of a single client, in every reachable state.
THEOREM AloneInvariance == Spec => []Alone
<1>1. Init => Alone
  BY DEF Init, Alone, Running
<1>2. ASSUME IInv, Alone, [Next]_vars PROVE Alone'
  <2>0. TypeOK /\ Tabled
    BY <1>2 DEF IInv, Shown
  <2>1. CASE ServerStep
    <3>1. UNCHANGED <<start, view, unheard, idled>>
      BY <2>1 DEF ServerStep, ServerAsks, ServerEnds, ServerSays, consume, Lose, Reconnect, told
    <3>2. Running' \subseteq Running
      BY <2>0, <2>1 DEF ServerStep, ServerAsks, ServerEnds, ServerSays, consume, Lose, Reconnect,
                        server, Running, TypeOK
    <3>3. CASE UNCHANGED epoch
      BY <1>2, <3>1, <3>2, <3>3, AloneSame
    <3>4. CASE Reconnect
      <4>1. epoch' # 0
        BY SMT, <2>0, <3>4 DEF Reconnect, TypeOK
      <4> QED BY <4>1 DEF Alone
    <3> QED BY <2>1, <3>3, <3>4 DEF ServerStep, ServerAsks, ServerEnds, ServerSays, consume, Lose
  <2>2. ASSUME NEW s \in Starters, StartStep(s) PROVE Alone'
    BY <1>2, <2>2, StartAlone
  <2>3. ASSUME NEW r \in Responders, RespondStep(r) \/ \E q \in Asks, d \in Decisions : RespondApproval(r, q, d)
        PROVE  Alone'
    <3>1. CASE resolvePending(r)
      <4>1. /\ UNCHANGED <<upstream, epoch, start, unheard, idled>>
            /\ view'.activeTurn = view.activeTurn
            /\ \/ view'.status = view.status
               \/ view'.status = "RUNNING" /\ view.activeTurn # None
               \/ view'.status = "IDLE" /\ view.activeTurn = None
        BY <2>0, <3>1, Resolving
      <4>2. Running' = Running
        BY <4>1 DEF Running
      <4> QED BY <1>2, <4>1, <4>2 DEF Alone, Known
    <3>2. CASE ~resolvePending(r)
      <4>1. UNCHANGED <<upstream, start, view, epoch, unheard, idled>>
        BY <2>3, <3>2 DEF RespondStep, takePending, Respond, RespondApproval, server, told
      <4>2. Running' = Running
        BY <4>1 DEF Running
      <4> QED BY <1>2, <4>1, <4>2, AloneSame
    <3> QED BY <3>1, <3>2
  <2>4. CASE applyAdapterEvent
    <3>1. PICK e \in Notes : Applied(e)
      BY <2>0, <2>4, EventOf
    <3>2. Shows(e)
      BY <2>0, <3>1, Showing
    <3>3. /\ UNCHANGED <<upstream, start, epoch, unheard>>
          /\ idled' = (idled \/ (e.kind \in {"idle", "over"} /\ Running # {}))
      BY <3>1 DEF Applied, server
    <3>4. Running' = Running
      BY <3>3 DEF Running
    <3>5. CASE e.kind \in {"idle", "over"}
      <4>1. ~idled' => Running' = {}
        BY <3>3, <3>4, <3>5
      <4> QED BY <4>1 DEF Alone
    <3>6. CASE e.kind \notin {"idle", "over"}
      <4>1. e.kind = "started" => e.turn # None
        BY <2>0, NoteParts, Parts
      <4>2. \A s \in Starters, t \in Running : Known(s, t) => Known(s, t)'
        BY <3>2, <3>3, <3>6, <4>1 DEF Known, Shows
      <4>3. ~idled' => ~idled
        BY <3>3
      <4> QED BY <1>2, <3>3, <3>4, <4>2, <4>3 DEF Alone
    <3> QED BY <3>5, <3>6
  <2>5. CASE restoreLocked
    BY <2>0, <2>5 DEF restoreLocked, Tabled, Alone
  <2>6. CASE UNCHANGED vars
    <3>1. Running' = Running /\ UNCHANGED <<start, view, epoch, unheard, idled>>
      BY <2>6 DEF vars, Running
    <3> QED BY <1>2, <3>1, AloneSame
  <2> QED BY <1>2, <2>1, <2>2, <2>3, <2>4, <2>5, <2>6 DEF Next, InterruptTurn, ServerStep
<1> QED BY Invariance, <1>1, <1>2, PTL DEF Spec

\* A client that waits for each StartTurn has at most one turn running, while the
\* connection lasts, each answer to turn/start arrives and no event says idle during a
\* turn: neither a failure to save the view in setRunning, nor an answer to a request,
\* nor any other order of the notifications lets StartTurn begin a second one.
THEOREM OneTurnHolds == Spec => [](OneClient => OneTurn)
<1>1. Alone => (OneClient => OneTurn)
  BY DEF Alone, OneTurn
<1> QED BY AloneInvariance, <1>1, PTL

-----------------------------------------------------------------------------
(* What the end of a turn leaves behind.                                     *)

\* What the event loop has still to apply of the current adapter, oldest first.
Queue == events \o wire

\* The end of the turn is on its way.
Ends(q, t) == \E i \in 1 .. Len(q) : q[i].kind = "over" /\ q[i].turn = t

\* The end of a turn is told after it ended, and nothing is told of it after that.
Ord(q, up) ==
    \A i \in 1 .. Len(q) : q[i].kind = "over" =>
        /\ up[q[i].turn] = "over"
        /\ \A j \in 1 .. Len(q) : j > i => q[j].turn # q[i].turn

Ordered == Ord(Queue, upstream)

\* A turn runs, or the loop will learn of its end.
Live(t) == upstream[t] = "running" \/ Ends(Queue, t)

\* A handler goes on with a turn that began.
Begun == \A s \in Starters : start[s].turn # None => upstream[start[s].turn] # "none"

\* What is told of a turn over this connection is about a live one.
Fresh == ready => \A i \in 1 .. Len(Queue) : Queue[i].turn # None => Live(Queue[i].turn)

\* What the view and the workspace say of turns is about live ones.
SomeLive == \E t \in Turns : Live(t)
Regular == ready /\ ~stale /\ faults = 0 /\ ~overtaken
Freed ==
    Regular =>
        /\ view.turnId # None => Live(view.turnId)
        /\ view.status \notin {"IDLE", "ERROR"} \/ view.activeTurn # None => SomeLive
        /\ \A t \in agents : t \in Turns /\ Live(t)

QInv == Ordered /\ Begun /\ Fresh /\ Freed

\* How the queue changes.
Joins(q, a, b) ==
    /\ Len(q) = Len(a) + Len(b)
    /\ \A i \in 1 .. Len(a) : q[i] = a[i]
    /\ \A i \in 1 .. Len(b) : q[Len(a) + i] = b[i]
Extends(p, q, n) == Len(p) = Len(q) + 1 /\ p[Len(p)] = n /\ \A i \in 1 .. Len(q) : p[i] = q[i]
Drops(p, q) == Len(q) = Len(p) + 1 /\ \A i \in 1 .. Len(p) : p[i] = q[i + 1]
Shifts(S, a, b, c, d) ==
    {a, b, c, d} \subseteq Seq(S) /\ Extends(c, a, b[1]) /\ Drops(d, b)

\* Two sequences, one after the other.
LEMMA Concat ==
    ASSUME NEW S, NEW a \in Seq(S), NEW b \in Seq(S)
    PROVE  a \o b \in Seq(S) /\ Joins(a \o b, a, b)
  BY SMT DEF Joins

\* A sequence is its elements.
LEMMA SameSeq == 
    ASSUME NEW S, NEW a \in Seq(S), NEW b \in Seq(S), Len(a) = Len(b), \A i \in 1 .. Len(a) : a[i] = b[i]
    PROVE a = b
  BY SMT
\* An element moves from the front of one sequence to the end of another.
LEMMA Moved ==
    ASSUME NEW S, NEW a, NEW b, NEW c, NEW d, Shifts(S, a, b, c, d)
    PROVE  c \o d = a \o b
<1>0. /\ a \in Seq(S) /\ b \in Seq(S) /\ c \in Seq(S) /\ d \in Seq(S)
      /\ Len(c) = Len(a) + 1 /\ Len(b) = Len(d) + 1
      /\ \A i \in 1 .. Len(a) : c[i] = a[i]
      /\ c[Len(c)] = b[1]
      /\ \A i \in 1 .. Len(d) : d[i] = b[i + 1]
  BY DEF Shifts, Extends, Drops
<1>1. c \o d \in Seq(S) /\ Joins(c \o d, c, d)
  BY <1>0, Concat
<1>2. a \o b \in Seq(S) /\ Joins(a \o b, a, b)
  BY <1>0, Concat
<1>4. /\ c \o d \in Seq(S) /\ Len(c \o d) = Len(c) + Len(d)
      /\ \A i \in 1 .. Len(c) : (c \o d)[i] = c[i]
      /\ \A i \in 1 .. Len(d) : (c \o d)[Len(c) + i] = d[i]
  BY <1>1 DEF Joins
<1>5. /\ a \o b \in Seq(S) /\ Len(a \o b) = Len(a) + Len(b)
      /\ \A i \in 1 .. Len(a) : (a \o b)[i] = a[i]
      /\ \A i \in 1 .. Len(b) : (a \o b)[Len(a) + i] = b[i]
  BY <1>2 DEF Joins
<1>6. Len(a) \in Nat /\ Len(d) \in Nat /\ Len(c) = Len(a) + 1 /\ Len(b) = Len(d) + 1
  BY SMT, <1>0
<1>7. ASSUME NEW i \in 1 .. Len(a) + Len(b) PROVE (c \o d)[i] = (a \o b)[i]
  <2>1. CASE i <= Len(a)
    <3>1. i \in 1 .. Len(a) /\ i \in 1 .. Len(c)
      BY SMT, <1>6, <2>1
    <3> QED BY <1>0, <1>4, <1>5, <3>1
  <2>2. CASE i = Len(a) + 1
    <3>1. 1 \in 1 .. Len(b) /\ i \in 1 .. Len(c)
      BY SMT, <1>6, <2>2
    <3> QED BY <1>0, <1>4, <1>5, <2>2, <3>1
  <2>3. CASE i > Len(a) + 1
    <3> DEFINE j == i - (Len(a) + 1)
    <3>1. j \in 1 .. Len(d) /\ j + 1 \in 1 .. Len(b) /\ i = Len(c) + j /\ i = Len(a) + (j + 1)
      BY SMT, <1>6, <2>3
    <3> HIDE DEF j
    <3>2. d[j] = b[j + 1]
      BY <1>0, <3>1
    <3>3. (c \o d)[Len(c) + j] = d[j] /\ (a \o b)[Len(a) + (j + 1)] = b[j + 1]
      BY <1>4, <1>5, <3>1
    <3> QED BY <3>1, <3>2, <3>3
  <2>4. i <= Len(a) \/ i = Len(a) + 1 \/ i > Len(a) + 1
    BY SMT, <1>6
  <2> QED BY <2>1, <2>2, <2>3, <2>4
<1>8. Len(c \o d) = Len(a) + Len(b)
  BY SMT, <1>4, <1>6
<1> QED BY <1>4, <1>5, <1>7, <1>8, SameSeq

\* The first of two sequences loses its head.
LEMMA Shorter ==
    ASSUME NEW S, NEW a \in Seq(S), NEW b \in Seq(S), a # <<>>
    PROVE  /\ Tail(a) \o b \in Seq(S) /\ Drops(Tail(a) \o b, a \o b)
           /\ Len(a \o b) > 0 /\ (a \o b)[1] = Head(a)
  BY SMT DEF Drops

\* What is told stays in order when turns go on.
LEMMA OrdGrows ==
    ASSUME NEW q \in Seq(Notes), NEW up, NEW up2, Ord(q, up),
           \A t \in Turns : up[t] = "over" => up2[t] = "over"
    PROVE  Ord(q, up2)
<1>1. \A i \in 1 .. Len(q) : q[i] \in Notes
  BY SMT
<1>2. \A i \in 1 .. Len(q) : q[i].kind = "over" => q[i].turn \in Turns
  BY <1>1, NoteParts
<1> QED BY <1>2 DEF Ord

\* Telling of a turn whose end was not told, or of the thread.
LEMMA OrdExtends ==
    ASSUME NEW q \in Seq(Notes), NEW p \in Seq(Notes), NEW n \in Notes, NEW up,
           Ord(q, up), Extends(p, q, n), ~Ends(q, n.turn),
           n.kind = "over" => up[n.turn] = "over"
    PROVE  /\ Ord(p, up)
           /\ \A t \in Turns : Ends(p, t) <=> (Ends(q, t) \/ (n.kind = "over" /\ n.turn = t))
<1>1. /\ Len(q) \in Nat /\ Len(p) = Len(q) + 1 /\ p[Len(p)] = n
      /\ \A i \in 1 .. Len(q) : p[i] = q[i]
  BY SMT DEF Extends
<1>2. \A i \in 1 .. Len(p) : i \in 1 .. Len(q) \/ i = Len(p)
  BY SMT, <1>1
<1>3. /\ \A i \in 1 .. Len(q) : i \in 1 .. Len(p) /\ i # Len(p)
      /\ \A i \in 1 .. Len(p) : ~(i > Len(p))
      /\ Len(p) \in 1 .. Len(p)
  BY SMT, <1>1
<1>4. ASSUME NEW i \in 1 .. Len(p), p[i].kind = "over"
      PROVE  /\ up[p[i].turn] = "over"
             /\ \A j \in 1 .. Len(p) : j > i => p[j].turn # p[i].turn
  <2>1. CASE i = Len(p)
    BY <1>1, <1>3, <1>4, <2>1
  <2>2. CASE i \in 1 .. Len(q)
    <3>1. p[i] = q[i]
      BY <1>1, <2>2
    <3>2. q[i].turn # n.turn
      BY <1>4, <2>2, <3>1 DEF Ends
    <3>3. up[q[i].turn] = "over" /\ \A j \in 1 .. Len(q) : j > i => q[j].turn # q[i].turn
      BY <1>4, <2>2, <3>1 DEF Ord
    <3>4. ASSUME NEW j \in 1 .. Len(p), j > i PROVE p[j].turn # q[i].turn
      BY <1>1, <1>2, <3>2, <3>3, <3>4
    <3> QED BY <3>1, <3>3, <3>4
  <2> QED BY <1>2, <2>1, <2>2
<1>5. ASSUME NEW t \in Turns
      PROVE  Ends(p, t) <=> (Ends(q, t) \/ (n.kind = "over" /\ n.turn = t))
  <2>1. ASSUME Ends(p, t) PROVE Ends(q, t) \/ (n.kind = "over" /\ n.turn = t)
    <3>1. PICK i \in 1 .. Len(p) : p[i].kind = "over" /\ p[i].turn = t
      BY <2>1 DEF Ends
    <3> QED BY <1>1, <1>2, <3>1 DEF Ends
  <2>2. ASSUME Ends(q, t) PROVE Ends(p, t)
    <3>1. PICK i \in 1 .. Len(q) : q[i].kind = "over" /\ q[i].turn = t
      BY <2>2 DEF Ends
    <3> QED BY <1>1, <1>3, <3>1 DEF Ends
  <2>3. ASSUME n.kind = "over", n.turn = t PROVE Ends(p, t)
    <3>1. Len(p) \in 1 .. Len(p) /\ p[Len(p)] = n
      BY <1>1, <1>3
    <3> QED BY <2>3, <3>1 DEF Ends
  <2> QED BY <2>1, <2>2, <2>3
<1> QED BY <1>4, <1>5 DEF Ord

\* Applying the oldest notification.
LEMMA OrdDrops ==
    ASSUME NEW q \in Seq(Notes), NEW p \in Seq(Notes), NEW up, Ord(q, up), Drops(p, q)
    PROVE  /\ Ord(p, up)
           /\ \A t \in Turns : Ends(p, t) <=>
                  (Ends(q, t) /\ ~(q[1].kind = "over" /\ q[1].turn = t))
           /\ \A i \in 1 .. Len(p) : q[1].kind = "over" => p[i].turn # q[1].turn
<1>1. /\ Len(p) \in Nat /\ Len(q) = Len(p) + 1
      /\ \A i \in 1 .. Len(p) : p[i] = q[i + 1]
  BY SMT DEF Drops
<1>2. /\ \A i \in 1 .. Len(p) : i + 1 \in 1 .. Len(q) /\ i + 1 > 1
      /\ 1 \in 1 .. Len(q)
      /\ \A i, j \in 1 .. Len(p) : j > i => j + 1 > i + 1
      /\ \A i \in 1 .. Len(q) : i = 1 \/ \E j \in 1 .. Len(p) : i = j + 1
  <2>1. ASSUME NEW i \in 1 .. Len(q), i # 1 PROVE \E j \in 1 .. Len(p) : i = j + 1
    <3>1. i - 1 \in 1 .. Len(p) /\ i = (i - 1) + 1
      BY SMT, <1>1, <2>1
    <3> QED BY <3>1
  <2>2. \A i \in 1 .. Len(p) : i + 1 \in 1 .. Len(q) /\ i + 1 > 1
    BY SMT, <1>1
  <2>3. 1 \in 1 .. Len(q)
    BY SMT, <1>1
  <2>4. \A i, j \in 1 .. Len(p) : j > i => j + 1 > i + 1
    BY SMT, <1>1
  <2> QED BY <2>1, <2>2, <2>3, <2>4
<1>3. Ord(p, up)
  <2> SUFFICES ASSUME NEW i \in 1 .. Len(p), p[i].kind = "over"
               PROVE  /\ up[p[i].turn] = "over"
                      /\ \A j \in 1 .. Len(p) : j > i => p[j].turn # p[i].turn
    BY DEF Ord
  <2>1. i + 1 \in 1 .. Len(q) /\ p[i] = q[i + 1]
    BY <1>1, <1>2
  <2>2. /\ up[q[i + 1].turn] = "over"
        /\ \A j \in 1 .. Len(q) : j > i + 1 => q[j].turn # q[i + 1].turn
    BY <2>1 DEF Ord
  <2>3. ASSUME NEW j \in 1 .. Len(p), j > i PROVE p[j].turn # p[i].turn
    <3>1. j + 1 > i + 1 /\ j + 1 \in 1 .. Len(q) /\ p[j] = q[j + 1]
      BY <1>1, <1>2, <2>3
    <3> QED BY <2>1, <2>2, <3>1
  <2> QED BY <2>1, <2>2, <2>3
<1>4. ASSUME NEW i \in 1 .. Len(p), q[1].kind = "over" PROVE p[i].turn # q[1].turn
  <2>1. i + 1 \in 1 .. Len(q) /\ i + 1 > 1 /\ p[i] = q[i + 1] /\ 1 \in 1 .. Len(q)
    BY <1>1, <1>2
  <2> QED BY <1>4, <2>1 DEF Ord
<1>5. ASSUME NEW t \in Turns
      PROVE  Ends(p, t) <=> (Ends(q, t) /\ ~(q[1].kind = "over" /\ q[1].turn = t))
  <2>1. ASSUME Ends(p, t) PROVE Ends(q, t) /\ ~(q[1].kind = "over" /\ q[1].turn = t)
    <3>1. PICK i \in 1 .. Len(p) : p[i].kind = "over" /\ p[i].turn = t
      BY <2>1 DEF Ends
    <3>2. i + 1 \in 1 .. Len(q) /\ q[i + 1] = p[i]
      BY <1>1, <1>2
    <3>3. Ends(q, t)
      BY <3>1, <3>2 DEF Ends
    <3> QED BY <1>4, <3>1, <3>3
  <2>2. ASSUME Ends(q, t), ~(q[1].kind = "over" /\ q[1].turn = t) PROVE Ends(p, t)
    <3>1. PICK i \in 1 .. Len(q) : q[i].kind = "over" /\ q[i].turn = t
      BY <2>2 DEF Ends
    <3>2. i # 1
      BY <2>2, <3>1
    <3>3. PICK j \in 1 .. Len(p) : i = j + 1
      BY <1>2, <3>2
    <3> QED BY <1>1, <3>1, <3>3 DEF Ends
  <2> QED BY <2>1, <2>2
<1> QED BY <1>3, <1>4, <1>5

\* The queue: the events, then the notifications on the wire.
LEMMA QueueType ==
    ASSUME TypeOK
    PROVE  /\ Queue \in Seq(Notes) /\ Joins(Queue, events, wire)
           /\ Len(events) \in Nat /\ Len(wire) \in Nat /\ Len(Queue) \in Nat
           /\ \A i \in 1 .. Len(Queue) : Queue[i] \in Notes
<1>1. events \in Seq(Notes) /\ wire \in Seq(Notes)
  BY DEF TypeOK
<1>2. Queue \in Seq(Notes) /\ Joins(Queue, events, wire)
  BY <1>1, Concat DEF Queue
<1>3. Len(events) \in Nat /\ Len(wire) \in Nat /\ Len(Queue) \in Nat
  BY SMT, <1>1, <1>2
<1>4. \A i \in 1 .. Len(Queue) : Queue[i] \in Notes
  BY SMT, <1>2
<1> QED BY <1>2, <1>3, <1>4

\* A notification goes out.
LEMMA Told ==
    ASSUME TypeOK, NEW n \in Notes, wire' = Append(wire, n), events' = events
    PROVE  Queue' \in Seq(Notes) /\ Extends(Queue', Queue, n)
<1> DEFINE w == Append(wire, n)
<1>1. events \in Seq(Notes) /\ wire \in Seq(Notes)
  BY DEF TypeOK
<1>2. /\ w \in Seq(Notes) /\ Len(w) = Len(wire) + 1 /\ w[Len(w)] = n
      /\ \A i \in 1 .. Len(wire) : w[i] = wire[i]
      /\ Len(events) \in Nat /\ Len(wire) \in Nat
  BY SMT, <1>1
<1> HIDE DEF w
<1>3. events \o w \in Seq(Notes) /\ Joins(events \o w, events, w)
  BY <1>1, <1>2, Concat
<1>4. Joins(Queue, events, wire)
  BY QueueType
<1>5. ASSUME NEW p, NEW q, Joins(p, events, w), Joins(q, events, wire) PROVE Extends(p, q, n)
  <2>1. Len(p) = Len(q) + 1 /\ Len(w) \in 1 .. Len(w) /\ Len(p) = Len(events) + Len(w)
    BY SMT, <1>2, <1>5 DEF Joins
  <2>2. p[Len(p)] = n
    BY <1>2, <1>5, <2>1 DEF Joins
  <2>3. ASSUME NEW i \in 1 .. Len(q) PROVE p[i] = q[i]
    <3>1. CASE i \in 1 .. Len(events)
      BY <1>5, <3>1 DEF Joins
    <3>2. CASE i \notin 1 .. Len(events)
      <4>1. /\ i - Len(events) \in 1 .. Len(wire) /\ i - Len(events) \in 1 .. Len(w)
            /\ Len(events) + (i - Len(events)) = i
        BY SMT, <1>2, <1>5, <3>2 DEF Joins
      <4>2. p[Len(events) + (i - Len(events))] = w[i - Len(events)]
        BY <1>5, <4>1 DEF Joins
      <4>3. q[Len(events) + (i - Len(events))] = wire[i - Len(events)]
        BY <1>5, <4>1 DEF Joins
      <4> QED BY <1>2, <4>1, <4>2, <4>3
    <3> QED BY <3>1, <3>2
  <2> QED BY <2>1, <2>2, <2>3 DEF Extends
<1>6. Queue' = events \o w
  BY DEF Queue, w
<1> QED BY <1>3, <1>4, <1>5, <1>6

\* The adapter moves a notification on; the queue is the same.
LEMMA ConsumeQueue == ASSUME TypeOK, consume PROVE Queue' = Queue
<1> DEFINE e == Append(events, Head(wire))
           w == Tail(wire)
<1>1. events \in Seq(Notes) /\ wire \in Seq(Notes) /\ wire # <<>> /\ events' = e /\ wire' = w
  BY DEF TypeOK, consume
<1>2. /\ e \in Seq(Notes) /\ w \in Seq(Notes)
      /\ Len(e) = Len(events) + 1 /\ Len(wire) = Len(w) + 1
      /\ \A i \in 1 .. Len(events) : e[i] = events[i]
      /\ e[Len(e)] = wire[1]
      /\ \A i \in 1 .. Len(w) : w[i] = wire[i + 1]
  BY SMT, <1>1
<1> HIDE DEF e, w
<1>3. Shifts(Notes, events, wire, e, w)
  BY <1>1, <1>2 DEF Shifts, Extends, Drops
<1>4. e \o w = events \o wire
  BY SMT, <1>3, Moved
<1> QED BY <1>1, <1>4 DEF Queue

\* The queue, its order and the live turns after n is told.
LEMMA TellQueue ==
    ASSUME TypeOK, Ordered, NEW n \in Notes, wire' = Append(wire, n), events' = events,
           \A t \in Turns : upstream[t] = "over" => upstream'[t] = "over",
           ~Ends(Queue, n.turn), n.kind = "over" => upstream'[n.turn] = "over"
    PROVE  /\ Ordered' /\ Extends(Queue', Queue, n)
           /\ \A t \in Turns : Ends(Queue', t) <=> (Ends(Queue, t) \/ (n.kind = "over" /\ n.turn = t))
<1>1. Queue' \in Seq(Notes) /\ Extends(Queue', Queue, n)
  BY Told
<1>2. Queue \in Seq(Notes) /\ Ord(Queue, upstream)
  BY QueueType DEF Ordered
<1>3. Ord(Queue, upstream')
  BY <1>2, OrdGrows
<1>4. /\ Ord(Queue', upstream')
      /\ \A t \in Turns : Ends(Queue', t) <=> (Ends(Queue, t) \/ (n.kind = "over" /\ n.turn = t))
  BY <1>1, <1>2, <1>3, OrdExtends
<1> QED BY <1>1, <1>4 DEF Ordered

\* The end of a turn that is not over was not told.
LEMMA NotEnded ==
    ASSUME TypeOK, Ordered, NEW t, upstream[t] # "over" PROVE ~Ends(Queue, t)
  BY DEF Ordered, Ord, Ends

\* What is told of the thread names no turn.
LEMMA NoneNotEnded == ASSUME TypeOK PROVE ~Ends(Queue, None)
<1>1. \A i \in 1 .. Len(Queue) : Queue[i] \in Notes
  BY QueueType
<1>2. \A i \in 1 .. Len(Queue) : Queue[i].kind = "over" => Queue[i].turn \in Turns
  BY <1>1, NoteParts
<1> QED BY <1>2, Parts DEF Ends

\* A notification of a live turn goes out.
LEMMA FreshTold ==
    ASSUME TypeOK, Fresh, NEW n \in Notes, Extends(Queue', Queue, n), n.turn # None => Live(n.turn)',
           \A u \in Turns : Live(u) => Live(u)', UNCHANGED ready
    PROVE  Fresh'
<1> SUFFICES ASSUME ready, NEW i \in 1 .. Len(Queue'), Queue'[i].turn # None
             PROVE  Live(Queue[i].turn)'
  BY DEF Fresh
<1>1. /\ Len(Queue) \in Nat /\ \A j \in 1 .. Len(Queue) : Queue[j] \in Notes
  BY QueueType
<1>2. Queue'[Len(Queue')] = n /\ \A j \in 1 .. Len(Queue) : Queue'[j] = Queue[j]
  BY DEF Extends
<1>3. i \in 1 .. Len(Queue) \/ i = Len(Queue')
  BY SMT, <1>1 DEF Extends
<1>4. CASE i = Len(Queue')
  BY <1>2, <1>4
<1>5. CASE i \in 1 .. Len(Queue)
  <2>1. Queue'[i] = Queue[i] /\ Queue[i].turn \in Turns
    BY <1>1, <1>2, <1>5, NoteParts
  <2>2. Live(Queue[i].turn)
    BY <1>5, <2>1 DEF Fresh
  <2>3. ASSUME NEW u \in Turns, Live(u), Queue'[i].turn = u PROVE Live(Queue[i].turn)'
    BY <2>3 DEF Live
  <2> QED BY <2>1, <2>2, <2>3
<1> QED BY <1>3, <1>4, <1>5

\* The view stays, and live turns stay live.
LEMMA FreedSame ==
    ASSUME TypeOK, Freed, UNCHANGED <<view, agents>>, Regular' => Regular,
           \A u \in Turns : Live(u) => Live(u)'
    PROVE  Freed'
<1> SUFFICES ASSUME Regular' PROVE Freed'
  BY DEF Freed
<1>1. view.turnId # None => view.turnId \in Turns
  BY Parts
<1>2. view.turnId # None => Live(view.turnId)'
  <2>1. ASSUME NEW u \in Turns, Live(u), view.turnId = u PROVE Live(view.turnId)'
    BY <2>1 DEF Live
  <2> QED BY <1>1, <2>1 DEF Freed
<1>3. SomeLive => SomeLive'
  BY DEF SomeLive
<1> QED BY <1>2, <1>3 DEF Freed

\* A step that tells nothing and changes neither the view nor the agents.
LEMMA QInvSame ==
    ASSUME TypeOK, QInv, UNCHANGED <<upstream, wire, events, ready, view, agents>>,
           Regular' => Regular,
           \A u \in Starters : start'[u].turn \in {start[u].turn, None}
    PROVE  QInv'
<1>1. Queue' = Queue /\ \A u : Live(u)' <=> Live(u)
  BY DEF Queue, Live
<1>2. Ordered' /\ Fresh'
  BY <1>1 DEF QInv, Ordered, Fresh, Live
<1>3. Begun'
  BY DEF QInv, Begun
<1>4. Freed'
  BY <1>1, FreedSame DEF QInv
<1> QED BY <1>2, <1>3, <1>4 DEF QInv

\* The app-server asks, tells the status of the thread, or ends a turn.
LEMMA TellKeeps ==
    ASSUME TypeOK, QInv,
           \/ \E q \in Asks, t \in Turns : ServerAsks(q, t)
           \/ \E t \in Turns : ServerEnds(t)
           \/ \E st \in {"active", "idle", "error"}, t \in Turns \cup {None} : ServerSays(st, t)
    PROVE  QInv'
<1>0. Ordered /\ Begun /\ Fresh /\ Freed
  BY DEF QInv
<1>1. UNCHANGED <<ready, events, view, agents, start, stale, faults, overtaken>>
  BY DEF ServerAsks, ServerEnds, ServerSays
<1>2. Regular' => Regular
  BY <1>1 DEF Regular
<1>3. ASSUME NEW n \in Notes, wire' = Append(wire, n),
             \A u \in Turns : upstream'[u] = upstream[u] \/ (n = Over(u) /\ upstream'[u] = "over"),
             n.turn # None => upstream[n.turn] = "running",
             n.kind = "over" => upstream'[n.turn] = "over"
      PROVE  QInv'
  <2>1. ~Ends(Queue, n.turn)
    BY <1>0, <1>3, NotEnded, NoneNotEnded
  <2>2. /\ Ordered' /\ Extends(Queue', Queue, n)
        /\ \A t \in Turns : Ends(Queue', t) <=> (Ends(Queue, t) \/ (n.kind = "over" /\ n.turn = t))
    BY <1>0, <1>1, <1>3, <2>1, TellQueue
  <2>a. \A u : n = Over(u) => n.kind = "over" /\ n.turn = u
    BY SMT DEF Over
  <2>3. \A u \in Turns : Live(u) => Live(u)'
    BY <1>3, <2>2, <2>a DEF Live
  <2>4. n.turn # None => n.turn \in Turns /\ Live(n.turn)
    BY <1>3, NoteParts DEF Live
  <2>5. Fresh'
    BY <1>0, <1>1, <2>2, <2>3, <2>4, FreshTold
  <2>6. Freed'
    BY <1>0, <1>1, <1>2, <2>3, FreedSame
  <2>7. \A u \in Turns : upstream[u] # "none" => upstream'[u] # "none"
    BY <1>3
  <2>8. Begun'
    BY <1>0, <1>1, <2>7, Parts DEF Begun
  <2> QED BY <2>2, <2>5, <2>6, <2>8 DEF QInv
<1>4. ASSUME NEW q \in Asks, NEW t \in Turns, ServerAsks(q, t) PROVE QInv'
  <2>1. Ask(q, t) \in Notes /\ Ask(q, t).turn = t /\ Ask(q, t).kind = "ask"
    BY DEF Ask, Notes
  <2>2. wire' = Append(wire, Ask(q, t)) /\ upstream' = upstream /\ upstream[t] = "running"
    BY <1>4 DEF ServerAsks, Running
  <2> QED BY <1>3, <2>1, <2>2
<1>5. ASSUME NEW st \in {"active", "idle", "error"}, NEW t \in Turns \cup {None}, ServerSays(st, t)
      PROVE  QInv'
  <2>1. Status(st, t) \in Notes /\ Status(st, t).turn = t /\ Status(st, t).kind = st
    BY <1>5 DEF ServerSays, Status, Notes, Running
  <2>2. /\ wire' = Append(wire, Status(st, t)) /\ upstream' = upstream
        /\ t # None => upstream[t] = "running"
    BY <1>5 DEF ServerSays, Running, server
  <2> QED BY <1>3, <2>1, <2>2
<1>6. ASSUME NEW t \in Turns, ServerEnds(t) PROVE QInv'
  <2>1. Over(t) \in Notes /\ Over(t).turn = t /\ Over(t).kind = "over"
    BY DEF Over, Notes
  <2>2. /\ upstream[t] = "running" /\ upstream'[t] = "over"
        /\ \A u \in Turns : upstream'[u] = IF u = t THEN "over" ELSE upstream[u]
        /\ wire' = IF ready THEN Append(wire, Over(t)) ELSE wire
    BY <1>6 DEF ServerEnds, Running, TypeOK
  <2>3. CASE ready
    BY <1>3, <2>1, <2>2, <2>3
  <2>4. CASE ~ready
    <3>1. Queue' = Queue
      BY <1>1, <2>2, <2>4 DEF Queue
    <3>2. Queue \in Seq(Notes) /\ Ord(Queue, upstream)
      BY <1>0, QueueType DEF Ordered
    <3>3. \A u \in Turns : upstream[u] = "over" => upstream'[u] = "over"
      BY <2>2
    <3>4. Ordered'
      BY <3>1, <3>2, <3>3, OrdGrows DEF Ordered
    <3>5. Begun'
      BY <1>0, <1>1, <2>2, Parts DEF Begun
    <3> QED BY <1>1, <2>4, <3>4, <3>5 DEF QInv, Fresh, Freed, Regular
  <2> QED BY <2>3, <2>4
<1> QED BY <1>4, <1>5, <1>6

\* A notification is consumed; the connection is lost, or there is a new adapter, of
\* which nothing is told yet.
LEMMA ConnectionKeeps == ASSUME IInv, QInv, consume \/ Lose \/ Reconnect PROVE QInv'
<1>0. TypeOK /\ Tokens /\ Ordered /\ Begun /\ Fresh /\ Freed
  BY DEF IInv, QInv
<1>1. UNCHANGED <<upstream, view, agents, start>>
  BY DEF consume, Lose, Reconnect, server
<1>2. Begun'
  BY <1>0, <1>1 DEF Begun
<1>3. CASE consume
  <2>1. Queue' = Queue /\ UNCHANGED <<ready, stale, faults, overtaken>>
    BY <1>0, <1>3, ConsumeQueue DEF consume
  <2>2. \A u : Live(u)' <=> Live(u)
    BY <1>1, <2>1 DEF Live
  <2>3. Ordered' /\ Fresh'
    BY <1>0, <1>1, <2>1 DEF Ordered, Fresh, Live
  <2>4. Freed'
    BY <1>0, <1>1, <2>1, <2>2, FreedSame DEF Regular
  <2> QED BY <1>2, <2>3, <2>4 DEF QInv
<1>4. CASE Lose
  <2>1. events' = events /\ wire' = <<>> /\ ~ready' /\ events \in Seq(Notes)
    BY <1>0, <1>4 DEF Lose, TypeOK
  <2>2. Queue' = events
    BY SMT, <2>1 DEF Queue
  <2>3. Joins(Queue, events, wire) /\ Len(events) \in Nat /\ Len(wire) \in Nat
    BY <1>0, QueueType
  <2>4. \A i \in 1 .. Len(events) : i \in 1 .. Len(Queue) /\ events[i] = Queue[i]
    BY SMT, <2>3 DEF Joins
  <2>5. Ord(events, upstream)
    BY <1>0, <2>4 DEF Ordered, Ord
  <2>6. Ordered'
    BY <1>1, <2>2, <2>5 DEF Ordered
  <2> QED BY <1>2, <2>1, <2>6 DEF QInv, Fresh, Freed, Regular
<1>5. CASE Reconnect
  <2>1. wire' = <<>> /\ events' = <<>> /\ stale'
    BY <1>0, <1>5 DEF Reconnect, Tokens
  <2>2. 1 .. Len(Queue') = {}
    BY SMT, <2>1 DEF Queue
  <2> QED BY <1>2, <2>1, <2>2 DEF QInv, Ordered, Ord, Fresh, Freed, Regular
<1> QED BY <1>3, <1>4, <1>5

\* StartTurn calls turn/start and is answered.
LEMMA CallKeeps ==
    ASSUME TypeOK, QInv, NEW s \in Starters, StartTurn(s) \/ CallTurnStart(s)
    PROVE  QInv'
<1>0. Ordered /\ Begun /\ Fresh /\ Freed /\ start \in [Starters -> Starts]
  BY DEF QInv, TypeOK
<1>1. CASE StartTurn(s)
  <2>1. UNCHANGED <<upstream, wire, events, ready, view, agents, stale, faults, overtaken>>
    BY <1>1 DEF StartTurn, server
  <2>2. \A u \in Starters : start'[u].turn = start[u].turn
    BY <1>0, <1>1 DEF StartTurn, Starts
  <2> QED BY <2>1, <2>2, QInvSame DEF Regular
<1>2. CASE CallTurnStart(s) /\ TurnNotAccepted(s)
  <2>1. UNCHANGED <<upstream, wire, events, ready, view, agents, stale, overtaken>>
    BY <1>2 DEF CallTurnStart, TurnNotAccepted
  <2>2. Regular' => Regular
    BY <1>2, <2>1, FaultCounts DEF TurnNotAccepted, Regular
  <2>3. \A u \in Starters : start'[u].turn \in {start[u].turn, None}
    BY <1>0, <1>2 DEF TurnNotAccepted, NoStart
  <2> QED BY <2>1, <2>2, <2>3, QInvSame
<1>3. ASSUME NEW t \in Turns, CallTurnStart(s), TurnAccepted(s, t) PROVE QInv'
  <2>1. UNCHANGED <<events, ready, view, agents, stale, overtaken>>
    BY <1>3 DEF CallTurnStart
  <2>2. Regular' => Regular
    BY <1>3, <2>1, FaultCounts DEF TurnAccepted, Regular
  <2>3. t >= t
    BY SMT DEF Turns
  <2>4. /\ upstream[t] = "none" /\ wire' = Append(wire, Started(t))
        /\ \A u \in Turns : upstream'[u] = IF u = t THEN "running" ELSE upstream[u]
    BY <1>3, <2>3 DEF TurnAccepted, TypeOK
  <2>5. Started(t) \in Notes /\ Started(t).turn = t /\ Started(t).kind # "over"
    BY DEF Started, Notes
  <2>6. ~Ends(Queue, t)
    BY <1>0, <2>4, NotEnded
  <2>7. \A u \in Turns : upstream[u] = "over" => upstream'[u] = "over"
    BY <2>4
  <2>8. /\ Ordered' /\ Extends(Queue', Queue, Started(t))
        /\ \A u \in Turns : Ends(Queue', u) <=> Ends(Queue, u)
    BY <1>0, <2>1, <2>4, <2>5, <2>6, <2>7, TellQueue
  <2>9. \A u \in Turns : Live(u) => Live(u)'
    BY <2>4, <2>8 DEF Live
  <2>10. Live(Started(t).turn)'
    BY <2>4, <2>5 DEF Live
  <2>11. Fresh'
    BY <1>0, <2>1, <2>5, <2>8, <2>9, <2>10, FreshTold
  <2>12. Freed'
    BY <1>0, <2>1, <2>2, <2>9, FreedSame
  <2>13. Begun'
    <3> SUFFICES ASSUME NEW u \in Starters, start'[u].turn # None
                 PROVE  upstream'[start'[u].turn] # "none"
      BY DEF Begun
    <3>1. PICK v \in {[pc |-> "agent", turn |-> t], NoStart} : start' = [start EXCEPT ![s] = v]
      BY <1>3 DEF TurnAccepted
    <3>2. v.turn \in {t, None}
      BY SMT, <3>1 DEF NoStart
    <3>3. start'[u].turn = t \/ start'[u].turn = start[u].turn
      BY <1>0, <3>1, <3>2
    <3> QED BY <1>0, <2>4, <3>3, Parts DEF Begun
  <2> QED BY <2>8, <2>11, <2>12, <2>13 DEF QInv
<1> QED BY <1>1, <1>2, <1>3 DEF CallTurnStart

\* A StartTurn that was not overtaken goes on with a live turn.
LEMMA GoesOnLive ==
    ASSUME TypeOK, Begun, NEW s \in Starters, start[s].turn \in Turns, GoesOn(s), ~overtaken'
    PROVE  Live(start[s].turn) /\ ~overtaken
<1> DEFINE t == start[s].turn
<1>1. ~overtaken /\ (upstream[t] = "over" => \E e \in Range(wire \o events) : e = Over(t))
  BY DEF GoesOn
<1>2. t # None
  BY Parts
<1>3. upstream[t] \in {"running", "over"}
  BY <1>2 DEF TypeOK, Begun
<1>4. ASSUME upstream[t] = "over" PROVE Ends(Queue, t)
  <2>1. events \in Seq(Notes) /\ wire \in Seq(Notes) /\ Joins(Queue, events, wire)
    BY QueueType DEF TypeOK
  <2>2. wire \o events \in Seq(Notes) /\ Joins(wire \o events, wire, events)
    BY <2>1, Concat
  <2>3. PICK i \in 1 .. Len(wire \o events) : (wire \o events)[i] = Over(t)
    <3>1. DOMAIN (wire \o events) = 1 .. Len(wire \o events)
      BY SMT, <2>2
    <3> QED BY <1>1, <1>4, <3>1 DEF Range
  <2>4. Len(wire) \in Nat /\ Len(events) \in Nat
    BY QueueType
  <2>5. Over(t).kind = "over" /\ Over(t).turn = t
    BY DEF Over
  <2>6. CASE i \in 1 .. Len(wire)
    <3>1. wire[i] = Over(t) /\ Queue[Len(events) + i] = wire[i]
      BY <2>1, <2>2, <2>3, <2>6 DEF Joins
    <3>2. Len(events) + i \in 1 .. Len(Queue)
      BY SMT, <2>1, <2>4, <2>6 DEF Joins
    <3> QED BY <2>5, <3>1, <3>2 DEF Ends
  <2>7. CASE i \notin 1 .. Len(wire)
    <3>1. /\ i - Len(wire) \in 1 .. Len(events) /\ Len(wire) + (i - Len(wire)) = i
          /\ i - Len(wire) \in 1 .. Len(Queue)
      BY SMT, <2>1, <2>2, <2>3, <2>4, <2>7 DEF Joins
    <3>2. /\ (wire \o events)[Len(wire) + (i - Len(wire))] = events[i - Len(wire)]
          /\ Queue[i - Len(wire)] = events[i - Len(wire)]
      BY <2>1, <2>2, <3>1 DEF Joins
    <3>3. Queue[i - Len(wire)] = Over(t)
      BY <2>3, <3>1, <3>2
    <3> QED BY <2>5, <3>1, <3>3 DEF Ends
  <2> QED BY <2>6, <2>7
<1> QED BY <1>1, <1>3, <1>4 DEF Live

\* StartTurn goes on after the answer.
LEMMA GoesOnKeeps ==
    ASSUME TypeOK, QInv, NEW s \in Starters,
           WorkspaceAgentStarted(s) \/ setRunning(s) \/ publishAcceptedUserMessage(s)
    PROVE  QInv'
<1>0. Ordered /\ Begun /\ Fresh /\ Freed
  BY DEF QInv
<1>1. /\ Went(s) /\ GoesOn(s) /\ start[s].turn \in Turns
      /\ UNCHANGED <<upstream, ready, wire, events, stale>>
      /\ faults' = faults \/ Fault
  BY GoingOn
<1>2. Queue' = Queue /\ \A u : Live(u)' <=> Live(u)
  BY <1>1 DEF Queue, Live
<1>3. Ordered' /\ Fresh'
  BY <1>0, <1>1, <1>2 DEF Ordered, Fresh, Live
<1>4. Begun'
  BY <1>0, <1>1 DEF Begun, Went
<1>5. ASSUME Regular' PROVE Freed'
  <2>1. Live(start[s].turn) /\ ~overtaken
    BY <1>0, <1>1, <1>5, GoesOnLive DEF Regular
  <2>2. Regular
    BY <1>1, <1>5, <2>1, FaultCounts DEF Regular
  <2>3. SomeLive'
    BY <1>1, <1>2, <2>1 DEF SomeLive
  <2>4. view'.turnId \in {view.turnId, start[s].turn} /\ agents' \subseteq agents \cup {start[s].turn}
    BY <1>1 DEF Went
  <2>5. view'.turnId # None => Live(view'.turnId)
    BY <1>0, <2>1, <2>2, <2>4 DEF Freed
  <2>6. \A t \in agents' : t \in Turns /\ Live(t)
    BY <1>0, <1>1, <2>1, <2>2, <2>4 DEF Freed
  <2>7. Live(view.turnId)' <=> Live(view'.turnId)
    BY <1>1, <1>2 DEF Live
  <2> QED BY <1>2, <2>3, <2>5, <2>6, <2>7 DEF Freed
<1> QED BY <1>3, <1>4, <1>5 DEF QInv, Freed

\* A request is answered: the view is running again only while a turn is live.
LEMMA RespondKeeps ==
    ASSUME TypeOK, QInv, NEW r \in Responders,
           \/ RespondStep(r)
           \/ \E q \in Asks, d \in Decisions : RespondApproval(r, q, d)
    PROVE  QInv'
<1>0. Ordered /\ Begun /\ Fresh /\ Freed
  BY DEF QInv
<1>1. CASE resolvePending(r)
  <2>1. /\ UNCHANGED <<upstream, ready, wire, events, stale, agents, start>>
        /\ overtaken' = (overtaken \/ respond[r].epoch # epoch)
        /\ view'.turnId = view.turnId /\ view'.activeTurn = view.activeTurn
        /\ \/ view'.status = view.status
           \/ view'.status = "RUNNING" /\ view.activeTurn # None
           \/ view'.status = "IDLE" /\ view.activeTurn = None
        /\ faults' = faults \/ Fault
    BY <1>1, Resolving
  <2>2. Regular' => Regular
    BY <2>1, FaultCounts DEF Regular
  <2>3. Queue' = Queue /\ \A u : Live(u)' <=> Live(u)
    BY <2>1 DEF Queue, Live
  <2>4. Ordered' /\ Fresh' /\ Begun'
    BY <1>0, <2>1, <2>3 DEF Ordered, Fresh, Begun, Live
  <2>5. Live(view.turnId)' <=> Live(view.turnId)
    BY <2>1, <2>3 DEF Live
  <2>6. SomeLive' <=> SomeLive
    BY <2>3 DEF SomeLive
  <2>7. Freed'
    BY <1>0, <2>1, <2>2, <2>3, <2>5, <2>6 DEF Freed
  <2> QED BY <2>4, <2>7 DEF QInv
<1>2. CASE ~resolvePending(r)
  <2>1. /\ UNCHANGED <<upstream, wire, events, ready, view, agents, start, stale, overtaken>>
        /\ faults' = faults \/ Fault
    BY <1>2 DEF RespondStep, RespondApproval, takePending, Respond, server
  <2>2. Regular' => Regular
    BY <2>1, FaultCounts DEF Regular
  <2> QED BY <2>1, <2>2, QInvSame
<1> QED BY <1>1, <1>2

\* The queue after the loop applied its first event.
LEMMA ApplyQueue ==
    ASSUME TypeOK, Ordered, events # <<>>, events' = Tail(events), UNCHANGED <<wire, upstream>>
    PROVE  /\ Ordered' /\ Drops(Queue', Queue) /\ Len(Queue') \in Nat
           /\ 1 \in 1 .. Len(Queue) /\ Queue[1] = Head(events) /\ Head(events) \in Notes
           /\ \A u \in Turns : Live(u)' <=>
                 (Live(u) /\ ~(Head(events).kind = "over" /\ Head(events).turn = u))
           /\ \A i \in 1 .. Len(Queue') : Head(events).kind = "over" => Queue'[i].turn # Head(events).turn
<1>2. events \in Seq(Notes) /\ wire \in Seq(Notes)
  BY DEF TypeOK
<1>3. Queue \in Seq(Notes) /\ Ord(Queue, upstream)
  BY QueueType DEF Ordered
<1>4. /\ Tail(events) \o wire \in Seq(Notes) /\ Drops(Tail(events) \o wire, events \o wire)
      /\ Len(events \o wire) > 0 /\ (events \o wire)[1] = Head(events)
  BY <1>2, Shorter
<1>5. Queue' \in Seq(Notes) /\ Drops(Queue', Queue) /\ Len(Queue) > 0 /\ Queue[1] = Head(events)
  BY <1>4 DEF Queue
<1>6. /\ Ord(Queue', upstream)
      /\ \A t \in Turns : Ends(Queue', t) <=>
            (Ends(Queue, t) /\ ~(Queue[1].kind = "over" /\ Queue[1].turn = t))
      /\ \A i \in 1 .. Len(Queue') : Queue[1].kind = "over" => Queue'[i].turn # Queue[1].turn
  BY <1>3, <1>5, OrdDrops
<1>7. Head(events) \in Notes
  BY <1>2, HeadOf
<1>8. Len(Queue) \in Nat /\ Len(Queue') \in Nat
  BY SMT, <1>3, <1>5
<1>9. 1 \in 1 .. Len(Queue)
  BY SMT, <1>5, <1>8
<1>10. Head(events).kind = "over" =>
          upstream[Head(events).turn] = "over" /\ Ends(Queue, Head(events).turn)
  BY <1>3, <1>5, <1>9 DEF Ord, Ends
<1>11. \A u \in Turns : Live(u)' <=>
           (Live(u) /\ ~(Head(events).kind = "over" /\ Head(events).turn = u))
  BY <1>5, <1>6, <1>10 DEF Live
<1> QED BY <1>5, <1>6, <1>7, <1>8, <1>9, <1>11 DEF Ordered

\* The loop applies the first event of the current adapter: its end clears the turn,
\* and what else it shows is of a live turn.
LEMMA ApplyKeeps ==
    ASSUME TypeOK, QInv, events # <<>>, Applied(Head(events)), events' = Tail(events),
           UNCHANGED overtaken
    PROVE  QInv'
<1> DEFINE e == Head(events)
<1>0. Ordered /\ Begun /\ Fresh /\ Freed
  BY DEF QInv
<1>1. /\ UNCHANGED <<upstream, wire, ready, stale, start>>
      /\ \/ agents' = (IF e.kind = "over" THEN agents \ {e.turn} ELSE agents) /\ UNCHANGED faults
         \/ Fault
  BY DEF Applied, server
<1>2. /\ Ordered' /\ Drops(Queue', Queue) /\ Len(Queue') \in Nat
      /\ 1 \in 1 .. Len(Queue) /\ Queue[1] = e /\ e \in Notes
      /\ \A u \in Turns : Live(u)' <=> (Live(u) /\ ~(e.kind = "over" /\ e.turn = u))
      /\ \A i \in 1 .. Len(Queue') : e.kind = "over" => Queue'[i].turn # e.turn
  BY <1>0, <1>1, ApplyQueue
<1>3. Shows(e)
  BY <1>2, Showing
<1>4. ready /\ e.turn # None => e.turn \in Turns /\ Live(e.turn)
  BY <1>0, <1>2, NoteParts DEF Fresh
<1>5. Fresh'
  <2> SUFFICES ASSUME ready, NEW i \in 1 .. Len(Queue'), Queue'[i].turn # None
               PROVE  Live(Queue[i].turn)'
    BY <1>1 DEF Fresh
  <2>1. i + 1 \in 1 .. Len(Queue) /\ Queue'[i] = Queue[i + 1]
    BY SMT, <1>2 DEF Drops
  <2>2. Queue[i + 1] \in Notes
    BY <2>1, QueueType
  <2>3. Queue'[i].turn \in Turns /\ Live(Queue'[i].turn)
    BY <1>0, <2>1, <2>2, NoteParts DEF Fresh
  <2>4. ASSUME NEW u \in Turns, Queue'[i].turn = u, Live(u) PROVE Live(Queue[i].turn)'
    BY <1>2, <2>4 DEF Live
  <2> QED BY <2>3, <2>4
<1>6. Begun'
  BY <1>0, <1>1 DEF Begun
<1>7. ASSUME Regular' PROVE Freed'
  <2>1. Regular /\ ready /\ agents' = IF e.kind = "over" THEN agents \ {e.turn} ELSE agents
    BY <1>1, <1>7, FaultCounts DEF Regular
  <2>2. \A t \in agents' : t \in Turns /\ Live(t)'
    BY <1>0, <1>2, <2>1 DEF Freed
  <2>3. CASE e.kind = "over"
    BY <1>3, <2>2, <2>3 DEF Shows, Freed
  <2>4. CASE e.kind # "over"
    <3>1. SomeLive => SomeLive'
      BY <1>2, <2>4 DEF SomeLive
    <3>2. e.kind \in {"started", "ask", "active"} => SomeLive
      BY <1>2, <1>4, <2>1, NoteParts, Parts DEF SomeLive
    <3>3. view'.activeTurn # None => SomeLive
      BY <1>0, <1>3, <2>1, <2>4, <3>2 DEF Shows, Freed
    <3>4. view'.status \notin {"IDLE", "ERROR"} => SomeLive
      BY <1>0, <1>3, <2>1, <2>4, <3>2 DEF Shows, Freed
    <3>5. view'.turnId = view.turnId /\ (view.turnId # None => view.turnId \in Turns)
      BY <1>3, <2>4, Parts DEF Shows
    <3>6. ASSUME NEW u \in Turns, view'.turnId = u, Live(u) PROVE Live(view.turnId)'
      BY <1>2, <2>4, <3>6 DEF Live
    <3>7. view'.turnId # None => Live(view.turnId)'
      BY <1>0, <2>1, <3>5, <3>6 DEF Freed
    <3> QED BY <2>2, <3>1, <3>3, <3>4, <3>7 DEF Freed
  <2> QED BY <2>3, <2>4
<1> QED BY <1>2, <1>5, <1>6, <1>7 DEF QInv, Freed

\* An event of an earlier adapter, which is an exception once Restore was run, and Restore.
LEMMA LateKeeps ==
    ASSUME TypeOK, QInv,
           \/ restoreLocked
           \/ \E k \in DOMAIN left : /\ Applied(Head(left[k])) /\ UNCHANGED events
                                     /\ overtaken' = (overtaken \/ ~stale)
    PROVE  QInv'
<1>0. Ordered /\ Begun /\ Fresh /\ Freed
  BY DEF QInv
<1>1. UNCHANGED <<upstream, ready, wire, events, start>>
  BY DEF restoreLocked, Applied, server
<1>2. Queue' = Queue /\ \A u : Live(u)' <=> Live(u)
  BY <1>1 DEF Queue, Live
<1>3. Ordered' /\ Fresh' /\ Begun'
  BY <1>0, <1>1, <1>2 DEF Ordered, Fresh, Begun, Live
<1>4. CASE restoreLocked
  <2>1. \/ /\ view' = [status |-> IF LastIsRunning THEN "UNAVAILABLE" ELSE "IDLE",
                       turnId |-> None, activeTurn |-> None, pending |-> {}]
           /\ \A t \in agents' : t \in Running
        \/ Fault
    BY <1>4 DEF restoreLocked
  <2>2. \A t \in Running : t \in Turns /\ Live(t)
    BY DEF Running, Live
  <2>3. LastIsRunning => SomeLive'
    BY <1>2, <2>2 DEF LastIsRunning, SomeLive
  <2>4. CASE Fault
    BY <1>3, <2>4, FaultCounts DEF QInv, Freed, Regular
  <2>5. CASE ~Fault
    <3>1. /\ view'.turnId = None /\ view'.activeTurn = None
          /\ view'.status = IF LastIsRunning THEN "UNAVAILABLE" ELSE "IDLE"
      BY SMT, <2>1, <2>5
    <3>2. \A t \in agents' : t \in Turns /\ Live(t)'
      BY <1>2, <2>1, <2>2, <2>5
    <3>3. Freed'
      BY <2>3, <3>1, <3>2 DEF Freed
    <3> QED BY <1>3, <3>3 DEF QInv
  <2> QED BY <2>4, <2>5
<1>5. CASE \E k \in DOMAIN left : Applied(Head(left[k])) /\ overtaken' = (overtaken \/ ~stale)
  <2>1. stale' = stale /\ overtaken' = (overtaken \/ ~stale)
    BY <1>5 DEF Applied
  <2> QED BY <1>3, <2>1 DEF QInv, Freed, Regular
<1> QED BY <1>4, <1>5

\* At first no turn is live and nothing is on its way.
LEMMA InitQueue == Init => QInv
<1> SUFFICES ASSUME Init PROVE QInv
  OBVIOUS
<1>1. Len(Queue) = 0
  BY SMT DEF Init, Queue
<1>2. 1 .. Len(Queue) = {}
  BY SMT, <1>1
<1>3. Ordered /\ Fresh
  BY <1>2 DEF Ordered, Ord, Fresh
<1>4. Begun
  BY DEF Init, Begun, NoStart
<1>5. Freed
  BY DEF Init, Freed
<1> QED BY <1>3, <1>4, <1>5 DEF QInv

\* What the view and the workspace say of turns is about live ones: turns that run, or
\* whose end the loop has still to apply.  Whatever the order in which handlers,
\* app-server, adapters and event loops take their steps, once Restore was run, unless
\* something failed, a handler was overtaken or an earlier connection's event came late.
THEOREM QueueInvariance == Spec => []QInv
<1>1. ASSUME IInv, QInv, [Next]_vars PROVE QInv'
  <2>0. TypeOK
    BY <1>1 DEF IInv
  <2>1. ASSUME NEW s \in Starters, StartStep(s) PROVE QInv'
    BY <1>1, <2>0, <2>1, CallKeeps, GoesOnKeeps DEF StartStep
  <2>2. ASSUME NEW r \in Responders,
               \/ RespondStep(r)
               \/ \E q \in Asks, d \in Decisions : RespondApproval(r, q, d)
        PROVE  QInv'
    BY <1>1, <2>0, <2>2, RespondKeeps
  <2>3. CASE \/ \E q \in Asks, t \in Turns : ServerAsks(q, t)
             \/ \E t \in Turns : ServerEnds(t) \/ InterruptTurn(t)
             \/ \E st \in {"active", "idle", "error"}, t \in Turns \cup {None} : ServerSays(st, t)
    BY <1>1, <2>0, <2>3, TellKeeps DEF InterruptTurn
  <2>4. CASE consume \/ Lose \/ Reconnect
    BY <1>1, <2>4, ConnectionKeeps
  <2>5. CASE applyAdapterEvent \/ restoreLocked
    BY <1>1, <2>0, <2>5, ApplyKeeps, LateKeeps DEF applyAdapterEvent
  <2>6. CASE UNCHANGED vars
    <3>1. UNCHANGED <<upstream, wire, events, ready, view, agents, start, stale, faults, overtaken>>
      BY <2>6 DEF vars, told
    <3> QED BY <1>1, <2>0, <3>1, QInvSame DEF Regular
  <2> QED BY <1>1, <2>1, <2>2, <2>3, <2>4, <2>5, <2>6 DEF Next
<1> QED BY InitQueue, Invariance, <1>1, PTL DEF Spec

\* When every turn is over and every notification applied, the Codex is idle or shows an
\* error, no turn can be interrupted and the workspace is free, after a reconnection too,
\* unless something failed, a handler was overtaken or an earlier connection's event was
\* applied after Restore.
THEOREM EndedTurnUnblocksHolds == Spec => []EndedTurnUnblocks
<1>1. IInv /\ QInv => EndedTurnUnblocks
  <2> SUFFICES ASSUME IInv, QInv, Quiet, Running = {}, faults = 0, ~overtaken
               PROVE  view.status \in {"IDLE", "ERROR"} /\ view.turnId = None /\ agents = {}
    BY DEF EndedTurnUnblocks
  <2>1. wire = <<>> /\ events = <<>> /\ Regular
    BY DEF Quiet, Regular
  <2>2. 1 .. Len(Queue) = {}
    BY SMT, <2>1 DEF Queue
  <2>3. \A t \in Turns : ~Live(t)
    BY <2>2 DEF Live, Ends, Running
  <2>4. view.turnId # None => view.turnId \in Turns
    BY Parts DEF IInv
  <2> QED BY <2>1, <2>3, <2>4 DEF QInv, Freed, SomeLive
<1> QED BY Invariance, QueueInvariance, <1>1, PTL
=============================================================================
