-------------------------------- MODULE Turns --------------------------------
(***************************************************************************)
(* Turns and pending requests of one Codex: StartTurn, InterruptTurn,      *)
(* RespondApproval, RespondUserInput, applyAdapterEvent and the part of    *)
(* Restore that rebuilds the view (internal/codex/manager.go), over the    *)
(* adapter's table of pending requests (internal/adapter/adapter.go).      *)
(*                                                                         *)
(* The app-server answers a call to the goroutine that made it; what it    *)
(* sends by itself goes, in order, through the adapter to one event loop.  *)
(* So a notification may be applied before the handler whose call caused   *)
(* it runs on.  Each adapter has a goroutine that forwards its events to   *)
(* the loop, so those of two adapters come in any order.  Every change of  *)
(* the view holds commitMu and is one step.                                *)
(***************************************************************************)
EXTENDS Naturals, Sequences, FiniteSets, Functions

CONSTANTS
    Starters,       \* StartTurn handlers
    Responders,     \* RespondApproval and RespondUserInput handlers
    MaxTurns,       \* bound: how many turns the app-server starts
    Asks,           \* approval and user-input requests it may make
    Decisions,
    MaxIncidents    \* bound: how many turns, requests, failures, losses of the connection
                    \* to the app-server and changes of the thread's status there are in all

Turns == 1 .. MaxTurns      \* in the order they start
None == 0

ASSUME NoneAssumption == None \notin Asks \cup Decisions
ASSUME BoundsAssumption == MaxTurns \in Nat /\ MaxIncidents \in Nat

VARIABLES
    upstream,   \* the app-server: each turn "none", "running" or "over"
    asked,      \* the app-server: each request "no", "open" or "closed"
    answers,    \* history: the answers the app-server got, by request
    epoch,      \* which adapter Runtime.Adapter returns
    ready,      \* the runtime is Ready
    wire,       \* notifications the adapter has not consumed
    events,     \* events of this adapter the loop has not applied
    left,       \* the same of each adapter before it
    pending,    \* adapter.pending of the current adapter
    view,       \* m.byID: status, turnId, activeTurn, pending
    stale,      \* Ready again, Restore is due
    resolved,   \* resolved_pending rows: the decision, by request
    agents,     \* turns registered with the workspace service
    start, respond,
    faults, said,
    unheard,    \* history: a turn started and its StartTurn did not learn of it
    idled,      \* history: an event that says idle was applied while a turn ran
    overtaken   \* history: a handler went on after the end of its turn, or Restore, was
                \* applied; or an event of an earlier adapter was applied after Restore

server == <<upstream, asked, answers>>
told == <<said, left, idled>>
vars == <<upstream, asked, answers, epoch, ready, wire, events, left, pending, view,
          stale, resolved, agents, start, respond, faults, said, unheard, idled, overtaken>>

-----------------------------------------------------------------------------
Started(t) == [kind |-> "started", turn |-> t, ask |-> None]
Ask(q, t) == [kind |-> "ask", turn |-> t, ask |-> q]
Over(t) == [kind |-> "over", turn |-> t, ask |-> None]
Status(st, t) == [kind |-> st, turn |-> t, ask |-> None]

Notes == [kind : {"started", "active", "over"}, turn : Turns, ask : {None}]
            \cup [kind : {"ask"}, turn : Turns, ask : Asks]
            \cup [kind : {"idle", "error"}, turn : {None}, ask : {None}]

\* status WAITING stands for both WAITING_FOR_*; started and item notifications
\* do the same to the view.
Views == [status : {"IDLE", "RUNNING", "WAITING", "ERROR", "UNAVAILABLE"},
          turnId : Turns \cup {None}, activeTurn : Turns \cup {None},
          pending : SUBSET Asks]

Running == {t \in Turns : upstream[t] = "running"}
Incident ==
    Cardinality({t \in Turns : upstream[t] # "none"}) + Cardinality({q \in Asks : asked[q] # "no"})
        + faults + said + epoch + (IF ready THEN 0 ELSE 1) < MaxIncidents
Fault == Incident /\ faults' = faults + 1

NoStart == [pc |-> "idle", turn |-> None]
NoAnswer == [pc |-> "idle", ask |-> None, decision |-> None, epoch |-> 0]
Starts == [pc : {"idle", "call"}, turn : {None}] \cup [pc : {"agent", "run", "message"}, turn : Turns]
Responses ==
    {NoAnswer} \cup [pc : {"take", "write", "save"}, ask : Asks, decision : Decisions, epoch : Nat]

-----------------------------------------------------------------------------
(* The app-server.                                                           *)

\* It asks while a turn runs.
ServerAsks(q, t) ==
    /\ ready /\ t \in Running /\ asked[q] = "no" /\ Incident
    /\ asked' = [asked EXCEPT ![q] = "open"]
    /\ wire' = Append(wire, Ask(q, t))
    /\ UNCHANGED <<upstream, answers, epoch, ready, events, pending, view, stale,
                   resolved, agents, start, respond, faults, unheard, overtaken, told>>

\* A turn ends, and with it what it still asks; without a connection nobody is told.
ServerEnds(t) ==
    /\ t \in Running
    /\ upstream' = [upstream EXCEPT ![t] = "over"]
    /\ asked' = [q \in Asks |-> IF asked[q] = "open" THEN "closed" ELSE asked[q]]
    /\ wire' = IF ready THEN Append(wire, Over(t)) ELSE wire
    /\ UNCHANGED <<answers, epoch, ready, events, pending, view, stale, resolved,
                   agents, start, respond, faults, unheard, overtaken, told>>

\* thread/status/changed: active while a turn runs, which the model names and the
\* event does not; idle or failed at any time, also before the end of a turn is told.
ServerSays(st, t) ==
    /\ ready /\ Incident
    /\ IF st = "active" THEN t \in Running ELSE t = None
    /\ said' = said + 1
    /\ wire' = Append(wire, Status(st, t))
    /\ UNCHANGED <<server, epoch, ready, events, left, pending, view, stale, resolved,
                   agents, start, respond, faults, unheard, idled, overtaken>>

-----------------------------------------------------------------------------
(* The connection and the adapter.                                           *)

\* The adapter takes a notification; a request is answerable from here on.
consume ==
    /\ wire # <<>>
    /\ wire' = Tail(wire)
    /\ events' = Append(events, Head(wire))
    /\ pending' = IF Head(wire).kind = "ask" THEN pending \cup {Head(wire).ask} ELSE pending
    /\ UNCHANGED <<server, epoch, ready, view, stale, resolved, agents, start,
                   respond, faults, unheard, overtaken, told>>

\* The connection is lost; what the adapter consumed before still reaches the
\* loop, but the adapter is no longer the current one.
Lose ==
    /\ ready /\ Incident
    /\ ready' = FALSE
    /\ wire' = <<>>
    /\ pending' = {}
    /\ UNCHANGED <<server, epoch, events, view, stale, resolved, agents, start, respond,
                   faults, unheard, overtaken, told>>

\* A new adapter, with a forwardEvents of its own; the old one's goes on.
Reconnect ==
    /\ ~ready
    /\ ready' = TRUE
    /\ epoch' = epoch + 1
    /\ stale' = TRUE
    /\ left' = Append(left, events)
    /\ events' = <<>>
    /\ UNCHANGED <<server, wire, pending, view, resolved, agents, start,
                   respond, faults, said, unheard, idled, overtaken>>

-----------------------------------------------------------------------------
(* StartTurn and InterruptTurn.                                              *)

StartTurn(s) ==
    /\ start[s].pc = "idle" /\ ready /\ view.status = "IDLE"
    /\ start' = [start EXCEPT ![s].pc = "call"]
    /\ UNCHANGED <<server, epoch, ready, wire, events, pending, view, stale,
                   resolved, agents, respond, faults, unheard, overtaken, told>>

\* turn/start: the server starts a turn and answers.
TurnAccepted(s, t) ==
    /\ ready /\ Incident
    /\ \A u \in Turns : upstream[u] = "none" <=> u >= t
    /\ upstream' = [upstream EXCEPT ![t] = "running"]
    /\ wire' = Append(wire, Started(t))
    /\ \/ /\ start' = [start EXCEPT ![s] = [pc |-> "agent", turn |-> t]]
          /\ UNCHANGED <<faults, unheard>>
       \/ /\ Fault      \* the caller gave up first
          /\ start' = [start EXCEPT ![s] = NoStart]
          /\ unheard' = TRUE

\* The connection is lost first, or the server refuses.
TurnNotAccepted(s) ==
    /\ IF ready THEN Fault ELSE UNCHANGED faults
    /\ start' = [start EXCEPT ![s] = NoStart]
    /\ UNCHANGED <<upstream, wire, unheard>>

CallTurnStart(s) ==
    /\ start[s].pc = "call"
    /\ TurnNotAccepted(s) \/ \E t \in Turns : TurnAccepted(s, t)
    /\ UNCHANGED <<asked, answers, epoch, ready, events, pending, view, stale,
                   resolved, agents, respond, overtaken, told>>

\* The end of the turn may be applied before its StartTurn goes on.
GoesOn(s) ==
    overtaken' = (overtaken \/ \/ upstream[start[s].turn] = "over"
                                  /\ \A e \in Range(wire \o events) : e # Over(start[s].turn)
                               \/ stale)

\* A failure is noted and the handler goes on.
WorkspaceAgentStarted(s) ==
    /\ start[s].pc = "agent"
    /\ \/ agents' = agents \cup {start[s].turn} /\ UNCHANGED faults
       \/ Fault /\ UNCHANGED agents
    /\ start' = [start EXCEPT ![s].pc = "run"]
    /\ GoesOn(s)
    /\ UNCHANGED <<server, epoch, ready, wire, events, pending, view, stale,
                   resolved, respond, unheard, told>>

ensureActiveTurn(v, t) == [v EXCEPT !.activeTurn = t]

\* Mutant: the view is taken back when it cannot be saved or published.
setRunning_RolledBack(s) ==
    /\ start[s].pc = "run"
    /\ Fault
    /\ start' = [start EXCEPT ![s] = NoStart]
    /\ GoesOn(s)
    /\ UNCHANGED <<server, epoch, ready, wire, events, pending, view, stale, resolved,
                   agents, respond, unheard, told>>

\* The view is kept in memory when it cannot be saved or published.
setRunning(s) ==
    /\ start[s].pc = "run"
    /\ view' = [ensureActiveTurn(view, start[s].turn) EXCEPT
                   !.status = IF @ = "WAITING" THEN @ ELSE "RUNNING",
                   !.turnId = start[s].turn]
    /\ \/ start' = [start EXCEPT ![s].pc = "message"] /\ UNCHANGED faults
       \/ Fault /\ start' = [start EXCEPT ![s] = NoStart]
    /\ GoesOn(s)
    /\ UNCHANGED <<server, epoch, ready, wire, events, pending, stale, resolved,
                   agents, respond, unheard, told>>

\* Not kept when it cannot be saved.
publishAcceptedUserMessage(s) ==
    /\ start[s].pc = "message"
    /\ \/ view' = ensureActiveTurn(view, start[s].turn) /\ UNCHANGED faults
       \/ Fault /\ UNCHANGED view
    /\ start' = [start EXCEPT ![s] = NoStart]
    /\ GoesOn(s)
    /\ UNCHANGED <<server, epoch, ready, wire, events, pending, stale, resolved,
                   agents, respond, unheard, told>>

\* The client names the turn it sees; the server ends it.
InterruptTurn(t) ==
    view.turnId = t /\ ready /\ ServerEnds(t)

-----------------------------------------------------------------------------
(* RespondApproval and RespondUserInput.  The handler keeps the adapter it   *)
(* looked up; a lookup that misses answers ALREADY_RESOLVED or NOT_FOUND.    *)

\* The second conjunct is no test of the code: a client names a request it was
\* shown, perhaps before Restore took it from the view.
RespondApproval(r, q, d) ==
    /\ respond[r].pc = "idle" /\ ready /\ q \in pending
    /\ q \in view.pending \/ epoch > 0
    /\ respond' = [respond EXCEPT ![r] =
                      [pc |-> "take", ask |-> q, decision |-> d, epoch |-> epoch]]
    /\ UNCHANGED <<server, epoch, ready, wire, events, pending, view, stale,
                   resolved, agents, start, faults, unheard, overtaken, told>>

OwnsAdapter(r) == ready /\ respond[r].epoch = epoch

\* Mutant: the request is looked up and not taken.
takePending_Kept(r) ==
    /\ respond[r].pc = "take"
    /\ respond' = [respond EXCEPT ![r] =
                      IF OwnsAdapter(r) /\ @.ask \in pending THEN [@ EXCEPT !.pc = "write"]
                                                             ELSE NoAnswer]
    /\ UNCHANGED <<server, epoch, ready, wire, events, pending, view, stale, resolved,
                   agents, start, faults, unheard, overtaken, told>>

\* Another responder may have taken it; an old adapter's table cannot be written to.
takePending(r) ==
    /\ respond[r].pc = "take"
    /\ IF OwnsAdapter(r) /\ respond[r].ask \in pending
       THEN /\ pending' = pending \ {respond[r].ask}
            /\ respond' = [respond EXCEPT ![r].pc = "write"]
       ELSE /\ respond' = [respond EXCEPT ![r] = NoAnswer]
            /\ UNCHANGED pending
    /\ UNCHANGED <<server, epoch, ready, wire, events, view, stale, resolved,
                   agents, start, faults, unheard, overtaken, told>>

\* client.Respond; when it fails the request goes back to the table it came from.
Respond(r) ==
    /\ respond[r].pc = "write"
    /\ LET q == respond[r].ask IN
       \/ /\ OwnsAdapter(r)
          /\ answers' = [answers EXCEPT ![q] = Append(@, respond[r].decision)]
          /\ asked' = [asked EXCEPT ![q] = "closed"]
          /\ respond' = [respond EXCEPT ![r].pc = "save"]
          /\ UNCHANGED <<pending, faults>>
       \/ /\ IF OwnsAdapter(r) THEN Fault /\ pending' = pending \cup {q}
                               ELSE UNCHANGED <<pending, faults>>
          /\ respond' = [respond EXCEPT ![r] = NoAnswer]
          /\ UNCHANGED <<asked, answers>>
    /\ UNCHANGED <<upstream, epoch, ready, wire, events, view, stale, resolved,
                   agents, start, unheard, overtaken, told>>

Answered(v, q) ==
    LET others == v.pending \ {q} IN
    [v EXCEPT !.pending = others,
              !.status = CASE others # {} -> @
                           [] v.activeTurn # None -> "RUNNING"
                           [] OTHER -> "IDLE"]

\* Nothing is changed when the row cannot be written; the view is changed in
\* memory when only it cannot be saved or published.
resolvePending(r) ==
    /\ respond[r].pc = "save"
    /\ \/ /\ resolved' = [resolved EXCEPT ![respond[r].ask] = respond[r].decision]
          /\ view' = Answered(view, respond[r].ask)
          /\ UNCHANGED faults
       \/ Fault /\ UNCHANGED <<resolved, view>>
    /\ respond' = [respond EXCEPT ![r] = NoAnswer]
    /\ overtaken' = (overtaken \/ respond[r].epoch # epoch)
    /\ UNCHANGED <<server, epoch, ready, wire, events, pending, stale, agents, start,
                   unheard, told>>

-----------------------------------------------------------------------------
(* The event loop, and Restore.                                              *)

\* Mutant: a request is shown without asking the current adapter for it.
EventView_Unchecked(e) ==
    {IF e.kind = "ask" THEN [view EXCEPT !.pending = @ \cup {e.ask}, !.status = "WAITING"]
                       ELSE view}

\* Mutant: only the end of the turn the view names ends it.
EventView_OwnTurn(e) ==
    {CASE e.kind = "started" -> ensureActiveTurn(view, e.turn)
       [] e.kind = "over" /\ e.turn = view.turnId ->
             [view EXCEPT !.status = "IDLE", !.turnId = None, !.activeTurn = None]
       [] OTHER -> view}

\* What the app-server says of the thread as a whole.
applyCodexParams(e) ==
    [view EXCEPT !.status = CASE e.kind = "idle" -> "IDLE"
                              [] e.kind = "active" -> IF @ = "IDLE" THEN "RUNNING" ELSE @
                              [] OTHER -> "ERROR"]

\* A request the current adapter does not know is refused.
EventView(e) ==
    CASE e.kind = "started" -> {ensureActiveTurn(view, e.turn)}
      [] e.kind = "ask" -> {IF ready /\ e.ask \in pending
                            THEN [view EXCEPT !.pending = @ \cup {e.ask}, !.status = "WAITING"]
                            ELSE view}
      [] e.kind = "over" -> {[view EXCEPT !.status = st, !.turnId = None, !.activeTurn = None] :
                                st \in {"IDLE", "ERROR"}}
      [] OTHER -> {applyCodexParams(e)}

\* When the view cannot be saved or published the agent is not stopped.
Applied(e) ==
    /\ view' \in EventView(e)
    /\ \/ agents' = (IF e.kind = "over" THEN agents \ {e.turn} ELSE agents) /\ UNCHANGED faults
       \/ Fault /\ UNCHANGED agents
    /\ idled' = (idled \/ (e.kind \in {"idle", "over"} /\ Running # {}))
    /\ UNCHANGED <<server, epoch, ready, wire, pending, stale, resolved, start, respond,
                   said, unheard>>

applyAdapterEvent ==
    \/ /\ events # <<>> /\ Applied(Head(events))
       /\ events' = Tail(events)
       /\ UNCHANGED <<left, overtaken>>
    \/ \E k \in DOMAIN left :
          /\ left[k] # <<>> /\ Applied(Head(left[k]))
          /\ left' = [left EXCEPT ![k] = Tail(@)]
          /\ overtaken' = (overtaken \/ ~stale)
          /\ UNCHANGED events

\* The runtime is Ready again: the view is rebuilt from the thread the
\* app-server returns; only its last turn can be running.  When it cannot be read an
\* agent stays for the turn that was saved, None (restore-unknown) if only its number was.
LastIsRunning == \E t \in Running : \A u \in Turns : u > t => upstream[u] = "none"

restoreLocked ==
    /\ stale /\ ready
    /\ stale' = FALSE
    /\ \/ /\ view' = [status |-> IF LastIsRunning THEN "UNAVAILABLE" ELSE "IDLE",
                      turnId |-> None, activeTurn |-> None, pending |-> {}]
          /\ agents' = {t \in Running : LastIsRunning /\ \A u \in Running : u <= t}
          /\ UNCHANGED faults
       \/ /\ Fault
          /\ view' = [status |-> "UNAVAILABLE", turnId |-> None, activeTurn |-> None,
                      pending |-> {}]
          /\ agents' = IF view.turnId # None \/ agents # {} THEN {view.turnId} ELSE {}
    /\ UNCHANGED <<server, epoch, ready, wire, events, pending, resolved, start, respond,
                   unheard, overtaken, told>>

-----------------------------------------------------------------------------
Init ==
    /\ upstream = [t \in Turns |-> "none"] /\ asked = [q \in Asks |-> "no"]
    /\ answers = [q \in Asks |-> <<>>]
    /\ epoch = 0 /\ ready = TRUE /\ stale = FALSE
    /\ wire = <<>> /\ events = <<>> /\ left = <<>> /\ pending = {}
    /\ view = [status |-> "IDLE", turnId |-> None, activeTurn |-> None, pending |-> {}]
    /\ resolved = [q \in Asks |-> None] /\ agents = {}
    /\ start = [s \in Starters |-> NoStart] /\ respond = [r \in Responders |-> NoAnswer]
    /\ faults = 0 /\ said = 0 /\ unheard = FALSE /\ idled = FALSE /\ overtaken = FALSE

StartStep(s) ==
    \/ StartTurn(s) \/ CallTurnStart(s) \/ WorkspaceAgentStarted(s) \/ setRunning(s)
    \/ publishAcceptedUserMessage(s)

RespondStep(r) == takePending(r) \/ Respond(r) \/ resolvePending(r)

Next ==
    \/ \E q \in Asks, t \in Turns : ServerAsks(q, t)
    \/ \E t \in Turns : ServerEnds(t) \/ InterruptTurn(t)
    \/ \E st \in {"active", "idle", "error"}, t \in Turns \cup {None} : ServerSays(st, t)
    \/ consume \/ Lose \/ Reconnect
    \/ \E s \in Starters : StartStep(s)
    \/ \E r \in Responders :
          RespondStep(r) \/ \E q \in Asks, d \in Decisions : RespondApproval(r, q, d)
    \/ applyAdapterEvent \/ restoreLocked

Spec == Init /\ [][Next]_vars

-----------------------------------------------------------------------------
(* Properties.                                                               *)

\* Types of the app-server's, the adapter's, the handlers' and the view's state.
TypeOK ==
    /\ upstream \in [Turns -> {"none", "running", "over"}]
    /\ asked \in [Asks -> {"no", "open", "closed"}] /\ answers \in [Asks -> Seq(Decisions)]
    /\ epoch \in Nat /\ faults \in Nat /\ said \in Nat
    /\ {ready, stale} \subseteq BOOLEAN
    /\ wire \in Seq(Notes) /\ events \in Seq(Notes) /\ left \in Seq(Seq(Notes))
    /\ view \in Views
    /\ pending \subseteq Asks /\ agents \subseteq Turns \cup {None}
    /\ resolved \in [Asks -> Decisions \cup {None}]
    /\ start \in [Starters -> Starts] /\ respond \in [Responders -> Responses]
    /\ \A r \in Responders : respond[r].epoch <= epoch

\* Two clients answer one approval: the app-server gets one answer, and what the
\* Host records as the decision is the one it got.
AnsweredOnce ==
    \A q \in Asks : /\ Len(answers[q]) <= 1
                    /\ resolved[q] # None => answers[q] = <<resolved[q]>>

\* A request a client sees can be answered, or is being answered, unless the row of
\* an answer could not be written or the view awaits Restore.  Until the connection
\* is lost, a request the adapter can answer is shown once its event was applied:
\* neither the answer to turn/start nor that to another request hides it.
PendingAgrees ==
    /\ ready /\ ~stale /\ faults = 0 =>
          \A q \in view.pending : q \in pending
              \/ \E r \in Responders : respond[r].ask = q /\ respond[r].pc \in {"write", "save"}
    /\ epoch = 0 =>
          \A q \in pending : q \in view.pending \/ \E i \in DOMAIN events : events[i].ask = q

\* setRunning keeps the running view even when it cannot be saved, so a retry
\* starts no second turn: a client that waits for each StartTurn has one turn at
\* a time, while the connection lasts and each turn/start answer arrives.  Unless an
\* event made the Codex idle while a turn ran: an "idle" the app-server sent before
\* that turn, or before the end of the last one, is applied when it comes.
OneTurn == epoch = 0 /\ ~unheard /\ ~idled => \A t, u \in Running : t = u

Quiet ==
    /\ wire = <<>> /\ events = <<>> /\ (\A k \in DOMAIN left : left[k] = <<>>) /\ ready /\ ~stale
    /\ \A s \in Starters : start[s].pc = "idle"
    /\ \A r \in Responders : respond[r].pc = "idle"

\* When every turn is over and every notification applied, the Codex is idle or shows
\* an error, no turn can be interrupted and the workspace is free; also after a
\* reconnection, whether Restore found the last turn running or over.  Unless the end
\* of a turn was applied before the StartTurn that began it went on, a reconnection
\* overtook a handler, or an event of an earlier connection was applied after Restore.
EndedTurnUnblocks ==
    Quiet /\ Running = {} /\ faults = 0 /\ ~overtaken =>
        view.status \in {"IDLE", "ERROR"} /\ view.turnId = None /\ agents = {}
=============================================================================
