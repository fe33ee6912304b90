------------------------------ MODULE Workspace ------------------------------
(***************************************************************************)
(* The workspace of one Codex: Register, Unregister, AgentStarted,         *)
(* AgentStopped, RestoreAgent, WriteText and Upload of                     *)
(* internal/workspace/service.go, and the state sink commitWorkspaceState  *)
(* of internal/codex/workspace.go with the part of Restore that rebuilds   *)
(* the access state.                                                       *)
(*                                                                         *)
(* An operation changes ws.state under ws.coordinator, marks itself        *)
(* pending, releases the coordinator and only then calls the sink, which   *)
(* waits for Manager.commitMu.  Others wait for the pending operation;     *)
(* Restore, which holds commitMu all along, does not.                      *)
(***************************************************************************)
EXTENDS Naturals, FiniteSets

CONSTANTS
    Agents,         \* agent ids: the turn and the subagents
    Callers,        \* goroutines that report agents: StartTurn, the event loop
    Requests,       \* WriteText and Upload requests, all to one path
    None,
    MaxGen,         \* bound: no operation starts at this generation
    MaxFaults,      \* bound: how many failures and crashes happen
    MaxRestores     \* bound: how often the runtime is Ready again

ASSUME NoneAssumption == None \notin Callers \cup Requests
ASSUME CallersAssumption == Callers \cap Requests = {}
ASSUME AgentsAssumption == IsFiniteSet(Agents)
ASSUME BoundsAssumption ==
    MaxGen \in Nat /\ MaxFaults \in Nat /\ MaxRestores \in Nat

VARIABLES
    host,       \* "up" or "down"
    ws,         \* workspaceState: state, agentIDs, pending, removed
    coord,      \* who holds ws.coordinator from one step to the next
    commitMu,   \* "free", or held by Restore (two steps) or ForgetCodex
    restored,   \* the access state of the view Restore builds, None before
    view,       \* the access state in m.byID, None once forgotten
    row,        \* the access state in the codexes row
    file,       \* what the target path holds: a request's content, "orig", None
    call,       \* the operation each caller and request is in
    fresh,      \* the app-server has not written the thread yet: it has had no turn
    clock,      \* stamps given out so far
    faults, restores,
    left,       \* contents of rollback files that nobody moves back
    promised,   \* history: the contents the answers let a client expect in the target
    stuck,      \* history: refused content could not be removed from the target
    overlapped, \* history: a request started while another one undid its own
    overtaken,  \* history: Restore kept a state whose commit had been refused
    doubt,      \* history: the view was kept in memory and maybe not saved
    spent       \* history: the tokens of acknowledged requests

kept == <<left, promised, stuck>>
vars == <<host, ws, coord, commitMu, restored, view, row, file, call, fresh,
          clock, faults, restores, kept, overlapped, overtaken, doubt, spent>>

-----------------------------------------------------------------------------
Procs == Callers \cup Requests
Contents == Requests \cup {"orig", None}

\* WorkspaceAccessState.  The code sets the status to BUSY, with no token,
\* exactly when agents are left, and makes a new token whenever it stamps an
\* ALLOWED state: the stamp stands for the time and for the token.
Access == [gen : Nat, count : Nat, at : Nat]
ASSUME NoStateAssumption == None \notin Access
NoToken == 0
QuiescenceToken(s) == IF s.count = 0 THEN s.at ELSE NoToken

Workspaces == [state : Access, agents : SUBSET Agents,
               pending : Procs \cup {None}, removed : BOOLEAN]

\* An operation: at "emit" it waits for the sink, at "ok", "failed" and
\* "unknown" the sink has answered, at "undo" it restores the target.
Steps == {"idle", "staged", "emit", "ok", "failed", "unknown", "undo", "done"}
Kinds == {"none", "start", "stop", "write", "zip"}
Calls == [pc : Steps, kind : Kinds, agent : Agents \cup {None}, backup : Contents,
          previous : Access \cup {None}, state : Access \cup {None}, token : Nat, seen : Contents]
NoCall == [pc |-> "idle", kind |-> "none", agent |-> None, backup |-> None,
           previous |-> None, state |-> None, token |-> NoToken, seen |-> None]

\* The rollback file of a request, when there was a target.
Backup(r) == {call[r].backup} \ {None}

Busy(p) == call[p].pc \notin {"idle", "done"}

Fault == faults < MaxFaults /\ faults' = faults + 1

\* The state after a transition that leaves these agents.
Advanced(agents) ==
    [gen |-> ws.state.gen + 1, count |-> Cardinality(agents), at |-> clock + 1]

-----------------------------------------------------------------------------
(* Entering.  A request that is refused changes nothing: no step.            *)

\* Mutant: enters beside a holder of the coordinator.
lockMutationCoordinator_Shared == host = "up" /\ ~ws.removed /\ ws.pending = None

lockMutationCoordinator ==
    host = "up" /\ ~ws.removed /\ coord = None /\ ws.pending = None

Transition(c, kind, a, agents) ==
    /\ call[c].pc = "idle" /\ lockMutationCoordinator /\ ws.state.gen < MaxGen
    /\ ws' = [ws EXCEPT !.state = Advanced(agents), !.agents = agents, !.pending = c]
    /\ clock' = clock + 1
    /\ call' = [call EXCEPT ![c] = [NoCall EXCEPT !.pc = "emit", !.kind = kind,
                    !.agent = a, !.previous = ws.state, !.state = Advanced(agents)]]
    /\ UNCHANGED <<host, coord, commitMu, restored, view, row, file, faults,
                   restores, kept, overlapped, overtaken, doubt, spent>>

AgentStarted(c, a) ==
    a \notin ws.agents /\ Transition(c, "start", a, ws.agents \cup {a}) /\ fresh' = FALSE

AgentStopped(c, a) ==
    a \in ws.agents /\ Transition(c, "stop", a, ws.agents \ {a}) /\ UNCHANGED fresh

\* What a client asks before it writes: neither waits for a pending operation.
GetWorkspace(r) ==
    /\ call[r].pc = "idle" /\ host = "up" /\ ~ws.removed /\ coord = None
    /\ call' = [call EXCEPT ![r].token = QuiescenceToken(ws.state)]
    /\ UNCHANGED <<host, ws, coord, commitMu, restored, view, row, file, clock,
                   faults, restores, kept, overlapped, overtaken, doubt, spent, fresh>>

ReadText(r) ==
    /\ call[r].pc = "idle" /\ host = "up" /\ ~ws.removed /\ coord = None
    /\ call' = [call EXCEPT ![r].seen = file]
    /\ UNCHANGED <<host, ws, coord, commitMu, restored, view, row, file, clock,
                   faults, restores, kept, overlapped, overtaken, doubt, spent, fresh>>

validateMutationState(token) ==
    ws.state.count = 0 /\ token # NoToken /\ token = QuiescenceToken(ws.state)

\* An UPSERT without a revision is a "create", one with a revision a "replace".
validateMutationTarget(kind, seen) ==
    /\ kind = "create" => file = None
    /\ kind = "replace" => file # None /\ file = seen

\* The target is moved away, under the coordinator.
stageTarget(r, kind) ==
    /\ call[r].pc = "idle" /\ lockMutationCoordinator /\ ws.state.gen < MaxGen
    /\ validateMutationState(call[r].token)
    /\ validateMutationTarget(kind, call[r].seen)
    /\ coord' = r
    /\ file' = None
    /\ call' = [call EXCEPT ![r] = [@ EXCEPT !.pc = "staged", !.backup = file, !.seen = None,
                                            !.kind = IF kind = "zip" THEN "zip" ELSE "write"]]
    /\ overlapped' = (overlapped \/ \E q \in Requests : call[q].pc = "undo")
    /\ UNCHANGED <<host, ws, commitMu, restored, view, row, clock, faults,
                   restores, kept, overtaken, doubt, spent, fresh>>

\* Mutant: the generation advances and the token stays.
atomicFile_KeepsToken(r) ==
    LET s == [ws.state EXCEPT !.gen = @ + 1] IN
    /\ call[r].pc = "staged" /\ host = "up"
    /\ file' = r
    /\ ws' = [ws EXCEPT !.state = s, !.pending = r]
    /\ coord' = None
    /\ call' = [call EXCEPT ![r] = [@ EXCEPT !.pc = "emit", !.previous = ws.state, !.state = s]]
    /\ UNCHANGED <<host, commitMu, restored, view, row, clock, faults, restores,
                   kept, overlapped, overtaken, doubt, spent, fresh>>

\* The content arrives by one rename; then the generation and token advance.
atomicFile(r) ==
    /\ call[r].pc = "staged" /\ host = "up"
    /\ file' = r
    /\ ws' = [ws EXCEPT !.state = Advanced(ws.agents), !.pending = r]
    /\ coord' = None
    /\ clock' = clock + 1
    /\ call' = [call EXCEPT ![r] = [@ EXCEPT !.pc = "emit", !.previous = ws.state,
                                            !.state = Advanced(ws.agents)]]
    /\ UNCHANGED <<host, commitMu, restored, view, row, faults, restores,
                   kept, overlapped, overtaken, doubt, spent, fresh>>

\* The archive is not acceptable; or the disk fails, and the content does not
\* arrive or arrives and cannot be described.
NotWritten(r) ==
    /\ call[r].pc = "staged" /\ host = "up"
    /\ \/ call[r].kind = "zip" /\ UNCHANGED <<file, faults>>
       \/ Fault /\ file' \in {file, r}
    /\ coord' = None
    /\ call' = [call EXCEPT ![r].pc = "undo"]
    /\ UNCHANGED <<host, ws, commitMu, restored, view, row, clock,
                   restores, kept, overlapped, overtaken, doubt, spent, fresh>>

-----------------------------------------------------------------------------
(* The sink.                                                                 *)

Answer(p, a) == call' = [call EXCEPT ![p].pc = a]

\* The codex is forgotten; or Restore has built, or saved, this or a newer state.
Adopted(p) ==
    LET s == call[p].state IN
    /\ \/ view = None /\ Answer(p, "failed")
       \/ view # None /\ view.gen > s.gen /\ Answer(p, "ok")
       \/ view = s /\ row = s /\ Answer(p, "ok")
    /\ UNCHANGED <<view, row, doubt, faults>>

\* Mutant: a delayed transition overwrites what Restore built meanwhile.
Published_Overwrites(p) ==
    /\ view # None
    /\ row' = call[p].state
    /\ view' = call[p].state
    /\ Answer(p, "ok")
    /\ UNCHANGED <<doubt, faults>>

Published(p) ==
    /\ view # None /\ view.gen <= call[p].state.gen
    /\ row' = call[p].state
    /\ view' = call[p].state
    /\ Answer(p, "ok")
    /\ UNCHANGED <<doubt, faults>>

\* Mutant: the row is not read back.
NotPublished_Believed(p) ==
    LET s == call[p].state IN
    /\ view # None /\ view.gen <= s.gen
    /\ Fault
    /\ row' \in {row, s}
    /\ view' = s
    /\ Answer(p, "ok")
    /\ UNCHANGED doubt

\* The publish fails; or its outcome is unknown and the row tells, or cannot
\* be read.
NotPublished(p) ==
    LET s == call[p].state IN
    /\ view # None /\ view.gen <= s.gen
    /\ Fault
    /\ \/ Answer(p, "failed") /\ UNCHANGED <<view, row, doubt>>
       \/ /\ row' \in {row, s}
          /\ view' = row'
          /\ Answer(p, IF row' = s THEN "ok" ELSE "failed")
          /\ UNCHANGED doubt
       \/ /\ row' \in {row, s}
          /\ view' = s
          /\ doubt' = TRUE
          /\ Answer(p, "unknown")

commitWorkspaceState(p) ==
    /\ host = "up" /\ commitMu = "free" /\ call[p].pc = "emit"
    /\ Adopted(p) \/ Published(p) \/ NotPublished(p)
    /\ UNCHANGED <<host, ws, coord, commitMu, restored, file, clock, restores,
                   kept, overlapped, overtaken, spent, fresh>>

\* Another handler saves the whole view under commitMu.
persistState ==
    /\ host = "up" /\ commitMu = "free" /\ view # None /\ row # view
    /\ row' = view
    /\ UNCHANGED <<host, ws, coord, commitMu, restored, view, file, call, clock,
                   faults, restores, kept, overlapped, overtaken, doubt, spent, fresh>>

-----------------------------------------------------------------------------
(* After the sink.                                                           *)

finishPending(p) == IF ws.pending = p THEN None ELSE ws.pending

\* Mutant: nothing is taken back.
rollbackState_Kept(p) == [ws EXCEPT !.pending = finishPending(p)]

\* A refused transition is taken back unless Restore has moved on from it.
rollbackState(p) ==
    LET c == call[p] IN
    IF c.pc = "failed" /\ ws.state = c.state
    THEN [ws EXCEPT !.state = c.previous, !.pending = finishPending(p),
                    !.agents = CASE c.kind = "start" -> @ \ {c.agent}
                                 [] c.kind = "stop" -> @ \cup {c.agent}
                                 [] OTHER -> @]
    ELSE [ws EXCEPT !.pending = finishPending(p)]

\* ... but Restore may have kept the very state that is taken back.
Overtaken(p) ==
    overtaken \/ (/\ call[p].pc = "failed" /\ ws.state = call[p].state
                  /\ call[p].state \in {view, restored})

AgentDone(c) ==
    /\ host = "up" /\ call[c].pc \in {"ok", "failed", "unknown"}
    /\ ws' = rollbackState(c)
    /\ call' = [call EXCEPT ![c] = NoCall]
    /\ overtaken' = Overtaken(c)
    /\ UNCHANGED <<host, coord, commitMu, restored, view, row, file, clock,
                   faults, restores, kept, overlapped, doubt, spent, fresh>>

\* The backup is discarded, or stays, and the client is answered.
MutationDone(r) ==
    /\ host = "up" /\ call[r].pc \in {"ok", "unknown"}
    /\ ws' = rollbackState(r)
    /\ call' = [call EXCEPT ![r] = [NoCall EXCEPT !.pc = "done"]]
    /\ promised' = {r} /\ stuck' = FALSE
    /\ \/ UNCHANGED <<left, faults>>
       \/ Backup(r) # {} /\ Fault /\ left' = left \cup Backup(r)
    /\ spent' = IF call[r].pc = "ok" THEN spent \cup {call[r].token} ELSE spent
    /\ UNCHANGED <<host, coord, commitMu, restored, view, row, file, clock,
                   restores, overlapped, overtaken, doubt, fresh>>

\* Mutant: the target keeps the refused content.
MutationRefused_NoUndo(r) ==
    /\ host = "up" /\ call[r].pc = "failed"
    /\ ws' = rollbackState(r)
    /\ call' = [call EXCEPT ![r] = [NoCall EXCEPT !.pc = "done"]]
    /\ overtaken' = Overtaken(r)
    /\ UNCHANGED <<host, coord, commitMu, restored, view, row, file, clock,
                   faults, restores, kept, overlapped, doubt, spent, fresh>>

MutationRefused(r) ==
    /\ host = "up" /\ call[r].pc = "failed"
    /\ ws' = rollbackState(r)
    /\ call' = [call EXCEPT ![r].pc = "undo"]
    /\ overtaken' = Overtaken(r)
    /\ UNCHANGED <<host, coord, commitMu, restored, view, row, file, clock,
                   faults, restores, kept, overlapped, doubt, spent, fresh>>

\* backup.rollback, after the coordinator and the pending mark are released:
\* the target is removed and the backup moved back; each may fail.
rollbackMutation(r) ==
    /\ host = "up" /\ call[r].pc = "undo"
    /\ call' = [call EXCEPT ![r] = [NoCall EXCEPT !.pc = "done"]]
    /\ \/ file' = call[r].backup /\ UNCHANGED <<left, stuck, faults>>
       \/ /\ Fault /\ file' \in {file, None}
          /\ left' = left \cup Backup(r)
          /\ stuck' = (stuck \/ file' # None)
    /\ UNCHANGED <<host, ws, coord, commitMu, restored, view, row, clock,
                   restores, promised, overlapped, overtaken, doubt, spent, fresh>>

-----------------------------------------------------------------------------
(* Restore, Forget and the end of the process.                               *)

\* Agents of the saved state are gone: it is rebuilt as ALLOWED.  The view of
\* a thread that is not materialized yet is rebuilt without the saved state.
Rebuilt ==
    IF fresh THEN [gen |-> 1, count |-> 0, at |-> clock + 1]
    ELSE IF row.count = 0 THEN row
    ELSE [gen |-> row.gen + 1, count |-> 0, at |-> clock + 1]

\* The runtime is Ready, or the Host starts: the saved rows are read.
restoreLocked ==
    /\ commitMu = "free" /\ row # None
    /\ \/ host = "up" /\ restores < MaxRestores /\ restores' = restores + 1
       \/ host = "down" /\ UNCHANGED restores
    /\ commitMu' = "restoring"
    /\ UNCHANGED <<host, ws, coord, restored, view, row, file, call, clock, faults,
                   kept, overlapped, overtaken, doubt, spent, fresh>>

\* Mutant: Restore, too, waits for the pending operation.
Register_WaitsPending ==
    /\ commitMu = "restoring" /\ coord = None /\ (host = "up" => ws.pending = None)
    /\ ws' = IF host = "down"
             THEN [state |-> Rebuilt, agents |-> {}, pending |-> None, removed |-> FALSE]
             ELSE IF ws.state.gen < Rebuilt.gen
             THEN [ws EXCEPT !.state = Rebuilt, !.agents = {}] ELSE ws
    /\ commitMu' = "restore"
    /\ restored' = ws'.state
    /\ clock' = clock + 1
    /\ UNCHANGED <<host, coord, view, row, file, call, faults, restores, kept,
                   overlapped, overtaken, doubt, spent, fresh>>

Register ==
    /\ commitMu = "restoring" /\ coord = None
    /\ \/ /\ host = "up"
          /\ ws' = IF ws.state.gen < Rebuilt.gen
                   THEN [ws EXCEPT !.state = Rebuilt, !.agents = {}] ELSE ws
       \/ /\ host = "down"
          /\ ws' = [state |-> Rebuilt, agents |-> {}, pending |-> None, removed |-> FALSE]
    /\ commitMu' = "restore"
    /\ restored' = ws'.state
    /\ clock' = clock + 1
    /\ UNCHANGED <<host, coord, view, row, file, call, faults, restores, kept,
                   overlapped, overtaken, doubt, spent, fresh>>

\* An agent the thread shows running, or restore-unknown.
RestoreAgent(a) ==
    /\ commitMu = "restore" /\ coord = None /\ ~fresh
    /\ a \notin ws.agents /\ ws.state.gen < MaxGen
    /\ ws' = [ws EXCEPT !.state = Advanced(ws.agents \cup {a}), !.agents = @ \cup {a}]
    /\ restored' = ws'.state
    /\ clock' = clock + 1
    /\ UNCHANGED <<host, coord, commitMu, view, row, file, call, faults,
                   restores, kept, overlapped, overtaken, doubt, spent, fresh>>

\* registerRestored, then persistState; a failed save ends the Host's start.
registerRestored ==
    /\ commitMu = "restore"
    /\ commitMu' = "free"
    /\ view' = restored
    /\ restored' = None
    /\ \/ row' = restored /\ host' = "up" /\ UNCHANGED <<doubt, faults>>
       \/ Fault /\ doubt' = TRUE /\ UNCHANGED <<row, host>>
    /\ UNCHANGED <<ws, coord, file, call, clock, restores, kept, overlapped, overtaken,
                   spent, fresh>>

ForgetCodex ==
    /\ host = "up" /\ commitMu = "free" /\ view # None
    /\ commitMu' = "forget"
    /\ view' = None
    /\ row' = None
    /\ UNCHANGED <<host, ws, coord, restored, file, call, clock, faults, restores,
                   kept, overlapped, overtaken, doubt, spent, fresh>>

Unregister ==
    /\ commitMu = "forget" /\ coord = None
    /\ commitMu' = "free"
    /\ ws' = [ws EXCEPT !.removed = TRUE]
    /\ UNCHANGED <<host, coord, restored, view, row, file, call, clock, faults,
                   restores, kept, overlapped, overtaken, doubt, spent, fresh>>

\* Operations end without an answer; the files, the rollback files too, and the
\* row stay as they are.
Crash ==
    /\ host = "up" \/ commitMu # "free"
    /\ Fault
    /\ host' = "down"
    /\ coord' = None
    /\ commitMu' = "free"
    /\ restored' = None
    /\ view' = None
    /\ ws' = [ws EXCEPT !.pending = None]
    /\ call' = [p \in Procs |-> IF p \in Callers THEN NoCall
                                ELSE IF Busy(p) THEN [NoCall EXCEPT !.pc = "done"]
                                ELSE call[p]]
    /\ left' = left \cup UNION {Backup(r) : r \in {q \in Requests : Busy(q)}}
    /\ promised' = promised \cup {r \in Requests : Busy(r)}
    /\ UNCHANGED <<row, file, clock, stuck, restores, overlapped, overtaken, doubt, spent, fresh>>

-----------------------------------------------------------------------------
Init ==
    LET s == [gen |-> 1, count |-> 0, at |-> 1] IN
    /\ host = "up" /\ coord = None /\ commitMu = "free" /\ restored = None
    /\ ws = [state |-> s, agents |-> {}, pending |-> None, removed |-> FALSE]
    /\ view = s /\ row = s
    /\ file \in {"orig", None} /\ promised = {file} /\ left = {} /\ stuck = FALSE
    /\ call = [p \in Procs |-> NoCall] /\ fresh \in BOOLEAN
    /\ clock = 1 /\ faults = 0 /\ restores = 0
    /\ overlapped = FALSE /\ overtaken = FALSE /\ doubt = FALSE /\ spent = {}

AgentNext(c) ==
    \/ \E a \in Agents : AgentStarted(c, a) \/ AgentStopped(c, a)
    \/ commitWorkspaceState(c)
    \/ AgentDone(c)

RequestStep(r) ==
    \/ atomicFile(r) \/ NotWritten(r)
    \/ commitWorkspaceState(r)
    \/ MutationDone(r) \/ MutationRefused(r) \/ rollbackMutation(r)

RequestNext(r) ==
    \/ GetWorkspace(r) \/ ReadText(r)
    \/ \E k \in {"create", "replace", "upload", "zip"} : stageTarget(r, k)
    \/ RequestStep(r)

Next ==
    \/ \E c \in Callers : AgentNext(c)
    \/ \E r \in Requests : RequestNext(r)
    \/ persistState
    \/ restoreLocked \/ Register \/ (\E a \in Agents : RestoreAgent(a)) \/ registerRestored
    \/ ForgetCodex \/ Unregister
    \/ Crash

Spec == Init /\ [][Next]_vars

\* Goroutines that are not blocked run on, and Go's mutexes are fair.
FairSpec ==
    /\ Spec
    /\ \A c \in Callers : WF_vars(commitWorkspaceState(c)) /\ WF_vars(AgentDone(c))
    /\ \A r \in Requests : WF_vars(RequestStep(r))
    /\ WF_vars(Register) /\ WF_vars(registerRestored) /\ WF_vars(Unregister)

-----------------------------------------------------------------------------
(* Properties.                                                               *)

\* Types of the state of the workspace service, the sink and the row.
TypeOK ==
    /\ host \in {"up", "down"} /\ commitMu \in {"free", "restoring", "restore", "forget"}
    /\ ws \in Workspaces
    /\ coord \in Requests \cup {None}
    /\ {restored, view, row} \subseteq Access \cup {None}
    /\ file \in Contents /\ promised \subseteq Contents /\ left \subseteq Contents
    /\ call \in [Procs -> Calls]
    /\ clock \in Nat /\ faults \in Nat /\ restores \in Nat /\ spent \subseteq Nat
    /\ {fresh, overlapped, overtaken, doubt} \subseteq BOOLEAN /\ stuck \in BOOLEAN

\* While a write or upload has the target moved away no agent is registered,
\* nothing is pending and its token is still the current one, whatever
\* transitions and restores run beside it.
MutationIsExclusive ==
    \A r \in Requests : call[r].pc = "staged" =>
        /\ coord = r /\ ws.agents = {} /\ ws.pending = None
        /\ call[r].token = QuiescenceToken(ws.state)

AtRest == host = "up" /\ commitMu = "free" /\ \A p \in Procs : ~Busy(p)

\* With no operation under way the workspace service, the view a RESET is made
\* of and the saved row have the same access state, unless the Host could not
\* learn what was saved.
StatesAgree ==
    AtRest /\ view # None /\ ~overtaken /\ ~doubt => ws.state = view /\ row = view

\* With no request under way the target holds what the answers say: the content of
\* the last request that was acknowledged, or of one the Host died in before it
\* answered.  When the Host died while the target was moved away, or moving it back
\* failed, the target is missing and that content lies in a rollback file beside it.
\* A request that starts while another one restores the target voids this, and so
\* does refused content that could not be removed.
FileMatchesAnswers ==
    AtRest /\ ~overlapped /\ ~stuck =>
        file \in promised \/ (file = None /\ promised \cap left # {})

\* Once the app-server has written the thread, the saved generation never goes
\* back, and never stands for two states, unless Restore kept a state whose
\* commit had been refused.
GenerationAdvances ==
    [][~overtaken' /\ ~fresh /\ row # None /\ row' # None /\ row' # row => row'.gen > row.gen]_vars

\* A quiescence token is good for one acknowledged mutation, also across a
\* restart, unless a Restore that could not save came before, or a publish whose
\* outcome is unknown and whose row could not be read.
TokenSpentOnce ==
    [][\A r \in Requests : call[r].pc = "ok" /\ call'[r].pc = "done" /\ host' = "up"
            => doubt \/ call[r].token \notin spent]_vars

\* An operation the sink acknowledges is durable, in its own or a newer state,
\* unless a Restore that could not save came before, or a publish whose outcome is
\* unknown and whose row could not be read.
AcknowledgedIsDurable ==
    [][\A p \in Procs : call[p].pc = "emit" /\ call'[p].pc = "ok" /\ row' # None
            => doubt \/ row'.gen >= call[p].state.gen]_vars

\* Every operation, every Restore and every Forget ends: none of them waits for
\* the pending mark, the coordinator or commitMu in a circle.
WorkEnds ==
    /\ \A p \in Procs : Busy(p) ~> ~Busy(p)
    /\ commitMu # "free" ~> commitMu = "free"
=============================================================================
