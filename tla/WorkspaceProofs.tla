--------------------------- MODULE WorkspaceProofs ---------------------------
(***************************************************************************)
(* Proofs about Workspace, for any number of agents, callers, requests,     *)
(* failures and restores.                                                   *)
(***************************************************************************)
EXTENDS Workspace, FiniteSetTheorems, TLAPS

\* Zenon proves a step unless the step names SMT.
USE Zenon DEF kept

Waits(p) == call[p].pc \in {"emit", "ok", "failed", "unknown"}

\* The agents that taking back p's transition leaves.
Undone(p) ==
    CASE call[p].kind = "start" -> ws.agents \ {call[p].agent}
      [] call[p].kind = "stop" -> ws.agents \cup {call[p].agent}
      [] OTHER -> ws.agents

\* The registered agents are the ones the state counts, also after a refused
\* transition is taken back: either its state is still there, with its agents, or
\* Restore has put a later generation in its place.
Counted ==
    /\ ws.state.count = Cardinality(ws.agents)
    /\ \A p \in Procs : Waits(p) =>
          /\ ws.pending = p
          /\ call[p].state \in Access /\ call[p].previous \in Access
          /\ call[p].state.gen <= ws.state.gen
          /\ ws.state = call[p].state => call[p].previous.count = Cardinality(Undone(p))

\* A call that names no agent takes none back.
Agented == \A p \in Procs : call[p].kind = "stop" => call[p].agent \in Agents

\* A request that has the target moved away holds the coordinator.
Staged ==
    \A r \in Requests : call[r].pc = "staged" =>
        /\ coord = r /\ ws.state.count = 0 /\ ws.pending = None
        /\ call[r].kind \notin {"start", "stop"}
        /\ call[r].token = QuiescenceToken(ws.state)

\* Nothing is under way in a Host that is down, and Restore has a row.
Phases ==
    /\ host = "down" => \A p \in Procs : ~Busy(p)
    /\ commitMu = "restoring" => row # None

IInv == TypeOK /\ Counted /\ Agented /\ Staged /\ Phases

-----------------------------------------------------------------------------
\* Sets of agents can be counted.
LEMMA AgentsCount ==
    ASSUME NEW S \in SUBSET Agents
    PROVE  Cardinality(S) \in Nat /\ (Cardinality(S) = 0 => S = {})
<1>1. IsFiniteSet(S)
  BY AgentsAssumption, FS_Subset
<1> QED BY <1>1, FS_CardinalityType, FS_EmptySet

\* A call nobody makes is typed.
LEMMA NoCallTyped == NoCall \in Calls
BY DEF NoCall, Calls, Steps, Kinds, Contents, NoToken

\* At first no agent is registered and nobody does anything.
LEMMA InitInv == Init => IInv
<1> SUFFICES ASSUME Init PROVE IInv
  OBVIOUS
<1>1. ws.state = [gen |-> 1, count |-> 0, at |-> 1] /\ ws.agents = {} /\ ws.pending = None
  BY DEF Init
<1>2. ws.state \in Access /\ ws.state.count = 0 /\ {restored, view, row} \subseteq Access \cup {None}
  BY SMT, <1>1 DEF Init, Access
<1>3. ws \in Workspaces
  BY <1>2 DEF Init, Workspaces
<1>4. {fresh, overlapped, overtaken, doubt} \subseteq BOOLEAN
  BY DEF Init
<1>5. call \in [Procs -> Calls] /\ file \in Contents /\ promised \subseteq Contents
  BY NoCallTyped DEF Init, Contents
<1>6. TypeOK
  BY <1>2, <1>3, <1>4, <1>5 DEF Init, TypeOK
<1>7. \A p \in Procs : call[p].pc = "idle"
  BY DEF Init, NoCall
<1>8. Counted
  BY <1>1, <1>2, <1>7, FS_EmptySet DEF Counted, Waits
<1>9. Staged /\ Phases /\ Agented
  BY <1>7 DEF Init, Staged, Phases, Procs, Agented, NoCall, Busy
<1> QED BY <1>6, <1>8, <1>9 DEF IInv

-----------------------------------------------------------------------------
(* Types.                                                                    *)

\* A transition's state is an access state.
LEMMA AdvancedTyped ==
    ASSUME TypeOK, NEW S \in SUBSET Agents
    PROVE  /\ Advanced(S) \in Access /\ Advanced(S).gen = ws.state.gen + 1
           /\ Advanced(S).count = Cardinality(S)
<1>1. ws.state \in Access /\ ws.state.gen \in Nat /\ clock \in Nat
  BY DEF TypeOK, Access, Workspaces
<1> QED BY SMT, <1>1, AgentsCount DEF Advanced, Access

\* AgentStarted and AgentStopped keep the types.
LEMMA TransitionTypes ==
    ASSUME TypeOK, NEW c \in Callers, NEW a \in Agents, NEW kind \in {"start", "stop"},
           NEW S \in SUBSET Agents, Transition(c, kind, a, S), fresh' \in {fresh, FALSE}
    PROVE  TypeOK'
<1>1. Advanced(S) \in Access /\ ws.state \in Access
  BY AdvancedTyped DEF TypeOK, Workspaces
<1>2. [NoCall EXCEPT !.pc = "emit", !.kind = kind, !.agent = a, !.previous = ws.state,
                     !.state = Advanced(S)] \in Calls
  BY <1>1, NoCallTyped DEF Calls, Steps, Kinds
<1>3. call' \in [Procs -> Calls]
  BY <1>2 DEF Transition, TypeOK
<1>4. ws' \in Workspaces
  BY <1>1 DEF Transition, TypeOK, Procs, Workspaces
<1>5. {fresh', overlapped', overtaken', doubt'} \subseteq BOOLEAN
  BY DEF Transition, TypeOK
<1> QED BY SMT, <1>3, <1>4, <1>5 DEF Transition, TypeOK

\* What a request does before its content is in place keeps the types.
LEMMA EnterTypes ==
    ASSUME TypeOK, NEW r \in Requests,
           \/ GetWorkspace(r) \/ ReadText(r)
           \/ \E k \in {"create", "replace", "upload", "zip"} : stageTarget(r, k)
           \/ NotWritten(r)
    PROVE  TypeOK'
<1>0. call \in [Procs -> Calls] /\ call[r] \in Calls /\ r \in Procs /\ ws.state \in Access /\ file \in Contents
  BY DEF TypeOK, Procs, Workspaces
<1>1. CASE GetWorkspace(r)
  <2>1. QuiescenceToken(ws.state) \in Nat
    BY <1>0 DEF QuiescenceToken, Access, NoToken
  <2>2. call' \in [Procs -> Calls]
    BY <1>0, <1>1, <2>1 DEF GetWorkspace, Calls
  <2> QED BY <1>1, <2>2 DEF GetWorkspace, TypeOK
<1>2. CASE ReadText(r)
  <2>1. call' \in [Procs -> Calls]
    BY <1>0, <1>2 DEF ReadText, Calls
  <2> QED BY <1>2, <2>1 DEF ReadText, TypeOK
<1>3. ASSUME NEW k \in {"create", "replace", "upload", "zip"}, stageTarget(r, k) PROVE TypeOK'
  <2>1. ASSUME NEW kind \in {"write", "zip"}
        PROVE  [call[r] EXCEPT !.pc = "staged", !.backup = file, !.seen = None, !.kind = kind] \in Calls
    BY <1>0 DEF Calls, Steps, Kinds, Contents
  <2>2. \E kind \in {"write", "zip"} :
           call' = [call EXCEPT ![r] =
                       [call[r] EXCEPT !.pc = "staged", !.backup = file, !.seen = None, !.kind = kind]]
    BY <1>0, <1>3 DEF stageTarget
  <2>3. call' \in [Procs -> Calls]
    BY <1>0, <2>1, <2>2
  <2>4. {fresh', overlapped', overtaken', doubt'} \subseteq BOOLEAN
    BY <1>3 DEF stageTarget, TypeOK
  <2> QED BY <1>3, <2>3, <2>4 DEF stageTarget, TypeOK, Contents
<1>4. CASE NotWritten(r)
  <2>1. call' \in [Procs -> Calls]
    BY <1>0, <1>4 DEF NotWritten, Calls, Steps
  <2>2. file' \in Contents /\ faults' \in Nat
    BY SMT, <1>0, <1>4 DEF NotWritten, TypeOK, Fault, Contents
  <2> QED BY <1>4, <2>1, <2>2 DEF NotWritten, TypeOK
<1> QED BY <1>1, <1>2, <1>3, <1>4

\* The rename and its transition keep the types.
LEMMA AtomicTypes == ASSUME TypeOK, NEW r \in Requests, atomicFile(r) PROVE TypeOK'
<1>0. call \in [Procs -> Calls] /\ call[r] \in Calls /\ r \in Procs /\ ws.state \in Access
  BY DEF TypeOK, Procs, Workspaces
<1>1. Advanced(ws.agents) \in Access
  BY AdvancedTyped DEF TypeOK, Workspaces
<1>2. [call[r] EXCEPT !.pc = "emit", !.previous = ws.state, !.state = Advanced(ws.agents)] \in Calls
  BY <1>0, <1>1 DEF Calls, Steps
<1>3. call' = [call EXCEPT ![r] = [call[r] EXCEPT !.pc = "emit", !.previous = ws.state,
                                                  !.state = Advanced(ws.agents)]]
  BY <1>0 DEF atomicFile
<1>4. call' \in [Procs -> Calls]
  BY <1>0, <1>2, <1>3
<1>5. ws' \in Workspaces
  BY <1>0, <1>1 DEF atomicFile, TypeOK, Workspaces
<1> QED BY SMT, <1>4, <1>5 DEF atomicFile, TypeOK, Contents

\* The sink keeps the types.
LEMMA SinkTypes ==
    ASSUME TypeOK, NEW p \in Procs, call[p].pc = "emit" => call[p].state \in Access,
           commitWorkspaceState(p)
    PROVE  TypeOK'
<1>0. call \in [Procs -> Calls] /\ call[p] \in Calls /\ call[p].state \in Access
  BY DEF TypeOK, commitWorkspaceState
<1>1. \A a \in {"ok", "failed", "unknown"} : Answer(p, a) => call' \in [Procs -> Calls]
  BY SMT, <1>0 DEF Answer, Calls, Steps
<1>2. call' \in [Procs -> Calls]
  BY <1>1 DEF commitWorkspaceState, Adopted, Published, NotPublished
<1>3. row' \in {row, call[p].state} /\ view' \in {view, row', call[p].state}
  BY DEF commitWorkspaceState, Adopted, Published, NotPublished
<1>4. {restored', view', row'} \subseteq Access \cup {None}
  BY <1>0, <1>3 DEF commitWorkspaceState, TypeOK
<1>5. faults' \in Nat
  BY SMT DEF commitWorkspaceState, Adopted, Published, NotPublished, Fault, TypeOK
<1>6. doubt' \in {doubt, TRUE}
  BY DEF commitWorkspaceState, Adopted, Published, NotPublished
<1>7. {fresh', overlapped', overtaken', doubt'} \subseteq BOOLEAN
  BY <1>6 DEF commitWorkspaceState, TypeOK
<1> QED BY <1>2, <1>4, <1>5, <1>7 DEF commitWorkspaceState, TypeOK

\* The workspace after a transition is settled: taken back, or kept.
LEMMA Settled ==
    ASSUME IInv, NEW p \in Procs, Waits(p)
    PROVE  /\ rollbackState(p) \in Workspaces
           /\ rollbackState(p).pending = None
           /\ rollbackState(p).state.count = Cardinality(rollbackState(p).agents)
<1>1. /\ ws \in Workspaces
      /\ ws.pending = p /\ finishPending(p) = None /\ call[p].previous \in Access
      /\ call[p] \in Calls
  BY DEF IInv, TypeOK, Counted, finishPending
<1>2. CASE call[p].pc = "failed" /\ ws.state = call[p].state
  <2>1. rollbackState(p) = [ws EXCEPT !.state = call[p].previous, !.pending = None, !.agents = Undone(p)]
    BY <1>1, <1>2 DEF rollbackState, Undone
  <2>2. Undone(p) \in SUBSET Agents
    <3>1. call[p].kind = "stop" => call[p].agent \in Agents
      BY DEF IInv, Agented
    <3> QED BY <1>1, <3>1 DEF Undone, Workspaces
  <2>3. call[p].previous.count = Cardinality(Undone(p))
    BY <1>2 DEF IInv, Counted
  <2> QED BY <1>1, <2>1, <2>2, <2>3 DEF Workspaces
<1>3. CASE ~(call[p].pc = "failed" /\ ws.state = call[p].state)
  <2>1. rollbackState(p) = [ws EXCEPT !.pending = None]
    BY <1>1, <1>3 DEF rollbackState
  <2> QED BY <1>1, <2>1 DEF IInv, Counted, Workspaces
<1> QED BY <1>2, <1>3

\* Settling a transition and undoing a write keep the types.
LEMMA DoneTypes ==
    ASSUME IInv, NEW p \in Procs,
           \/ AgentDone(p)
           \/ p \in Requests /\ (MutationDone(p) \/ MutationRefused(p) \/ rollbackMutation(p))
    PROVE  TypeOK'
<1>0. TypeOK /\ call \in [Procs -> Calls] /\ call[p] \in Calls
  BY DEF IInv, TypeOK
<1>1. [NoCall EXCEPT !.pc = "done"] \in Calls /\ [call[p] EXCEPT !.pc = "undo"] \in Calls
  BY SMT, <1>0, NoCallTyped DEF Calls, Steps
<1>2. call' \in [Procs -> Calls]
  BY <1>0, <1>1, NoCallTyped DEF AgentDone, MutationDone, MutationRefused, rollbackMutation
<1>3. CASE rollbackMutation(p)
  <2>1. file' \in Contents /\ left' \subseteq Contents /\ stuck' \in BOOLEAN
    BY <1>0, <1>3 DEF rollbackMutation, TypeOK, Calls, Contents, Backup
  <2>2. faults' \in Nat
    BY SMT, <1>0, <1>3 DEF rollbackMutation, TypeOK, Fault
  <2> QED BY <1>0, <1>2, <1>3, <2>1, <2>2 DEF rollbackMutation, TypeOK
<1>4. ASSUME AgentDone(p) \/ (p \in Requests /\ (MutationDone(p) \/ MutationRefused(p)))
      PROVE  TypeOK'
  <2>1. ws' = rollbackState(p) /\ Waits(p)
    BY <1>4 DEF AgentDone, MutationDone, MutationRefused, Waits
  <2>2. ws' \in Workspaces
    BY <2>1, Settled
  <2>3. /\ promised' \subseteq Contents /\ left' \subseteq Contents /\ stuck' \in BOOLEAN
        /\ spent' \subseteq Nat
    BY <1>0, <1>4 DEF AgentDone, MutationDone, MutationRefused, TypeOK, Contents, Calls, Backup
  <2>7. faults' \in Nat
    BY SMT, <1>0, <1>4 DEF AgentDone, MutationDone, MutationRefused, TypeOK, Fault
  <2>4. overtaken' \in BOOLEAN
    BY <1>0, <1>4 DEF AgentDone, MutationDone, MutationRefused, TypeOK, Overtaken
  <2>5. {fresh', overlapped', overtaken', doubt'} \subseteq BOOLEAN
    BY <1>0, <1>4, <2>4 DEF AgentDone, MutationDone, MutationRefused, TypeOK
  <2>6. UNCHANGED <<host, coord, commitMu, restored, view, row, file, clock, restores>>
    BY <1>4 DEF AgentDone, MutationDone, MutationRefused
  <2> QED BY <1>0, <1>2, <2>2, <2>3, <2>5, <2>6, <2>7 DEF TypeOK
<1> QED BY <1>3, <1>4

\* What Restore rebuilds is an access state that counts no agent.
LEMMA RebuiltTyped ==
    ASSUME TypeOK, Phases, commitMu = "restoring"
    PROVE  Rebuilt \in Access /\ Rebuilt.count = 0
<1>1. row \in Access /\ row.gen \in Nat /\ clock \in Nat
  BY DEF TypeOK, Phases, Access
<1> QED BY SMT, <1>1 DEF Rebuilt, Access

\* Restore, Forget, a crash and the save of a view keep the types.
LEMMA RestoreTypes ==
    ASSUME IInv,
           \/ persistState \/ restoreLocked \/ Register \/ (\E a \in Agents : RestoreAgent(a))
           \/ registerRestored \/ ForgetCodex \/ Unregister \/ Crash
    PROVE  TypeOK'
<1>0. TypeOK /\ Phases
  BY DEF IInv
<1>1. CASE persistState
  BY <1>0, <1>1 DEF persistState, TypeOK
<1>2. CASE restoreLocked
  <2>1. restores' \in Nat
    BY SMT, <1>0, <1>2 DEF restoreLocked, TypeOK
  <2> QED BY <1>0, <1>2, <2>1 DEF restoreLocked, TypeOK
<1>3. CASE Register
  <2>1. Rebuilt \in Access
    BY <1>0, <1>3, RebuiltTyped DEF Register
  <2>2. ws' \in Workspaces
    <3>1. ws' \in {ws, [ws EXCEPT !.state = Rebuilt, !.agents = {}],
                   [state |-> Rebuilt, agents |-> {}, pending |-> None, removed |-> FALSE]}
      BY <1>3 DEF Register
    <3>2. ws \in Workspaces /\ [ws EXCEPT !.state = Rebuilt, !.agents = {}] \in Workspaces
      BY <1>0, <2>1 DEF TypeOK, Workspaces
    <3>3. [state |-> Rebuilt, agents |-> {}, pending |-> None, removed |-> FALSE] \in Workspaces
      BY <2>1 DEF Workspaces
    <3> QED BY <3>1, <3>2, <3>3
  <2>3. {restored', view', row'} \subseteq Access \cup {None}
    <3>1. ws'.state \in Access
      BY <2>2 DEF Workspaces
    <3> QED BY <1>0, <1>3, <3>1 DEF Register, TypeOK
  <2>4. clock' \in Nat /\ commitMu' = "restore"
    BY SMT, <1>0, <1>3 DEF Register, TypeOK
  <2>5. UNCHANGED <<host, coord, file, call, faults, restores, kept, overlapped, overtaken, doubt,
                    spent, fresh>>
    BY <1>3 DEF Register
  <2> QED BY <1>0, <2>2, <2>3, <2>4, <2>5 DEF TypeOK
<1>4. ASSUME NEW a \in Agents, RestoreAgent(a) PROVE TypeOK'
  <2>1. Advanced(ws.agents \cup {a}) \in Access
    BY <1>0, AdvancedTyped DEF TypeOK, Workspaces
  <2>2. ws' \in Workspaces
    BY <1>0, <1>4, <2>1 DEF RestoreAgent, TypeOK, Workspaces
  <2>3. {restored', view', row'} \subseteq Access \cup {None}
    <3>1. ws'.state \in Access
      BY <2>2 DEF Workspaces
    <3> QED BY <1>0, <1>4, <3>1 DEF RestoreAgent, TypeOK
  <2>4. clock' \in Nat
    <3>1. clock' = clock + 1
      BY <1>4 DEF RestoreAgent
    <3> QED BY SMT, <1>0, <3>1 DEF TypeOK
  <2>5. UNCHANGED <<host, coord, commitMu, file, call, faults, restores, kept, overlapped,
                    overtaken, doubt, spent, fresh>>
    BY <1>4 DEF RestoreAgent
  <2> QED BY <1>0, <2>2, <2>3, <2>4, <2>5 DEF TypeOK
<1>5. CASE registerRestored
  <2>1. faults' \in Nat
    BY SMT, <1>0, <1>5 DEF registerRestored, TypeOK, Fault
  <2>2. {fresh', overlapped', overtaken', doubt'} \subseteq BOOLEAN
    <3>1. doubt' \in {doubt, TRUE}
      BY <1>5, Zenon DEF registerRestored
    <3> QED BY <1>0, <1>5, <3>1 DEF registerRestored, TypeOK
  <2>3. {restored', view', row'} \subseteq Access \cup {None} /\ host' \in {"up", "down"}
    BY <1>0, <1>5 DEF registerRestored, TypeOK
  <2> QED BY <1>0, <1>5, <2>1, <2>2, <2>3 DEF registerRestored, TypeOK
<1>6. CASE ForgetCodex
  BY <1>0, <1>6 DEF ForgetCodex, TypeOK
<1>7. CASE Unregister
  <2>1. ws' \in Workspaces
    BY <1>0, <1>7 DEF Unregister, TypeOK, Workspaces
  <2> QED BY <1>0, <1>7, <2>1 DEF Unregister, TypeOK
<1>8. CASE Crash
  <2>1. [NoCall EXCEPT !.pc = "done"] \in Calls
    BY NoCallTyped DEF Calls, Steps
  <2>2. call' \in [Procs -> Calls]
    BY <1>0, <1>8, <2>1, NoCallTyped DEF Crash, TypeOK
  <2>3. faults' \in Nat
    BY SMT, <1>0, <1>8 DEF Crash, TypeOK, Fault
  <2>4. ws' \in Workspaces
    BY <1>0, <1>8 DEF Crash, TypeOK, Workspaces
  <2>5. left' \subseteq Contents /\ promised' \subseteq Contents
    <3>1. \A r \in Requests : Backup(r) \subseteq Contents
      BY <1>0 DEF TypeOK, Procs, Calls, Backup
    <3> QED BY <1>0, <1>8, <3>1 DEF Crash, TypeOK, Contents
  <2> QED BY <1>0, <1>8, <2>2, <2>3, <2>4, <2>5 DEF Crash, TypeOK
<1> QED BY <1>1, <1>2, <1>3, <1>4, <1>5, <1>6, <1>7, <1>8

-----------------------------------------------------------------------------
(* What is under way.                                                        *)

\* Who enters finds nobody with the target moved away and nobody waiting.
LEMMA Alone ==
    ASSUME IInv, lockMutationCoordinator
    PROVE  /\ \A p \in Procs : ~Waits(p)
           /\ \A r \in Requests : call[r].pc # "staged"
<1>1. None \notin Procs /\ coord = None /\ ws.pending = None
  BY NoneAssumption DEF lockMutationCoordinator, Procs
<1> QED BY <1>1 DEF IInv, Counted, Staged, Procs

\* AgentStarted and AgentStopped.
LEMMA TransitionWork ==
    ASSUME IInv, NEW c \in Callers, NEW a \in Agents, NEW kind \in {"start", "stop"},
           NEW S \in SUBSET Agents, Transition(c, kind, a, S),
           \/ kind = "start" /\ a \notin ws.agents /\ S = ws.agents \cup {a}
           \/ kind = "stop" /\ a \in ws.agents /\ S = ws.agents \ {a}
    PROVE  Counted' /\ Agented' /\ Staged' /\ Phases'
<1>0. TypeOK /\ c \in Procs /\ call \in [Procs -> Calls] /\ ws \in Workspaces /\ ws.state \in Access
  BY DEF IInv, TypeOK, Procs, Workspaces
<1> DEFINE now == [NoCall EXCEPT !.pc = "emit", !.kind = kind, !.agent = a,
                                 !.previous = ws.state, !.state = Advanced(S)]
<1>1. /\ now.pc = "emit" /\ now.kind = kind /\ now.agent = a /\ now.previous = ws.state
      /\ now.state = Advanced(S)
  BY DEF NoCall
<1>2. call'[c] = now /\ \A p \in Procs \ {c} : call'[p] = call[p]
  BY <1>0 DEF Transition
<1>3. (\A p \in Procs : ~Waits(p)) /\ \A r \in Requests : call[r].pc # "staged"
  BY Alone DEF Transition
<1>4. ws'.state = Advanced(S) /\ ws'.agents = S /\ ws'.pending = c
  BY <1>0 DEF Transition, Workspaces
<1>5. /\ Advanced(S) \in Access /\ Advanced(S).count = Cardinality(S)
      /\ Advanced(S).gen <= Advanced(S).gen
  BY SMT, <1>0, AdvancedTyped DEF Access
<1> HIDE DEF now
<1>6. Undone(c)' = ws.agents
  BY SMT, <1>1, <1>2, <1>4 DEF Undone
<1>7. ws.state.count = Cardinality(ws.agents)
  BY DEF IInv, Counted
<1>8. \A p \in Procs : Waits(p)' => p = c
  BY <1>2, <1>3 DEF Waits
<1>9. Counted'
  BY <1>0, <1>1, <1>2, <1>4, <1>5, <1>6, <1>7, <1>8 DEF Counted
<1>10. Agented'
  BY <1>1, <1>2 DEF IInv, Agented
<1>11. Staged'
  BY <1>1, <1>2, <1>3 DEF Staged, Procs
<1>12. Phases'
  <2>1. host' = "up" /\ UNCHANGED <<commitMu, row>>
    BY DEF Transition, lockMutationCoordinator
  <2> QED BY <2>1 DEF IInv, Phases
<1> QED BY <1>9, <1>10, <1>11, <1>12

\* The call of a request that moves the target away.
LEMMA StageCall ==
    ASSUME TypeOK, NEW r \in Requests, NEW k, stageTarget(r, k)
    PROVE  /\ call'[r].pc = "staged" /\ call'[r].kind \in {"write", "zip"}
           /\ call'[r].agent = call[r].agent /\ call'[r].token = call[r].token
           /\ call'[r].backup = file
<1>1. r \in Procs /\ call \in [Procs -> Calls] /\ call[r] \in Calls
  BY DEF TypeOK, Procs
<1>2. PICK kind \in {"write", "zip"} :
         call' = [call EXCEPT ![r] =
                     [call[r] EXCEPT !.pc = "staged", !.backup = file, !.seen = None, !.kind = kind]]
  BY <1>1 DEF stageTarget
<1>3. call'[r] = [call[r] EXCEPT !.pc = "staged", !.backup = file, !.seen = None, !.kind = kind]
  BY <1>1, <1>2
<1> QED BY <1>1, <1>3 DEF Calls

\* The call of a request whose content is in place.
LEMMA FileCall ==
    ASSUME TypeOK, NEW r \in Requests, atomicFile(r)
    PROVE  /\ call'[r].pc = "emit" /\ call'[r].kind = call[r].kind
           /\ call'[r].agent = call[r].agent /\ call'[r].token = call[r].token
           /\ call'[r].backup = call[r].backup
<1>1. r \in Procs /\ call \in [Procs -> Calls] /\ call[r] \in Calls
  BY DEF TypeOK, Procs
<1>2. call'[r] = [call[r] EXCEPT !.pc = "emit", !.previous = ws.state, !.state = Advanced(ws.agents)]
  BY <1>1 DEF atomicFile
<1> QED BY <1>1, <1>2 DEF Calls

\* What a request does before its content is in place.
LEMMA EnterWork ==
    ASSUME IInv, NEW r \in Requests,
           \/ GetWorkspace(r) \/ ReadText(r)
           \/ \E k \in {"create", "replace", "upload", "zip"} : stageTarget(r, k)
           \/ NotWritten(r)
    PROVE  Counted' /\ Agented' /\ Staged' /\ Phases'
<1>0. r \in Procs /\ call \in [Procs -> Calls] /\ call[r] \in Calls /\ r # None /\ None \notin Procs
  BY NoneAssumption DEF IInv, TypeOK, Procs
<1>1. UNCHANGED <<ws, commitMu, row, host>> /\ host = "up" /\ call[r].pc \in {"idle", "staged"}
      /\ \A p \in Procs \ {r} : call'[p] = call[p]
  BY <1>0 DEF GetWorkspace, ReadText, stageTarget, NotWritten, lockMutationCoordinator
<1>2. call'[r].pc \in {"idle", "staged", "undo"} /\ call'[r].kind \in {call[r].kind, "write", "zip"}
      /\ call'[r].agent = call[r].agent
  <2>1. CASE GetWorkspace(r) \/ ReadText(r) \/ NotWritten(r)
    BY SMT, <1>0, <2>1 DEF GetWorkspace, ReadText, NotWritten, Calls
  <2> QED BY <2>1, StageCall DEF IInv
<1>3. \A p \in Procs : Waits(p)' => p # r /\ Waits(p)
  BY <1>1, <1>2 DEF Waits
<1>4. \A p \in Procs \ {r} : Undone(p)' = Undone(p)
  BY <1>1 DEF Undone
<1>5. Counted'
  BY SMT, <1>1, <1>3, <1>4 DEF IInv, Counted
<1>6. Agented'
  BY <1>1, <1>2 DEF IInv, Agented
<1>7. Phases'
  BY <1>1 DEF IInv, Phases
<1>8. CASE (GetWorkspace(r) \/ ReadText(r))
  <2>1. call'[r].pc = "idle" /\ UNCHANGED coord
    BY SMT, <1>0, <1>8 DEF GetWorkspace, ReadText, Calls
  <2>2. Staged'
    BY <1>1, <2>1 DEF IInv, Staged, Procs
  <2> QED BY <1>5, <1>6, <1>7, <2>2
<1>9. ASSUME NEW k \in {"create", "replace", "upload", "zip"}, stageTarget(r, k)
      PROVE  Staged'
  <2>1. call'[r].kind \in {"write", "zip"} /\ call'[r].token = call[r].token /\ coord' = r
    BY <1>9, StageCall DEF IInv, stageTarget
  <2>2. \A q \in Requests : call[q].pc # "staged"
    BY <1>9, Alone DEF stageTarget
  <2>3. ws.state.count = 0 /\ ws.pending = None /\ call[r].token = QuiescenceToken(ws.state)
    BY <1>9 DEF stageTarget, validateMutationState, lockMutationCoordinator
  <2> QED BY <1>1, <2>1, <2>2, <2>3 DEF Staged, Procs
<1>10. CASE NotWritten(r)
  <2>1. call[r].pc = "staged" /\ call'[r].pc = "undo"
    BY <1>0, <1>10 DEF NotWritten, Calls
  <2>2. \A q \in Requests : call[q].pc = "staged" => q = r
    BY <2>1 DEF IInv, Staged
  <2>3. Staged'
    BY <1>1, <2>1, <2>2 DEF Staged, Procs
  <2> QED BY <1>5, <1>6, <1>7, <2>3
<1> QED BY <1>5, <1>6, <1>7, <1>8, <1>9, <1>10

\* The content is in place and the generation advances.
LEMMA AtomicWork ==
    ASSUME IInv, NEW r \in Requests, atomicFile(r)
    PROVE  Counted' /\ Agented' /\ Staged' /\ Phases'
<1>0. /\ TypeOK /\ r \in Procs /\ None \notin Procs /\ call \in [Procs -> Calls] /\ call[r] \in Calls
      /\ ws \in Workspaces /\ ws.state \in Access /\ ws.agents \in SUBSET Agents
  BY NoneAssumption DEF IInv, TypeOK, Procs, Workspaces
<1> DEFINE now == [call[r] EXCEPT !.pc = "emit", !.previous = ws.state, !.state = Advanced(ws.agents)]
<1>1. /\ now.pc = "emit" /\ now.kind = call[r].kind /\ now.agent = call[r].agent
      /\ now.previous = ws.state /\ now.state = Advanced(ws.agents)
  BY <1>0 DEF Calls
<1>2. call'[r] = now /\ \A p \in Procs \ {r} : call'[p] = call[p]
  BY <1>0 DEF atomicFile
<1>3. ws'.state = Advanced(ws.agents) /\ ws'.agents = ws.agents /\ ws'.pending = r
  BY <1>0 DEF atomicFile, Workspaces
<1>4. call[r].kind \notin {"start", "stop"} /\ ws.pending = None
      /\ \A q \in Requests : call[q].pc = "staged" => q = r
  BY DEF IInv, Staged, atomicFile
<1>5. \A p \in Procs : ~Waits(p)
  BY <1>0, <1>4 DEF IInv, Counted
<1>6. /\ Advanced(ws.agents) \in Access /\ Advanced(ws.agents).count = Cardinality(ws.agents)
      /\ Advanced(ws.agents).gen <= Advanced(ws.agents).gen
  BY SMT, <1>0, AdvancedTyped DEF Access
<1> HIDE DEF now
<1>7. Undone(r)' = ws.agents
  BY <1>1, <1>2, <1>3, <1>4 DEF Undone
<1>8. ws.state.count = Cardinality(ws.agents)
  BY DEF IInv, Counted
<1>9. \A p \in Procs : Waits(p)' => p = r
  BY <1>2, <1>5 DEF Waits
<1>10. Counted'
  BY <1>0, <1>1, <1>2, <1>3, <1>6, <1>7, <1>8, <1>9 DEF Counted
<1>11. Agented'
  BY <1>1, <1>2 DEF IInv, Agented
<1>12. Staged'
  BY <1>1, <1>2, <1>4 DEF Staged, Procs
<1>13. Phases'
  <2>1. host' = "up" /\ UNCHANGED <<commitMu, row>>
    BY DEF atomicFile
  <2> QED BY <2>1 DEF IInv, Phases
<1> QED BY <1>10, <1>11, <1>12, <1>13

\* The sink answers who waits for it.
LEMMA SinkWork ==
    ASSUME IInv, NEW p \in Procs, commitWorkspaceState(p)
    PROVE  Counted' /\ Agented' /\ Staged' /\ Phases'
<1>0. call \in [Procs -> Calls] /\ call[p] \in Calls /\ call[p].pc = "emit"
  BY DEF IInv, TypeOK, commitWorkspaceState
<1>1. PICK a \in {"ok", "failed", "unknown"} : call' = [call EXCEPT ![p].pc = a]
  BY DEF commitWorkspaceState, Adopted, Published, NotPublished, Answer
<1>2. UNCHANGED <<ws, coord, host, commitMu>> /\ host = "up" /\ commitMu = "free"
  BY DEF commitWorkspaceState
<1>3. \A u \in Procs : /\ call'[u].kind = call[u].kind /\ call'[u].agent = call[u].agent
                       /\ call'[u].state = call[u].state /\ call'[u].previous = call[u].previous
                       /\ call'[u].token = call[u].token
  BY <1>0, <1>1 DEF Calls
<1>4. \A u \in Procs : /\ Waits(u)' => Waits(u)
                       /\ call'[u].pc = "staged" => call[u].pc = "staged"
  BY <1>0, <1>1 DEF Waits, Calls
<1>5. \A u \in Procs : Undone(u)' = Undone(u)
  BY <1>2, <1>3 DEF Undone
<1>6. Counted'
  BY <1>2, <1>3, <1>4, <1>5, SMTT(30) DEF IInv, Counted
<1>7. Agented' /\ Staged'
  BY <1>2, <1>3, <1>4 DEF IInv, Agented, Staged, Procs
<1>8. Phases'
  BY <1>2 DEF Phases
<1> QED BY <1>6, <1>7, <1>8

\* A transition is settled, or a target restored.
LEMMA DoneWork ==
    ASSUME IInv, NEW p \in Procs,
           \/ AgentDone(p)
           \/ p \in Requests /\ (MutationDone(p) \/ MutationRefused(p) \/ rollbackMutation(p))
    PROVE  Counted' /\ Agented' /\ Staged' /\ Phases'
<1>0. call \in [Procs -> Calls] /\ call[p] \in Calls /\ None \notin Procs
  BY NoneAssumption DEF IInv, TypeOK, Procs
<1>a. /\ [NoCall EXCEPT !.pc = "done"].pc = "done" /\ [NoCall EXCEPT !.pc = "done"].kind = "none"
      /\ [call[p] EXCEPT !.pc = "undo"].pc = "undo"
      /\ [call[p] EXCEPT !.pc = "undo"].kind = call[p].kind
      /\ [call[p] EXCEPT !.pc = "undo"].agent = call[p].agent
      /\ NoCall.pc = "idle" /\ NoCall.kind = "none"
  BY <1>0 DEF NoCall, Calls
<1>b. call'[p] \in {NoCall, [NoCall EXCEPT !.pc = "done"], [call[p] EXCEPT !.pc = "undo"]}
  BY <1>0 DEF AgentDone, MutationDone, MutationRefused, rollbackMutation
<1>1. /\ call'[p].pc \in {"idle", "done", "undo"}
      /\ call'[p].kind = "none" \/ (call'[p].kind = call[p].kind /\ call'[p].agent = call[p].agent)
  BY <1>a, <1>b
<1>2. \A u \in Procs \ {p} : call'[u] = call[u]
  BY <1>0 DEF AgentDone, MutationDone, MutationRefused, rollbackMutation
<1>3. UNCHANGED <<host, commitMu, row, coord>> /\ host = "up"
  BY DEF AgentDone, MutationDone, MutationRefused, rollbackMutation
<1>4. Agented' /\ Phases'
  BY <1>1, <1>2, <1>3 DEF IInv, Agented, Phases
<1>5. CASE rollbackMutation(p)
  <2>1. UNCHANGED ws
    BY <1>5 DEF rollbackMutation
  <2>2. \A u \in Procs : Waits(u)' => u # p /\ Waits(u)
    BY <1>1, <1>2 DEF Waits
  <2>3. \A u \in Procs \ {p} : Undone(u)' = Undone(u)
    BY <1>2, <2>1 DEF Undone
  <2>4. Counted'
    <3>1. Counted
      BY DEF IInv
    <3>2. ASSUME NEW u \in Procs, Waits(u)'
          PROVE  /\ ws'.pending = u /\ call'[u].state \in Access /\ call'[u].previous \in Access
                 /\ call'[u].state.gen <= ws'.state.gen
                 /\ ws'.state = call'[u].state => call'[u].previous.count = Cardinality(Undone(u)')
      <4>1. u # p /\ Waits(u)
        BY <2>2, <3>2
      <4>2. call'[u] = call[u] /\ Undone(u)' = Undone(u)
        BY <1>2, <2>3, <4>1
      <4> QED BY <2>1, <3>1, <4>1, <4>2 DEF Counted
    <3> QED BY <2>1, <3>1, <3>2 DEF Counted
  <2>5. Staged'
    BY <1>1, <1>2, <1>3, <2>1 DEF IInv, Staged, Procs
  <2> QED BY <1>4, <2>4, <2>5
<1>6. CASE ws' = rollbackState(p) /\ Waits(p)
  <2>1. ws'.pending = None /\ ws'.state.count = Cardinality(ws'.agents)
    BY <1>6, Settled
  <2>2. ws.pending = p
    BY <1>6 DEF IInv, Counted
  <2>3. \A u \in Procs : ~Waits(u)'
    BY <1>1, <1>2, <2>2 DEF IInv, Counted, Waits
  <2>4. \A q \in Requests : call'[q].pc # "staged"
    BY <1>0, <1>1, <1>2, <2>2 DEF IInv, Staged, Procs
  <2> QED BY <1>4, <2>1, <2>3, <2>4 DEF Counted, Staged
<1> QED BY <1>5, <1>6 DEF AgentDone, MutationDone, MutationRefused, Waits

\* Restore puts only a later generation in the place of the state an operation
\* waits with, and waits for a request that has the target moved away.
LEMMA RestoreWork ==
    ASSUME IInv,
           \/ persistState \/ restoreLocked \/ Register \/ (\E a \in Agents : RestoreAgent(a))
           \/ registerRestored \/ ForgetCodex \/ Unregister
    PROVE  Counted' /\ Agented' /\ Staged' /\ Phases'
<1>0. TypeOK /\ Phases /\ ws \in Workspaces /\ ws.state \in Access /\ ws.agents \in SUBSET Agents
      /\ None \notin Procs
  BY NoneAssumption DEF IInv, TypeOK, Workspaces, Procs
<1>1. UNCHANGED <<call, coord>>
  BY DEF persistState, restoreLocked, Register, RestoreAgent, registerRestored, ForgetCodex, Unregister
<1>2. \A p \in Procs : (Waits(p)' <=> Waits(p)) /\ (Busy(p)' <=> Busy(p))
  BY <1>1 DEF Waits, Busy
<1>3. Agented'
  BY <1>1 DEF IInv, Agented
<1>4. Phases'
  <2>1. host' = host \/ host' = "up"
    BY DEF persistState, restoreLocked, Register, RestoreAgent, registerRestored, ForgetCodex, Unregister
  <2>2. commitMu' = "restoring" => row' # None
    BY <1>0 DEF persistState, restoreLocked, Register, RestoreAgent, registerRestored, ForgetCodex,
                Unregister, Phases
  <2> QED BY <1>0, <1>2, <2>1, <2>2 DEF Phases
<1>5. CASE ws'.state = ws.state /\ ws'.agents = ws.agents /\ ws'.pending = ws.pending
  <2>1. \A p \in Procs : Undone(p)' = Undone(p)
    BY <1>1, <1>5 DEF Undone
  <2>2. Counted' /\ Staged'
    BY <1>1, <1>2, <1>5, <2>1 DEF IInv, Counted, Staged
  <2> QED BY <1>3, <1>4, <2>2
<1>6. CASE /\ coord = None /\ ws'.pending = ws.pending /\ ws'.state.count = Cardinality(ws'.agents)
           /\ ws'.state \in Access /\ ws'.state.gen > ws.state.gen
  <2>1. \A r \in Requests : call[r].pc # "staged"
    BY <1>0, <1>6 DEF IInv, Staged, Procs
  <2>2. ASSUME NEW p \in Procs, Waits(p)
        PROVE  call[p].state.gen <= ws'.state.gen /\ ws'.state # call[p].state
    <3>1. call[p].state.gen <= ws.state.gen /\ call[p].state.gen \in Nat
      BY <2>2 DEF IInv, Counted, Access
    <3>2. ws.state.gen \in Nat /\ ws'.state.gen \in Nat
      BY <1>0, <1>6 DEF Access
    <3> QED BY SMT, <1>6, <3>1, <3>2
  <2>3. Counted'
    BY <1>1, <1>2, <1>6, <2>2 DEF IInv, Counted
  <2> QED BY <1>1, <1>3, <1>4, <2>1, <2>3 DEF Staged
<1>7. CASE Register
  <2>1. Rebuilt \in Access /\ Rebuilt.count = 0 /\ Cardinality({}) = 0 /\ coord = None
    BY <1>0, <1>7, RebuiltTyped, FS_EmptySet DEF Register
  <2>2. CASE host = "down"
    <3>1. \A p \in Procs : ~Waits(p) /\ call[p].pc # "staged"
      BY <1>0, <2>2 DEF Phases, Busy, Waits
    <3>2. ws'.state = Rebuilt /\ ws'.agents = {}
      BY SMT, <1>7, <2>2 DEF Register
    <3>3. Counted' /\ Staged'
      BY <1>1, <1>2, <2>1, <3>1, <3>2 DEF Counted, Staged, Procs
    <3> QED BY <1>3, <1>4, <3>3
  <2>3. CASE host = "up" /\ ws.state.gen < Rebuilt.gen
    <3>1. ws' = [ws EXCEPT !.state = Rebuilt, !.agents = {}]
      BY <1>7, <2>3 DEF Register
    <3>2. ws'.state = Rebuilt /\ ws'.agents = {} /\ ws'.pending = ws.pending
      BY <1>0, <3>1 DEF Workspaces
    <3>3. Rebuilt.gen > ws.state.gen
      BY <1>0, <2>1, <2>3 DEF Access
    <3> QED BY <1>6, <2>1, <3>2, <3>3
  <2>4. CASE host = "up" /\ ~(ws.state.gen < Rebuilt.gen)
    BY <1>5, <1>7, <2>4 DEF Register
  <2> QED BY <1>7, <2>2, <2>3, <2>4 DEF Register
<1>8. ASSUME NEW a \in Agents, RestoreAgent(a) PROVE Counted' /\ Agented' /\ Staged' /\ Phases'
  <2>1. /\ ws'.state = Advanced(ws.agents \cup {a}) /\ ws'.agents = ws.agents \cup {a}
        /\ ws'.pending = ws.pending /\ coord = None
    BY <1>0, <1>8 DEF RestoreAgent, Workspaces
  <2>2. /\ Advanced(ws.agents \cup {a}) \in Access
        /\ Advanced(ws.agents \cup {a}).gen = ws.state.gen + 1
        /\ Advanced(ws.agents \cup {a}).count = Cardinality(ws.agents \cup {a})
    BY <1>0, AdvancedTyped
  <2>3. ws.state.gen + 1 > ws.state.gen
    BY SMT, <1>0 DEF Access
  <2> QED BY <1>6, <2>1, <2>2, <2>3
<1>9. CASE Unregister
  BY <1>0, <1>5, <1>9 DEF Unregister, Workspaces
<1>10. CASE persistState \/ restoreLocked \/ registerRestored \/ ForgetCodex
  BY <1>5, <1>10 DEF persistState, restoreLocked, registerRestored, ForgetCodex
<1> QED BY <1>7, <1>8, <1>9, <1>10

\* A crash ends whatever is under way.
LEMMA CrashWork == ASSUME IInv, Crash PROVE Counted' /\ Agented' /\ Staged' /\ Phases'
<1>1. NoCall.pc = "idle" /\ NoCall.kind = "none" /\ [NoCall EXCEPT !.pc = "done"].pc = "done"
      /\ [NoCall EXCEPT !.pc = "done"].kind = "none"
  BY DEF NoCall
<1>2. \A p \in Procs : call'[p] \in {NoCall, [NoCall EXCEPT !.pc = "done"]}
                       \/ (~Busy(p) /\ call'[p] = call[p])
  BY DEF Crash
<1>3. \A p \in Procs : call'[p].pc \in {"idle", "done"}
  BY <1>1, <1>2 DEF Busy
<1>4. ws'.state = ws.state /\ ws'.agents = ws.agents /\ commitMu' = "free"
  BY DEF Crash, IInv, TypeOK, Workspaces
<1>5. Agented'
  BY <1>1, <1>2 DEF IInv, Agented
<1> QED BY <1>3, <1>4, <1>5 DEF IInv, Counted, Staged, Phases, Waits, Busy, Procs

-----------------------------------------------------------------------------
\* IInv holds in every reachable state.
THEOREM Invariance == Spec => []IInv
<1>1. ASSUME IInv, [Next]_vars PROVE IInv'
  <2>0. TypeOK /\ ws.agents \in SUBSET Agents /\ Callers \subseteq Procs /\ Requests \subseteq Procs
    BY <1>1 DEF IInv, TypeOK, Workspaces, Procs
  <2>1. ASSUME NEW c \in Callers, NEW a \in Agents, AgentStarted(c, a) PROVE IInv'
    <3>1. /\ ws.agents \cup {a} \in SUBSET Agents /\ a \notin ws.agents
          /\ Transition(c, "start", a, ws.agents \cup {a}) /\ fresh' \in {fresh, FALSE}
      BY <2>0, <2>1 DEF AgentStarted
    <3>2. TypeOK'
      BY <2>0, <3>1, TransitionTypes
    <3>3. Counted' /\ Agented' /\ Staged' /\ Phases'
      BY <1>1, <3>1, TransitionWork
    <3> QED BY <3>2, <3>3 DEF IInv
  <2>2. ASSUME NEW c \in Callers, NEW a \in Agents, AgentStopped(c, a) PROVE IInv'
    <3>1. /\ ws.agents \ {a} \in SUBSET Agents /\ a \in ws.agents
          /\ Transition(c, "stop", a, ws.agents \ {a}) /\ fresh' \in {fresh, FALSE}
      BY <2>0, <2>2 DEF AgentStopped
    <3>2. TypeOK'
      BY <2>0, <3>1, TransitionTypes
    <3>3. Counted' /\ Agented' /\ Staged' /\ Phases'
      BY <1>1, <3>1, TransitionWork
    <3> QED BY <3>2, <3>3 DEF IInv
  <2>3. ASSUME NEW p \in Procs, commitWorkspaceState(p) PROVE IInv'
    <3>1. call[p].pc = "emit" => call[p].state \in Access
      BY <1>1 DEF IInv, Counted, Waits
    <3> QED BY <1>1, <2>0, <2>3, <3>1, SinkTypes, SinkWork DEF IInv
  <2>4. ASSUME NEW c \in Callers, AgentDone(c) PROVE IInv'
    BY <1>1, <2>0, <2>4, DoneTypes, DoneWork DEF IInv
  <2>5. ASSUME NEW r \in Requests, RequestNext(r) PROVE IInv'
    <3>1. CASE \/ GetWorkspace(r) \/ ReadText(r) \/ NotWritten(r)
               \/ \E k \in {"create", "replace", "upload", "zip"} : stageTarget(r, k)
      BY <1>1, <2>0, <3>1, EnterTypes, EnterWork DEF IInv
    <3>2. CASE atomicFile(r)
      BY <1>1, <2>0, <3>2, AtomicTypes, AtomicWork DEF IInv
    <3>3. CASE MutationDone(r) \/ MutationRefused(r) \/ rollbackMutation(r)
      BY <1>1, <2>0, <3>3, DoneTypes, DoneWork DEF IInv
    <3> QED BY <2>0, <2>3, <2>5, <3>1, <3>2, <3>3 DEF RequestNext, RequestStep
  <2>6. CASE \/ persistState \/ restoreLocked \/ Register \/ (\E a \in Agents : RestoreAgent(a))
             \/ registerRestored \/ ForgetCodex \/ Unregister
    BY <1>1, <2>6, RestoreTypes, RestoreWork DEF IInv
  <2>7. CASE Crash
    BY <1>1, <2>7, RestoreTypes, CrashWork DEF IInv
  <2>8. CASE UNCHANGED vars
    <3>1. TypeOK'
      BY <2>0, <2>8 DEF TypeOK, vars
    <3>2. \A p \in Procs : (Waits(p)' <=> Waits(p)) /\ (Busy(p)' <=> Busy(p)) /\ Undone(p)' = Undone(p)
      BY <2>8 DEF vars, Waits, Busy, Undone
    <3> QED BY <1>1, <2>8, <3>1, <3>2 DEF IInv, Counted, Agented, Staged, Phases, vars
  <2> QED BY <1>1, <2>0, <2>1, <2>2, <2>3, <2>4, <2>5, <2>6, <2>7, <2>8 DEF Next, AgentNext
<1> QED BY InitInv, <1>1, PTL DEF Spec

\* The state stays well typed.
THEOREM TypeCorrect == Spec => []TypeOK
<1>1. IInv => TypeOK
  BY DEF IInv
<1> QED BY Invariance, <1>1, PTL

\* While a write or upload has the target moved away no agent is registered and
\* nothing is pending, for any number of agents, requests and restores.
THEOREM MutationIsExclusiveHolds == Spec => []MutationIsExclusive
<1>1. IInv => MutationIsExclusive
  <2> SUFFICES ASSUME IInv, NEW r \in Requests, call[r].pc = "staged"
               PROVE  /\ coord = r /\ ws.agents = {} /\ ws.pending = None
                      /\ call[r].token = QuiescenceToken(ws.state)
    BY DEF MutationIsExclusive
  <2>1. ws.agents \in SUBSET Agents /\ Cardinality(ws.agents) = 0
    BY DEF IInv, TypeOK, Workspaces, Counted, Staged
  <2>2. ws.agents = {}
    BY <2>1, AgentsCount
  <2> QED BY <2>2 DEF IInv, Staged
<1> QED BY Invariance, <1>1, PTL

\* Until a view was kept that may not have been saved, the row is the view.
RowIsView == view # None /\ ~doubt => row = view

\* Only the sink acknowledges an operation.
LEMMA OnlySinkAcknowledges ==
    ASSUME IInv, Next, NEW p \in Procs, call[p].pc = "emit", call'[p].pc = "ok"
    PROVE  commitWorkspaceState(p)
<1>0. call \in [Procs -> Calls] /\ Requests \subseteq Procs /\ Callers \subseteq Procs
  BY DEF IInv, TypeOK, Waits, Procs
<1>1. \A u \in Procs : commitWorkspaceState(u) => u = p
  BY <1>0 DEF commitWorkspaceState, Adopted, Published, NotPublished, Answer, IInv, Counted, Waits
<1>2. \A c \in Callers : ~AgentDone(c)
  BY <1>0 DEF AgentDone, NoCall, IInv, Counted, Waits
<1>3. \A c \in Callers, a \in Agents : ~AgentStarted(c, a) /\ ~AgentStopped(c, a)
  BY Alone DEF AgentStarted, AgentStopped, Transition, Waits
<1>4. \A r \in Requests : RequestNext(r) => commitWorkspaceState(r)
  <2> SUFFICES ASSUME NEW r \in Requests, RequestNext(r), ~commitWorkspaceState(r) PROVE FALSE
    OBVIOUS
  <2>1. call[r].pc # "emit" /\ call'[p] = call[p]
    BY <1>0 DEF RequestNext, RequestStep, GetWorkspace, ReadText, stageTarget, atomicFile,
                NotWritten, MutationDone, MutationRefused, rollbackMutation
  <2> QED BY <2>1
<1>5. ~Crash
  <2>1. NoCall.pc = "idle" /\ [NoCall EXCEPT !.pc = "done"].pc = "done"
    BY DEF NoCall
  <2> QED BY <2>1 DEF Crash
<1>6. ~persistState /\ ~restoreLocked /\ ~Register /\ ~registerRestored /\ ~ForgetCodex /\ ~Unregister
      /\ \A a \in Agents : ~RestoreAgent(a)
  BY DEF persistState, restoreLocked, Register, RestoreAgent, registerRestored, ForgetCodex, Unregister
<1> QED BY <1>0, <1>1, <1>2, <1>3, <1>4, <1>5, <1>6 DEF Next, AgentNext

\* What the sink acknowledges is in the row, in its own or a newer state.
THEOREM AcknowledgedIsDurableHolds == Spec => AcknowledgedIsDurable
<1>1. Init => RowIsView
  BY DEF Init, RowIsView
<1>2. ASSUME RowIsView, [Next]_vars PROVE RowIsView'
  <2>1. CASE UNCHANGED <<view, row, doubt>>
    BY <1>2, <2>1 DEF RowIsView
  <2>2. ASSUME NEW p \in Procs, commitWorkspaceState(p) PROVE RowIsView'
    <3>1. CASE Adopted(p)
      BY <2>1, <3>1 DEF Adopted
    <3>2. CASE Published(p)
      BY <3>2 DEF Published, RowIsView
    <3>3. CASE NotPublished(p)
      BY SMT, <1>2, <3>3 DEF NotPublished, RowIsView
    <3> QED BY <2>2, <3>1, <3>2, <3>3 DEF commitWorkspaceState
  <2>3. CASE persistState \/ registerRestored \/ ForgetCodex \/ Crash
    BY <1>2, <2>3 DEF persistState, registerRestored, ForgetCodex, Crash, RowIsView
  <2>4. CASE restoreLocked \/ Register \/ (\E a \in Agents : RestoreAgent(a)) \/ Unregister \/ UNCHANGED vars
    BY <2>1, <2>4 DEF restoreLocked, Register, RestoreAgent, Unregister, vars
  <2>5. ASSUME NEW c \in Callers, NEW a \in Agents, AgentStarted(c, a) \/ AgentStopped(c, a) PROVE RowIsView'
    BY <2>1, <2>5 DEF AgentStarted, AgentStopped, Transition
  <2>6. ASSUME NEW p \in Procs, AgentDone(p) PROVE RowIsView'
    BY <2>1, <2>6 DEF AgentDone
  <2>7. ASSUME NEW r \in Requests, RequestNext(r), ~commitWorkspaceState(r) PROVE RowIsView'
    BY <2>1, <2>7 DEF RequestNext, RequestStep, GetWorkspace, ReadText, stageTarget, atomicFile,
                      NotWritten, MutationDone, MutationRefused, rollbackMutation
  <2> QED BY <1>2, <2>2, <2>3, <2>4, <2>5, <2>6, <2>7 DEF Next, AgentNext, Procs
<1>3. ASSUME IInv, RowIsView, [Next]_vars
      PROVE  [\A p \in Procs : call[p].pc = "emit" /\ call'[p].pc = "ok" /\ row' # None
                 => doubt \/ row'.gen >= call[p].state.gen]_vars
  <2> SUFFICES ASSUME Next, NEW p \in Procs, call[p].pc = "emit", call'[p].pc = "ok", row' # None, ~doubt
               PROVE  row'.gen >= call[p].state.gen
    BY <1>3
  <2>1. commitWorkspaceState(p)
    BY <1>3, OnlySinkAcknowledges
  <2>2. /\ call[p].state \in Access /\ call[p].state.gen \in Nat
        /\ view # None => view \in Access /\ view.gen \in Nat
    BY <1>3 DEF IInv, Counted, Waits, TypeOK, Access
  <2>3. call \in [Procs -> Calls] /\ call[p] \in Calls
    BY <1>3 DEF IInv, TypeOK
  <2>4. CASE Adopted(p)
    <3>1. ~Answer(p, "failed")
      BY <2>3 DEF Answer, Calls
    <3>2. CASE view # None /\ view.gen > call[p].state.gen
      <4>1. row' = view
        BY <1>3, <2>4, <3>2 DEF Adopted, RowIsView
      <4> QED BY SMT, <2>2, <3>2, <4>1
    <3>3. CASE row = call[p].state
      <4>1. row' = call[p].state
        BY <2>4, <3>3 DEF Adopted
      <4> QED BY SMT, <2>2, <4>1
    <3> QED BY <2>4, <3>1, <3>2, <3>3 DEF Adopted
  <2>5. CASE Published(p)
    BY SMT, <2>2, <2>5 DEF Published
  <2>6. CASE NotPublished(p)
    <3>1. ~Answer(p, "failed") /\ ~Answer(p, "unknown")
      BY <2>3 DEF Answer, Calls
    <3>2. row' = call[p].state
      BY <2>6, <3>1 DEF NotPublished
    <3> QED BY SMT, <2>2, <3>2
  <2> QED BY <2>1, <2>4, <2>5, <2>6 DEF commitWorkspaceState
<1> QED BY Invariance, <1>1, <1>2, <1>3, PTL DEF Spec, AcknowledgedIsDurable

-----------------------------------------------------------------------------
(* The target.                                                               *)

\* The answers allow c in the target, or explain that nothing is there.
Allowed(c) == stuck \/ c \in promised \/ (c = None /\ promised \cap left # {})

\* As long as no request starts while another one restores the target, one
\* request at a time is under way; the answers allow its backup, and its content is
\* in place while it waits, and there or nowhere before and after.
Filed ==
    ~overlapped =>
        /\ \A r, q \in Requests : Busy(r) /\ Busy(q) => r = q
        /\ \A r \in Requests : Busy(r) =>
              Allowed(call[r].backup) /\ file \in {r, None} /\ (Waits(r) => file = r)
        /\ (\A r \in Requests : ~Busy(r)) => Allowed(file)

\* Steps that no request takes.
LEMMA FiledSame ==
    ASSUME Filed, UNCHANGED <<overlapped, file, kept>>,
           \A q \in Requests : call'[q].pc = call[q].pc /\ call'[q].backup = call[q].backup
    PROVE  Filed'
<1> SUFFICES ASSUME ~overlapped' PROVE Filed!2'
  BY DEF Filed
<1>1. ~overlapped
  BY SMT
<1>2. Filed!2
  BY <1>1 DEF Filed
<1>3. \A q \in Requests : (Busy(q)' <=> Busy(q)) /\ (Waits(q)' <=> Waits(q))
  BY DEF Busy, Waits
<1> QED BY <1>2, <1>3 DEF Allowed

\* A request that is under way goes on.
LEMMA FiledGoesOn ==
    ASSUME Filed, UNCHANGED <<overlapped, kept>>, NEW r \in Requests,
           Busy(r), Busy(r)', call'[r].backup = call[r].backup, file' \in {file, r},
           Waits(r)' => file' = r,
           \A q \in Requests \ {r} : call'[q] = call[q]
    PROVE  Filed'
<1> SUFFICES ASSUME ~overlapped' PROVE Filed!2'
  BY DEF Filed
<1>1. ~overlapped
  BY SMT
<1>2. Filed!2
  BY <1>1 DEF Filed
<1>3. \A q \in Requests \ {r} : ~Busy(q)
  BY <1>2
<1>4. \A q \in Requests \ {r} : ~Busy(q)'
  BY <1>3 DEF Busy
<1> QED BY <1>2, <1>4 DEF Allowed

\* A request that is under way ends.
LEMMA FiledEnds ==
    ASSUME Filed, overlapped' = overlapped, NEW r \in Requests, Busy(r), ~Busy(r)',
           Allowed(call[r].backup) /\ file \in {r, None} /\ (Waits(r) => file = r)
               => Allowed(file)',
           \A q \in Requests \ {r} : call'[q] = call[q]
    PROVE  Filed'
<1> SUFFICES ASSUME ~overlapped' PROVE Filed!2'
  BY DEF Filed
<1>1. ~overlapped
  BY SMT
<1>2. Filed!2
  BY <1>1 DEF Filed
<1>3. \A q \in Requests \ {r} : ~Busy(q)
  BY <1>2
<1>4. \A q \in Requests : ~Busy(q)'
  BY <1>3 DEF Busy
<1> QED BY <1>2, <1>4

\* A request moves the target away.
LEMMA FiledStarts ==
    ASSUME IInv, Filed, NEW r \in Requests, NEW k \in {"create", "replace", "upload", "zip"},
           stageTarget(r, k)
    PROVE  Filed'
<1> SUFFICES ASSUME ~overlapped' PROVE Filed!2'
  BY DEF Filed
<1>0. r \in Procs /\ Requests \subseteq Procs /\ call \in [Procs -> Calls] /\ call[r] \in Calls
  BY DEF IInv, TypeOK, Procs
<1>1. ~overlapped /\ \A q \in Requests : call[q].pc # "undo"
  BY DEF stageTarget
<1>2. Filed!2
  BY <1>1 DEF Filed
<1>3. \A q \in Requests : ~Waits(q) /\ call[q].pc # "staged"
  BY <1>0, Alone DEF stageTarget
<1>4. \A q \in Requests : call[q].pc \in Steps
  BY <1>0 DEF Calls
<1>5. \A q \in Requests : ~Busy(q)
  BY <1>1, <1>3, <1>4 DEF Busy, Waits, Steps
<1>6. call'[r].pc = "staged" /\ call'[r].backup = file
  BY <1>0 DEF stageTarget, Calls
<1>7. \A q \in Requests \ {r} : ~Busy(q)'
  BY <1>0, <1>5 DEF stageTarget, Busy
<1>8. UNCHANGED kept /\ file' = None /\ ~Waits(r)' /\ Busy(r)'
  BY <1>6 DEF stageTarget, Waits, Busy
<1>9. Allowed(call[r].backup)'
  BY <1>2, <1>5, <1>6, <1>8 DEF Allowed
<1> QED BY <1>7, <1>8, <1>9

\* Every step keeps Filed.
LEMMA FiledKept == ASSUME IInv, Filed, [Next]_vars PROVE Filed'
<1>0. /\ call \in [Procs -> Calls] /\ Callers \subseteq Procs /\ Requests \subseteq Procs
      /\ \A p \in Procs : call[p] \in Calls
      /\ \A r \in Requests : r \notin Callers
  BY CallersAssumption DEF IInv, TypeOK, Procs
<1>1. CASE UNCHANGED <<overlapped, file, kept, call>>
  BY <1>1, FiledSame
<1>2. CASE \/ persistState \/ restoreLocked \/ Register \/ (\E a \in Agents : RestoreAgent(a))
           \/ registerRestored \/ ForgetCodex \/ Unregister \/ UNCHANGED vars
  BY <1>1, <1>2 DEF persistState, restoreLocked, Register, RestoreAgent, registerRestored,
                    ForgetCodex, Unregister, vars
<1>3. ASSUME NEW c \in Callers, AgentNext(c) PROVE Filed'
  <2>1. UNCHANGED <<overlapped, file, kept>> /\ \A q \in Requests : call'[q] = call[q]
    BY <1>0, <1>3 DEF AgentNext, AgentStarted, AgentStopped, Transition, commitWorkspaceState,
                      Adopted, Published, NotPublished, Answer, AgentDone
  <2> QED BY <2>1, FiledSame
<1>4. CASE Crash
  <2>1. NoCall.pc = "idle" /\ [NoCall EXCEPT !.pc = "done"].pc = "done"
    BY DEF NoCall
  <2>2. \A p \in Procs : call'[p] \in {NoCall, [NoCall EXCEPT !.pc = "done"]}
                         \/ (~Busy(p) /\ call'[p] = call[p])
    BY <1>4 DEF Crash
  <2>3. \A p \in Procs : ~Busy(p)'
    BY <2>1, <2>2 DEF Busy
  <2>4. /\ left' = left \cup UNION {Backup(r) : r \in {q \in Requests : Busy(q)}}
        /\ promised' = promised \cup {r \in Requests : Busy(r)}
        /\ UNCHANGED <<file, stuck, overlapped>>
    BY <1>4 DEF Crash
  <2>5. promised \subseteq promised' /\ left \subseteq left'
    BY <2>4
  <2>6. ASSUME NEW r \in Requests, Busy(r), ~overlapped PROVE Allowed(file)'
    <3>1. Allowed(call[r].backup) /\ file \in {r, None}
      BY <2>6 DEF Filed
    <3>2. r \in promised' /\ Backup(r) \subseteq left'
      BY <2>4, <2>6
    <3>3. CASE file = None
      BY <2>4, <2>5, <3>1, <3>2, <3>3 DEF Allowed, Backup
    <3> QED BY <2>4, <3>1, <3>2, <3>3 DEF Allowed
  <2>7. ASSUME \A r \in Requests : ~Busy(r), ~overlapped PROVE Allowed(file)'
    BY <2>4, <2>5, <2>7 DEF Filed, Allowed
  <2> QED BY <1>0, <2>3, <2>4, <2>6, <2>7 DEF Filed
<1>5. ASSUME NEW r \in Requests, GetWorkspace(r) \/ ReadText(r) PROVE Filed'
  <2>1. /\ call'[r].pc = call[r].pc /\ call'[r].backup = call[r].backup
        /\ \A q \in Requests \ {r} : call'[q] = call[q]
    BY <1>0, <1>5 DEF GetWorkspace, ReadText, Calls
  <2>2. UNCHANGED <<overlapped, file, kept>>
    BY <1>5 DEF GetWorkspace, ReadText
  <2> QED BY <2>1, <2>2, FiledSame
<1>6. ASSUME NEW r \in Requests, atomicFile(r) \/ NotWritten(r) \/ MutationRefused(r) PROVE Filed'
  <2>1. /\ call'[r].pc \in {"emit", "undo"} /\ call'[r].backup = call[r].backup
        /\ \A q \in Requests \ {r} : call'[q] = call[q]
    <3>1. call[r] \in Calls /\ r \in Procs
      BY <1>0
    <3>2. \A q \in Requests \ {r} : call'[q] = call[q]
      BY <1>0, <1>6, <3>1 DEF atomicFile, NotWritten, MutationRefused
    <3>3. CASE NotWritten(r) \/ MutationRefused(r)
      BY SMT, <1>0, <3>1, <3>2, <3>3 DEF NotWritten, MutationRefused, Calls
    <3> QED BY <1>6, <3>2, <3>3, FileCall DEF IInv
  <2>2. UNCHANGED <<overlapped, kept>> /\ call[r].pc \in {"staged", "failed"} /\ file' \in {file, r}
    BY <1>6 DEF atomicFile, NotWritten, MutationRefused
  <2>3. call'[r].pc = "emit" => file' = r
    BY <1>0, <1>6 DEF atomicFile, NotWritten, MutationRefused, Calls
  <2>4. Busy(r) /\ Busy(r)' /\ (Waits(r)' => file' = r)
    BY <2>1, <2>2, <2>3 DEF Busy, Waits
  <2> QED BY <2>1, <2>2, <2>4, FiledGoesOn
<1>7. ASSUME NEW r \in Requests, commitWorkspaceState(r) PROVE Filed'
  <2>1. PICK a \in {"ok", "failed", "unknown"} : call' = [call EXCEPT ![r].pc = a]
    BY <1>7 DEF commitWorkspaceState, Adopted, Published, NotPublished, Answer
  <2>2. /\ call'[r].pc = a /\ call'[r].backup = call[r].backup
        /\ \A q \in Requests \ {r} : call'[q] = call[q]
    BY <1>0, <2>1 DEF Calls
  <2>3. UNCHANGED <<overlapped, kept, file>> /\ Busy(r) /\ Busy(r)' /\ Waits(r)
    BY <1>7, <2>2 DEF commitWorkspaceState, Busy, Waits
  <2>4. ~overlapped => file' = r
    BY <2>3 DEF Filed
  <2>5. CASE overlapped
    BY <2>3, <2>5 DEF Filed
  <2>6. CASE ~overlapped
    BY <2>2, <2>3, <2>4, <2>6, FiledGoesOn
  <2> QED BY <2>5, <2>6
<1>8. ASSUME NEW r \in Requests, MutationDone(r) \/ rollbackMutation(r) PROVE Filed'
  <2>1. [NoCall EXCEPT !.pc = "done"].pc = "done"
    BY DEF NoCall
  <2>2. call'[r].pc = "done" /\ \A q \in Requests \ {r} : call'[q] = call[q]
    BY <1>0, <1>8, <2>1 DEF MutationDone, rollbackMutation
  <2>3. overlapped' = overlapped /\ Busy(r) /\ ~Busy(r)'
    BY <1>8, <2>2 DEF MutationDone, rollbackMutation, Busy
  <2>4. ASSUME Allowed(call[r].backup), file \in {r, None}, Waits(r) => file = r
        PROVE  Allowed(file)'
    <3>1. CASE MutationDone(r)
      BY <2>4, <3>1 DEF MutationDone, Waits, Allowed
    <3>2. CASE rollbackMutation(r)
      <4>1. \/ file' = call[r].backup /\ UNCHANGED <<left, stuck>>
            \/ file' = None /\ left' = left \cup Backup(r) /\ (stuck => stuck')
            \/ stuck'
        BY <3>2 DEF rollbackMutation
      <4>2. promised' = promised
        BY <3>2 DEF rollbackMutation
      <4> QED BY <2>4, <4>1, <4>2 DEF Allowed, Backup
    <3> QED BY <1>8, <3>1, <3>2
  <2> QED BY <2>2, <2>3, <2>4, FiledEnds
<1>9. ASSUME NEW r \in Requests, RequestNext(r) PROVE Filed'
  BY <1>5, <1>6, <1>7, <1>8, <1>9, FiledStarts DEF RequestNext, RequestStep
<1> QED BY <1>2, <1>3, <1>4, <1>9 DEF Next

\* With no request under way the target holds what the answers say, or is missing while
\* that content lies in a rollback file, for any number of requests, failures, crashes
\* and restores, unless requests overlapped or refused content could not be removed.
THEOREM FileMatchesAnswersHolds == Spec => []FileMatchesAnswers
<1>1. Init => Filed
  <2> SUFFICES ASSUME Init PROVE Filed
    OBVIOUS
  <2>1. \A r \in Requests : call[r].pc = "idle"
    BY DEF Init, NoCall, Procs
  <2>2. file \in promised
    BY DEF Init
  <2> QED BY <2>1, <2>2 DEF Filed, Busy, Allowed
<1>2. Filed => FileMatchesAnswers
  BY DEF Filed, FileMatchesAnswers, AtRest, Procs, Allowed
<1> QED BY Invariance, <1>1, <1>2, FiledKept, PTL DEF Spec

-----------------------------------------------------------------------------
(* The access states.                                                        *)

\* The view, or the one Restore builds in its place.
Built == IF commitMu = "restore" THEN restored ELSE view

\* x is y or of a later generation.
From(x, y) == x = y \/ x.gen > y.gen

\* p may still take its transition back.
Undoable(p) == call[p].pc \in {"emit", "failed"} /\ ws.state = call[p].state

\* The state an operation waits with is newer than the one it replaced, and the
\* service has it or a newer one.
Newer ==
    \A p \in Procs : Waits(p) =>
        /\ From(ws.state, call[p].state)
        /\ call[p].state.gen > call[p].previous.gen
        /\ call[p].pc = "unknown" => doubt

\* Which of the states there are.
Present ==
    /\ host = "up" => (view = None <=> row = None)
    /\ commitMu = "restore" => restored # None /\ row # None
    /\ commitMu # "restore" => restored = None
    /\ host = "down" /\ commitMu = "restore" => restored = ws.state
    /\ host = "up" /\ ~doubt => row = view

\* The states of which the order is known: not those of a Host that is down,
\* which rebuilds without the saved state while the thread is not written.
Chained ==
    /\ ~overtaken /\ row # None /\ Built # None
    /\ host = "up" \/ (commitMu = "restore" /\ ~fresh)

\* The service is ahead of the view, the view ahead of the row, and a transition
\* that may be taken back leaves a state that is ahead of both.
Chain ==
    Chained =>
        /\ From(Built, row) /\ From(ws.state, Built)
        /\ \A p \in Procs : Waits(p) => ws.state = call[p].state \/ Built.gen > call[p].state.gen
        /\ \A p \in Procs : Undoable(p) =>
              /\ Built = ws.state \/ From(call[p].previous, Built)
              /\ row = ws.state \/ From(call[p].previous, row)

\* The view has the state of the service, or the one a transition on its way to
\* the sink started from.
Agreed ==
    host = "up" /\ ~overtaken /\ ~doubt /\ Built # None =>
        Built = ws.state \/ \E p \in Procs : Undoable(p) /\ Built = call[p].previous

\* The states that are anywhere.
Known(x) ==
    \/ x = ws.state
    \/ x \in {row, view, restored} /\ x # None
    \/ \E p \in Procs : Waits(p) /\ x \in {call[p].state, call[p].previous}

\* A stamp stands for one state, and no state has the token of an acknowledged
\* request.
Stamped ==
    /\ \A x \in Access : Known(x) => x.at <= clock
    /\ \A x, y \in Access : Known(x) /\ Known(y) /\ x.at = y.at => x = y
    /\ ~doubt => \A t \in spent : t <= clock /\ \A x \in Access : Known(x) => x.at # t

\* A request holds the token of the state it replaced; once it is acknowledged
\* no older state is left to go back to.
Priced ==
    \A r \in Requests :
        /\ Waits(r) => call[r].token = call[r].previous.at
        /\ call[r].pc = "ok" /\ ~doubt =>
              \A x \in {row, view, restored} : x = None \/ x.gen >= call[r].state.gen

SInv == Newer /\ Present /\ Chain /\ Agreed /\ Stamped /\ Priced

\* The types of the states.
LEMMA Shapes ==
    ASSUME IInv
    PROVE  /\ ws.state \in Access
           /\ \A x \in {row, view, restored, Built} : x = None \/ x \in Access
           /\ \A p \in Procs : Waits(p) => call[p].state \in Access /\ call[p].previous \in Access
           /\ \A p, q \in Procs : Waits(p) /\ Waits(q) => p = q
<1>1. ws.state \in Access /\ \A x \in {row, view, restored} : x = None \/ x \in Access
  BY DEF IInv, TypeOK, Workspaces
<1>2. Built = None \/ Built \in Access
  BY <1>1 DEF Built
<1>3. \A p \in Procs : Waits(p) => ws.pending = p /\ call[p].state \in Access /\ call[p].previous \in Access
  BY DEF IInv, Counted
<1>4. \A p, q \in Procs : Waits(p) /\ Waits(q) => p = q
  BY <1>3
<1>5. \A x \in {row, view, restored, Built} : x = None \/ x \in Access
  BY SMT, <1>1, <1>2
<1> QED BY <1>1, <1>3, <1>4, <1>5

\* The fields of a state are numbers.
LEMMA Numbers == ASSUME NEW x \in Access PROVE x.gen \in Nat /\ x.at \in Nat /\ x # None
BY NoStateAssumption DEF Access

\* Being ahead is transitive.
LEMMA FromTrans ==
    ASSUME NEW x \in Access, NEW y \in Access, NEW z \in Access, From(x, y), From(y, z)
    PROVE  From(x, z)
<1>1. x.gen \in Nat /\ y.gen \in Nat /\ z.gen \in Nat
  BY Numbers
<1> QED BY SMT, <1>1 DEF From

\* What is ahead of a state is not of an earlier generation.
LEMMA FromGen ==
    ASSUME NEW x \in Access, NEW y \in Access, From(x, y) PROVE x.gen >= y.gen
<1>1. x.gen \in Nat /\ y.gen \in Nat
  BY Numbers
<1> QED BY SMT, <1>1 DEF From

\* A later generation than one that is ahead.
LEMMA FromLater ==
    ASSUME NEW x \in Access, NEW y \in Access, NEW z \in Access, x.gen > y.gen, From(y, z)
    PROVE  From(x, z) /\ x.gen > z.gen /\ x # z
<1>1. x.gen \in Nat /\ y.gen \in Nat /\ z.gen \in Nat
  BY Numbers
<1> QED BY SMT, <1>1 DEF From

\* A step that brings no new state keeps what the stamps tell.
LEMMA StampedKept ==
    ASSUME IInv, Stamped, clock' \in {clock, clock + 1}, spent' = spent, doubt => doubt',
           \A x \in Access : Known(x)' => Known(x)
    PROVE  Stamped'
<1>0. clock \in Nat /\ spent \subseteq Nat
  BY DEF IInv, TypeOK
<1>1. ASSUME NEW m \in Nat, m <= clock PROVE m <= clock'
  BY SMT, <1>0, <1>1
<1>2. \A x \in Access : x.at \in Nat
  BY Numbers
<1>3. \A x \in Access : Known(x)' => x.at <= clock'
  BY <1>1, <1>2 DEF Stamped
<1>4. \A x, y \in Access : Known(x)' /\ Known(y)' /\ x.at = y.at => x = y
  BY DEF Stamped
<1>5. ASSUME ~doubt', NEW t \in spent', NEW x \in Access
      PROVE  t <= clock' /\ (Known(x)' => x.at # t)
  <2>1. ~doubt /\ t \in spent /\ t \in Nat
    BY <1>0, <1>5
  <2>2. t <= clock /\ (Known(x) => x.at # t)
    BY <2>1 DEF Stamped
  <2> QED BY <1>1, <2>1, <2>2
<1>6. ASSUME ~doubt', NEW t \in spent' PROVE t <= clock'
  <2>1. ~doubt /\ t \in spent /\ t \in Nat
    BY <1>0, <1>6
  <2> QED BY <1>1, <2>1 DEF Stamped
<1> QED BY <1>3, <1>4, <1>5, <1>6 DEF Stamped

\* A step that brings one new state gives it a new stamp.
LEMMA StampedGrows ==
    ASSUME IInv, Stamped, clock' = clock + 1, spent' = spent, doubt => doubt',
           NEW n \in Access, n.at = clock + 1,
           \A x \in Access : Known(x)' => Known(x) \/ x = n
    PROVE  Stamped'
<1>0. clock \in Nat /\ spent \subseteq Nat
  BY DEF IInv, TypeOK
<1>1. ASSUME NEW m \in Nat, m <= clock PROVE m <= clock' /\ m # n.at
  BY SMT, <1>0, <1>1
<1>2. \A x \in Access : x.at \in Nat
  BY Numbers
<1>3. n.at <= clock'
  BY SMT, <1>0
<1>4. \A x \in Access : Known(x) => x.at <= clock' /\ x.at # n.at
  BY <1>1, <1>2 DEF Stamped
<1>5. \A x \in Access : Known(x)' => x.at <= clock'
  BY <1>3, <1>4
<1>6. \A x, y \in Access : Known(x)' /\ Known(y)' /\ x.at = y.at => x = y
  BY <1>4 DEF Stamped
<1>7. ASSUME ~doubt', NEW t \in spent' PROVE t <= clock' /\ \A x \in Access : Known(x)' => x.at # t
  <2>1. ~doubt /\ t \in spent /\ t \in Nat
    BY <1>0, <1>7
  <2>2. t <= clock /\ \A x \in Access : Known(x) => x.at # t
    BY <2>1 DEF Stamped
  <2>3. t <= clock' /\ t # n.at
    BY <1>1, <2>1, <2>2
  <2> QED BY <2>2, <2>3
<1> QED BY <1>5, <1>6, <1>7 DEF Stamped

\* A step that moves no state.
Quiet ==
    /\ UNCHANGED <<host, restored, view, row, doubt, overtaken, clock, spent, fresh>>
    /\ ws'.state = ws.state
    /\ commitMu' = "restore" <=> commitMu = "restore"
    /\ \A p \in Procs : (Waits(p)' <=> Waits(p)) /\ (Waits(p) => call'[p] = call[p])

\* Steps that move no state keep SInv.
LEMMA QuietKeeps == ASSUME IInv, SInv, Quiet PROVE SInv'
<1>1. /\ host' = host /\ restored' = restored /\ view' = view /\ row' = row /\ spent' = spent
      /\ clock' = clock /\ ws'.state = ws.state /\ (doubt' <=> doubt) /\ (overtaken' <=> overtaken)
      /\ (fresh' <=> fresh)
  BY SMT DEF Quiet
<1>2. Built' = Built
  BY <1>1 DEF Quiet, Built
<1>3. \A p \in Procs : (Waits(p)' <=> Waits(p)) /\ (Waits(p) => call'[p] = call[p])
  BY DEF Quiet
<1>4. \A p \in Procs : Undoable(p)' <=> Undoable(p)
  BY <1>1, <1>3 DEF Undoable, Waits
<1>5. Chained' <=> Chained
  BY <1>1, <1>2 DEF Chained, Quiet
<1>6. Newer'
  BY <1>1, <1>3 DEF SInv, Newer
<1>7. Present'
  BY <1>1 DEF SInv, Present, Quiet
<1>8. Chain'
  <2> SUFFICES ASSUME Chained' PROVE Chain!2'
    BY DEF Chain
  <2>1. Chain!2
    BY <1>5 DEF SInv, Chain
  <2>2. \A p \in Procs : Undoable(p) => Waits(p)
    BY DEF Undoable, Waits
  <2> QED BY <1>1, <1>2, <1>3, <1>4, <2>1, <2>2
<1>9. Agreed'
  <2>1. \A p \in Procs : Undoable(p) => Waits(p)
    BY DEF Undoable, Waits
  <2> QED BY <1>1, <1>2, <1>3, <1>4, <2>1 DEF SInv, Agreed
<1>10. Stamped'
  <2>1. \A x \in Access : Known(x)' => Known(x)
    BY <1>1, <1>3 DEF Known
  <2> QED BY <1>1, <2>1, StampedKept DEF SInv
<1>11. Priced'
  <2>1. ASSUME NEW r \in Requests
        PROVE  /\ Waits(r)' => call'[r].token = call'[r].previous.at
               /\ call'[r].pc = "ok" => call[r].pc = "ok" /\ call'[r] = call[r]
    BY <1>3 DEF SInv, Priced, Procs, Waits
  <2> QED BY <1>1, <2>1 DEF SInv, Priced
<1> QED BY <1>6, <1>7, <1>8, <1>9, <1>10, <1>11 DEF SInv

\* A transition by p to n.
Advances(p, n) ==
    /\ host = "up" /\ UNCHANGED <<host, commitMu, restored, view, row, doubt, overtaken, spent>>
    /\ \A u \in Procs : ~Waits(u)
    /\ ws'.state = n /\ n.gen > ws.state.gen /\ n.at = clock + 1 /\ clock' = clock + 1
    /\ call'[p].pc = "emit" /\ call'[p].state = n /\ call'[p].previous = ws.state
    /\ p \in Requests => call'[p].token = ws.state.at
    /\ \A u \in Procs \ {p} : ~Waits(u)'

\* Transitions keep SInv.
LEMMA AdvancesKeeps ==
    ASSUME IInv, SInv, NEW p \in Procs, NEW n \in Access, Advances(p, n) PROVE SInv'
<1>1. /\ host' = host /\ restored' = restored /\ view' = view /\ row' = row /\ commitMu' = commitMu
      /\ (doubt' <=> doubt) /\ (overtaken' <=> overtaken) /\ host = "up" /\ ws'.state = n
      /\ spent' = spent
  BY SMT DEF Advances
<1>2. Built' = Built
  BY <1>1 DEF Built
<1>3. /\ call'[p].pc = "emit" /\ call'[p].state = n /\ call'[p].previous = ws.state
      /\ n.gen > ws.state.gen /\ n.at = clock + 1 /\ clock' = clock + 1
      /\ \A u \in Procs : ~Waits(u) /\ ~Undoable(u)
      /\ \A u \in Procs : Waits(u)' \/ Undoable(u)' => u = p
  BY DEF Advances, Undoable, Waits
<1>4. ws.state \in Access /\ \A x \in {row, view, restored, Built} : x = None \/ x \in Access
  BY Shapes
<1>5. Newer'
  BY <1>1, <1>3 DEF Newer, From
<1>6. Present'
  BY <1>1 DEF SInv, Present
<1>7. Chain'
  <2> SUFFICES ASSUME Chained' PROVE Chain!2'
    BY DEF Chain
  <2>1. Chained /\ row \in Access /\ Built \in Access
    BY <1>1, <1>2, <1>4 DEF Chained
  <2>2. From(Built, row) /\ From(ws.state, Built)
    BY <2>1 DEF SInv, Chain
  <2>3. From(ws.state, row) /\ From(n, Built)
    BY <1>3, <1>4, <2>1, <2>2, FromTrans, FromLater
  <2> QED BY <1>1, <1>2, <1>3, <2>2, <2>3
<1>8. Agreed'
  <2> SUFFICES ASSUME ~overtaken', ~doubt', Built' # None
               PROVE  Undoable(p)' /\ Built' = call'[p].previous
    BY DEF Agreed
  <2>1. Built = ws.state
    BY <1>1, <1>2, <1>3 DEF SInv, Agreed
  <2> QED BY <1>1, <1>2, <1>3, <2>1 DEF Undoable
<1>9. Stamped'
  <2>1. \A x \in Access : Known(x)' => Known(x) \/ x = n
    BY <1>1, <1>3 DEF Known
  <2> QED BY <1>1, <1>3, <2>1, StampedGrows DEF SInv
<1>10. Priced'
  <2>1. \A r \in Requests : r \in Procs /\ (call'[r].pc = "ok" => Waits(r)')
    BY DEF Procs, Waits
  <2> QED BY <1>3, <2>1 DEF Priced, Advances
<1> QED BY <1>5, <1>6, <1>7, <1>8, <1>9, <1>10 DEF SInv

\* The sink answers p in one of five ways.
Refuses(p) == call'[p].pc = "failed" /\ UNCHANGED <<view, row, doubt>>
Adopts(p) ==
    /\ call'[p].pc = "ok" /\ UNCHANGED <<view, row, doubt>>
    /\ view # None /\ view.gen >= call[p].state.gen
Saves(p) ==
    /\ call'[p].pc = "ok" /\ UNCHANGED doubt /\ row' = call[p].state /\ view' = call[p].state
    /\ view # None /\ view.gen <= call[p].state.gen
ReadsBack(p) ==
    /\ call'[p].pc = "failed" /\ UNCHANGED <<row, doubt>> /\ view' = row
    /\ view # None /\ view.gen <= call[p].state.gen
Guesses(p) ==
    /\ call'[p].pc = "unknown" /\ doubt' = TRUE /\ view' = call[p].state /\ row' \in {row, call[p].state}
    /\ view # None /\ view.gen <= call[p].state.gen

\* These are all the answers there are.
LEMMA SinkCases ==
    ASSUME IInv, NEW p \in Procs, commitWorkspaceState(p)
    PROVE  Refuses(p) \/ Adopts(p) \/ Saves(p) \/ ReadsBack(p) \/ Guesses(p)
<1>0. call \in [Procs -> Calls] /\ call[p] \in Calls /\ call[p].pc = "emit" /\ Waits(p)
  BY DEF IInv, TypeOK, commitWorkspaceState, Waits
<1>1. \A a : Answer(p, a) => call'[p].pc = a
  BY <1>0 DEF Answer, Calls
<1>2. call[p].state \in Access /\ (view # None => view \in Access)
  BY <1>0, Shapes
<1>3. /\ call[p].state.gen >= call[p].state.gen /\ call[p].state # None
      /\ view # None /\ view.gen > call[p].state.gen => view.gen >= call[p].state.gen
  BY SMT, <1>2, Numbers
<1>4. CASE Adopted(p)
  BY <1>1, <1>3, <1>4 DEF Adopted, Refuses, Adopts
<1>5. CASE Published(p)
  BY <1>1, <1>5 DEF Published, Saves
<1>6. CASE NotPublished(p)
  <2>1. CASE Answer(p, "failed") /\ UNCHANGED <<view, row, doubt>>
    BY <1>1, <2>1 DEF Refuses
  <2>2. CASE /\ row' \in {row, call[p].state} /\ view' = row'
             /\ Answer(p, IF row' = call[p].state THEN "ok" ELSE "failed")
             /\ UNCHANGED doubt
    BY <1>1, <1>6, <2>2 DEF NotPublished, Saves, ReadsBack
  <2>3. CASE /\ row' \in {row, call[p].state} /\ view' = call[p].state /\ doubt' = TRUE
             /\ Answer(p, "unknown")
    BY <1>1, <1>6, <2>3 DEF NotPublished, Guesses
  <2> QED BY <1>6, <2>1, <2>2, <2>3 DEF NotPublished
<1> QED BY <1>4, <1>5, <1>6 DEF commitWorkspaceState

\* What the sink of p knows: the order of the states, when it is known.
LEMMA SinkOrder ==
    ASSUME IInv, SInv, NEW p \in Procs, Waits(p), call[p].pc = "emit", host = "up",
           commitMu = "free", view # None, view.gen <= call[p].state.gen, ~overtaken
    PROVE  /\ ws.state = call[p].state /\ row \in Access
           /\ row = ws.state \/ From(call[p].previous, row)
           /\ From(ws.state, row)
<1>1. Built = view /\ row # None
  BY DEF SInv, Present, Built
<1>2. /\ row \in Access /\ view \in Access /\ ws.state \in Access
      /\ call[p].state \in Access /\ call[p].previous \in Access
  BY <1>1, Shapes
<1>3. Chained
  BY <1>1 DEF Chained
<1>4. ~(view.gen > call[p].state.gen)
  BY SMT, <1>2, Numbers
<1>5. ws.state = call[p].state
  BY <1>1, <1>3, <1>4 DEF SInv, Chain
<1>6. From(view, row) /\ From(ws.state, view)
  BY <1>1, <1>3 DEF SInv, Chain
<1>7. From(ws.state, row)
  BY <1>2, <1>6, FromTrans
<1>8. row = ws.state \/ From(call[p].previous, row)
  BY <1>3, <1>5 DEF SInv, Chain, Undoable
<1> QED BY <1>2, <1>5, <1>7, <1>8

\* The sink keeps SInv.
LEMMA SinkKeeps == ASSUME IInv, IInv', SInv, NEW p \in Procs, commitWorkspaceState(p) PROVE SInv'
<1>0. call \in [Procs -> Calls] /\ call[p] \in Calls /\ call[p].pc = "emit" /\ Waits(p) /\ Requests \subseteq Procs
  BY DEF IInv, TypeOK, commitWorkspaceState, Waits, Procs
<1>1. PICK a \in {"ok", "failed", "unknown"} : call' = [call EXCEPT ![p].pc = a]
  BY DEF commitWorkspaceState, Adopted, Published, NotPublished, Answer
<1>2. /\ host' = host /\ commitMu' = commitMu /\ restored' = restored /\ clock' = clock /\ spent' = spent
      /\ host = "up" /\ commitMu = "free" /\ ws' = ws /\ (overtaken' <=> overtaken)
  BY SMT DEF commitWorkspaceState
<1>3. /\ call'[p].pc = a /\ call'[p].state = call[p].state /\ call'[p].previous = call[p].previous
      /\ call'[p].token = call[p].token
      /\ \A u \in Procs \ {p} : call'[u] = call[u]
  BY <1>0, <1>1 DEF Calls
<1>4. /\ \A u \in Procs : Waits(u) \/ Waits(u)' \/ Undoable(u) \/ Undoable(u)' => u = p
      /\ Waits(p)'
  <2>1. \A u \in Procs : Waits(u) => u = p
    BY <1>0, Shapes
  <2> QED BY <1>0, <1>3, <2>1 DEF Waits, Undoable
<1>5. restored = None /\ restored' = None /\ Built = view /\ Built' = view'
  BY <1>2 DEF SInv, Present, Built
<1>6. /\ ws.state \in Access /\ call[p].state \in Access /\ call[p].previous \in Access
      /\ \A x \in {row, view, row', view'} : x = None \/ x \in Access
      /\ call[p].state # None
  <2>1. \A x \in {row', view'} : x = None \/ x \in Access
    BY SMT DEF IInv, TypeOK
  <2>2. \A x \in {row, view} : x = None \/ x \in Access
    BY SMT DEF IInv, TypeOK
  <2> QED BY <1>0, <2>1, <2>2, Shapes, Numbers
<1>7. /\ From(ws.state, call[p].state) /\ call[p].state.gen > call[p].previous.gen
      /\ view = None <=> row = None
      /\ ~doubt => row = view
  BY <1>0, <1>2 DEF SInv, Newer, Present
<1>8. \A r \in Requests : Waits(r)' => call'[r].token = call'[r].previous.at
  BY <1>0, <1>3, <1>4 DEF SInv, Priced
<1>9. \A r \in Requests : call'[r].pc = "ok" => r = p /\ a = "ok"
  BY <1>0, <1>3, <1>4 DEF Waits
<1>10. ASSUME a = "unknown" => doubt' PROVE Newer'
  BY <1>2, <1>3, <1>4, <1>7, <1>10 DEF Newer
<1>11. \A x \in Access : Known(x)' => Known(x)
  <2>1. row' \in {row, call[p].state} /\ view' \in {view, row', call[p].state}
    BY DEF commitWorkspaceState, Adopted, Published, NotPublished
  <2> QED BY <1>0, <1>2, <1>3, <1>4, <1>5, <2>1 DEF Known
<1>12. doubt => doubt'
  <2>1. doubt' = doubt \/ doubt' = TRUE
    BY SinkCases DEF Refuses, Adopts, Saves, ReadsBack, Guesses
  <2>2. CASE doubt' = doubt
    BY SMT, <2>2
  <2> QED BY <2>1, <2>2
<1>13. Stamped'
  BY <1>2, <1>11, <1>12, StampedKept DEF SInv
<1>14. CASE Refuses(p)
  <2>1. /\ a = "failed" /\ view' = view /\ row' = row /\ (doubt' <=> doubt)
    BY <1>3, <1>14, SMT DEF Refuses
  <2>2. \A u \in Procs : Undoable(u)' <=> Undoable(u)
    BY <1>0, <1>2, <1>3, <1>4, <2>1 DEF Undoable
  <2>3. Newer' /\ Present' /\ Priced'
    BY <1>2, <1>5, <1>7, <1>8, <1>9, <1>10, <2>1 DEF Present, Priced
  <2>4. Chain'
    <3> SUFFICES ASSUME Chained' PROVE Chain!2'
      BY DEF Chain
    <3>1. Chained
      BY <1>2, <1>5, <2>1 DEF Chained
    <3>2. Chain!2
      BY <3>1 DEF SInv, Chain
    <3> QED BY <1>0, <1>2, <1>3, <1>4, <1>5, <2>1, <2>2, <3>2
  <2>5. Agreed'
    <3> SUFFICES ASSUME ~overtaken', ~doubt', Built' # None
                 PROVE  Built' = ws'.state \/ \E u \in Procs : Undoable(u)' /\ Built' = call'[u].previous
      BY DEF Agreed
    <3>1. Built = ws.state \/ \E u \in Procs : Undoable(u) /\ Built = call[u].previous
      BY <1>2, <1>5, <2>1 DEF SInv, Agreed
    <3> QED BY <1>2, <1>3, <1>4, <1>5, <2>1, <2>2, <3>1
  <2> QED BY <1>13, <2>3, <2>4, <2>5 DEF SInv
<1>15. CASE Adopts(p)
  <2>1. /\ a = "ok" /\ view' = view /\ row' = row /\ (doubt' <=> doubt)
        /\ view # None /\ view.gen >= call[p].state.gen
    BY <1>3, <1>15, SMT DEF Adopts
  <2>2. \A u \in Procs : ~Undoable(u)'
    BY <1>3, <1>4, <2>1 DEF Undoable
  <2>3. Newer' /\ Present' /\ Priced'
    <3>1. ~doubt' => \A x \in {row', view', restored'} : x = None \/ x.gen >= call'[p].state.gen
      BY <1>3, <1>5, <1>7, <2>1
    <3>2. Present'
      BY <1>2, <1>5, <1>7, <2>1 DEF Present
    <3> QED BY <1>8, <1>9, <1>10, <2>1, <3>1, <3>2 DEF Priced
  <2>4. Chain'
    <3> SUFFICES ASSUME Chained' PROVE Chain!2'
      BY DEF Chain
    <3>1. Chained
      BY <1>2, <1>5, <2>1 DEF Chained
    <3>2. Chain!2
      BY <3>1 DEF SInv, Chain
    <3> QED BY <1>0, <1>2, <1>3, <1>4, <1>5, <2>1, <2>2, <3>2
  <2>5. Agreed'
    <3> SUFFICES ASSUME ~overtaken', ~doubt', Built' # None PROVE Built' = ws'.state
      BY DEF Agreed
    <3>1. Built = ws.state \/ \E u \in Procs : Undoable(u) /\ Built = call[u].previous
      BY <1>2, <1>5, <2>1 DEF SInv, Agreed
    <3>2. view # call[p].previous
      BY SMT, <1>6, <1>7, <2>1, Numbers
    <3> QED BY <1>2, <1>4, <1>5, <2>1, <3>1, <3>2
  <2> QED BY <1>13, <2>3, <2>4, <2>5 DEF SInv
<1>16. CASE Saves(p)
  <2>1. /\ a = "ok" /\ view' = call[p].state /\ row' = call[p].state /\ (doubt' <=> doubt)
        /\ view # None /\ view.gen <= call[p].state.gen
    BY <1>3, <1>16, SMT DEF Saves
  <2>2. \A u \in Procs : ~Undoable(u)'
    BY <1>3, <1>4, <2>1 DEF Undoable
  <2>3. ~overtaken => ws.state = call[p].state
    BY <1>0, <1>2, <2>1, SinkOrder
  <2>4. Newer' /\ Present' /\ Priced'
    <3>1. call[p].state.gen >= call[p].state.gen
      BY SMT, <1>6, Numbers
    <3>2. Present'
      BY <1>2, <1>5, <1>6, <2>1 DEF Present
    <3> QED BY <1>3, <1>5, <1>8, <1>9, <1>10, <2>1, <3>1, <3>2 DEF Priced
  <2>5. Chain'
    <3> SUFFICES ASSUME Chained' PROVE Chain!2'
      BY DEF Chain
    <3>1. ws.state = call[p].state
      BY <1>2, <2>3 DEF Chained
    <3> QED BY <1>2, <1>3, <1>4, <1>5, <2>1, <2>2, <3>1 DEF From
  <2>6. Agreed'
    BY <1>2, <1>5, <2>1, <2>3 DEF Agreed
  <2> QED BY <1>13, <2>4, <2>5, <2>6 DEF SInv
<1>17. CASE ReadsBack(p)
  <2>1. /\ a = "failed" /\ view' = row /\ row' = row /\ (doubt' <=> doubt)
        /\ view # None /\ view.gen <= call[p].state.gen
    BY <1>3, <1>17, SMT DEF ReadsBack
  <2>2. \A u \in Procs : Undoable(u)' <=> Undoable(u)
    BY <1>0, <1>2, <1>3, <1>4, <2>1 DEF Undoable
  <2>3. Newer' /\ Present' /\ Priced'
    BY <1>2, <1>5, <1>7, <1>8, <1>9, <1>10, <2>1 DEF Present, Priced
  <2>4. Chain'
    <3> SUFFICES ASSUME Chained' PROVE Chain!2'
      BY DEF Chain
    <3>1. ~overtaken
      BY <1>2 DEF Chained
    <3>2. /\ ws.state = call[p].state /\ (row = ws.state \/ From(call[p].previous, row))
          /\ From(ws.state, row)
      BY <1>0, <1>2, <2>1, <3>1, SinkOrder
    <3> QED BY <1>2, <1>3, <1>4, <1>5, <2>1, <3>2 DEF From
  <2>5. Agreed'
    <3> SUFFICES ASSUME ~overtaken', ~doubt', Built' # None
                 PROVE  Built' = ws'.state \/ \E u \in Procs : Undoable(u)' /\ Built' = call'[u].previous
      BY DEF Agreed
    <3>1. Built = ws.state \/ \E u \in Procs : Undoable(u) /\ Built = call[u].previous
      BY <1>2, <1>5, <2>1 DEF SInv, Agreed
    <3>2. Built' = Built
      BY <1>5, <1>7, <2>1
    <3> QED BY <1>2, <1>3, <1>4, <2>2, <3>1, <3>2
  <2> QED BY <1>13, <2>3, <2>4, <2>5 DEF SInv
<1>18. CASE Guesses(p)
  <2>1. /\ a = "unknown" /\ view' = call[p].state /\ row' \in {row, call[p].state} /\ doubt'
        /\ view # None /\ view.gen <= call[p].state.gen
    BY <1>3, <1>18, SMT DEF Guesses
  <2>2. \A u \in Procs : ~Undoable(u)'
    BY <1>3, <1>4, <2>1 DEF Undoable
  <2>3. Newer' /\ Present' /\ Priced' /\ Agreed'
    <3>1. Present'
      BY <1>2, <1>5, <1>6, <1>7, <2>1 DEF Present
    <3> QED BY <1>8, <1>9, <1>10, <2>1, <3>1 DEF Priced, Agreed
  <2>4. Chain'
    <3> SUFFICES ASSUME Chained' PROVE Chain!2'
      BY DEF Chain
    <3>1. ~overtaken
      BY <1>2 DEF Chained
    <3>2. ws.state = call[p].state /\ From(ws.state, row)
      BY <1>0, <1>2, <2>1, <3>1, SinkOrder
    <3>3. From(call[p].state, row')
      BY <2>1, <3>2 DEF From
    <3> QED BY <1>2, <1>3, <1>4, <1>5, <2>1, <2>2, <3>2, <3>3 DEF From
  <2> QED BY <1>13, <2>3, <2>4 DEF SInv
<1> QED BY <1>14, <1>15, <1>16, <1>17, <1>18, SinkCases

\* p's transition is settled.
Settles(p) ==
    /\ Waits(p) /\ call[p].pc # "emit" /\ host = "up" /\ \A u \in Procs : ~Waits(u)'
    /\ UNCHANGED <<host, commitMu, restored, view, row, clock, doubt, fresh>>
    /\ ws'.state = IF call[p].pc = "failed" /\ ws.state = call[p].state THEN call[p].previous ELSE ws.state
    /\ overtaken => overtaken'
    /\ call[p].pc = "failed" /\ ws.state = call[p].state /\ call[p].state \in {view, restored} => overtaken'
    /\ \/ spent' = spent
       \/ p \in Requests /\ call[p].pc = "ok" /\ spent' = spent \cup {call[p].token}

\* No state has the token of the request that is answered.
LEMMA TokenGone ==
    ASSUME IInv, SInv, NEW r \in Requests, call[r].pc = "ok", ~doubt
    PROVE  /\ call[r].token \in Nat /\ call[r].token <= clock /\ call[r].token \notin spent
           /\ \A x \in Access : x = ws.state \/ x \in {row, view, restored} => x.at # call[r].token
<1>1. /\ r \in Procs /\ Waits(r) /\ call[r].token = call[r].previous.at
      /\ call[r].previous \in Access /\ call[r].state \in Access /\ ws.state \in Access
  BY Shapes DEF Procs, Waits, SInv, Priced
<1>2. Known(call[r].previous)
  BY <1>1 DEF Known
<1>3. /\ call[r].previous.at <= clock /\ call[r].previous.at \notin spent
      /\ call[r].previous.at \in Nat
  BY <1>1, <1>2, Numbers DEF SInv, Stamped
<1>4. ASSUME NEW x \in Access, x = ws.state \/ x \in {row, view, restored}
      PROVE  x.at # call[r].previous.at
  <2>1. x # None /\ Known(x)
    BY <1>4, Numbers DEF Known
  <2>2. x.gen >= call[r].state.gen
    <3>1. CASE x = ws.state
      <4>1. From(ws.state, call[r].state)
        BY <1>1 DEF SInv, Newer
      <4> QED BY <1>1, <3>1, <4>1, FromGen
    <3>2. CASE x \in {row, view, restored}
      BY <2>1, <3>2 DEF SInv, Priced
    <3> QED BY <1>4, <3>1, <3>2
  <2>3. call[r].state.gen > call[r].previous.gen
    BY <1>1 DEF SInv, Newer
  <2>4. x # call[r].previous
    BY SMT, <1>1, <2>2, <2>3, Numbers
  <2> QED BY <1>1, <1>2, <2>1, <2>4 DEF SInv, Stamped
<1> QED BY <1>1, <1>3, <1>4

\* Settling keeps SInv.
LEMMA SettlesKeeps == ASSUME IInv, IInv', SInv, NEW p \in Procs, Settles(p) PROVE SInv'
<1>1. /\ host' = host /\ restored' = restored /\ view' = view /\ row' = row /\ commitMu' = commitMu
      /\ (doubt' <=> doubt) /\ host = "up" /\ clock' = clock /\ Waits(p)
      /\ \A u \in Procs : ~Waits(u)'
  BY SMT DEF Settles
<1>2. Built' = Built /\ (~overtaken' => ~overtaken) /\ \A u \in Procs : ~Undoable(u)'
  BY <1>1 DEF Built, Settles, Undoable, Waits
<1>3. /\ \A u \in Procs : Undoable(u) => u = p
      /\ call[p].state \in Access /\ call[p].previous \in Access /\ ws.state \in Access
      /\ Built = None \/ Built \in Access
      /\ row = None \/ row \in Access
  <2>1. \A u \in Procs : Undoable(u) => Waits(u)
    BY DEF Undoable, Waits
  <2> QED BY <1>1, <2>1, Shapes
<1>4. Newer' /\ Present'
  <2>1. Newer'
    BY <1>1 DEF Newer
  <2>2. Present'
    BY <1>1 DEF SInv, Present
  <2> QED BY <2>1, <2>2
<1>5. ASSUME call[p].pc = "failed" /\ ws.state = call[p].state PROVE Chain' /\ Agreed'
  <2>1. ws'.state = call[p].previous /\ Undoable(p)
    BY <1>5 DEF Settles, Undoable
  <2>2. ~overtaken' => Built # ws.state
    BY <1>5 DEF Settles, Built
  <2>3. Chain'
    <3> SUFFICES ASSUME Chained' PROVE Chain!2'
      BY DEF Chain
    <3>1. Chained /\ ~overtaken'
      BY <1>1, <1>2 DEF Chained
    <3>2. From(Built, row) /\ From(call[p].previous, Built)
      BY <2>1, <2>2, <3>1 DEF SInv, Chain
    <3> QED BY <1>1, <1>2, <2>1, <3>2
  <2>4. Agreed'
    <3> SUFFICES ASSUME ~overtaken', ~doubt', Built' # None PROVE Built' = ws'.state
      BY DEF Agreed
    <3>1. Built = ws.state \/ \E u \in Procs : Undoable(u) /\ Built = call[u].previous
      BY <1>1, <1>2 DEF SInv, Agreed
    <3> QED BY <1>2, <1>3, <2>1, <2>2, <3>1
  <2> QED BY <2>3, <2>4
<1>6. ASSUME ~(call[p].pc = "failed" /\ ws.state = call[p].state) PROVE Chain' /\ Agreed'
  <2>1. ws'.state = ws.state
    BY <1>6 DEF Settles
  <2>2. Chain'
    <3> SUFFICES ASSUME Chained' PROVE Chain!2'
      BY DEF Chain
    <3>1. Chained
      BY <1>1, <1>2 DEF Chained
    <3>2. From(Built, row) /\ From(ws.state, Built)
      BY <3>1 DEF SInv, Chain
    <3> QED BY <1>1, <1>2, <2>1, <3>2
  <2>3. Agreed'
    <3> SUFFICES ASSUME ~overtaken', ~doubt', Built' # None PROVE Built' = ws'.state
      BY DEF Agreed
    <3>1. Built = ws.state \/ \E u \in Procs : Undoable(u) /\ Built = call[u].previous
      BY <1>1, <1>2 DEF SInv, Agreed
    <3>2. ~Undoable(p)
      BY <1>6 DEF Undoable, Settles
    <3> QED BY <1>2, <1>3, <2>1, <3>1, <3>2
  <2> QED BY <2>2, <2>3
<1>7. Priced'
  BY <1>1 DEF Priced, Procs, Waits
<1>8. \A x \in Access : Known(x)' => Known(x) /\ (x = ws'.state \/ x \in {row, view, restored})
  <2>1. ws'.state \in {ws.state, call[p].previous}
    BY DEF Settles
  <2> QED BY <1>1, <2>1 DEF Known
<1>9. Stamped'
  <2>1. CASE spent' = spent
    BY <1>1, <1>8, <2>1, StampedKept DEF SInv
  <2>2. ASSUME p \in Requests, call[p].pc = "ok", spent' = spent \cup {call[p].token} PROVE Stamped'
    <3>1. ws'.state = ws.state
      BY <2>2 DEF Settles
    <3>2. /\ \A x \in Access : Known(x)' => x.at <= clock'
          /\ \A x, y \in Access : Known(x)' /\ Known(y)' /\ x.at = y.at => x = y
      BY <1>1, <1>8 DEF SInv, Stamped
    <3>3. ASSUME ~doubt', NEW t \in spent' PROVE t <= clock' /\ \A x \in Access : Known(x)' => x.at # t
      <4>1. CASE t \in spent
        BY <1>1, <1>8, <3>3, <4>1 DEF SInv, Stamped
      <4>2. CASE t = call[p].token
        <5>1. /\ call[p].token <= clock
              /\ \A x \in Access : x = ws.state \/ x \in {row, view, restored} => x.at # call[p].token
          BY <1>1, <2>2, <3>3, TokenGone
        <5> QED BY <1>1, <1>8, <3>1, <4>2, <5>1
      <4> QED BY <2>2, <3>3, <4>1, <4>2
    <3> QED BY <3>2, <3>3 DEF Stamped
  <2> QED BY <2>1, <2>2 DEF Settles
<1> QED BY <1>4, <1>5, <1>6, <1>7, <1>9 DEF SInv

\* Restore puts a state in the service and in the view it builds.
Builds(n) ==
    /\ n \in Access /\ commitMu \in {"restoring", "restore"} /\ commitMu' = "restore"
    /\ ws'.state = n /\ restored' = n /\ clock' = clock + 1
    /\ UNCHANGED <<host, view, row, call, doubt, overtaken, spent, fresh>>
    /\ row # None
    /\ host = "up" \/ commitMu = "restore" => n = ws.state \/ n.gen > ws.state.gen
    /\ host = "down" /\ commitMu # "restore" /\ ~fresh => From(n, row)
    /\ Known(n) \/ n.at = clock + 1

\* What Restore builds keeps SInv.
LEMMA BuildsKeeps == ASSUME IInv, IInv', SInv, NEW n, Builds(n) PROVE SInv'
<1>1. /\ host' = host /\ view' = view /\ row' = row /\ call' = call /\ spent' = spent
      /\ (doubt' <=> doubt) /\ (overtaken' <=> overtaken) /\ (fresh' <=> fresh)
      /\ n \in Access /\ commitMu' = "restore" /\ ws'.state = n /\ restored' = n /\ clock' = clock + 1
      /\ row # None /\ commitMu # "free"
  BY SMT DEF Builds
<1>2. /\ Built' = n /\ n # None /\ ws.state \in Access /\ row \in Access
      /\ Built = None \/ Built \in Access
  BY <1>1, Shapes, Numbers DEF Built
<1>3. /\ \A p \in Procs : Waits(p)' <=> Waits(p)
      /\ \A p \in Procs : Undoable(p) \/ Undoable(p)' => Waits(p)
      /\ \A p \in Procs : Waits(p) => call[p].state \in Access /\ call[p].previous \in Access
  BY <1>1, Shapes DEF Waits, Undoable
<1>4. host \in {"up", "down"} /\ (host = "down" => \A p \in Procs : ~Waits(p))
  BY DEF IInv, TypeOK, Phases, Busy, Waits
<1>5. ASSUME NEW p \in Procs, Waits(p)
      PROVE  /\ n = ws.state \/ n.gen > ws.state.gen
             /\ From(n, call[p].state) /\ call[p].state.gen > call[p].previous.gen
             /\ n = call[p].state => n = ws.state
  <2>1. n = ws.state \/ n.gen > ws.state.gen
    BY <1>4, <1>5 DEF Builds
  <2>2. From(ws.state, call[p].state) /\ call[p].state.gen > call[p].previous.gen
    BY <1>5 DEF SInv, Newer
  <2>3. CASE n.gen > ws.state.gen
    BY <1>1, <1>2, <1>3, <1>5, <2>2, <2>3, FromLater
  <2> QED BY <2>1, <2>2, <2>3
<1>6. Newer'
  BY <1>1, <1>3, <1>5 DEF SInv, Newer
<1>7. Present'
  BY <1>1, <1>2 DEF SInv, Present
<1>8. Chain'
  <2> SUFFICES ASSUME Chained' PROVE Chain!2'
    BY DEF Chain
  <2>1. ~overtaken /\ (host = "up" \/ ~fresh)
    BY <1>1 DEF Chained
  <2>2. host = "up" \/ commitMu = "restore" => Chained
    BY <1>1, <2>1 DEF SInv, Present, Chained, Built, Builds
  <2>3. From(n, row)
    <3>1. CASE host = "up" \/ commitMu = "restore"
      <4>1. Chained /\ Built \in Access
        BY <1>2, <2>2, <3>1 DEF Chained
      <4>2. From(ws.state, Built) /\ From(Built, row)
        BY <4>1 DEF SInv, Chain
      <4>3. From(ws.state, row)
        BY <1>2, <4>1, <4>2, FromTrans
      <4>4. n = ws.state \/ n.gen > ws.state.gen
        BY <3>1 DEF Builds
      <4> QED BY <1>1, <1>2, <4>3, <4>4, FromLater
    <3>2. CASE host = "down" /\ commitMu # "restore"
      BY <2>1, <3>2 DEF Builds
    <3> QED BY <1>4, <3>1, <3>2
  <2>4. ASSUME NEW p \in Procs, Waits(p) PROVE n = call[p].state \/ n.gen > call[p].state.gen
    BY <1>5, <2>4 DEF From
  <2>5. ASSUME NEW p \in Procs, Undoable(p)' PROVE row = n \/ From(call[p].previous, row)
    <3>1. n = call[p].state /\ Waits(p) /\ n = ws.state
      BY <1>1, <1>3, <1>5, <2>5 DEF Undoable
    <3>2. Undoable(p) /\ host = "up"
      BY <1>1, <1>4, <2>5, <3>1 DEF Undoable
    <3> QED BY <2>2, <3>1, <3>2 DEF SInv, Chain
  <2> QED BY <1>1, <1>2, <1>3, <2>3, <2>4, <2>5 DEF From
<1>9. Agreed'
  BY <1>1, <1>2 DEF Agreed
<1>10. Stamped'
  <2>1. \A x \in Access : Known(x)' => Known(x) \/ x = n
    BY <1>1, <1>3 DEF Known
  <2>2. CASE Known(n)
    BY <1>1, <2>1, <2>2, StampedKept DEF SInv
  <2>3. CASE n.at = clock + 1
    BY <1>1, <2>1, <2>3, StampedGrows DEF SInv
  <2> QED BY <2>2, <2>3 DEF Builds
<1>11. Priced'
  <2>1. ASSUME NEW r \in Requests, call[r].pc = "ok" PROVE n.gen >= call[r].state.gen
    <3>1. r \in Procs /\ Waits(r)
      BY <2>1 DEF Procs, Waits
    <3> QED BY <1>1, <1>3, <1>5, <3>1, FromGen
  <2>2. \A r \in Requests : r \in Procs
    BY DEF Procs
  <2>3. ASSUME NEW r \in Requests, call[r].pc = "ok", ~doubt
        PROVE  \A x \in {row', view', restored'} : x = None \/ x.gen >= call[r].state.gen
    BY <1>1, <2>1, <2>3 DEF SInv, Priced
  <2> QED BY <1>1, <1>3, <2>2, <2>3 DEF SInv, Priced
<1> QED BY <1>6, <1>7, <1>8, <1>9, <1>10, <1>11 DEF SInv

\* The view Restore built takes effect, saved or not.
LEMMA RegisteredKeeps == ASSUME IInv, IInv', SInv, registerRestored PROVE SInv'
<1>1. /\ commitMu = "restore" /\ commitMu' = "free" /\ view' = restored /\ restored' = None
      /\ ws' = ws /\ call' = call /\ clock' = clock /\ spent' = spent
      /\ (overtaken' <=> overtaken) /\ (fresh' <=> fresh)
  BY SMT DEF registerRestored
<1>2. /\ Built = restored /\ Built' = restored /\ restored # None /\ row # None
      /\ host = "down" => restored = ws.state
  BY <1>1 DEF Built, SInv, Present
<1>3. \A p \in Procs : (Waits(p)' <=> Waits(p)) /\ (Undoable(p)' <=> Undoable(p))
  BY <1>1 DEF Waits, Undoable
<1>4. /\ host \in {"up", "down"}
      /\ host = "down" => \A p \in Procs : ~Waits(p) /\ ~Undoable(p)
  BY DEF IInv, TypeOK, Phases, Busy, Waits, Undoable
<1>5. \/ row' = restored /\ host' = "up" /\ (doubt' <=> doubt)
      \/ row' = row /\ host' = host /\ doubt'
  <2>1. CASE row' = restored /\ host' = "up" /\ UNCHANGED <<doubt, faults>>
    BY SMT, <2>1
  <2>2. CASE Fault /\ doubt' = TRUE /\ UNCHANGED <<row, host>>
    BY SMT, <2>2
  <2> QED BY <2>1, <2>2 DEF registerRestored
<1>6. Newer'
  BY <1>1, <1>3, <1>5 DEF SInv, Newer
<1>7. Present'
  BY <1>1, <1>2, <1>5 DEF Present
<1>8. Chain'
  <2> SUFFICES ASSUME Chained' PROVE Chain!2'
    BY DEF Chain
  <2>1. ~overtaken /\ host' = "up"
    BY <1>1 DEF Chained
  <2>2. CASE Chained
    <3>1. Chain!2
      BY <2>2 DEF SInv, Chain
    <3>2. From(Built', row')
      BY <1>2, <1>5, <3>1 DEF From
    <3>3. row' \in {row, Built}
      BY <1>2, <1>5
    <3> QED BY <1>1, <1>2, <1>3, <3>1, <3>2, <3>3
  <2>3. CASE ~Chained
    <3>1. host = "down"
      BY <1>2, <1>4, <2>1, <2>3 DEF Chained
    <3>2. row' = restored
      BY <1>5, <2>1, <3>1
    <3> QED BY <1>1, <1>2, <1>3, <1>4, <3>1, <3>2 DEF From
  <2> QED BY <2>2, <2>3
<1>9. Agreed'
  <2> SUFFICES ASSUME host' = "up", ~overtaken', ~doubt', Built' # None
               PROVE  Built' = ws'.state \/ \E u \in Procs : Undoable(u)' /\ Built' = call'[u].previous
    BY DEF Agreed
  <2>1. ~overtaken /\ ~doubt
    BY <1>1, <1>5
  <2>2. CASE host = "up"
    BY <1>1, <1>2, <1>3, <2>1, <2>2 DEF SInv, Agreed
  <2>3. CASE host = "down"
    BY <1>1, <1>2, <2>3
  <2> QED BY <1>4, <2>2, <2>3
<1>10. Stamped'
  <2>1. \A x \in Access : Known(x)' => Known(x)
    BY <1>1, <1>2, <1>3, <1>5 DEF Known
  <2> QED BY <1>1, <1>5, <2>1, StampedKept DEF SInv
<1>11. Priced'
  <2>1. \A r \in Requests : r \in Procs
    BY DEF Procs
  <2>2. ASSUME NEW r \in Requests, call[r].pc = "ok", ~doubt'
        PROVE  \A x \in {row', view', restored'} : x = None \/ x.gen >= call[r].state.gen
    <3>1. ~doubt /\ row' = restored
      BY <1>5, <2>2
    <3>2. restored.gen >= call[r].state.gen
      BY <1>2, <2>2, <3>1 DEF SInv, Priced
    <3> QED BY <1>1, <3>1, <3>2
  <2> QED BY <1>1, <1>3, <2>1, <2>2 DEF SInv, Priced
<1> QED BY <1>6, <1>7, <1>8, <1>9, <1>10, <1>11 DEF SInv

\* The view is saved once more.
LEMMA PersistKeeps == ASSUME IInv, SInv, persistState PROVE SInv'
<1>1. /\ host = "up" /\ host' = host /\ commitMu = "free" /\ commitMu' = commitMu /\ view # None
      /\ row' = view /\ view' = view /\ restored' = restored
      /\ ws' = ws /\ call' = call /\ clock' = clock /\ spent' = spent
      /\ (overtaken' <=> overtaken) /\ (fresh' <=> fresh) /\ (doubt' <=> doubt)
  BY SMT DEF persistState
<1>2. Built = view /\ Built' = view /\ restored = None /\ row # None
  BY <1>1 DEF Built, SInv, Present
<1>3. \A p \in Procs : (Waits(p)' <=> Waits(p)) /\ (Undoable(p)' <=> Undoable(p))
  BY <1>1 DEF Waits, Undoable
<1>4. Newer' /\ Present'
  <2>1. Newer'
    BY <1>1, <1>3 DEF SInv, Newer
  <2> QED BY <1>1, <1>2, <2>1 DEF Present
<1>5. Chain'
  <2> SUFFICES ASSUME Chained' PROVE Chain!2'
    BY DEF Chain
  <2>1. Chained
    BY <1>1, <1>2 DEF Chained
  <2>2. Chain!2
    BY <2>1 DEF SInv, Chain
  <2> QED BY <1>1, <1>2, <1>3, <2>2 DEF From
<1>6. Agreed'
  BY <1>1, <1>2, <1>3 DEF SInv, Agreed
<1>7. Stamped'
  <2>1. \A x \in Access : Known(x)' => Known(x)
    BY <1>1, <1>3 DEF Known
  <2> QED BY <1>1, <2>1, StampedKept DEF SInv
<1>8. Priced'
  <2>1. \A r \in Requests : r \in Procs
    BY DEF Procs
  <2> QED BY <1>1, <1>2, <1>3, <2>1 DEF SInv, Priced
<1> QED BY <1>4, <1>5, <1>6, <1>7, <1>8 DEF SInv

\* The codex is forgotten.
LEMMA ForgetKeeps == ASSUME IInv, SInv, ForgetCodex PROVE SInv'
<1>1. /\ commitMu = "free" /\ commitMu' = "forget" /\ view' = None /\ row' = None
      /\ restored' = restored /\ ws' = ws /\ call' = call /\ clock' = clock /\ spent' = spent
      /\ (doubt' <=> doubt)
  BY SMT DEF ForgetCodex
<1>2. Built' = None /\ restored = None
  BY <1>1 DEF Built, SInv, Present
<1>3. \A p \in Procs : Waits(p)' <=> Waits(p)
  BY <1>1 DEF Waits
<1>4. Newer'
  BY <1>1, <1>3 DEF SInv, Newer
<1>5. Present' /\ Chain' /\ Agreed'
  BY <1>1, <1>2 DEF Present, Chain, Chained, Agreed
<1>6. Stamped'
  <2>1. \A x \in Access : Known(x)' => Known(x)
    BY <1>1, <1>2, <1>3 DEF Known
  <2> QED BY <1>1, <2>1, StampedKept DEF SInv
<1>7. Priced'
  <2>1. \A r \in Requests : r \in Procs
    BY DEF Procs
  <2> QED BY <1>1, <1>2, <1>3, <2>1 DEF SInv, Priced
<1> QED BY <1>4, <1>5, <1>6, <1>7 DEF SInv

\* The Host ends: what is left is the row.
LEMMA CrashKeeps == ASSUME IInv, IInv', SInv, Crash PROVE SInv'
<1>1. /\ host' = "down" /\ commitMu' = "free" /\ restored' = None /\ view' = None
      /\ ws'.state = ws.state /\ row' = row /\ clock' = clock /\ spent' = spent /\ (doubt' <=> doubt)
  <2>1. ws \in Workspaces
    BY DEF IInv, TypeOK
  <2> QED BY SMT, <2>1 DEF Crash, Workspaces
<1>2. \A p \in Procs : ~Waits(p)'
  BY <1>1 DEF IInv, Phases, Busy, Waits
<1>3. Newer' /\ Present' /\ Chain' /\ Agreed'
  BY <1>1, <1>2 DEF Newer, Present, Chain, Chained, Agreed
<1>4. Stamped'
  <2>1. \A x \in Access : Known(x)' => Known(x)
    BY <1>1, <1>2 DEF Known
  <2> QED BY <1>1, <2>1, StampedKept DEF SInv
<1>5. Priced'
  BY <1>2 DEF Priced, Procs, Waits
<1> QED BY <1>3, <1>4, <1>5 DEF SInv

\* The steps of a request that move no state.
LEMMA RequestQuiet ==
    ASSUME IInv, NEW r \in Requests,
           \/ GetWorkspace(r) \/ ReadText(r) \/ NotWritten(r) \/ rollbackMutation(r)
           \/ \E k \in {"create", "replace", "upload", "zip"} : stageTarget(r, k)
    PROVE  Quiet
<1>0. r \in Procs /\ call \in [Procs -> Calls] /\ call[r] \in Calls
  BY DEF IInv, TypeOK, Procs
<1>1. UNCHANGED <<host, ws, commitMu, restored, view, row, doubt, overtaken, clock, spent, fresh>>
  BY DEF GetWorkspace, ReadText, stageTarget, NotWritten, rollbackMutation
<1>2. /\ \A p \in Procs \ {r} : call'[p] = call[p]
      /\ call[r].pc \in {"idle", "staged", "undo"}
  BY <1>0 DEF GetWorkspace, ReadText, stageTarget, NotWritten, rollbackMutation
<1>3. call'[r].pc \in {"idle", "staged", "undo", "done"}
  <2>1. CASE GetWorkspace(r) \/ ReadText(r) \/ NotWritten(r) \/ rollbackMutation(r)
    BY SMT, <1>0, <2>1 DEF GetWorkspace, ReadText, NotWritten, rollbackMutation, Calls, NoCall
  <2> QED BY <2>1, StageCall DEF IInv
<1>4. \A p \in Procs : (Waits(p)' <=> Waits(p)) /\ (Waits(p) => call'[p] = call[p])
  BY <1>2, <1>3 DEF Waits
<1> QED BY <1>1, <1>4 DEF Quiet

\* Restore begins, Forget ends, or nothing happens.
LEMMA RestQuiet == ASSUME IInv, restoreLocked \/ Unregister \/ UNCHANGED vars PROVE Quiet
<1>0. ws \in Workspaces
  BY DEF IInv, TypeOK
<1>1. UNCHANGED <<host, restored, view, row, doubt, overtaken, clock, spent, fresh, call>>
  BY DEF restoreLocked, Unregister, vars
<1>2. ws'.state = ws.state
  BY <1>0 DEF restoreLocked, Unregister, vars, Workspaces
<1>3. commitMu' = "restore" <=> commitMu = "restore"
  BY DEF restoreLocked, Unregister, vars
<1>4. \A p \in Procs : (Waits(p)' <=> Waits(p)) /\ (Waits(p) => call'[p] = call[p])
  BY <1>1 DEF Waits
<1> QED BY <1>1, <1>2, <1>3, <1>4 DEF Quiet

\* AgentStarted and AgentStopped advance the state.
LEMMA TransitionAdvances ==
    ASSUME IInv, NEW c \in Callers, NEW a \in Agents, NEW kind, NEW S \in SUBSET Agents,
           Transition(c, kind, a, S)
    PROVE  Advances(c, Advanced(S)) /\ Advanced(S) \in Access
<1>0. /\ TypeOK /\ c \in Procs /\ c \notin Requests /\ call \in [Procs -> Calls] /\ ws \in Workspaces
      /\ ws.state \in Access
  BY CallersAssumption DEF IInv, TypeOK, Procs, Workspaces
<1>1. Advanced(S) \in Access /\ Advanced(S).gen = ws.state.gen + 1
  BY <1>0, AdvancedTyped
<1>2. Advanced(S).gen > ws.state.gen /\ Advanced(S).at = clock + 1
  BY SMT, <1>0, <1>1, Numbers DEF Advanced
<1>3. \A u \in Procs : ~Waits(u)
  BY Alone DEF Transition
<1>4. /\ host = "up" /\ clock' = clock + 1
      /\ UNCHANGED <<host, commitMu, restored, view, row, doubt, overtaken, spent>>
  BY DEF Transition, lockMutationCoordinator
<1>5. ws'.state = Advanced(S)
  BY <1>0 DEF Transition, Workspaces
<1> DEFINE now == [NoCall EXCEPT !.pc = "emit", !.kind = kind, !.agent = a,
                                 !.previous = ws.state, !.state = Advanced(S)]
<1>6. now.pc = "emit" /\ now.previous = ws.state /\ now.state = Advanced(S)
  BY DEF NoCall
<1>7. call'[c] = now /\ \A p \in Procs \ {c} : call'[p] = call[p]
  BY <1>0 DEF Transition
<1> HIDE DEF now
<1>8. \A u \in Procs \ {c} : ~Waits(u)'
  BY <1>3, <1>7 DEF Waits
<1> QED BY <1>0, <1>1, <1>2, <1>3, <1>4, <1>5, <1>6, <1>7, <1>8 DEF Advances

\* A request whose content is in place advances the state.
LEMMA AtomicAdvances ==
    ASSUME IInv, NEW r \in Requests, atomicFile(r)
    PROVE  Advances(r, Advanced(ws.agents)) /\ Advanced(ws.agents) \in Access
<1>0. /\ TypeOK /\ r \in Procs /\ None \notin Procs /\ call \in [Procs -> Calls] /\ call[r] \in Calls
      /\ ws \in Workspaces /\ ws.state \in Access /\ ws.agents \in SUBSET Agents
  BY NoneAssumption DEF IInv, TypeOK, Procs, Workspaces
<1>1. Advanced(ws.agents) \in Access /\ Advanced(ws.agents).gen = ws.state.gen + 1
  BY <1>0, AdvancedTyped
<1>2. Advanced(ws.agents).gen > ws.state.gen /\ Advanced(ws.agents).at = clock + 1
  BY SMT, <1>0, <1>1, Numbers DEF Advanced
<1>3. ws.pending = None /\ ws.state.count = 0 /\ call[r].token = QuiescenceToken(ws.state)
  BY DEF IInv, Staged, atomicFile
<1>4. call[r].token = ws.state.at
  BY <1>3 DEF QuiescenceToken
<1>5. \A p \in Procs : ~Waits(p)
  BY <1>0, <1>3 DEF IInv, Counted
<1>6. /\ host = "up" /\ clock' = clock + 1
      /\ UNCHANGED <<host, commitMu, restored, view, row, doubt, overtaken, spent>>
  BY DEF atomicFile
<1>7. ws'.state = Advanced(ws.agents)
  BY <1>0 DEF atomicFile, Workspaces
<1> DEFINE now == [call[r] EXCEPT !.pc = "emit", !.previous = ws.state, !.state = Advanced(ws.agents)]
<1>8. /\ now.pc = "emit" /\ now.previous = ws.state /\ now.state = Advanced(ws.agents)
      /\ now.token = call[r].token
  BY <1>0 DEF Calls
<1>9. call'[r] = now /\ \A p \in Procs \ {r} : call'[p] = call[p]
  BY <1>0 DEF atomicFile
<1> HIDE DEF now
<1>10. \A u \in Procs \ {r} : ~Waits(u)'
  BY <1>5, <1>9 DEF Waits
<1> QED BY <1>1, <1>2, <1>4, <1>5, <1>6, <1>7, <1>8, <1>9, <1>10 DEF Advances

\* The answers settle a transition.
LEMMA DoneSettles ==
    ASSUME IInv, NEW p \in Procs, AgentDone(p) \/ (p \in Requests /\ (MutationDone(p) \/ MutationRefused(p)))
    PROVE  Settles(p)
<1>0. call \in [Procs -> Calls] /\ call[p] \in Calls /\ ws \in Workspaces
  BY DEF IInv, TypeOK
<1>1. Waits(p) /\ call[p].pc # "emit" /\ host = "up" /\ ws' = rollbackState(p)
  BY DEF AgentDone, MutationDone, MutationRefused, Waits
<1>2. UNCHANGED <<host, commitMu, restored, view, row, clock, doubt, fresh>>
  BY DEF AgentDone, MutationDone, MutationRefused
<1>3. ws'.state = IF call[p].pc = "failed" /\ ws.state = call[p].state THEN call[p].previous ELSE ws.state
  BY <1>0, <1>1 DEF rollbackState, Workspaces
<1>4. /\ [NoCall EXCEPT !.pc = "done"].pc = "done" /\ NoCall.pc = "idle"
      /\ [call[p] EXCEPT !.pc = "undo"].pc = "undo"
  BY <1>0 DEF NoCall, Calls
<1>5. /\ call'[p] \in {NoCall, [NoCall EXCEPT !.pc = "done"], [call[p] EXCEPT !.pc = "undo"]}
      /\ \A u \in Procs \ {p} : call'[u] = call[u]
  BY <1>0 DEF AgentDone, MutationDone, MutationRefused
<1>6. \A u \in Procs : Waits(u) => u = p
  BY <1>1, Shapes
<1>7. \A u \in Procs : ~Waits(u)'
  BY <1>4, <1>5, <1>6 DEF Waits
<1>8. /\ overtaken => overtaken'
      /\ call[p].pc = "failed" /\ ws.state = call[p].state /\ call[p].state \in {view, restored} => overtaken'
  <2>1. CASE overtaken' = Overtaken(p)
    BY <2>1 DEF Overtaken
  <2>2. CASE MutationDone(p)
    <3>1. overtaken' = overtaken /\ call[p].pc # "failed"
      BY <2>2 DEF MutationDone
    <3> QED BY SMT, <3>1
  <2> QED BY <2>1, <2>2 DEF AgentDone, MutationRefused
<1>9. \/ spent' = spent
      \/ p \in Requests /\ call[p].pc = "ok" /\ spent' = spent \cup {call[p].token}
  BY DEF AgentDone, MutationDone, MutationRefused
<1> QED BY <1>1, <1>2, <1>3, <1>7, <1>8, <1>9 DEF Settles

\* Restore builds from the row, or from what the service has.
LEMMA RegisterBuilds == ASSUME IInv, IInv', Register PROVE Builds(ws'.state)
<1>0. /\ TypeOK /\ Phases /\ ws \in Workspaces /\ ws.state \in Access /\ commitMu = "restoring"
      /\ row # None /\ row \in Access /\ clock \in Nat /\ ws'.state \in Access
  BY DEF IInv, TypeOK, Workspaces, Register, Phases
<1>1. Rebuilt \in Access
  BY <1>0, RebuiltTyped
<1>2. /\ UNCHANGED <<host, view, row, call, doubt, overtaken, spent, fresh>>
      /\ commitMu' = "restore" /\ restored' = ws'.state /\ clock' = clock + 1
  BY DEF Register
<1>3. Rebuilt = row \/ Rebuilt.at = clock + 1
  BY SMT DEF Rebuilt
<1>4. ~fresh => From(Rebuilt, row)
  <2>1. row.gen \in Nat
    BY <1>0, Numbers
  <2> QED BY SMT, <2>1 DEF Rebuilt, From
<1>5. Known(row) /\ Known(ws.state)
  BY <1>0 DEF Known
<1>6. CASE host = "down"
  <2>1. ws'.state = Rebuilt
    BY SMT, <1>6 DEF Register
  <2> QED BY <1>0, <1>2, <1>3, <1>4, <1>5, <1>6, <2>1 DEF Builds
<1>7. CASE host = "up" /\ ws.state.gen < Rebuilt.gen
  <2>1. ws' = [ws EXCEPT !.state = Rebuilt, !.agents = {}]
    BY <1>7 DEF Register
  <2>2. ws'.state = Rebuilt
    BY <1>0, <2>1 DEF Workspaces
  <2>3. Rebuilt.gen > ws.state.gen
    BY SMT, <1>0, <1>1, <1>7, Numbers
  <2> QED BY <1>0, <1>2, <1>3, <1>5, <1>7, <2>2, <2>3 DEF Builds
<1>8. CASE host = "up" /\ ~(ws.state.gen < Rebuilt.gen)
  <2>1. ws'.state = ws.state
    BY <1>8 DEF Register
  <2> QED BY <1>0, <1>2, <1>5, <1>8, <2>1 DEF Builds
<1> QED BY <1>6, <1>7, <1>8 DEF Register

\* Restore registers the agents that run.
LEMMA AgentBuilds ==
    ASSUME IInv, IInv', SInv, NEW a \in Agents, RestoreAgent(a) PROVE Builds(ws'.state)
<1>0. /\ TypeOK /\ ws \in Workspaces /\ ws.state \in Access /\ commitMu = "restore" /\ row # None
      /\ ws.agents \cup {a} \in SUBSET Agents /\ ws'.state \in Access
  BY DEF IInv, TypeOK, Workspaces, RestoreAgent, SInv, Present
<1>1. ws'.state = Advanced(ws.agents \cup {a})
  BY <1>0 DEF RestoreAgent, Workspaces
<1>2. Advanced(ws.agents \cup {a}).gen = ws.state.gen + 1
  BY <1>0, AdvancedTyped
<1>3. ws'.state.gen > ws.state.gen /\ ws'.state.at = clock + 1
  BY SMT, <1>0, <1>1, <1>2, Numbers DEF Advanced
<1>4. /\ UNCHANGED <<host, view, row, call, doubt, overtaken, spent, fresh>>
      /\ commitMu' = "restore" /\ restored' = ws'.state /\ clock' = clock + 1
  BY DEF RestoreAgent
<1> QED BY <1>0, <1>3, <1>4 DEF Builds

\* Every step keeps SInv.
LEMMA StatesKept == ASSUME IInv, IInv', SInv, [Next]_vars PROVE SInv'
<1>0. /\ Callers \subseteq Procs /\ Requests \subseteq Procs /\ ws.agents \in SUBSET Agents
  BY DEF IInv, TypeOK, Workspaces, Procs
<1>1. ASSUME NEW c \in Callers, NEW a \in Agents, AgentStarted(c, a) \/ AgentStopped(c, a) PROVE SInv'
  <2>1. PICK kind \in {"start", "stop"}, S \in SUBSET Agents : Transition(c, kind, a, S)
    BY <1>0, <1>1 DEF AgentStarted, AgentStopped
  <2>2. Advances(c, Advanced(S)) /\ Advanced(S) \in Access /\ c \in Procs
    BY <1>0, <2>1, TransitionAdvances
  <2> QED BY <2>2, AdvancesKeeps
<1>2. ASSUME NEW p \in Procs, commitWorkspaceState(p) PROVE SInv'
  BY <1>2, SinkKeeps
<1>3. ASSUME NEW p \in Procs, AgentDone(p) \/ (p \in Requests /\ (MutationDone(p) \/ MutationRefused(p)))
      PROVE  SInv'
  BY <1>3, DoneSettles, SettlesKeeps
<1>4. ASSUME NEW r \in Requests, atomicFile(r) PROVE SInv'
  <2>1. Advances(r, Advanced(ws.agents)) /\ Advanced(ws.agents) \in Access /\ r \in Procs
    BY <1>0, <1>4, AtomicAdvances
  <2> QED BY <2>1, AdvancesKeeps
<1>5. ASSUME NEW r \in Requests, RequestNext(r) PROVE SInv'
  <2>1. CASE \/ GetWorkspace(r) \/ ReadText(r) \/ NotWritten(r) \/ rollbackMutation(r)
             \/ \E k \in {"create", "replace", "upload", "zip"} : stageTarget(r, k)
    BY <2>1, RequestQuiet, QuietKeeps
  <2> QED BY <1>0, <1>2, <1>3, <1>4, <1>5, <2>1 DEF RequestNext, RequestStep
<1>6. CASE restoreLocked \/ Unregister \/ UNCHANGED vars
  BY <1>6, RestQuiet, QuietKeeps
<1>7. CASE Register
  BY <1>7, RegisterBuilds, BuildsKeeps
<1>8. ASSUME NEW a \in Agents, RestoreAgent(a) PROVE SInv'
  BY <1>8, AgentBuilds, BuildsKeeps
<1> QED BY <1>0, <1>1, <1>2, <1>3, <1>5, <1>6, <1>7, <1>8, RegisteredKeeps, PersistKeeps, ForgetKeeps,
           CrashKeeps DEF Next, AgentNext

\* At first there is one state.
LEMMA InitStates == Init => SInv
<1> SUFFICES ASSUME Init PROVE SInv
  OBVIOUS
<1> DEFINE s == [gen |-> 1, count |-> 0, at |-> 1]
<1>1. /\ ws.state = s /\ view = s /\ row = s /\ restored = None /\ clock = 1 /\ spent = {}
      /\ host = "up" /\ commitMu = "free" /\ ~doubt
  BY DEF Init
<1>2. s \in Access /\ s.at <= 1
  BY SMT DEF Access
<1> HIDE DEF s
<1>3. \A p \in Procs : ~Waits(p)
  BY DEF Init, NoCall, Waits
<1>4. \A p \in Procs : ~Undoable(p)
  BY <1>3 DEF Undoable, Waits
<1>5. Built = s
  BY <1>1 DEF Built
<1>6. Newer /\ Present /\ Agreed
  BY <1>1, <1>2, <1>3, <1>5, NoStateAssumption DEF Newer, Present, Agreed
<1>7. Chain
  BY <1>1, <1>3, <1>4, <1>5 DEF Chain, From
<1>8. \A x \in Access : Known(x) => x = s
  BY <1>1, <1>3 DEF Known
<1>9. Stamped
  BY <1>1, <1>2, <1>8 DEF Stamped
<1>10. Priced
  BY <1>3 DEF Priced, Procs, Waits
<1> QED BY <1>6, <1>7, <1>9, <1>10 DEF SInv

\* SInv holds in every reachable state.
THEOREM StateInvariance == Spec => []SInv
BY Invariance, InitStates, StatesKept, PTL DEF Spec

\* With no operation under way the workspace service, the view and the saved row
\* have the same access state.
THEOREM StatesAgreeHolds == Spec => []StatesAgree
<1>1. IInv /\ SInv => StatesAgree
  <2> SUFFICES ASSUME SInv, AtRest, view # None, ~overtaken, ~doubt PROVE ws.state = view /\ row = view
    BY DEF StatesAgree
  <2>1. Built = view /\ row = view /\ host = "up"
    BY DEF AtRest, Built, SInv, Present
  <2>2. \A p \in Procs : ~Undoable(p)
    BY DEF AtRest, Busy, Undoable
  <2> QED BY <2>1, <2>2 DEF SInv, Agreed
<1> QED BY Invariance, StateInvariance, <1>1, PTL

\* The saved generation never goes back, and never stands for two states.
THEOREM GenerationAdvancesHolds == Spec => GenerationAdvances
<1>1. ASSUME IInv, SInv, [Next]_vars
      PROVE  [~overtaken' /\ ~fresh /\ row # None /\ row' # None /\ row' # row => row'.gen > row.gen]_vars
  <2> SUFFICES ASSUME Next, ~overtaken', ~fresh, row # None, row' # None, row' # row
               PROVE  row'.gen > row.gen
    BY <1>1
  <2>0. Callers \subseteq Procs /\ Requests \subseteq Procs /\ row \in Access
    BY <1>1, Shapes DEF Procs
  <2>1. ASSUME NEW p \in Procs, commitWorkspaceState(p) PROVE row'.gen > row.gen
    <3>1. /\ ~overtaken /\ Waits(p) /\ call[p].pc = "emit" /\ host = "up" /\ commitMu = "free"
      BY <2>1, SMT DEF commitWorkspaceState, Waits
    <3>2. /\ row' = call[p].state /\ view # None /\ view.gen <= call[p].state.gen
      BY <1>1, <2>1, SinkCases DEF Refuses, Adopts, Saves, ReadsBack, Guesses
    <3>3. ws.state = call[p].state /\ (row = ws.state \/ From(call[p].previous, row))
      BY <1>1, <3>1, <3>2, SinkOrder
    <3>4. /\ call[p].state.gen > call[p].previous.gen
          /\ call[p].state \in Access /\ call[p].previous \in Access
      BY <1>1, <3>1, Shapes DEF SInv, Newer
    <3>5. From(call[p].previous, row)
      BY <3>2, <3>3
    <3> QED BY <2>0, <3>2, <3>4, <3>5, FromLater
  <2>2. CASE persistState \/ registerRestored
    <3>1. row' = Built /\ (host = "up" \/ commitMu = "restore") /\ ~overtaken
      BY <2>2, SMT DEF persistState, registerRestored, Built
    <3>2. Chained
      BY <3>1 DEF Chained
    <3> QED BY <1>1, <3>1, <3>2 DEF SInv, Chain, From
  <2>3. ASSUME NEW c \in Callers, NEW a \in Agents, AgentStarted(c, a) \/ AgentStopped(c, a) PROVE FALSE
    BY <2>3 DEF AgentStarted, AgentStopped, Transition
  <2>4. ASSUME NEW p \in Procs, AgentDone(p) PROVE FALSE
    BY <2>4 DEF AgentDone
  <2>5. ASSUME NEW r \in Requests, RequestNext(r), ~commitWorkspaceState(r) PROVE FALSE
    BY <2>5 DEF RequestNext, RequestStep, GetWorkspace, ReadText, stageTarget, atomicFile,
                NotWritten, MutationDone, MutationRefused, rollbackMutation
  <2>6. CASE restoreLocked \/ Register \/ (\E a \in Agents : RestoreAgent(a)) \/ Unregister \/ ForgetCodex \/ Crash
    BY <2>6 DEF restoreLocked, Register, RestoreAgent, Unregister, ForgetCodex, Crash
  <2> QED BY <2>0, <2>1, <2>2, <2>3, <2>4, <2>5, <2>6 DEF Next, AgentNext
<1> QED BY Invariance, StateInvariance, <1>1, PTL DEF Spec, GenerationAdvances

\* A quiescence token is good for one acknowledged mutation, also across restarts.
THEOREM TokenSpentOnceHolds == Spec => TokenSpentOnce
<1>1. ASSUME IInv, SInv
      PROVE  [\A r \in Requests : call[r].pc = "ok" /\ call'[r].pc = "done" /\ host' = "up"
                  => doubt \/ call[r].token \notin spent]_vars
  BY <1>1, TokenGone
<1> QED BY Invariance, StateInvariance, <1>1, PTL DEF Spec, TokenSpentOnce
=============================================================================
