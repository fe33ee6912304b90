# TLA+ verification of codex-remote

codex-remote is a Go Host process that makes local Codex sessions available to
remote clients. It supervises a Codex app-server, keeps the state of every
Codex in SQLite, and serves clients over a WebSocket protocol with requests,
watches and event streams. This directory holds TLA+ models of its state
machines, TLC configurations that check them on small instances, and TLAPS
proofs of all their safety properties for instances of any size.

`PROJECT.json` is the index: components, runs, mutants, the map from every
definition to the lines it models, findings, hazards and theorems.

## Inventory

| Part of the system | Code | State it owns | What makes it hard |
|---|---|---|---|
| Activity store | `internal/activity/store.go` | per Codex: head, replay buffer, view, watchers | indeterminate commits, slow consumers, resuming, restarts |
| Management lease | `internal/codex/manager.go` (renewLease, sweepLease, UnmanageCodex, Restore) | deadline, state and warning marker, in memory, row and stream | partial failures with rollback or preserve, crashes, one warning per deadline |
| Request deduplication | `internal/gateway/dispatcher.go`, `internal/persistence/store.go` | table request_dedup | retries, concurrent duplicates, lost connections, crash between effect and result |
| Turn lifecycle | `internal/codex/manager.go` (StartTurn, applyAdapterEvent, approvals) | status, active turn, pending requests | check-then-act, events of the app-server overtaking answers |
| Session registry | `internal/codex/manager.go` (CreateCodex, ImportSession, ForgetCodex), `internal/session` | codexes, forgotten sessions, owners | concurrent imports, crashes between two rows |
| Workspace access | `internal/workspace/service.go`, `internal/codex/workspace.go` | generation, agents, quiescence token, files | publishing outside the lock, rollback of files, Restore overtaking |
| Gateway connection | `internal/gateway/server.go` | watches, send queue, close | bounded queues, watch replacement, closing once |
| Runtime supervisor | `internal/runtime/manager.go` | process, adapter, restart plan | process exit racing disconnection, planned restarts, budgets |
| Adapter and client | `internal/adapter` | calls, pending requests, active turns | answers racing notifications and disconnection |
| Persistence | `internal/persistence/store.go` | SQLite tables | commits whose outcome is unknown; modelled inside the parts that use it |
| Attachments, audit, capabilities, directories, tailnet, translation, budgets | the other packages | little or none | I/O and pure functions |

How they interact: a client's request enters the gateway, passes the
deduplication, and calls the manager; the manager calls the app-server through
runtime and adapter, changes its views, saves them and publishes events through
the activity store; the store feeds the watches of the gateway's connections.
The app-server's notifications take the same way from the adapter on. Two locks
order the state changes: the manager's `commitMu`, held by every handler of the
lease and of events, and the store's `s.mu`, held by every method of the store.
SQLite has one connection, so transactions do not overlap.

## Order of work

By importance: what a client is told first, then what the Host remembers, then
the machinery underneath.

| Module | Checked by TLC | Proved |
|---|---|---|
| `ActivityStore`, `EventFeed`, `ActivityStoreFeed` | yes | all of their safety properties and the refinement |
| `Lease` | yes | all of its safety properties |
| `RequestDedup` | yes | all of its safety properties |
| `Turns` | yes | all of its safety properties; `OneTurn` for one client that starts turns |
| `Workspace` | yes | all of its safety properties |
| `Runtime` | yes | all of its safety properties |
| `GatewayConnection` | yes | all of its safety properties |

Next would be the composition of `Turns` with `Workspace` (an agent for each
running turn) and of `GatewayConnection` with `ActivityStore`, which now meet
through one or two actions each; and a module for the import of sessions.

## Modules

### ActivityStore, EventFeed, ActivityStoreFeed

One stream; streams of different Codexes share nothing and an id is never used
again. Every method of the Store holds `s.mu`, so a method is a step.

| Variables | Code |
|---|---|
| `exists`, `dHead`, `dView` | the row in SQLite: event head and current_view_json |
| `cached`, `st` | `Store.codex[id]`: head, events, view, replayUnsafe, safeReplayFloor, needsReload |
| `watch`, `inbox`, `backlog` | a client's watcher; its Replay followed by its channel |
| `run` | the Host's run id |
| `cursor` | what the client remembers: run id and event_seq |
| `missed`, `lost`, `terminals` | history: what a client skipped, what the Store kept from it, event_seqs used for CodexForgotten |

Actions: `Publish`, `PublishFails` (rolled back or indeterminate, reload works
or not), `PersistState` (a save without an event), `ReloadDurable`, `Watch` (with
the gateway's choice between Watch and ForceReset), `WatchUnanswered`, `Cancel`,
`Receive` (the client, external), `Forget` with the three outcomes of destroy,
and `HostRestart`, also in the middle of a commit. An event is its number; a
view is who wrote it and for which head.

`EventFeed` is what clients are promised: a numbered log in which a client
moves forward, by a snapshot or by the next event that is not withheld from it.
`ActivityStoreFeed` states that the Store implements it; only an indeterminate
commit or the room made for CodexForgotten may withhold an event.

### Lease

The lease of one Codex. `mem` is the manager's view, `row` the codexes row,
`stream` what the Store would serve in a RESET, `marker` the deadline last
warned about. Each handler holds `commitMu` and is one step, which ends in one
of the ways its saves and publishes can end: committed, rolled back (with the
rollback's own failures), preserved because the outcome is unknown, or cut
off by the death of the Host. A handler whose first save fails changes nothing
and is no step. Restore is `HostStart` when the Host starts, after which nothing
happens before the first sweep (phase `starting`), and `Restore` when the
runtime becomes Ready again. The warning path of the sweep reports some
failures as degraded that this model does not; the model keeps the weaker
report, so what it shows holds for the code.

`WarningBefore < LeaseDuration` is assumed (the flags' defaults satisfy it; they
are not validated), and the clock does not go backwards.

### RequestDedup

Goroutines of handleRequest over the table request_dedup: `handleRequest`,
`ContextDone` (the deadline passes or the connection goes), `BeginRequest` (one
transaction: reserve, or find a row, or fail), `call` (the Backend), and
`CompleteRequest`. The database may fail before or after it took effect, and
`HostRestart` kills every goroutine. Queries take no row and requests refused by
validateRequest reach none of this. An error the Backend returns is a response
like any other: it is stored and replayed.

### GatewayConnection

One connection. The three loops, a goroutine per request and one per watch are
processes; `send`, `control`, `closeOnce`, `watches` and `watchesMu` are the
fields of the same name, `cancelled` is the connection's context and `ws` the
socket. An enqueue that finds `send` full is two steps, the drop and then
protocolClose, because others run in between. shutdown is two steps, closeOnce
and the clearing of the watches under the lock. handleWatch holds the lock from
`Watch` over `AnswerWatch` and `Replay` to `StartForward`, and forwardWatch takes
it for every event. A Close written and the closing of the socket are one step,
since a socket that is closed with the context still alive also arises from
`PeerGone`. Of the Store the module has the channels of the watches (`watch`)
with `Publish` (`Delivered`), `Forget` (`Ended`), and what Cancel and registration
do to them; whether a Watch resumes is left open. Forget finds a channel full and
then discards its oldest event, while forwardWatch may take events in between, so
the one that is lost can be any of those that were queued. That an error of Read or Write closes the socket is
a promise of the WebSocket library. `client` is the last frame written about
each Codex. A Pong that renews leases is in `Lease`; deadlines of single
requests only lead to a Response and are part of `Respond`. Contents of frames,
auditing and the age of the last frame are left out: the heartbeat may find the
client silent whenever it looks.

### Turns

Turns and pending requests of one Codex, between the app-server, the adapter
and the manager. The app-server answers a call to the goroutine that made it,
and sends the rest in order through `wire` (not yet consumed by the adapter) and
`events` (not yet applied by RunEvents). So the end of a turn may be applied
before the StartTurn that began it goes on, and the model has that order too.
Each adapter has a goroutine forwardEvents of its own, so what an earlier one had
still to deliver (`left`) mixes with the events of the current one in any order.
The app-server reports the status of the thread at any time (`ServerSays`):
active while a turn runs, idle or failed also when it does not fit what the Host
knows, and applyCodexParams sets the status from it.

| Variables | Code |
|---|---|
| `upstream`, `asked`, `answers` | the app-server (external): its turns, its requests, the answers it got |
| `epoch`, `ready`, `stale` | which adapter is current, whether the runtime is Ready, whether Restore is due |
| `pending` | `Adapter.pending` |
| `view`, `resolved`, `agents` | the manager's view, the resolved_pending rows, the turns registered as agents |
| `start`, `respond` | where each StartTurn and each answering handler is |
| `wire`, `events`, `left` | notifications on their way: before the adapter, behind it, behind the adapters before it |
| `unheard`, `idled`, `overtaken` | history: a turn/start whose answer was lost; an event that says idle applied while a turn ran; a handler that was overtaken or an earlier adapter's event applied after Restore |

StartTurn is `StartTurn` (its tests), `CallTurnStart` or `TurnNotAccepted`,
`WorkspaceAgentStarted`, `setRunning` and `publishAcceptedUserMessage`; an answer
to a request is `RespondApproval`, `takePending`, `Respond` (written, or refused
and restored) and `resolvePending`. `applyAdapterEvent` applies one event,
`restoreLocked` rebuilds the view after a reconnection, with the agent
restore-unknown (`None`) when the thread cannot be read and only a number of
agents was saved. That a client answers requests it was shown is an assumption
about clients: the code looks in the adapter's table only. Approvals and user input
differ only in what is asked; started and item notifications do the same to the
view and are one kind. The requests of a turn that ended stay in view and table,
as in the code.

### Workspace

The access state of one workspace and one target path. An operation changes
`ws.state` under the coordinator, marks itself pending, releases the coordinator
and calls the sink `commitWorkspaceState`, which takes `commitMu`; it learns
whether the state was saved, refused, or neither, and finishes or rolls back.
`call` is where each caller is, `view` and `row` the manager's and the saved
copy, `file` the content of the target. WriteText and Upload stage the target
away, write, and undo on refusal: first the state, then, after others may go on,
the file. Restore (`restoreLocked`, `Register`, `RestoreAgent`,
`registerRestored`) holds `commitMu` and waits for nobody. A state is its
generation, its number of agents and a stamp that stands for time and token.
`left` holds the contents of rollback files that nobody moves back: the Host died
while the target was moved away, the move back failed, or the file could not be
removed after a success. `promised` are the contents the answers allow: that of
the last acknowledged request, and those of the requests the Host died in, whose
clients got no answer. Neither a crash nor a failed rollback changes it to what
the file happens to hold. Five more history variables name what the code gives up, and the properties say
which of them they except: `overlapped` (a request started while another one was
restoring the file), `stuck` (refused content could not be removed), `overtaken` (Restore kept a state whose commit had been
refused), `doubt` (a view kept in memory that may not have been saved), `fresh`
(a thread without a turn, whose access state a Host restart does not read back).

### Runtime

supervise is one process (`pc`); RequestRestart, its goroutine (`watchers`),
Close, markActive, consume and the app-server run beside it. `conn`, `active` and
`idle` belong to the newest adapter. markActive and consume are two steps each,
because they touch the idle channel after they release the adapter's lock. A
backoff is not a step: it is where `ExitInBackoff` and `CloseSeen` may happen. A
process that was signalled is waited for and killed if it does not go, so
`Reaped` does not need it to exit by itself. `wanted`, `lost` and `failures` are
history.

## Runs

| Run | Shows |
|---|---|
| `stream_failures` | one client, two runs of the Host, indeterminate commits, failing reloads, a failing destroy: `NoSilentGap`, `InOrder`, `ResumesWithinCapacity`, `BufferIsSuffix`, `ViewMatchesHead`, the refinement `ImplementsFeed`, and `CatchesUp` under fair reading of a client's channel |
| `lease` | two failures anywhere, two lease periods: `OneWarningPerDeadline`, `LeaseIsDurable`, `ResetShowsLease`, `AcknowledgedLeaseKept`, `OnlyStartTurnManages`, and `IdleLeaseEnds` under fairness |
| `dedup_retries` | three concurrent requests, one id, two payloads: `AtMostOnce`, `ResultIsDurable`, `ConflictIsHonest` |
| `connection_watches` | send queue 1, a channel of 2, two requests at a time, two watches of a Codex: `EventsFollowTheirWatch`, `NoOrphanWatcher`, types |
| `connection_end` | one watch, with failures of client, network and writes, under fairness: `SlowConsumerClosed`, `EndedWatchFreesPlace`, `CloseDelivered`, `LoopsEnd`, and `NoOrphanWatcher` |
| `workspace` | an agent, two writes or uploads, a Restore, a Forget, a failure or crash: `MutationIsExclusive`, `StatesAgree`, `FileMatchesAnswers`, `GenerationAdvances`, `TokenSpentOnce`, `AcknowledgedIsDurable`, and `WorkEnds` under fairness |
| `turns` | two turns, two requests, two clients that answer, changes of the thread's status, reconnections, failures: `AnsweredOnce`, `PendingAgrees`, `OneTurn`, `EndedTurnUnblocks` |
| `runtime` | two requested restarts, three faults, Close: `NoOrphan`, `BudgetSpent`, `RestartIsAwaited`, and `CloseEnds` and `Recovers` under fairness |
| `stream_reconnect_gap`, `forgotten_seq_reused`, `restore_stale_reset`, `dedup_disconnect` | disagreements, see Findings |

Bounds. Streams: `MaxSeq` events of which `Capacity` are kept, so that the buffer
overflows and a cursor can be exactly at, one before and far before its start;
`QueueSize` 1 makes watchers slow; `MaxRuns` 2 gives cursors of an earlier run.
Clients meet only in `safeReplayFloor`: `stream_reconnect_gap` has two of them,
and the proofs any number. Lease: `LeaseDuration` 3 and `WarningBefore` 1
separate before, in and after the warning window; `MaxTime` 7 leaves room for two
periods, and two faults for a failure of the recovery from a failure.
RequestDedup is finite without bounds: three goroutines are a first request, a
retry and a competitor. GatewayConnection: a send queue of one frame
overflows at once; two watches are one and its successor. A channel of two in
`connection_watches` lets Forget discard an event that is not the last; it never
overflows there, and the channel of one in `connection_end` does. `MayBreak` FALSE leaves a connection that only the
Host's own queues can end, so that the longer exchanges are affordable; the run
with TRUE is shorter. Codexes meet only in `MaxWatches`. Turns: two turns are one
and its successor, two requests and two responders make every pair of answers to
one or to two requests, one starter,
because two concurrent ones can start two turns (see below); `MaxIncidents` 4
counts turns, requests, losses, failures and status changes together, so that each
run of the system has any four of them (the same run with 5, over 21 million
states, finds no error either). Workspace: two
requests and an agent are every pair of operations, with `MaxGen` 3 enough for
an operation, its rollback and one after it, one fault or crash, one Restore.
Runtime: `MaxRestarts` 1 makes a first and a last attempt, two requests the one
that is deferred and the one that finds its mark, three faults exhaust one
budget and begin another. All of these stop at their bounds or end, so their
runs do not check deadlock; RequestDedup can always go on and its runs do.

Fairness. `CatchesUp`: forwardWatch drains the channel as long as there are
entries. `IdleLeaseEnds`: the clock runs, RunLeaseSweeper's ticker fires, and a
Host that died is started again; the bound on the clock ends the renewals.
`GatewayConnection`: goroutines are scheduled, Read returns on a closed socket,
Write has a timeout, and the heartbeat's ticker finds a client silent that can no
longer be read; the client need not read, send or stay. `Workspace`: a goroutine
inside an operation, Restore or Forget is scheduled and database calls return;
no operation need ever start. `Runtime`: goroutines are scheduled, timers fire,
a dial that can be tried is answered or times out (StartTimeout), and a running
turn ends; nobody need ask for a restart or close.

Symmetry is used for goroutines, ids, payloads, requests and decisions, in runs
that check invariants only.

## Proofs

For all constants that satisfy the named assumptions. Each module has the lemma
that Init gives the invariant, one lemma per action or group of actions that
keeps it, `Invariance`, and the theorems that follow.

* `ActivityStoreLemmas` states the inductive invariant and what the operators
  do to a buffer, a stream and one client; `ActivityStoreProofs` has one lemma
  per action and the theorems: the types, `NoSilentGap`, `InOrder`, `BufferIsSuffix`,
  `ViewMatchesHead` and `ResumesWithinCapacity`. None is inductive alone. The
  invariant adds that a stream which needs no reload has the durable head, that
  the buffer is the contiguous suffix that ends there, and, for every client, an
  account: each event after the cursor is queued in order, withheld, or newer
  than the registration. Publish, Watch and reload each use another part. The same
  invariant gives the step simulation of `Refinement`: every action is a step of
  the feed or a stutter.
* `RequestDedupProofs`: `AtMostOnce`, `ResultIsDurable`, `ConflictIsHonest` and
  the types. The invariant says that the goroutine past BeginRequest is the only
  one of its id and owns the IN_PROGRESS row with its payload (`OwnerInv`), that
  a row tells what the Backend was called with (`RowInv`), and that an answer
  agrees with the row (`AnswerInv`).
* `LeaseProofs`: `OneWarningPerDeadline`, `LeaseIsDurable`, `ResetShowsLease`,
  `AcknowledgedLeaseKept`, the action property `OnlyStartTurnManages`, and the
  types. A restart makes the row the truth, so the invariant says of row and
  memory alike that each is fit to be in force: not before an acknowledged
  deadline, its marker set if its deadline was warned about (`Sound`). Unless the
  Host is degraded the two and the Store carry the same lease (`Core`), and no
  warning came before its window (`History`), so a renewed deadline is new.
* `TurnsProofs`: `AnsweredOnce`, `PendingAgrees` and the types. The right to
  answer a request is a token: on its way to the adapter, in the table, or with
  the one responder that took it, and while it exists nobody has answered
  (`Tokens`). What was written is what gets recorded (`Recorded`); what is shown
  has its token, or its answer, on the current connection (`Held`), and nothing in
  the table or chosen for an answer is hidden (`Tabled`, `Chosen`).
  `OneTurn` rests on `Alone`: with one client that starts turns at most one runs,
  and its handler or the view knows of it, so that no other is started.
  `EndedTurnUnblocks` needs more, for any number of clients: a turn that is over still
  counts until RunEvents has applied its end: it is `Live` as long as it runs or
  its end is queued. `QInv` says that the end of a turn is the last
  notification about it (`Ordered`), that handlers go on with turns that began
  (`Begun`), that the queue of the
  current connection tells of live turns (`Fresh`), and that view and agents name
  live turns only (`Freed`). A status of the thread carries no turn id; the model
  lets an "active" remember the turn it was sent for, which is what makes `Fresh`
  speak of it too.
* `WorkspaceProofs`: `MutationIsExclusive`, `FileMatchesAnswers`, `StatesAgree`, the
  action properties `AcknowledgedIsDurable`, `GenerationAdvances` and
  `TokenSpentOnce`, and the types. A mutation looks at the agent count and
  not at the agents, so the invariant says that the count is theirs, and will
  still be when the pending transition is taken back (`Counted`); and that a
  request with the target moved away holds the coordinator (`Staged`). For the
  target, one request at a time is under way, and what it moved away is what the
  answers allow, or is missing with such content in a rollback file (`Filed`). For the copies of the state, a second invariant orders them:
  the service is ahead of the view and the view ahead of the row, and what a
  pending transition would go back to is still ahead of both (`Chain`), so that
  going back loses nothing that was published; while nothing is pending they are
  equal (`Agreed`, `Present`). A stamp stands for one state, and a spent token for
  none that is left anywhere (`Stamped`, `Priced`).
* `RuntimeProofs`: `NoOrphan`, `BudgetSpent`, `RestartIsAwaited`, that a Ready
  adapter is the supervised one, and the types. The invariant ties supervise's
  place to process, adapter and count of failures (`Supervised`, `Counted`), and
  says that the mark plannedWatcher stands for a goroutine or a token (`Awaited`).
* `GatewayConnectionProofs`: `NoOrphanWatcher`, `EventsFollowTheirWatch` and the
  types. `WInv` is about `watchesMu`: one goroutine at a time is inside (`Locked`), a
  handler inside has the current watch of its Codex and nobody forwards it yet
  (`Starting`), and the current watches are where they belong (`Places`, `Unused`,
  `Closed`). `Stream` is about frames, from what the client got over the writer and
  `send` to the channels: every queued event follows the frame about its Codex
  before it (`Good`), and what the handler, forwardWatch and the channel of each
  current watch still hold goes on from the last frame sent about that Codex
  (`Lines`). `Lines` speaks of current watches only; because forwardWatch tests for
  that under the lock and enqueues before it lets go, nothing of another watch is
  enqueued. Most steps leave a watch alone or add at the end of its channel (`Calm`),
  which keeps its line. `Stream` speaks of the time in which the
  writer takes from `send`; a goroutine whose frame found the queue full enqueues
  nothing more of its watch, so no gap is sent.

Two fields of one element are updated as `![i] = [@ EXCEPT !.a = x, !.b = y]`
throughout: the SMT translation of tlapm 1.4.5 keeps only the first of two updates
when an EXCEPT names the same index twice.

Only model-checked: liveness (`CatchesUp`, `IdleLeaseEnds`, `SlowConsumerClosed`,
`EndedWatchFreesPlace`, `CloseDelivered`, `LoopsEnd`, `WorkEnds`, `CloseEnds`,
`Recovers`), which is out of the prover's reach. `OneTurn` is proved for one client
that starts turns, which is also what its run has: with two it does not hold (see
below).

## Findings

* `stream_reconnect_gap`: after an indeterminate commit the floor that one
  client's RESET sets lets another client resume past an event it never got.
* `forgotten_seq_reused`: CodexForgotten takes the number head+1 without
  allocating it; when deleting the row fails, the next event gets it again.
* `restore_stale_reset`: Restore rebuilds the views but neither publishes nor
  reloads the Store, so a RESET serves the view from before the restart.
* `dedup_disconnect`: a connection that ends while the Backend works leaves the
  request IN_PROGRESS for ever, and the retry is refused as unknown.

What the properties except, because the code behaves so; most are hazards in
`PROJECT.json`:

* Two concurrent StartTurns both pass the test for IDLE; a StartTurn whose
  turn/start answer was lost, or one between Ready and Restore, can start a
  second turn too; and a status "idle" of the thread, or the end of an older turn,
  that is applied while a turn runs makes the Codex IDLE (`OneTurn`).
* The end of a turn applied before its StartTurn goes on leaves the Codex RUNNING
  and its agent registered; a handler that a reconnection and Restore overtake
  sets a status over UNAVAILABLE; and an event of an earlier connection applied
  after Restore, such as "active", leaves the Codex RUNNING (`EndedTurnUnblocks`).
  A turn that failed leaves ERROR, in which StartTurn is refused until the
  app-server says idle or Restore is run.
* A deferred restart waits for the adapter it was made for: after a reconnection
  it never comes, and its mark turns later requests away; a request between Ready
  and the clearing of the mark is lost likewise (`RestartIsAwaited`).
* A refused write frees the workspace before it restores the file, and its content
  stays when it cannot be removed. When the Host dies while the target is moved
  away, or the move back fails, the target is missing and the acknowledged content
  is only in a rollback file, which nothing moves back (`FileMatchesAnswers`).
* Restore can keep a state whose commit was being refused
  (`StatesAgree`, `GenerationAdvances`); after a Restore that could not save, or a
  publish with an unknown outcome and an unreadable row, an acknowledged state may
  not be in the row (`AcknowledgedIsDurable`, `TokenSpentOnce`); and the
  generation begins again when the Host restarts before the first turn, where
  docs/protocol_decisions.md:12 says it is "persisted and monotonic".

## Not modelled

* Creating, importing and renaming of sessions, forgotten sessions and logical
  owners: the state is rows in several tables, written one after the other.
* Attachments and the audit journal: files behind one lock.
* Path handling, listing, archives and hashing of workspace files, image
  decoding, ProtoJSON, translation and truncation of items, capabilities,
  directories: pure data or I/O without a protocol.
* The tailnet library, the stale socket, stderr, the states channel of the
  runtime, flags and the order of shutdown; SQL itself.
* Titles of threads (thread/name/updated).
* Clocks that go backwards and identifiers that collide are excluded.
