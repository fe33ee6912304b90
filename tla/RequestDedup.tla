---------------------------- MODULE RequestDedup -----------------------------
(***************************************************************************)
(* Side-effect requests and their request_id: Dispatcher.Dispatch of       *)
(* internal/gateway/dispatcher.go over BeginRequest and CompleteRequest of *)
(* internal/persistence/store.go.                                          *)
(*                                                                         *)
(* Every request runs in a goroutine of its own, whose context ends with   *)
(* its connection or its deadline.  A client that has no answer sends the  *)
(* request again, on any connection and in any later run of the Host.      *)
(***************************************************************************)
EXTENDS Naturals, Sequences

CONSTANTS
    Tasks,      \* goroutines of handleRequest (bound: how many at a time)
    Ids,        \* values of request_id
    Payloads,   \* operation and fingerprint
    NoTask,     \* a goroutine that is not running
    NoEntry     \* no row in request_dedup

VARIABLES
    task,       \* what each goroutine is doing
    entry,      \* request_dedup
    calls,      \* history: the payloads the Backend was called with, by id
    answers,    \* history: the answers clients got
    cut         \* history: ids whose run a crash or the database cut short

vars == <<task, entry, calls, answers, cut>>

-----------------------------------------------------------------------------
\* ctx: "live", past its "deadline", or its connection is "gone"
TaskStates ==
    [pc : {"begin", "call", "complete"}, id : Ids, payload : Payloads,
     ctx : {"live", "deadline", "gone"}, resp : Nat]

\* response 0: none yet; otherwise which call of the Backend it answers
Entries ==
    [payload : Payloads, status : {"IN_PROGRESS", "COMPLETED"}, response : Nat]

ASSUME NoTaskAssumption == NoTask \notin TaskStates
ASSUME NoEntryAssumption == NoEntry \notin Entries

Answers ==
    [id : Ids, payload : Payloads,
     kind : {"result", "conflict", "unknown", "internal"}, resp : Nat]

Running(t) == task[t] # NoTask

\* The goroutine ends; its answer is lost with its connection.
Answer(t, kind, resp) ==
    /\ task' = [task EXCEPT ![t] = NoTask]
    /\ answers' = IF task[t].ctx = "gone" THEN answers
                  ELSE answers \cup {[id |-> task[t].id, payload |-> task[t].payload,
                                      kind |-> kind, resp |-> resp]}

Cut(i) == cut' = cut \cup {i}

-----------------------------------------------------------------------------
\* handleRaw starts a goroutine for a request.
handleRequest(t, i, p) ==
    /\ ~Running(t)
    /\ task' = [task EXCEPT ![t] = [pc |-> "begin", id |-> i, payload |-> p,
                                    ctx |-> "live", resp |-> 0]]
    /\ UNCHANGED <<entry, calls, answers, cut>>

ContextDone(t, why) ==
    /\ Running(t) /\ task[t].ctx = "live"
    /\ task' = [task EXCEPT ![t].ctx = why]
    /\ UNCHANGED <<entry, calls, answers, cut>>

InProgress(p) == [payload |-> p, status |-> "IN_PROGRESS", response |-> 0]

Reserved(t) == entry' = [entry EXCEPT ![task[t].id] = InProgress(task[t].payload)]

\* No row: reserve the id and go on to call the Backend.
Reserve(t) ==
    /\ entry[task[t].id] = NoEntry
    /\ Reserved(t)
    /\ task' = [task EXCEPT ![t].pc = "call"]
    /\ UNCHANGED <<answers, cut>>

\* Mutants: a run that has not ended is run again; a conflict ends it.
Found_Replays(t) ==
    LET e == entry[task[t].id]
    IN  /\ e # NoEntry
        /\ IF e.payload # task[t].payload THEN Answer(t, "conflict", 0)
           ELSE IF e.status = "COMPLETED" THEN Answer(t, "result", e.response)
           ELSE task' = [task EXCEPT ![t].pc = "call"] /\ UNCHANGED answers
        /\ UNCHANGED <<entry, cut>>

Found_Frees(t) ==
    LET e == entry[task[t].id]
    IN  /\ e # NoEntry
        /\ IF e.payload # task[t].payload THEN Answer(t, "conflict", 0)
           ELSE IF e.status = "COMPLETED" THEN Answer(t, "result", e.response)
           ELSE Answer(t, "unknown", 0)
        /\ entry' = IF e.payload # task[t].payload /\ e.status = "IN_PROGRESS"
                    THEN [entry EXCEPT ![task[t].id] = NoEntry] ELSE entry
        /\ UNCHANGED cut

\* A row: another payload, a stored response, or a run that has not ended.
Found(t) ==
    LET e == entry[task[t].id]
    IN  /\ e # NoEntry
        /\ IF e.payload # task[t].payload THEN Answer(t, "conflict", 0)
           ELSE IF e.status = "COMPLETED" THEN Answer(t, "result", e.response)
           ELSE Answer(t, "unknown", 0)
        /\ UNCHANGED <<entry, cut>>

\* The transaction fails, or its commit does and may have taken effect.
BeginFails(t) ==
    /\ Answer(t, "internal", 0)
    /\ \/ UNCHANGED <<entry, cut>>
       \/ /\ task[t].ctx = "live" /\ entry[task[t].id] = NoEntry
          /\ Reserved(t)
          /\ Cut(task[t].id)

BeginRequest(t) ==
    /\ Running(t) /\ task[t].pc = "begin"
    /\ \/ task[t].ctx = "live" /\ (Reserve(t) \/ Found(t))
       \/ BeginFails(t)
    /\ UNCHANGED calls

\* The Backend is called, also when the context has ended since.
call(t) ==
    /\ Running(t) /\ task[t].pc = "call"
    /\ calls' = [calls EXCEPT ![task[t].id] = Append(@, task[t].payload)]
    /\ task' = [task EXCEPT ![t] = [@ EXCEPT !.pc = "complete", !.resp = Len(calls'[task[t].id])]]
    /\ UNCHANGED <<entry, answers, cut>>

Completed(t) ==
    /\ entry[task[t].id] # NoEntry /\ entry[task[t].id].status = "IN_PROGRESS"
    /\ entry' = [entry EXCEPT ![task[t].id] =
                     [payload |-> @.payload, status |-> "COMPLETED", response |-> task[t].resp]]

\* Mutant: the result is answered although it could not be stored.
CompleteRequest_IgnoresError(t) ==
    /\ Running(t) /\ task[t].pc = "complete"
    /\ Completed(t) \/ (task[t].ctx # "live" /\ UNCHANGED entry)
    /\ Answer(t, "result", task[t].resp)
    /\ UNCHANGED <<calls, cut>>

\* The response is stored; or the context has ended and the statement is not
\* run; or the database fails, before or after it took effect.
CompleteRequest(t) ==
    /\ Running(t) /\ task[t].pc = "complete"
    /\ \/ /\ task[t].ctx = "live"
          /\ Completed(t)
          /\ Answer(t, "result", task[t].resp)
          /\ UNCHANGED cut
       \/ /\ task[t].ctx # "live"
          /\ Answer(t, "internal", 0)
          /\ UNCHANGED <<entry, cut>>
       \/ /\ task[t].ctx = "live"
          /\ Completed(t) \/ UNCHANGED entry
          /\ Answer(t, "internal", 0)
          /\ Cut(task[t].id)
    /\ UNCHANGED calls

\* The Host dies and is started again; rows survive.
HostRestart ==
    /\ task' = [t \in Tasks |-> NoTask]
    /\ cut' = cut \cup {task[t].id : t \in {u \in Tasks : Running(u)}}
    /\ UNCHANGED <<entry, calls, answers>>

-----------------------------------------------------------------------------
Init ==
    /\ task = [t \in Tasks |-> NoTask]
    /\ entry = [i \in Ids |-> NoEntry]
    /\ calls = [i \in Ids |-> <<>>]
    /\ answers = {}
    /\ cut = {}

Next ==
    \/ \E t \in Tasks, i \in Ids, p \in Payloads : handleRequest(t, i, p)
    \/ \E t \in Tasks, why \in {"deadline", "gone"} : ContextDone(t, why)
    \/ \E t \in Tasks : BeginRequest(t) \/ call(t) \/ CompleteRequest(t)
    \/ HostRestart

Spec == Init /\ [][Next]_vars

-----------------------------------------------------------------------------
\* The types of the goroutines, the table and the history.
TypeOK ==
    /\ task \in [Tasks -> TaskStates \cup {NoTask}]
    /\ entry \in [Ids -> Entries \cup {NoEntry}]
    /\ calls \in [Ids -> Seq(Payloads)]
    /\ answers \in SUBSET Answers
    /\ cut \in SUBSET Ids

\* The Backend is called at most once for a request_id, however often the
\* request is sent, at the same time or after a failure, a lost connection or
\* a restart of the Host (BeginRequest reserves the id before the call).
AtMostOnce == \A i \in Ids : Len(calls[i]) <= 1

\* A result that a client was given is the stored response of the call with
\* that payload, so every later retry, also after a restart, gets the same one
\* (CompleteRequest before the answer; BeginRequest compares fingerprints).
ResultIsDurable ==
    \A a \in answers : a.kind = "result" =>
        /\ entry[a.id] = [payload |-> a.payload, status |-> "COMPLETED", response |-> a.resp]
        /\ a.resp \in DOMAIN calls[a.id] /\ calls[a.id][a.resp] = a.payload

\* A client that is told its request_id was used with another payload was not
\* obeyed: the Backend is never called with its payload under that id
\* (ErrRequestConflict, now and later).
ConflictIsHonest ==
    \A a \in answers : a.kind = "conflict" =>
        \A k \in DOMAIN calls[a.id] : calls[a.id][k] # a.payload

\* A request that was executed, and that neither a Host crash nor the database
\* cut short, can be retried for its first result: the response is stored once
\* nobody is working on it (protocol section 6.1: the Host executed the request
\* and the response was lost; after a reconnect the same request_id returns the
\* first result).
FirstResultKept ==
    \A i \in Ids :
        /\ calls[i] # <<>>
        /\ i \notin cut
        /\ \A t \in Tasks : Running(t) /\ task[t].id = i => task[t].pc = "begin"
        => entry[i] # NoEntry /\ entry[i].status = "COMPLETED"
=============================================================================
