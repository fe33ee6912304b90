------------------------- MODULE RequestDedupProofs --------------------------
(***************************************************************************)
(* Proofs about RequestDedup, for any number of goroutines, request ids and *)
(* payloads.  The safety properties are not inductive: what makes them so   *)
(* is that the goroutine past BeginRequest owns the row of its id.          *)
(***************************************************************************)
EXTENDS RequestDedup, TLAPS

\* Zenon proves a step unless the step names SMT.
USE Zenon

Past(t) == Running(t) /\ task[t].pc # "begin"

\* One goroutine at a time is past BeginRequest with an id, and the row is its.
OwnerInv ==
    \A t \in Tasks : Past(t) =>
        /\ entry[task[t].id] = InProgress(task[t].payload)
        /\ task[t].pc = "call" => calls[task[t].id] = <<>>
        /\ task[t].pc = "complete" =>
              /\ calls[task[t].id] = <<task[t].payload>>
              /\ task[t].resp = 1
        /\ \A u \in Tasks : Past(u) /\ task[u].id = task[t].id => u = t

\* The row tells what the Backend was called with.
RowInv ==
    \A i \in Ids :
        /\ entry[i] = NoEntry => calls[i] = <<>>
        /\ entry[i] # NoEntry =>
              /\ calls[i] = <<>> \/ calls[i] = <<entry[i].payload>>
              /\ entry[i].status = "COMPLETED" =>
                    calls[i] = <<entry[i].payload>> /\ entry[i].response = 1

AnswerInv ==
    \A a \in answers :
        /\ a.kind = "result" =>
              entry[a.id] = [payload |-> a.payload, status |-> "COMPLETED", response |-> a.resp]
        /\ a.kind = "conflict" =>
              entry[a.id] # NoEntry /\ entry[a.id].payload # a.payload

IInv == TypeOK /\ OwnerInv /\ RowInv /\ AnswerInv

-----------------------------------------------------------------------------
\* No goroutine runs and no row exists at first.
LEMMA InitInv == Init => IInv
BY SMT, NoTaskAssumption, NoEntryAssumption
   DEF Init, IInv, TypeOK, OwnerInv, RowInv, AnswerInv, Past, Running

\* A step that starts, cancels or ends goroutines that reserved nothing keeps
\* the invariant: rows and calls stay, and nobody new is past BeginRequest.
LEMMA KeepsRows ==
    ASSUME IInv, UNCHANGED <<entry, calls>>,
           task' \in [Tasks -> TaskStates \cup {NoTask}],
           answers' \in SUBSET Answers, cut' \in SUBSET Ids,
           \A t \in Tasks : Past(t)' =>
               /\ Past(t)
               /\ task'[t].id = task[t].id /\ task'[t].payload = task[t].payload
               /\ task'[t].pc = task[t].pc /\ task'[t].resp = task[t].resp,
           \A a \in answers' : a \in answers \/ a.kind \notin {"result", "conflict"}
    PROVE  IInv'
<1>1. TypeOK'
  BY DEF IInv, TypeOK
<1>2. OwnerInv'
  BY SMT DEF IInv, OwnerInv
<1>3. RowInv'
  BY DEF IInv, RowInv
<1>4. AnswerInv'
  BY DEF IInv, AnswerInv
<1> QED
  BY <1>1, <1>2, <1>3, <1>4 DEF IInv

\* handleRaw starts a goroutine, which is not past BeginRequest yet.
LEMMA handleRequestInv ==
    ASSUME IInv, NEW t \in Tasks, NEW i \in Ids, NEW p \in Payloads, handleRequest(t, i, p)
    PROVE  IInv'
<1>1. task' \in [Tasks -> TaskStates \cup {NoTask}]
  BY DEF IInv, TypeOK, handleRequest, TaskStates
<1>2. \A u \in Tasks : Past(u)' => u # t
  BY DEF IInv, TypeOK, handleRequest, Past, Running
<1>3. \A u \in Tasks \ {t} : task'[u] = task[u]
  BY DEF IInv, TypeOK, handleRequest
<1> QED
  BY <1>1, <1>2, <1>3, KeepsRows DEF IInv, TypeOK, handleRequest, Past, Running

\* A context that ends changes nothing else.
LEMMA ContextDoneInv ==
    ASSUME IInv, NEW t \in Tasks, NEW why \in {"deadline", "gone"}, ContextDone(t, why)
    PROVE  IInv'
<1>0. task[t] \in TaskStates
  BY DEF IInv, TypeOK, ContextDone, Running
<1>1. task' \in [Tasks -> TaskStates \cup {NoTask}]
  BY <1>0 DEF IInv, TypeOK, ContextDone, TaskStates
<1>2. \A u \in Tasks : Past(u)' =>
          /\ Past(u)
          /\ task'[u].id = task[u].id /\ task'[u].payload = task[u].payload
          /\ task'[u].pc = task[u].pc /\ task'[u].resp = task[u].resp
  BY <1>0 DEF IInv, TypeOK, ContextDone, Past, Running, TaskStates
<1> QED
  BY <1>1, <1>2, KeepsRows DEF IInv, TypeOK, ContextDone

\* What an answer adds, and that its goroutine is gone.
LEMMA AnswerFacts ==
    ASSUME IInv, NEW t \in Tasks, Running(t), NEW resp \in Nat,
           NEW kind \in {"result", "conflict", "unknown", "internal"}, Answer(t, kind, resp)
    PROVE  /\ task' \in [Tasks -> TaskStates \cup {NoTask}]
           /\ answers' \in SUBSET Answers
           /\ \A u \in Tasks : Past(u)' => Past(u) /\ u # t /\ task'[u] = task[u]
           /\ \A a \in answers' : a \in answers \/
                 a = [id |-> task[t].id, payload |-> task[t].payload, kind |-> kind, resp |-> resp]
<1>0. task[t] \in TaskStates
  BY DEF IInv, TypeOK, Running
<1>1. [id |-> task[t].id, payload |-> task[t].payload, kind |-> kind, resp |-> resp] \in Answers
  BY <1>0 DEF TaskStates, Answers
<1> QED
  BY <1>0, <1>1 DEF IInv, TypeOK, Answer, Past, Running

\* The row was absent, so nobody owned the id and the Backend was not called.
LEMMA ReservedInv ==
    ASSUME IInv, NEW t \in Tasks, Running(t), entry[task[t].id] = NoEntry, Reserved(t),
           UNCHANGED calls, cut' \in SUBSET Ids,
           task' \in [Tasks -> TaskStates \cup {NoTask}], answers' \in SUBSET Answers,
           \A u \in Tasks \ {t} : task'[u] = task[u],
           Past(t)' => /\ task'[t].id = task[t].id /\ task'[t].payload = task[t].payload
                       /\ task'[t].pc = "call",
           \A a \in answers' : a \in answers \/ a.kind \notin {"result", "conflict"}
    PROVE  IInv'
<1> DEFINE i == task[t].id
<1>0. task[t] \in TaskStates
  BY DEF IInv, TypeOK, Running
<1>a. i \in Ids /\ task[t].payload \in Payloads /\ calls[i] = <<>>
  BY <1>0 DEF TaskStates, IInv, RowInv
<1>b. InProgress(task[t].payload) \in Entries
  BY <1>a DEF InProgress, Entries
<1>c. InProgress(task[t].payload) # NoEntry
  BY <1>b, NoEntryAssumption
<1>d. entry' = [entry EXCEPT ![i] = InProgress(task[t].payload)]
  BY DEF Reserved
<1>e. entry'[i] = InProgress(task[t].payload) /\ \A j \in Ids \ {i} : entry'[j] = entry[j]
  BY <1>a, <1>d DEF IInv, TypeOK
<1>1. TypeOK'
  BY <1>a, <1>b, <1>d DEF IInv, TypeOK
<1>2. \A u \in Tasks : Past(u) => task[u].id # i
  <2> SUFFICES ASSUME NEW u \in Tasks, Past(u), task[u].id = i PROVE FALSE
    OBVIOUS
  <2>1. task[u] \in TaskStates
    BY DEF IInv, TypeOK, Past, Running
  <2>2. InProgress(task[u].payload) \in Entries
    BY <2>1 DEF InProgress, TaskStates, Entries
  <2> QED
    BY SMT, <2>2, NoEntryAssumption DEF IInv, OwnerInv
<1>3. OwnerInv'
  <2> SUFFICES ASSUME NEW u \in Tasks, Past(u)'
               PROVE  /\ entry'[task'[u].id] = InProgress(task'[u].payload)
                      /\ task'[u].pc = "call" => calls'[task'[u].id] = <<>>
                      /\ task'[u].pc = "complete" =>
                            /\ calls'[task'[u].id] = <<task'[u].payload>>
                            /\ task'[u].resp = 1
                      /\ \A w \in Tasks : Past(w)' /\ task'[w].id = task'[u].id => w = u
    BY DEF OwnerInv, InProgress
  <2>0. \A w \in Tasks \ {t} : Past(w)' => Past(w)
    BY DEF Past, Running
  <2>1. CASE u = t
    BY <2>1, <2>0, <1>2, <1>a, <1>e
  <2>2. CASE u # t
    <3>1. Past(u) /\ task'[u] = task[u] /\ task[u].id # i
      BY <2>2, <2>0, <1>2
    <3>2. task[u].id \in Ids
      BY <3>1 DEF IInv, TypeOK, Past, Running, TaskStates
    <3> QED
      BY SMT, <3>1, <3>2, <2>0, <1>e DEF IInv, OwnerInv
  <2> QED
    BY <2>1, <2>2
<1>4. RowInv'
  BY SMT, <1>a, <1>c, <1>e DEF IInv, RowInv, InProgress
<1>5. AnswerInv'
  <2> SUFFICES ASSUME NEW a \in answers, a.kind \in {"result", "conflict"}
               PROVE  entry'[a.id] = entry[a.id]
    BY ZenonT(30) DEF IInv, AnswerInv
  <2>1. a \in Answers
    BY DEF IInv, TypeOK
  <2>2. CASE a.kind = "result"
    <3>1. [payload |-> a.payload, status |-> "COMPLETED", response |-> a.resp] \in Entries
      BY <2>1 DEF Answers, Entries
    <3> QED
      BY SMT, <2>1, <2>2, <3>1, <1>e, NoEntryAssumption DEF IInv, AnswerInv, Answers
  <2>3. CASE a.kind = "conflict"
    BY <2>1, <2>3, <1>e DEF IInv, AnswerInv, Answers
  <2> QED
    BY <2>2, <2>3
<1> QED
  BY <1>1, <1>3, <1>4, <1>5 DEF IInv

\* BeginRequest reserves, answers from the row, or fails.
LEMMA BeginRequestInv ==
    ASSUME IInv, NEW t \in Tasks, BeginRequest(t)
    PROVE  IInv'
<1>0. Running(t) /\ task[t] \in TaskStates /\ task[t].pc = "begin" /\ ~Past(t) /\ UNCHANGED calls
  BY DEF IInv, TypeOK, BeginRequest, Running, Past
<1>1. CASE Reserve(t)
  <2>1. task' \in [Tasks -> TaskStates \cup {NoTask}]
    BY <1>0, <1>1 DEF IInv, TypeOK, Reserve, TaskStates
  <2>2. /\ \A u \in Tasks \ {t} : task'[u] = task[u]
        /\ task'[t].id = task[t].id /\ task'[t].payload = task[t].payload
        /\ task'[t].pc = "call"
    BY <1>0, <1>1 DEF IInv, TypeOK, Reserve, TaskStates
  <2> QED
    BY <1>0, <1>1, <2>1, <2>2, ReservedInv DEF IInv, TypeOK, Reserve
<1>2. CASE Found(t)
  <2> DEFINE e == entry[task[t].id]
  <2>1. e \in Entries /\ task[t].id \in Ids /\ UNCHANGED <<entry, cut>>
    BY <1>0, <1>2 DEF Found, IInv, TypeOK, TaskStates
  <2>2. PICK kind \in {"result", "conflict", "unknown", "internal"}, resp \in Nat :
            /\ Answer(t, kind, resp)
            /\ kind = "conflict" => e.payload # task[t].payload
            /\ kind = "result" =>
                  /\ e.payload = task[t].payload /\ e.status = "COMPLETED" /\ resp = e.response
    BY <2>1, <1>2 DEF Found, Entries
  <2>3. /\ task' \in [Tasks -> TaskStates \cup {NoTask}]
        /\ answers' \in SUBSET Answers
        /\ \A u \in Tasks : Past(u)' => Past(u) /\ u # t /\ task'[u] = task[u]
        /\ \A a \in answers' : a \in answers \/
              a = [id |-> task[t].id, payload |-> task[t].payload, kind |-> kind, resp |-> resp]
    BY SMT, <1>0, <2>2, AnswerFacts
  <2>4. TypeOK' /\ OwnerInv' /\ RowInv'
    <3>1. TypeOK'
      BY <1>0, <2>1, <2>3 DEF IInv, TypeOK
    <3>2. OwnerInv'
      <4>1. OwnerInv
        BY DEF IInv
      <4>2. \A u \in Tasks : Past(u)' => Past(u) /\ task'[u] = task[u]
        BY <2>3
      <4>3. entry' = entry /\ calls' = calls
        BY <1>0, <2>1
      <4> QED BY <4>1, <4>2, <4>3 DEF OwnerInv
    <3>3. RowInv'
      BY <1>0, <2>1 DEF IInv, RowInv
    <3> QED
      BY <3>1, <3>2, <3>3
  <2>5. AnswerInv'
    <3> SUFFICES ASSUME NEW a \in answers'
                 PROVE  /\ a.kind = "result" =>
                              entry[a.id] = [payload |-> a.payload, status |-> "COMPLETED",
                                             response |-> a.resp]
                        /\ a.kind = "conflict" =>
                              entry[a.id] # NoEntry /\ entry[a.id].payload # a.payload
      BY <2>1 DEF AnswerInv
    <3>1. CASE a \in answers
      BY <3>1 DEF IInv, AnswerInv
    <3>2. CASE a = [id |-> task[t].id, payload |-> task[t].payload, kind |-> kind, resp |-> resp]
      BY <3>2, <2>1, <2>2, NoEntryAssumption DEF Entries
    <3> QED
      BY <3>1, <3>2, <2>3
  <2> QED
    BY <2>4, <2>5 DEF IInv
<1>3. CASE BeginFails(t)
  <2>0. Answer(t, "internal", 0)
    BY <1>3 DEF BeginFails
  <2>1. /\ task' \in [Tasks -> TaskStates \cup {NoTask}]
        /\ answers' \in SUBSET Answers
        /\ \A u \in Tasks : Past(u)' => Past(u) /\ u # t /\ task'[u] = task[u]
        /\ \A a \in answers' : a \in answers \/ a.kind = "internal"
    BY SMT, <1>0, <2>0, AnswerFacts
  <2>2. \A u \in Tasks \ {t} : task'[u] = task[u]
    BY <2>0 DEF Answer, IInv, TypeOK
  <2>3. CASE UNCHANGED <<entry, cut>>
    BY <1>0, <2>1, <2>3, KeepsRows DEF IInv, TypeOK
  <2>4. CASE /\ task[t].ctx = "live" /\ entry[task[t].id] = NoEntry
             /\ Reserved(t)
             /\ Cut(task[t].id)
    <3>1. cut' \in SUBSET Ids
      BY <1>0, <2>4 DEF Cut, IInv, TypeOK, TaskStates
    <3>2. ~Past(t)'
      BY <2>1
    <3> QED
      BY <1>0, <2>1, <2>2, <2>4, <3>1, <3>2, ReservedInv
  <2> QED
    BY <1>3, <2>3, <2>4 DEF BeginFails
<1> QED
  BY <1>1, <1>2, <1>3 DEF BeginRequest

\* The owner of the row calls the Backend for the first time.
LEMMA callInv ==
    ASSUME IInv, NEW t \in Tasks, call(t)
    PROVE  IInv'
<1> DEFINE i == task[t].id
           p == task[t].payload
<1>0. Past(t) /\ task[t] \in TaskStates /\ task[t].pc = "call" /\ UNCHANGED <<entry, answers, cut>>
  BY DEF IInv, TypeOK, call, Running, Past
<1>1. i \in Ids /\ p \in Payloads /\ entry[i] = InProgress(p) /\ calls[i] = <<>>
  BY <1>0 DEF TaskStates, IInv, OwnerInv
<1>2. InProgress(p) \in Entries
  BY <1>1 DEF InProgress, Entries
<1>3. Append(calls[i], p) = <<p>>
  BY SMT, <1>1
<1>4. calls' = [calls EXCEPT ![i] = <<p>>]
  BY <1>3 DEF call
<1>5. calls'[i] = <<p>> /\ (\A j \in Ids \ {i} : calls'[j] = calls[j]) /\ Len(calls'[i]) = 1
  BY <1>1, <1>4 DEF IInv, TypeOK
<1>6. <<p>> \in Seq(Payloads)
  BY SMT, <1>1
<1>7. /\ task'[t].pc = "complete" /\ task'[t].resp = 1
      /\ task'[t].id = i /\ task'[t].payload = p
      /\ \A u \in Tasks \ {t} : task'[u] = task[u]
      /\ task' \in [Tasks -> TaskStates \cup {NoTask}]
  BY <1>0, <1>5 DEF call, IInv, TypeOK, TaskStates
<1>8. TypeOK'
  BY <1>0, <1>1, <1>4, <1>6, <1>7 DEF IInv, TypeOK
<1>9. OwnerInv'
  <2>1. \A u \in Tasks \ {t} : Past(u)' => Past(u) /\ task[u].id # i /\ task[u].id \in Ids
    BY <1>0, <1>7 DEF IInv, OwnerInv, TypeOK, Past, Running, TaskStates
  <2>2. ASSUME NEW u \in Tasks, Past(u)'
        PROVE  /\ entry'[task'[u].id] = InProgress(task'[u].payload)
               /\ task'[u].pc = "call" => calls'[task'[u].id] = <<>>
               /\ task'[u].pc = "complete" =>
                     calls'[task'[u].id] = <<task'[u].payload>> /\ task'[u].resp = 1
               /\ \A w \in Tasks : Past(w)' /\ task'[w].id = task'[u].id => w = u
    <3>1. CASE u = t
      BY SMT, <3>1, <2>1, <1>0, <1>1, <1>5, <1>7
    <3>2. CASE u # t
      BY SMTT(30), <3>2, <2>1, <2>2, <1>0, <1>5, <1>7 DEF IInv, OwnerInv
    <3> QED
      BY <3>1, <3>2
  <2> QED
    BY <2>2 DEF OwnerInv, InProgress
<1>10. RowInv'
  BY SMT, <1>0, <1>1, <1>2, <1>5, NoEntryAssumption DEF IInv, RowInv, InProgress
<1>11. AnswerInv'
  BY <1>0 DEF IInv, AnswerInv
<1> QED
  BY <1>8, <1>9, <1>10, <1>11 DEF IInv

\* The owner stores its response and is done, or is done without.
LEMMA CompleteRequestInv ==
    ASSUME IInv, NEW t \in Tasks, CompleteRequest(t)
    PROVE  IInv'
<1> DEFINE i == task[t].id
           p == task[t].payload
           done == [payload |-> p, status |-> "COMPLETED", response |-> 1]
<1>0. Past(t) /\ Running(t) /\ task[t] \in TaskStates /\ task[t].pc = "complete" /\ UNCHANGED calls
  BY DEF IInv, TypeOK, CompleteRequest, Running, Past
<1>1. /\ i \in Ids /\ p \in Payloads
      /\ entry[i] = InProgress(p) /\ calls[i] = <<p>> /\ task[t].resp = 1
  BY <1>0 DEF TaskStates, IInv, OwnerInv
<1>2. done \in Entries /\ done # NoEntry
  BY SMT, <1>1, NoEntryAssumption DEF Entries
<1>3. cut' \in SUBSET Ids
  BY <1>1 DEF CompleteRequest, Cut, IInv, TypeOK
<1>4. PICK kind \in {"result", "internal"}, resp \in Nat :
          /\ Answer(t, kind, resp)
          /\ kind = "result" => Completed(t) /\ resp = 1
          /\ Completed(t) \/ UNCHANGED entry
  BY <1>1 DEF CompleteRequest
<1>5. /\ task' \in [Tasks -> TaskStates \cup {NoTask}]
      /\ answers' \in SUBSET Answers
      /\ \A u \in Tasks : Past(u)' => Past(u) /\ u # t /\ task'[u] = task[u]
      /\ \A a \in answers' : a \in answers \/ a = [id |-> i, payload |-> p, kind |-> kind, resp |-> resp]
  BY SMT, <1>0, <1>4, AnswerFacts
<1>6. CASE UNCHANGED entry /\ kind = "internal"
  BY SMT, <1>0, <1>3, <1>5, <1>6, KeepsRows
<1>7. CASE Completed(t)
  <2>1. entry' = [entry EXCEPT ![i] = done]
    BY SMT, <1>1, <1>7 DEF Completed, InProgress
  <2>2. entry'[i] = done /\ \A j \in Ids \ {i} : entry'[j] = entry[j]
    BY <1>1, <2>1 DEF IInv, TypeOK
  <2>3. TypeOK'
    BY <1>0, <1>1, <1>2, <1>3, <1>5, <2>1 DEF IInv, TypeOK
  <2>4. \A u \in Tasks : Past(u)' => task[u].id # i /\ task[u].id \in Ids
    BY SMTT(30), <1>0, <1>5 DEF IInv, OwnerInv, TypeOK, Past, Running, TaskStates
  <2>5. OwnerInv'
    <3> SUFFICES ASSUME NEW u \in Tasks, Past(u)'
                 PROVE  /\ entry'[task'[u].id] = InProgress(task'[u].payload)
                        /\ task'[u].pc = "call" => calls'[task'[u].id] = <<>>
                        /\ task'[u].pc = "complete" =>
                              calls'[task'[u].id] = <<task'[u].payload>> /\ task'[u].resp = 1
                        /\ \A w \in Tasks : Past(w)' /\ task'[w].id = task'[u].id => w = u
      BY SMTT(30) DEF OwnerInv, InProgress
    <3>1. Past(u) /\ task'[u] = task[u] /\ entry'[task[u].id] = entry[task[u].id]
      BY <1>5, <2>2, <2>4
    <3> QED
      BY SMT, <1>0, <1>5, <3>1 DEF IInv, OwnerInv
  <2>6. RowInv'
    BY SMT, <1>0, <1>1, <1>2, <2>2 DEF IInv, RowInv
  <2>7. AnswerInv'
    <3> SUFFICES ASSUME NEW a \in answers'
                 PROVE  /\ a.kind = "result" =>
                              entry'[a.id] = [payload |-> a.payload, status |-> "COMPLETED",
                                              response |-> a.resp]
                        /\ a.kind = "conflict" =>
                              entry'[a.id] # NoEntry /\ entry'[a.id].payload # a.payload
      BY DEF AnswerInv
    <3>1. CASE a \in answers
      <4>1. a.id \in Ids
        BY <3>1 DEF IInv, TypeOK, Answers
      <4>2. CASE a.id # i
        BY <3>1, <4>1, <4>2, <2>2 DEF IInv, AnswerInv
      <4>3. CASE a.id = i
        BY SMT, <3>1, <4>3, <2>2, <1>1, <1>2 DEF IInv, AnswerInv, InProgress
      <4> QED
        BY <4>2, <4>3
    <3>2. CASE a = [id |-> i, payload |-> p, kind |-> kind, resp |-> resp]
      BY <3>2, <2>2, <1>4
    <3> QED
      BY <3>1, <3>2, <1>5
  <2> QED
    BY <2>3, <2>5, <2>6, <2>7 DEF IInv
<1> QED
  BY <1>4, <1>6, <1>7

\* No goroutine survives the Host, and every row does.
LEMMA HostRestartInv ==
    ASSUME IInv, HostRestart
    PROVE  IInv'
<1>1. cut' \in SUBSET Ids
  BY SMT DEF HostRestart, IInv, TypeOK, Running, TaskStates
<1>2. \A t \in Tasks : ~Past(t)'
  BY DEF HostRestart, Past, Running
<1>3. task' \in [Tasks -> TaskStates \cup {NoTask}]
  BY DEF HostRestart
<1> QED
  BY <1>1, <1>2, <1>3, KeepsRows DEF HostRestart, IInv, TypeOK

-----------------------------------------------------------------------------
\* The inductive invariant holds: the goroutine past BeginRequest owns the row
\* of its id, and the row tells what the Backend was called with.
THEOREM Invariance == Spec => []IInv
<1>1. Init => IInv
  BY InitInv
<1>2. IInv /\ [Next]_vars => IInv'
  <2> SUFFICES ASSUME IInv, [Next]_vars PROVE IInv'
    BY SMTT(30)
  <2>1. CASE UNCHANGED vars
    BY <2>1 DEF vars, IInv, TypeOK, OwnerInv, RowInv, AnswerInv, Past, Running
  <2>2. CASE Next
    BY <2>2, handleRequestInv, ContextDoneInv, BeginRequestInv, callInv,
       CompleteRequestInv, HostRestartInv DEF Next
  <2> QED
    BY <2>1, <2>2
<1> QED
  BY <1>1, <1>2, PTL DEF Spec

\* Goroutines, table and history keep their types.
THEOREM TypeCorrect == Spec => []TypeOK
<1>1. IInv => TypeOK
  BY DEF IInv
<1> QED
  BY <1>1, Invariance, PTL

\* The Backend is called at most once for a request_id, for any number of
\* clients, retries and restarts (BeginRequest).
THEOREM AtMostOnceHolds == Spec => []AtMostOnce
<1>1. IInv => AtMostOnce
  <2> SUFFICES ASSUME IInv, NEW i \in Ids PROVE Len(calls[i]) <= 1
    BY DEF AtMostOnce
  <2>1. calls[i] = <<>> \/ calls[i] = <<entry[i].payload>>
    BY DEF IInv, RowInv
  <2>2. CASE calls[i] = <<>>
    <3>1. Len(<<>>) = 0
      OBVIOUS
    <3> QED
      BY SMT, <2>2, <3>1
  <2>3. CASE calls[i] = <<entry[i].payload>>
    <3>1. Len(<<entry[i].payload>>) = 1
      OBVIOUS
    <3> QED
      BY SMT, <2>3, <3>1
  <2> QED
    BY <2>1, <2>2, <2>3
<1> QED
  BY <1>1, Invariance, PTL

\* A result once given is the stored response, so every retry repeats it
\* (CompleteRequest, BeginRequest).
THEOREM ResultIsDurableHolds == Spec => []ResultIsDurable
<1>1. IInv => ResultIsDurable
  <2> SUFFICES ASSUME IInv, NEW a \in answers, a.kind = "result"
               PROVE  /\ entry[a.id] = [payload |-> a.payload, status |-> "COMPLETED",
                                        response |-> a.resp]
                      /\ a.resp \in DOMAIN calls[a.id] /\ calls[a.id][a.resp] = a.payload
    BY DEF ResultIsDurable
  <2> DEFINE e == [payload |-> a.payload, status |-> "COMPLETED", response |-> a.resp]
  <2>1. a \in Answers
    BY DEF IInv, TypeOK
  <2>2. entry[a.id] = e /\ e \in Entries /\ a.id \in Ids
    BY <2>1 DEF IInv, AnswerInv, Answers, Entries
  <2>3. entry[a.id] # NoEntry /\ entry[a.id].status = "COMPLETED"
    BY SMT, <2>2, NoEntryAssumption
  <2>4. calls[a.id] = <<entry[a.id].payload>> /\ entry[a.id].response = 1
    BY <2>2, <2>3 DEF IInv, RowInv
  <2>5. calls[a.id] = <<a.payload>> /\ a.resp = 1
    BY SMT, <2>2, <2>4
  <2> QED
    BY SMT, <2>2, <2>5
<1> QED
  BY <1>1, Invariance, PTL

\* A payload refused with CONFLICT is never executed under that id
\* (ErrRequestConflict).
THEOREM ConflictIsHonestHolds == Spec => []ConflictIsHonest
<1>1. IInv => ConflictIsHonest
  <2> SUFFICES ASSUME IInv, NEW a \in answers, a.kind = "conflict", NEW k \in DOMAIN calls[a.id]
               PROVE  calls[a.id][k] # a.payload
    BY DEF ConflictIsHonest
  <2>1. a.id \in Ids
    BY DEF IInv, TypeOK, Answers
  <2>2. entry[a.id] # NoEntry /\ entry[a.id].payload # a.payload
    BY DEF IInv, AnswerInv
  <2>3. calls[a.id] = <<>> \/ calls[a.id] = <<entry[a.id].payload>>
    BY <2>1, <2>2 DEF IInv, RowInv
  <2> QED
    BY SMT, <2>2, <2>3
<1> QED
  BY <1>1, Invariance, PTL
=============================================================================
