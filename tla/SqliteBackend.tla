--------------------------- MODULE SqliteBackend ---------------------------
(***************************************************************************)
(* SqliteBackend (storage_backends/sqlite.py): one connection, one worker  *)
(* thread, an asyncio lock that admits one operation at a time, and a      *)
(* lifecycle.  Code on the event loop runs from one await to the next      *)
(* without interruption, which is what one action is here; the worker      *)
(* thread runs beside it.                                                  *)
(*                                                                         *)
(* Every task makes one call.  It may be cancelled at any await.  At the   *)
(* end of asyncio.run the loop cancels every task that is left, the shared *)
(* close task included (TearDown).                                         *)
(***************************************************************************)
EXTENDS Naturals, Sequences, FiniteSets, SequencesExt

CONSTANTS
    Tasks,        \* asyncio tasks of the program
    Keys,         \* binding keys
    Schemas,
    Hashes,       \* content hashes
    Texts,        \* canonical texts
    Stored,       \* rows a file may hold when it is opened
    Calls,        \* what each task may ask for
    MaxFaults,    \* failures of SQLite in a behaviour
    None

References == [schema : Schemas, hash : Hashes]

(* The calls of the operations; get_bound_objects also has the schema the  *)
(* cache asks for.                                                         *)
IsCall(c) ==
    \/ c.op = "put_object" /\ c.ref \in References /\ c.text \in Texts
    \/ c.op = "get_object" /\ c.ref \in References
    \/ c.op = "bind" /\ c.key \in Keys /\ c.ref \in References
    \/ c.op = "get_binding" /\ c.key \in Keys
    \/ c.op = "get_bound_objects" /\ c.keys \subseteq Keys
    \/ c.op = "delete_bindings" /\ c.keys \subseteq Keys
    \/ /\ c.op = "put_bound_objects"
       /\ DOMAIN c.entries \subseteq Keys /\ IsFiniteSet(DOMAIN c.entries)
       /\ \A k \in DOMAIN c.entries :
            c.entries[k][1] \in References /\ c.entries[k][2] \in Texts

ASSUME TasksAssumption ==
    /\ None \notin Tasks \cup {"open", "undo", "close"}
    /\ Tasks \cap {"open", "undo", "close"} = {}
ASSUME RowsAssumption ==
    /\ None \notin Texts /\ None \notin References
    /\ \A rows \in Stored : /\ rows[1] \in [References -> Texts \cup {None}]
                            /\ rows[2] \in [Keys -> References \cup {None}]
ASSUME CallsAssumption == \A t \in Tasks : \A c \in Calls[t] : IsCall(c)

VARIABLES
    objects, bindings,  \* the rows
    state,              \* _state; "none" before open has returned
    connection, worker, \* the two resources
    jobs,               \* submitted to the worker and not settled
    results,            \* the future of each job: pending, or how it ended
    lock, queue,        \* _admission: its holder and its waiters
    opener,             \* the task that opens the backend
    closer,             \* _close_task
    pc, call, out,      \* the tasks: position, call, how it ended
    cancelled,          \* tasks with a cancellation not yet delivered
    ran,                \* history: how often each task's operation ran
    misused,            \* history: a job met a connection that is not open
    faults, torn

rowVars == <<objects, bindings>>
lockVars == <<lock, queue>>
taskVars == <<pc, call, out>>
backendVars == <<rowVars, state, connection, worker, jobs, results, lockVars,
                 opener, closer, taskVars, cancelled, ran, misused, faults,
                 torn>>

Jobs == Tasks \cup {"open", "undo", "close"}
Pends == [how |-> "pending", reply |-> None]
Settled(job) == results[job].how # "pending"

InitBackend ==
    /\ \E rows \in Stored : objects = rows[1] /\ bindings = rows[2]
    /\ state = "none" /\ connection = "none" /\ worker = "none"
    /\ jobs = <<>> /\ results = [j \in Jobs |-> Pends]
    /\ lock = None /\ queue = <<>>
    /\ opener = "start" /\ closer = "none"
    /\ pc = [t \in Tasks |-> "idle"]
    /\ call = [t \in Tasks |-> None]
    /\ out = [t \in Tasks |-> None]
    /\ cancelled = {}
    /\ ran = [t \in Tasks |-> 0]
    /\ misused = FALSE
    /\ faults = 0 /\ torn = FALSE

-----------------------------------------------------------------------------
(* The operations, as the worker runs them, each in one transaction: the   *)
(* rows they leave and what they return.                                   *)
Rows(o, b, reply) ==
    [objects |-> o, bindings |-> b, how |-> "returned", reply |-> reply]

(* ObjectConflictError: the transaction is rolled back.                    *)
Conflict ==
    [objects |-> objects, bindings |-> bindings,
     how |-> "raised", reply |-> None]

PutObject(ref, text) ==
    LET new == IF objects[ref] = None
               THEN [objects EXCEPT ![ref] = text] ELSE objects
    IN  Rows(new, bindings, new[ref])

(* The row of the exact schema first, else some row with that hash.        *)
GetObject(ref) ==
    LET found == {r \in References : r.hash = ref.hash /\ objects[r] # None}
        first == IF ref \in found THEN {ref} ELSE found
    IN  IF found = {} THEN {Rows(objects, bindings, None)}
        ELSE {Rows(objects, bindings, <<r, objects[r]>>) : r \in first}

Bind(key, ref) ==
    LET new == IF bindings[key] = None
               THEN [bindings EXCEPT ![key] = ref] ELSE bindings
    IN  Rows(objects, new, new[key])

GetBinding(key) == Rows(objects, bindings, bindings[key])

(* Each bound key with its object row, which may be missing.               *)
GetBoundObjects(ks) ==
    Rows(objects, bindings,
         [k \in {j \in ks : bindings[j] # None} |->
             <<bindings[k], objects[bindings[k]]>>])

DeleteBindings(ks) ==
    Rows(objects, [k \in Keys |-> IF k \in ks THEN None ELSE bindings[k]],
         {k \in ks : bindings[k] # None})

(* entries gives each key a reference and a text: the texts it proposes    *)
(* for a row, and whether one of them is not the text that is then stored. *)
Proposed(entries, ref) ==
    {entries[k][2] : k \in {j \in DOMAIN entries : entries[j][1] = ref}}

Conflicts(entries) ==
    \E r \in References :
        /\ Proposed(entries, r) # {}
        /\ Cardinality((Proposed(entries, r) \cup {objects[r]}) \ {None}) > 1

InsertObjects(entries) ==
    [r \in References |->
        IF objects[r] = None /\ Proposed(entries, r) # {}
        THEN CHOOSE text \in Proposed(entries, r) : TRUE ELSE objects[r]]

InsertBindingsReplaces(entries) ==
    [k \in Keys |-> IF k \in DOMAIN entries THEN entries[k][1] ELSE bindings[k]]

InsertBindings(entries) ==
    [k \in Keys |-> IF k \in DOMAIN entries /\ bindings[k] = None
                    THEN entries[k][1] ELSE bindings[k]]

PutBoundObjects(entries) ==
    IF Conflicts(entries) THEN Conflict
    ELSE Rows(InsertObjects(entries), InsertBindings(entries),
              [k \in DOMAIN entries |-> InsertBindings(entries)[k]])

Effects(c) ==
    CASE c.op = "put_object" -> {PutObject(c.ref, c.text)}
      [] c.op = "get_object" -> GetObject(c.ref)
      [] c.op = "bind" -> {Bind(c.key, c.ref)}
      [] c.op = "get_binding" -> {GetBinding(c.key)}
      [] c.op = "get_bound_objects" -> {GetBoundObjects(c.keys)}
      [] c.op = "delete_bindings" -> {DeleteBindings(c.keys)}
      [] c.op = "put_bound_objects" -> {PutBoundObjects(c.entries)}

(* An empty batch returns before it asks for admission.                    *)
Empty(c) ==
    \/ c.op \in {"get_bound_objects", "delete_bindings"} /\ c.keys = {}
    \/ c.op = "put_bound_objects" /\ DOMAIN c.entries = {}

-----------------------------------------------------------------------------
(* The worker thread: it takes submitted jobs in order.                    *)
Settle(job, result) ==
    /\ jobs' = Tail(jobs)
    /\ results' = [results EXCEPT ![job] = result]

Submit(job) == jobs' = Append(jobs, job)

(* One operation inside _immediate: BEGIN IMMEDIATE, its statements, then  *)
(* COMMIT, or ROLLBACK when it raises.                                     *)
WorkerRuns ==
    /\ jobs # <<>> /\ Head(jobs) \in Tasks
    /\ LET t == Head(jobs) IN
        /\ ran' = [ran EXCEPT ![t] = @ + 1]
        /\ misused' = (misused \/ connection # "open")
        /\ \/ /\ connection = "open"
              /\ \E e \in Effects(call[t]) :
                    /\ objects' = e.objects /\ bindings' = e.bindings
                    /\ Settle(t, [how |-> e.how, reply |-> e.reply])
              /\ UNCHANGED faults
           \/ /\ connection # "open" \/ faults < MaxFaults
              /\ faults' = IF connection = "open" THEN faults + 1 ELSE faults
              /\ Settle(t, [how |-> "raised", reply |-> None])
              /\ UNCHANGED rowVars
    /\ UNCHANGED <<state, connection, worker, lockVars, opener, closer,
                   taskVars, cancelled, torn>>

(* connection.close(), for aclose or for an open that was cancelled.       *)
WorkerCloses ==
    /\ jobs # <<>> /\ Head(jobs) \in {"close", "undo"}
    /\ \/ /\ connection' = "closed"
          /\ Settle(Head(jobs), [how |-> "returned", reply |-> None])
          /\ UNCHANGED faults
       \/ /\ faults < MaxFaults
          /\ faults' = faults + 1
          /\ Settle(Head(jobs), [how |-> "raised", reply |-> None])
          /\ UNCHANGED connection
    /\ UNCHANGED <<rowVars, state, worker, lockVars, opener, closer, taskVars,
                   cancelled, ran, misused, torn>>

(* _open_connection: connect, pragmas and schema, or nothing.              *)
WorkerOpens ==
    /\ jobs # <<>> /\ Head(jobs) = "open"
    /\ \/ /\ connection' = "open"
          /\ Settle("open", [how |-> "returned", reply |-> None])
          /\ UNCHANGED faults
       \/ /\ faults < MaxFaults
          /\ faults' = faults + 1
          /\ Settle("open", [how |-> "raised", reply |-> None])
          /\ UNCHANGED connection
    /\ UNCHANGED <<rowVars, state, worker, lockVars, opener, closer, taskVars,
                   cancelled, ran, misused, torn>>

-----------------------------------------------------------------------------
(* The event loop.  End: the call of t returns or raises.                  *)
End(t, how, reply) ==
    /\ pc' = [pc EXCEPT ![t] = "done"]
    /\ out' = [out EXCEPT ![t] = [how |-> how, reply |-> reply]]

Free == lock = None /\ queue = <<>>

LeavesQueue(w) ==
    \E i \in DOMAIN queue : queue[i] = w /\ queue' = RemoveAt(queue, i)

(* open: the task waits until _open_connection has settled, cancelled or   *)
(* not.  When it was cancelled and the connection is there, it is closed   *)
(* again; if that close fails, its error leaves open before the worker is  *)
(* shut down, unless a second cancellation covers it.                      *)
OpenStarts ==
    /\ opener = "start" /\ opener' = "opening"
    /\ worker' = "up"
    /\ Submit("open")
    /\ UNCHANGED <<rowVars, state, connection, results, lockVars, closer,
                   taskVars, cancelled, ran, misused, faults, torn>>

OpenSettles ==
    /\ opener = "opening" /\ Settled("open")
    /\ \/ /\ results["open"].how = "returned" /\ "open" \notin cancelled
          /\ state' = "open" /\ opener' = "returned"
          /\ UNCHANGED <<worker, jobs>>
       \/ /\ results["open"].how = "returned" /\ "open" \in cancelled
          /\ Submit("undo") /\ opener' = "undoing"
          /\ UNCHANGED <<state, worker>>
       \/ /\ results["open"].how = "raised"
          /\ worker' = "down" /\ opener' = "raised"
          /\ UNCHANGED <<state, jobs>>
    /\ UNCHANGED <<rowVars, connection, results, lockVars, closer, taskVars,
                   cancelled, ran, misused, faults, torn>>

OpenUndone ==
    /\ opener = "undoing" /\ Settled("undo")
    /\ opener' = "raised"
    /\ worker' = IF results["undo"].how = "returned" \/ "undo" \in cancelled
                 THEN "down" ELSE worker
    /\ UNCHANGED <<rowVars, state, connection, jobs, results, lockVars, closer,
                   taskVars, cancelled, ran, misused, faults, torn>>

(* A call of an operation: _check_operation, and then _run up to its first *)
(* await.  The lock is taken at once if nobody has it or waits for it.     *)
Start(t, c) ==
    /\ pc[t] = "idle" /\ state # "none" /\ ~torn
    /\ call' = [call EXCEPT ![t] = c]
    /\ \/ state # "open" /\ End(t, "refused", None)
          /\ UNCHANGED <<lockVars, jobs>>
       \/ state = "open" /\ Empty(c) /\ End(t, "empty", None)
          /\ UNCHANGED <<lockVars, jobs>>
       \/ /\ state = "open" /\ ~Empty(c) /\ Free
          /\ lock' = t /\ Submit(t)
          /\ pc' = [pc EXCEPT ![t] = "running"]
          /\ UNCHANGED <<queue, out>>
       \/ /\ state = "open" /\ ~Empty(c) /\ ~Free
          /\ queue' = Append(queue, t)
          /\ pc' = [pc EXCEPT ![t] = "waiting"]
          /\ UNCHANGED <<lock, jobs, out>>
    /\ UNCHANGED <<rowVars, state, connection, worker, results, opener, closer,
                   cancelled, ran, misused, faults, torn>>

(* The lock reaches the first waiter, which looks at the state again.      *)
Admit(t) ==
    /\ pc[t] = "waiting" /\ t \notin cancelled
    /\ lock = None /\ Head(queue) = t
    /\ queue' = Tail(queue)
    /\ \/ /\ state = "open"
          /\ lock' = t /\ Submit(t)
          /\ pc' = [pc EXCEPT ![t] = "running"]
          /\ UNCHANGED out
       \/ /\ state # "open"
          /\ End(t, "refused", None)
          /\ UNCHANGED <<lock, jobs>>
    /\ UNCHANGED <<rowVars, state, connection, worker, results, opener, closer,
                   call, cancelled, ran, misused, faults, torn>>

(* A cancelled waiter leaves the queue without having asked for anything.  *)
Withdraw(t) ==
    /\ pc[t] = "waiting" /\ t \in cancelled
    /\ LeavesQueue(t)
    /\ End(t, "withdrawn", None)
    /\ UNCHANGED <<rowVars, state, connection, worker, jobs, results, lock,
                   opener, closer, call, cancelled, ran, misused, faults, torn>>

(* The operation has settled: the lock is released and the call ends,      *)
(* with CancelledError if the task was cancelled meanwhile.  reply is what *)
(* the caller makes of the result.                                         *)
ResumeAtCancel(t, reply) ==
    /\ pc[t] = "running" /\ (Settled(t) \/ t \in cancelled)
    /\ lock' = None
    /\ IF t \in cancelled THEN End(t, "cancelled", None)
       ELSE End(t, results[t].how, reply)
    /\ UNCHANGED <<rowVars, state, connection, worker, jobs, results, queue,
                   opener, closer, call, cancelled, ran, misused, faults, torn>>

Resume(t, reply) ==
    /\ pc[t] = "running" /\ Settled(t)
    /\ lock' = None
    /\ IF t \in cancelled THEN End(t, "cancelled", None)
       ELSE End(t, results[t].how, reply)
    /\ UNCHANGED <<rowVars, state, connection, worker, jobs, results, queue,
                   opener, closer, call, cancelled, ran, misused, faults, torn>>

-----------------------------------------------------------------------------
(* aclose: the first caller starts the one close task, all wait for it.    *)
BeginClose ==
    IF closer = "none" THEN state' = "closing" /\ closer' = "start"
    ELSE UNCHANGED <<state, closer>>

AcloseOncePerCaller(t) ==
    /\ pc[t] = "idle" /\ state # "none" /\ ~torn
    /\ call' = [call EXCEPT ![t] = [op |-> "aclose"]]
    /\ \/ /\ state # "open" /\ End(t, "returned", None)
          /\ UNCHANGED <<state, closer>>
       \/ /\ state = "open"
          /\ BeginClose
          /\ pc' = [pc EXCEPT ![t] = "closing"]
          /\ UNCHANGED out
    /\ UNCHANGED <<rowVars, connection, worker, jobs, results, lockVars, opener,
                   cancelled, ran, misused, faults, torn>>

Aclose(t) ==
    /\ pc[t] = "idle" /\ state # "none" /\ ~torn
    /\ call' = [call EXCEPT ![t] = [op |-> "aclose"]]
    /\ \/ /\ state = "closed" /\ End(t, "returned", None)
          /\ UNCHANGED <<state, closer>>
       \/ /\ state # "closed"
          /\ BeginClose
          /\ pc' = [pc EXCEPT ![t] = "closing"]
          /\ UNCHANGED out
    /\ UNCHANGED <<rowVars, connection, worker, jobs, results, lockVars, opener,
                   cancelled, ran, misused, faults, torn>>

(* _close_resources: wait for the admission lock, close the connection on  *)
(* the worker, shut the worker down.                                       *)
CloserStarts ==
    /\ closer = "start" /\ "close" \notin cancelled
    /\ \/ /\ Free
          /\ lock' = "close" /\ Submit("close") /\ closer' = "closing"
          /\ UNCHANGED queue
       \/ /\ ~Free
          /\ queue' = Append(queue, "close") /\ closer' = "waiting"
          /\ UNCHANGED <<lock, jobs>>
    /\ UNCHANGED <<rowVars, state, connection, worker, results, opener,
                   taskVars, cancelled, ran, misused, faults, torn>>

CloserAdmitted ==
    /\ closer = "waiting" /\ "close" \notin cancelled
    /\ lock = None /\ Head(queue) = "close"
    /\ queue' = Tail(queue) /\ lock' = "close"
    /\ Submit("close") /\ closer' = "closing"
    /\ UNCHANGED <<rowVars, state, connection, worker, results, opener,
                   taskVars, cancelled, ran, misused, faults, torn>>

CloserEnds ==
    /\ closer = "closing" /\ Settled("close") /\ jobs = <<>>
    /\ lock' = None /\ worker' = "down"
    /\ closer' = IF "close" \in cancelled THEN "cancelled"
                 ELSE IF results["close"].how = "returned" THEN "closed"
                 ELSE "failed"
    /\ state' = IF closer' = "closed" THEN "closed" ELSE "failed"
    /\ UNCHANGED <<rowVars, connection, jobs, results, queue, opener, taskVars,
                   cancelled, ran, misused, faults, torn>>

(* The close task is cancelled (only the loop's teardown does that) before *)
(* its first step, which then leaves the state as it is, or while it waits *)
(* for the lock: then it still shuts the worker down.                      *)
CloserCancelled ==
    /\ "close" \in cancelled
    /\ \/ /\ closer = "start"
          /\ UNCHANGED <<state, worker, queue>>
       \/ /\ closer = "waiting" /\ jobs = <<>>
          /\ LeavesQueue("close")
          /\ worker' = "down" /\ state' = "failed"
    /\ closer' = "cancelled"
    /\ UNCHANGED <<rowVars, connection, jobs, results, lock, opener, taskVars,
                   cancelled, ran, misused, faults, torn>>

(* A close call ends when the close task has ended, with its outcome.  If  *)
(* the close task was cancelled, _await_settled takes that for another     *)
(* cancellation of its caller, waits again, and never gets out: there is   *)
(* no step.                                                                *)
Outcome(task) == IF task = "closed" THEN "returned" ELSE "raised"

AcloseReturnsUncancelled(t) ==
    /\ pc[t] = "closing" /\ closer \in {"closed", "failed"}
    /\ t \notin cancelled
    /\ End(t, Outcome(closer), None)
    /\ UNCHANGED <<rowVars, state, connection, worker, jobs, results, lockVars,
                   opener, closer, call, cancelled, ran, misused, faults, torn>>

AcloseReturns(t) ==
    /\ pc[t] = "closing" /\ closer \in {"closed", "failed"}
    /\ End(t, IF t \in cancelled THEN "cancelled" ELSE Outcome(closer), None)
    /\ UNCHANGED <<rowVars, state, connection, worker, jobs, results, lockVars,
                   opener, closer, call, cancelled, ran, misused, faults, torn>>

(* A task is cancelled at an await; it notices at its next step.           *)
Pending ==
    {t \in Tasks : pc[t] \in {"waiting", "running", "closing"}}
        \cup (IF opener = "opening" THEN {"open"} ELSE {})
        \cup (IF opener = "undoing" THEN {"undo"} ELSE {})

Cancel(who) ==
    /\ who \in Pending \ cancelled
    /\ cancelled' = cancelled \cup {who}
    /\ UNCHANGED <<rowVars, state, connection, worker, jobs, results, lockVars,
                   opener, closer, taskVars, ran, misused, faults, torn>>

(* External: asyncio.run ends and cancels all tasks, the close task too,   *)
(* and those of the backend's owners.                                      *)
CloserPending == closer \in {"start", "waiting", "closing"}

TearDown(owners) ==
    /\ ~torn /\ torn' = TRUE
    /\ cancelled' = cancelled \cup Pending \cup owners
                        \cup (IF CloserPending THEN {"close"} ELSE {})
    /\ UNCHANGED <<rowVars, state, connection, worker, jobs, results, lockVars,
                   opener, closer, taskVars, ran, misused, faults>>
=============================================================================
