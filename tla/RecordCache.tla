---------------------------- MODULE RecordCache ----------------------------
(***************************************************************************)
(* SqliteRecordCache (record_cache/sqlite.py) on the SqliteBackend it      *)
(* owns, and the same backend used directly: front says which of the two   *)
(* the program has opened.                                                 *)
(*                                                                         *)
(* The cache admits whole operations: it counts the tasks that are inside  *)
(* one, and closes the backend when the last has left.  Each cache call    *)
(* is one call of the backend (get_bound_objects or put_bound_objects),    *)
(* and cache and backend code between two awaits is one step.  No caller's *)
(* code runs inside an operation, so the check in aclose against a close   *)
(* from an active operation has nothing to refuse here.                    *)
(***************************************************************************)
EXTENDS SqliteBackend

CONSTANT TextOf   \* the canonical text of the record with a given hash

VARIABLES
    front,        \* "cache" or "direct"
    cacheState,   \* _state of the cache
    active,       \* _operation_tasks; _drained is set iff it is empty
    cacheCloser   \* _close_task of the cache

cacheVars == <<front, cacheState, active, cacheCloser>>
vars == <<backendVars, cacheVars>>

Init ==
    /\ InitBackend
    /\ front \in {"cache", "direct"}
    /\ cacheState = "none"
    /\ active = {}
    /\ cacheCloser = "none"

(* open: the backend first; the cache is open in the same step.            *)
CacheOpen ==
    /\ OpenSettles
    /\ cacheState' = IF front = "cache" /\ state' = "open"
                     THEN "open" ELSE cacheState
    /\ UNCHANGED <<front, active, cacheCloser>>

(* get, get_many, put, put_many: admission, then the backend's operation.  *)
CacheOperations == {"get_bound_objects", "put_bound_objects"}

CacheStart(t, c) ==
    /\ front = "cache" /\ c.op \in CacheOperations
    /\ \/ /\ cacheState = "open"
          /\ Start(t, c)
          /\ active' = IF pc'[t] = "done" THEN active ELSE active \cup {t}
       \/ /\ cacheState \notin {"none", "open"}
          /\ pc[t] = "idle" /\ ~torn
          /\ call' = [call EXCEPT ![t] = c]
          /\ End(t, "refused", None)
          /\ UNCHANGED <<rowVars, state, connection, worker, jobs, results,
                         lockVars, opener, closer, cancelled, ran, misused,
                         faults, torn, active>>
    /\ UNCHANGED <<front, cacheState, cacheCloser>>

(* _get_many: a row is a hit if it is bound under the requested schema and *)
(* its text verifies against its reference; everything else is a miss.     *)
Hit(c, row) == row[1].schema = c.schema /\ row[2] = TextOf[row[1].hash]

CacheReply(c, rows) ==
    IF c.op = "get_bound_objects"
    THEN [k \in {j \in DOMAIN rows : Hit(c, rows[j])} |-> rows[k]] ELSE rows

Answer(t) ==
    IF front = "cache" /\ results[t].how = "returned"
    THEN CacheReply(call[t], results[t].reply) ELSE results[t].reply

(* A step at which an operation of t may end takes t out of the active     *)
(* tasks, however it ends (the finally of _admit_operation).               *)
Leaves(t, step) ==
    /\ step
    /\ active' = IF pc'[t] = "done" THEN active \ {t} ELSE active
    /\ UNCHANGED <<front, cacheState, cacheCloser>>

(* aclose of the cache: the first caller starts its close task.            *)
CacheAclose(t) ==
    /\ front = "cache" /\ cacheState # "none" /\ pc[t] = "idle" /\ ~torn
    /\ call' = [call EXCEPT ![t] = [op |-> "aclose"]]
    /\ \/ /\ cacheState = "closed" /\ End(t, "returned", None)
          /\ UNCHANGED <<cacheState, cacheCloser>>
       \/ /\ cacheState # "closed"
          /\ IF cacheCloser = "none"
             THEN cacheState' = "closing" /\ cacheCloser' = "draining"
             ELSE UNCHANGED <<cacheState, cacheCloser>>
          /\ pc' = [pc EXCEPT ![t] = "closing"]
          /\ UNCHANGED out
    /\ UNCHANGED <<rowVars, state, connection, worker, jobs, results, lockVars,
                   opener, closer, cancelled, ran, misused, faults, torn,
                   front, active>>

(* _close_resources: once drained, the backend's aclose up to its await;   *)
(* then its outcome.                                                       *)
CacheDrained ==
    /\ cacheCloser = "draining" /\ "cache" \notin cancelled
    /\ active = {}
    /\ BeginClose
    /\ cacheCloser' = "closing"
    /\ UNCHANGED <<rowVars, connection, worker, jobs, results, lockVars,
                   opener, taskVars, cancelled, ran, misused, faults, torn,
                   front, cacheState, active>>

CacheClosed ==
    /\ cacheCloser = "closing" /\ "cache" \notin cancelled
    /\ closer \in {"closed", "failed"}
    /\ cacheCloser' = closer /\ cacheState' = closer
    /\ UNCHANGED <<backendVars, front, active>>

(* Cancelled by the loop's teardown: at once while it waits to be drained, *)
(* and when the backend's close task is over while it waits for that one   *)
(* (_await_settled then raises the cancellation, whatever the outcome).    *)
(* Only Exception is caught, so the state stays CLOSING.                   *)
CacheCloserCancelled ==
    /\ "cache" \in cancelled
    /\ \/ cacheCloser = "draining"
       \/ cacheCloser = "closing" /\ closer \in {"closed", "failed"}
    /\ cacheCloser' = "cancelled"
    /\ UNCHANGED <<backendVars, front, cacheState, active>>

CacheAcloseReturns(t) ==
    /\ front = "cache"
    /\ pc[t] = "closing" /\ cacheCloser \in {"closed", "failed"}
    /\ End(t, IF t \in cancelled THEN "cancelled" ELSE Outcome(cacheCloser),
           None)
    /\ UNCHANGED <<rowVars, state, connection, worker, jobs, results, lockVars,
                   opener, closer, call, cancelled, ran, misused, faults, torn,
                   cacheVars>>

CacheTearDown ==
    /\ TearDown(IF cacheCloser \in {"draining", "closing"} THEN {"cache"} ELSE {})
    /\ UNCHANGED cacheVars

-----------------------------------------------------------------------------
(* What a task of the program decides to do; nothing obliges it.           *)
Request(t) ==
    \/ \E c \in Calls[t] :
         \/ front = "direct" /\ Start(t, c) /\ UNCHANGED cacheVars
         \/ CacheStart(t, c)
    \/ front = "direct" /\ Aclose(t) /\ UNCHANGED cacheVars
    \/ CacheAclose(t)

Interruption ==
    \/ (\E who \in Tasks \cup {"open", "undo"} : Cancel(who))
         /\ UNCHANGED cacheVars
    \/ CacheTearDown

(* What goes on by itself: the worker, and the loop waking a task whose    *)
(* await is over.                                                          *)
WorkerStep ==
    /\ WorkerRuns \/ WorkerCloses \/ WorkerOpens
    /\ UNCHANGED cacheVars

TaskStep(t) ==
    \/ Leaves(t, Admit(t))
    \/ Leaves(t, Withdraw(t))
    \/ Leaves(t, Resume(t, Answer(t)))
    \/ front = "direct" /\ AcloseReturns(t) /\ UNCHANGED cacheVars
    \/ CacheAcloseReturns(t)

OpenStep ==
    \/ OpenStarts /\ UNCHANGED cacheVars
    \/ CacheOpen
    \/ OpenUndone /\ UNCHANGED cacheVars

CloseStep ==
    \/ CloserStarts /\ UNCHANGED cacheVars
    \/ CloserAdmitted /\ UNCHANGED cacheVars
    \/ CloserEnds /\ UNCHANGED cacheVars
    \/ CloserCancelled /\ UNCHANGED cacheVars

CacheCloseStep == CacheDrained \/ CacheClosed \/ CacheCloserCancelled

Next ==
    \/ \E t \in Tasks : Request(t) \/ TaskStep(t)
    \/ WorkerStep \/ OpenStep \/ CloseStep \/ CacheCloseStep
    \/ Interruption

Spec == Init /\ [][Next]_vars

Fairness ==
    /\ WF_vars(WorkerStep) /\ WF_vars(OpenStep)
    /\ WF_vars(CloseStep) /\ WF_vars(CacheCloseStep)
    /\ \A t \in Tasks : WF_vars(TaskStep(t))

FairSpec == Spec /\ Fairness

-----------------------------------------------------------------------------
OnWorker(t) == \E i \in DOMAIN jobs : jobs[i] = t
Waits(t) == \E i \in DOMAIN queue : queue[i] = t
Ended(t) == pc[t] = "done"

(* A call that has ended, cancelled or not, has left nothing behind: no    *)
(* job on the worker, no claim on the admission lock, no place among the   *)
(* cache's active operations; and the worker never has two jobs.  An open  *)
(* that raised has left neither connection nor worker, unless closing the  *)
(* connection failed.                                                      *)
EndedLeavesNothing ==
    /\ Len(jobs) <= 1
    /\ \A t \in Tasks : Ended(t) =>
         ~OnWorker(t) /\ lock # t /\ ~Waits(t) /\ t \notin active
    /\ opener = "raised" =>
         \/ connection # "open" /\ worker = "down"
         \/ results["undo"].how = "raised"

(* What the answer to a call says is true of the rows from then on, until  *)
(* somebody deletes the key; and a cache hit is the record its reference   *)
(* names, under the schema that was asked for.                             *)
Deleted(k) ==
    \E t \in Tasks : ran[t] > 0 /\ call[t].op = "delete_bindings"
                                /\ k \in call[t].keys

AnswerTrue(t) ==
    LET c == call[t]
        reply == out[t].reply
    IN  CASE c.op = "put_object" -> objects[c.ref] = reply
          [] c.op = "get_object" ->
                reply # None => objects[reply[1]] = reply[2]
          [] c.op = "bind" -> Deleted(c.key) \/ bindings[c.key] = reply
          [] c.op = "get_binding" ->
                reply = None \/ Deleted(c.key) \/ bindings[c.key] = reply
          [] c.op = "get_bound_objects" ->
                \A k \in DOMAIN reply :
                    /\ Deleted(k) \/ bindings[k] = reply[k][1]
                    /\ reply[k][2] # None => objects[reply[k][1]] = reply[k][2]
                    /\ front = "cache" =>
                         /\ reply[k][1].schema = c.schema
                         /\ reply[k][2] = TextOf[reply[k][1].hash]
          [] c.op = "put_bound_objects" ->
                \A k \in DOMAIN c.entries :
                    /\ objects[c.entries[k][1]] = c.entries[k][2]
                    /\ Deleted(k) \/ bindings[k] = reply[k]
          [] OTHER -> TRUE

(* An operation runs at most once and only on an open connection.  One     *)
(* that was answered ran, and its answer stays true; one that was refused  *)
(* as closed, or cancelled while it waited for admission, never ran, not   *)
(* even later.                                                             *)
AnsweredRanOnce ==
    /\ ~misused
    /\ \A t \in Tasks :
         /\ ran[t] <= 1
         /\ Ended(t) /\ out[t].how \in {"refused", "withdrawn", "empty"} =>
                ran[t] = 0
         /\ Ended(t) /\ out[t].how = "returned" /\ call[t].op # "aclose" =>
                ran[t] = 1 /\ AnswerTrue(t)

(* A close that returned has released everything: connection closed,       *)
(* worker gone, no operation left inside the cache; and of two close       *)
(* calls that were not cancelled both return or both raise.                *)
CloseCall(t) == Ended(t) /\ call[t].op = "aclose"

CloseReleases ==
    /\ \A t \in Tasks : CloseCall(t) /\ out[t].how = "returned" =>
         /\ connection = "closed" /\ worker = "down" /\ jobs = <<>>
         /\ state = "closed"
         /\ front = "cache" => cacheState = "closed" /\ active = {}
    /\ \A t, u \in Tasks :
         CloseCall(t) /\ CloseCall(u) /\ out[t].how = "returned"
            => out[u].how # "raised"

(* Every call ends, cancelled or not, closed under it or not, as long as   *)
(* the loop is not torn down.                                              *)
CallsEnd ==
    \A t \in Tasks : pc[t] # "idle" ~> (Ended(t) \/ torn)

(* Every close call ends, with the shared outcome, whatever happens to the *)
(* loop.                                                                   *)
CloseCallsEnd ==
    \A t \in Tasks : pc[t] = "closing" ~> Ended(t)
=============================================================================
