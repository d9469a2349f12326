---------------------------- MODULE SyncSession ----------------------------
(***************************************************************************)
(* The blocking facade (sync/blocking.py): threads that share sessions,    *)
(* each with an event-loop thread of its own and a SqliteBackend on it.    *)
(*                                                                         *)
(* The backend is what SqliteBackend shows it to be: an operation on an    *)
(* open backend ends, one on a closed backend raises                       *)
(* SqliteBackendClosedError, aclose ends.  _futures_lock and               *)
(* _sessions_lock are held for a few statements that cannot block, and are *)
(* not variables: each such block is one step.  _open_lock is held across  *)
(* waiting and is modelled.                                                *)
(***************************************************************************)
EXTENDS Naturals, Sequences, FiniteSets

CONSTANTS
    Threads, Paths,
    MaxSessions,  \* sessions a behaviour may create
    MaxCalls,     \* calls a behaviour may make
    MaxFaults,    \* failures of open and of operations
    None

Sessions == 1..MaxSessions

(* How an operation ends for its caller.                                   *)
Outcomes == {"returned", "raised", "backend_closed", "session_closed"}

ASSUME MaxSessionsAssumption == MaxSessions \in Nat
ASSUME NoneAssumption ==
    None \notin Nat /\ None \notin Outcomes /\ None \notin Threads

VARIABLES
    registry,     \* _sessions: the session of each path, or None
    created,      \* how many sessions exist
    openLock,     \* _open_lock of each session: its holder, or None
    closed,       \* _closed
    loop,         \* the event-loop thread: "new", "alive", "stopping", "dead"
    backend,      \* _backend: "none", "open", or "closed" when aclose ended
    usable,       \* store is not None
    openFailed,   \* _open_failure is not None
    futures,      \* _futures: the threads with a future in it
    pc, sess,     \* each thread's position, and the session it works on
    scope,        \* sessions of the open_sqlite blocks the thread is in
    future,       \* how its submitted coroutine ended, None before
    snapshot,     \* futures its close waits for
    todo,         \* sessions its close call still has to close, in order
    out,          \* how its last operation ended
    handed,       \* sessions whose BlockingObjectStore was returned
    calls, faults

sessionVars == <<created, openLock, closed, loop, backend, usable, openFailed,
                 futures>>
threadVars == <<pc, sess, scope, handed, future, snapshot, todo, out, calls>>
vars == <<registry, sessionVars, threadVars, faults>>

Init ==
    /\ registry = [p \in Paths |-> None]
    /\ created = 0
    /\ openLock = [s \in Sessions |-> None]
    /\ closed = [s \in Sessions |-> FALSE]
    /\ loop = [s \in Sessions |-> "new"]
    /\ backend = [s \in Sessions |-> "none"]
    /\ usable = [s \in Sessions |-> FALSE]
    /\ openFailed = [s \in Sessions |-> FALSE]
    /\ futures = [s \in Sessions |-> {}]
    /\ pc = [t \in Threads |-> "idle"]
    /\ sess = [t \in Threads |-> None]
    /\ scope = [t \in Threads |-> {}]
    /\ handed = {}
    /\ future = [t \in Threads |-> None]
    /\ snapshot = [t \in Threads |-> {}]
    /\ todo = [t \in Threads |-> <<>>]
    /\ out = [t \in Threads |-> None]
    /\ calls = 0
    /\ faults = 0

Goto(t, label) == pc' = [pc EXCEPT ![t] = label]

Call(t) ==
    /\ pc[t] = "idle" /\ calls < MaxCalls
    /\ calls' = calls + 1

Fault == faults < MaxFaults /\ faults' = faults + 1


-----------------------------------------------------------------------------
(* _StoreSession(path)                                                     *)
NewSession == created < MaxSessions /\ created' = created + 1

(* persistent_sqlite: the registered session of the path, or a new one     *)
(* that is registered at once; then open.                                  *)
PersistentSqlite(t, p) ==
    /\ Call(t)
    /\ \/ /\ registry[p] # None
          /\ sess' = [sess EXCEPT ![t] = registry[p]]
          /\ UNCHANGED <<registry, created>>
       \/ /\ registry[p] = None
          /\ NewSession
          /\ registry' = [registry EXCEPT ![p] = created']
          /\ sess' = [sess EXCEPT ![t] = created']
    /\ Goto(t, "open")
    /\ UNCHANGED <<openLock, closed, loop, backend, usable, openFailed,
                   futures, scope, handed, future, snapshot, todo, out, faults>>

(* open_sqlite: a session of its own, closed when the block is left.       *)
OpenSqlite(t) ==
    /\ Call(t)
    /\ NewSession
    /\ sess' = [sess EXCEPT ![t] = created']
    /\ scope' = [scope EXCEPT ![t] = @ \cup {created'}]
    /\ Goto(t, "open")
    /\ UNCHANGED <<registry, openLock, closed, loop, backend, usable,
                   openFailed, futures, handed, future, snapshot, todo, out,
                   faults>>

(* _StoreSession.open: refused early when closed; under the open lock the  *)
(* store if there is one, the old failure if there was one, else the loop  *)
(* thread is started and the backend opened on it with the lock held.      *)
OpenUnlocked(t) ==
    /\ pc[t] = "open"
    /\ Goto(t, IF closed[sess[t]] THEN "open_failed" ELSE "open_locked")
    /\ UNCHANGED <<registry, sessionVars, sess, scope, handed, future,
                   snapshot, todo, out, calls, faults>>

OpenLocked(t) ==
    LET s == sess[t] IN
    /\ pc[t] = "open_locked" /\ openLock[s] = None
    /\ \/ /\ usable[s]
          /\ handed' = handed \cup {s}
          /\ Goto(t, "idle")
          /\ UNCHANGED <<openLock, loop>>
       \/ /\ ~usable[s] /\ (closed[s] \/ openFailed[s])
          /\ Goto(t, "open_failed")
          /\ UNCHANGED <<openLock, loop, handed>>
       \/ /\ ~usable[s] /\ ~closed[s] /\ ~openFailed[s]
          /\ openLock' = [openLock EXCEPT ![s] = t]
          /\ loop' = [loop EXCEPT ![s] = "alive"]
          /\ Goto(t, "opening")
          /\ UNCHANGED handed
    /\ UNCHANGED <<registry, created, closed, backend, usable, openFailed,
                   futures, sess, scope, future, snapshot, todo, out, calls,
                   faults>>

BackendOpensKeepsLock(t) ==
    LET s == sess[t] IN
    /\ pc[t] = "opening" /\ loop[s] = "alive"
    /\ \/ /\ backend' = [backend EXCEPT ![s] = "open"]
          /\ usable' = [usable EXCEPT ![s] = TRUE]
          /\ handed' = handed \cup {s}
          /\ openLock' = [openLock EXCEPT ![s] = None]
          /\ Goto(t, "idle")
          /\ UNCHANGED <<openFailed, faults>>
       \/ /\ Fault
          /\ openFailed' = [openFailed EXCEPT ![s] = TRUE]
          /\ Goto(t, "open_failed")
          /\ UNCHANGED <<openLock, backend, usable, handed>>
    /\ UNCHANGED <<registry, created, closed, loop, futures, sess, scope,
                   future, snapshot, todo, out, calls>>

BackendOpens(t) ==
    LET s == sess[t] IN
    /\ pc[t] = "opening" /\ loop[s] = "alive"
    /\ openLock' = [openLock EXCEPT ![s] = None]
    /\ \/ /\ backend' = [backend EXCEPT ![s] = "open"]
          /\ usable' = [usable EXCEPT ![s] = TRUE]
          /\ handed' = handed \cup {s}
          /\ Goto(t, "idle")
          /\ UNCHANGED <<openFailed, faults>>
       \/ /\ Fault
          /\ openFailed' = [openFailed EXCEPT ![s] = TRUE]
          /\ Goto(t, "open_failed")
          /\ UNCHANGED <<backend, usable, handed>>
    /\ UNCHANGED <<registry, created, closed, loop, futures, sess, scope,
                   future, snapshot, todo, out, calls>>

(* The finally of persistent_sqlite and of open_sqlite: a session that     *)
(* could not be opened leaves the registry, if it is still the one there,  *)
(* and is closed.                                                          *)
PopsAny(t) ==
    /\ pc[t] = "open_failed"
    /\ registry' = IF sess[t] \in scope[t] THEN registry
                   ELSE [p \in Paths |-> None]
    /\ scope' = [scope EXCEPT ![t] = @ \ {sess[t]}]
    /\ todo' = [todo EXCEPT ![t] = <<sess[t]>>]
    /\ Goto(t, "close")
    /\ UNCHANGED <<sessionVars, sess, handed, future, snapshot, out, calls,
                   faults>>

GiveUpOpen(t) ==
    /\ pc[t] = "open_failed"
    /\ registry' = [p \in Paths |->
                      IF registry[p] = sess[t] THEN None ELSE registry[p]]
    /\ scope' = [scope EXCEPT ![t] = @ \ {sess[t]}]
    /\ todo' = [todo EXCEPT ![t] = <<sess[t]>>]
    /\ Goto(t, "close")
    /\ UNCHANGED <<sessionVars, sess, handed, future, snapshot, out, calls,
                   faults>>

-----------------------------------------------------------------------------
(* BlockingObjectStore._run: under the futures lock the coroutine is       *)
(* submitted and its future registered, unless the session is closed.  Any *)
(* thread may use a store that was returned to any.                        *)
Run(t, s) ==
    /\ s \in handed /\ Call(t)
    /\ \/ /\ closed[s]
          /\ out' = [out EXCEPT ![t] = "session_closed"]
          /\ UNCHANGED <<futures, sess, pc>>
       \/ /\ ~closed[s]
          /\ futures' = [futures EXCEPT ![s] = @ \cup {t}]
          /\ sess' = [sess EXCEPT ![t] = s]
          /\ out' = [out EXCEPT ![t] = None]
          /\ Goto(t, "waiting")
    /\ UNCHANGED <<registry, created, openLock, closed, loop, backend, usable,
                   openFailed, scope, handed, future, snapshot, todo, faults>>

(* The coroutine runs on the session's loop, if that loop still runs.      *)
LoopRuns(t) ==
    LET s == sess[t] IN
    /\ pc[t] = "waiting" /\ future[t] = None
    /\ loop[s] = "alive"
    /\ \/ /\ future' = [future EXCEPT ![t] =
                IF backend[s] = "open" THEN "returned" ELSE "backend_closed"]
          /\ UNCHANGED faults
       \/ /\ Fault
          /\ future' = [future EXCEPT ![t] = "raised"]
    /\ UNCHANGED <<registry, sessionVars, pc, sess, scope, handed, snapshot,
                   todo, out, calls>>

(* The result, with the backend's closed error translated when the session *)
(* was closed; the future leaves the set.                                  *)
RunReturns(t) ==
    LET s == sess[t] IN
    /\ pc[t] = "waiting" /\ future[t] # None
    /\ futures' = [futures EXCEPT ![s] = @ \ {t}]
    /\ out' = [out EXCEPT ![t] =
                IF future[t] = "backend_closed" /\ closed[s]
                THEN "session_closed" ELSE future[t]]
    /\ Goto(t, "idle")
    /\ future' = [future EXCEPT ![t] = None]
    /\ UNCHANGED <<registry, created, openLock, closed, loop, backend, usable,
                   openFailed, sess, scope, handed, snapshot, todo, calls,
                   faults>>

-----------------------------------------------------------------------------
(* close_persistent, close_all_persistent and the end of an open_sqlite    *)
(* block: the sessions leave the registry and are then closed in turn.     *)
Closes(t, sequence) ==
    /\ todo' = [todo EXCEPT ![t] = sequence]
    /\ Goto(t, IF sequence = <<>> THEN "idle" ELSE "close")

ClosePersistent(t, p) ==
    /\ Call(t)
    /\ Closes(t, IF registry[p] = None THEN <<>> ELSE <<registry[p]>>)
    /\ registry' = [registry EXCEPT ![p] = None]
    /\ UNCHANGED <<sessionVars, sess, scope, handed, future, snapshot, out,
                   faults>>

Orders(set) ==
    {order \in [1..Cardinality(set) -> set] :
        \A i, j \in 1..Cardinality(set) : i # j => order[i] # order[j]}

CloseAllPersistent(t) ==
    /\ Call(t)
    /\ \E order \in Orders({registry[p] : p \in Paths} \ {None}) :
            Closes(t, order)
    /\ registry' = [p \in Paths |-> None]
    /\ UNCHANGED <<sessionVars, sess, scope, handed, future, snapshot, out,
                   faults>>

LeaveScope(t) ==
    /\ pc[t] = "idle"
    /\ \E s \in scope[t] :
         /\ Closes(t, <<s>>)
         /\ scope' = [scope EXCEPT ![t] = @ \ {s}]
    /\ UNCHANGED <<registry, sessionVars, sess, handed, future, snapshot,
                   out, calls, faults>>

(* _StoreSession.close, under the open lock from here to Finish.  closed   *)
(* and the snapshot of the futures are taken together, under the futures   *)
(* lock.                                                                   *)
NextClose(t) ==
    /\ todo' = [todo EXCEPT ![t] = Tail(@)]
    /\ Goto(t, IF Len(todo[t]) = 1 THEN "idle" ELSE "close")

CloseLocked(t) ==
    LET s == Head(todo[t]) IN
    /\ pc[t] = "close" /\ openLock[s] = None
    /\ \/ /\ closed[s] /\ loop[s] \in {"new", "dead"} /\ backend[s] = "none"
          /\ NextClose(t)
          /\ UNCHANGED <<openLock, closed, snapshot>>
       \/ /\ ~(closed[s] /\ loop[s] \in {"new", "dead"} /\ backend[s] = "none")
          /\ openLock' = [openLock EXCEPT ![s] = t]
          /\ closed' = [closed EXCEPT ![s] = TRUE]
          /\ snapshot' = [snapshot EXCEPT ![t] = futures[s]]
          /\ Goto(t, "drain")
          /\ UNCHANGED todo
    /\ UNCHANGED <<registry, created, loop, backend, usable, openFailed,
                   futures, sess, scope, handed, future, out, calls, faults>>

(* _drain_inflight_futures: all of the snapshot are done.                  *)
Done(s, u) == u \in futures[s] => future[u] # None

DrainedFirst(t) ==
    LET s == Head(todo[t]) IN
    /\ pc[t] = "drain"
    /\ snapshot[t] = {} \/ \E u \in snapshot[t] : Done(s, u)
    /\ Goto(t, IF backend[s] = "none" THEN "stop" ELSE "aclose")
    /\ UNCHANGED <<registry, sessionVars, sess, scope, handed, future,
                   snapshot, todo, out, calls, faults>>

Drained(t) ==
    LET s == Head(todo[t]) IN
    /\ pc[t] = "drain"
    /\ \A u \in snapshot[t] : Done(s, u)
    /\ Goto(t, IF backend[s] = "none" THEN "stop" ELSE "aclose")
    /\ UNCHANGED <<registry, sessionVars, sess, scope, handed, future,
                   snapshot, todo, out, calls, faults>>

(* backend.aclose() on the loop.  If it fails, its error is raised at the  *)
(* end; what follows is the same.                                          *)
BackendCloses(t) ==
    LET s == Head(todo[t]) IN
    /\ pc[t] = "aclose" /\ loop[s] = "alive"
    /\ backend' = [backend EXCEPT ![s] = "closed"]
    /\ Goto(t, "stop")
    /\ UNCHANGED <<registry, created, openLock, closed, loop, usable,
                   openFailed, futures, sess, scope, handed, future, snapshot,
                   todo, out, calls, faults>>

(* loop.stop() and join, unless the thread was never started or has ended. *)
Stop(t) ==
    LET s == Head(todo[t]) IN
    /\ pc[t] = "stop"
    /\ loop' = [loop EXCEPT ![s] = IF @ = "alive" THEN "stopping" ELSE @]
    /\ Goto(t, "join")
    /\ UNCHANGED <<registry, created, openLock, closed, backend, usable,
                   openFailed, futures, sess, scope, handed, future, snapshot,
                   todo, out, calls, faults>>

LoopStops(s) ==
    /\ loop[s] = "stopping"
    /\ loop' = [loop EXCEPT ![s] = "dead"]
    /\ UNCHANGED <<registry, created, openLock, closed, backend, usable,
                   openFailed, futures, threadVars, faults>>

(* The thread has ended, or the watchdog's five seconds are over.          *)
Finish(t) ==
    LET s == Head(todo[t]) IN
    /\ pc[t] = "join"
    /\ backend' = [backend EXCEPT ![s] = "none"]
    /\ usable' = [usable EXCEPT ![s] = FALSE]
    /\ openLock' = [openLock EXCEPT ![s] = None]
    /\ snapshot' = [snapshot EXCEPT ![t] = {}]
    /\ NextClose(t)
    /\ UNCHANGED <<registry, created, closed, loop, openFailed, futures, sess,
                   scope, handed, future, out, calls, faults>>

-----------------------------------------------------------------------------
Request(t) ==
    \/ \E p \in Paths : PersistentSqlite(t, p) \/ ClosePersistent(t, p)
    \/ OpenSqlite(t)
    \/ \E s \in Sessions : Run(t, s)
    \/ CloseAllPersistent(t)

ThreadStep(t) ==
    \/ OpenUnlocked(t) \/ OpenLocked(t) \/ GiveUpOpen(t)
    \/ RunReturns(t)
    \/ LeaveScope(t)
    \/ CloseLocked(t) \/ Drained(t) \/ Stop(t) \/ Finish(t)

LoopStep(t) == BackendOpens(t) \/ LoopRuns(t) \/ BackendCloses(t)

Next ==
    \/ \E t \in Threads : Request(t) \/ ThreadStep(t) \/ LoopStep(t)
    \/ \E s \in Sessions : LoopStops(s)

Spec == Init /\ [][Next]_vars

Fairness ==
    /\ \A t \in Threads : WF_vars(ThreadStep(t)) /\ WF_vars(LoopStep(t))
    /\ \A s \in Sessions : WF_vars(LoopStops(s))

FairSpec == Spec /\ Fairness

-----------------------------------------------------------------------------
(* close drains before it tears down: an operation that was registered     *)
(* never meets a closed backend or a loop that has stopped, so no caller   *)
(* sees SqliteBackendClosedError and none waits for a loop that is gone.   *)
DrainedBeforeTeardown ==
    \A t \in Threads :
        /\ out[t] # "backend_closed" /\ future[t] # "backend_closed"
        /\ pc[t] = "waiting" /\ future[t] = None =>
             loop[sess[t]] = "alive" /\ backend[sess[t]] = "open"

(* No session is forgotten and no closed one is handed out: a session with *)
(* a running loop that no thread is opening, closing or about to close,    *)
(* and no open_sqlite block owns, is registered under its path; and a      *)
(* registered session has not been closed.                                 *)
InHands(t, s) ==
    \/ sess[t] = s /\ pc[t] \in {"open", "open_locked", "opening",
                                 "open_failed"}
    \/ \E i \in DOMAIN todo[t] : todo[t][i] = s
    \/ s \in scope[t]

Registered(s) == \E p \in Paths : registry[p] = s

NoSessionForgotten ==
    \A s \in Sessions :
        /\ loop[s] = "alive" /\ (\A t \in Threads : ~InHands(t, s)) =>
             Registered(s) /\ usable[s]
        /\ Registered(s) => ~closed[s]

(* Every call returns: opening, operating and closing threads never wait   *)
(* for each other for ever, so that with finitely many calls all threads   *)
(* are outside again.                                                      *)
CallsReturn == []<>(\A t \in Threads : pc[t] = "idle")
=============================================================================
