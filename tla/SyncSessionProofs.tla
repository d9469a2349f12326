-------------------------- MODULE SyncSessionProofs --------------------------
(***************************************************************************)
(* Proofs about the blocking facade (sync/blocking.py), for any number of  *)
(* threads, paths, sessions and calls: close never tears a session down    *)
(* under an operation, and no session with a running loop is ever out of   *)
(* reach.                                                                  *)
(***************************************************************************)
EXTENDS SyncSession, TLAPS, FiniteSetTheorems, SequenceTheorems

Lists(q, s) == \E i \in DOMAIN q : q[i] = s
InTodo(t, s) == Lists(todo[t], s)

Opening == {"open", "open_locked", "opening", "open_failed"}
Draining == {"drain", "aclose", "stop", "join"}

(* Sessions that _StoreSession has not created yet.                        *)
Fresh(s) == s > created

Types ==
    /\ created \in Nat
    /\ registry \in [Paths -> Sessions \cup {None}]
    /\ DOMAIN openLock = Sessions
    /\ closed \in [Sessions -> BOOLEAN]
    /\ usable \in [Sessions -> BOOLEAN]
    /\ DOMAIN loop = Sessions
    /\ DOMAIN backend = Sessions
    /\ DOMAIN openFailed = Sessions
    /\ futures \in [Sessions -> SUBSET Threads]
    /\ DOMAIN pc = Threads
    /\ sess \in [Threads -> Sessions \cup {None}]
    /\ scope \in [Threads -> SUBSET Sessions]
    /\ handed \subseteq Sessions
    /\ DOMAIN future = Threads
    /\ DOMAIN out = Threads
    /\ DOMAIN snapshot = Threads
    /\ todo \in [Threads -> Seq(Sessions)]
    /\ \A t \in Threads : pc[t] \in Opening \cup {"waiting"} => sess[t] # None
    /\ \A t \in Threads :
            pc[t] \in Draining \cup {"close"} <=> todo[t] # <<>>

(***************************************************************************)
(* Why close is safe.  The futures of a session are those of the threads   *)
(* waiting on it; once it is closed the set only shrinks, so the snapshot  *)
(* that close took covers it, and when close leaves "drain" every one of   *)
(* them has its result.                                                    *)
(***************************************************************************)
FuturesAreWaiting ==
    \A t \in Threads, s \in Sessions :
        t \in futures[s] <=> pc[t] = "waiting" /\ sess[t] = s

CloseDrained(t) ==
    LET s == Head(todo[t]) IN
    pc[t] \in Draining =>
        /\ closed[s]
        /\ futures[s] \subseteq snapshot[t]
        /\ pc[t] # "drain" => \A u \in futures[s] : future[u] # None
        /\ pc[t] = "join" => loop[s] # "alive"

OpenIsUp ==
    \A s \in Sessions :
        ~closed[s] /\ (usable[s] \/ s \in handed) =>
            loop[s] = "alive" /\ backend[s] = "open"

DrainInv ==
    /\ FuturesAreWaiting
    /\ \A t \in Threads : CloseDrained(t)
    /\ OpenIsUp
    /\ DrainedBeforeTeardown

(***************************************************************************)
(* Why no session is lost.  A session has exactly one kind of owner: the   *)
(* registry, an open_sqlite block, or threads that are about to close it;  *)
(* when the last one lets go it is closed and its loop no longer runs.     *)
(***************************************************************************)
Owned(s) ==
    \/ Registered(s)
    \/ \E t \in Threads : InTodo(t, s) \/ s \in scope[t]

OneOwner ==
    /\ \A p, q \in Paths : registry[p] = registry[q] /\ registry[p] # None
            => p = q
    /\ \A t \in Threads, s \in Sessions :
            InTodo(t, s) \/ s \in scope[t] => ~Registered(s)

RegisteredIsOpen == \A s \in Sessions : Registered(s) => ~closed[s]

FreshIsUnknown ==
    \A s \in Sessions : Fresh(s) =>
        /\ ~Owned(s)
        /\ ~closed[s]
        /\ s \notin handed
        /\ \A t \in Threads : sess[t] # s

UnownedIsDown ==
    \A s \in Sessions :
        Owned(s) \/ (loop[s] # "alive" /\ (closed[s] \/ Fresh(s)))

HalfOpenIsHeld ==
    \A s \in Sessions : loop[s] = "alive" /\ ~usable[s] =>
        \E t \in Threads :
            \/ sess[t] = s /\ pc[t] \in {"opening", "open_failed"}
            \/ InTodo(t, s)

OwnerInv ==
    /\ OneOwner
    /\ RegisteredIsOpen
    /\ FreshIsUnknown
    /\ UnownedIsDown
    /\ HalfOpenIsHeld

Inv == Types /\ DrainInv /\ OwnerInv

-----------------------------------------------------------------------------
(* Taking the head off a list of sessions.                                 *)
LEMMA Pop ==
    ASSUME NEW S, NEW q \in Seq(S), q # <<>>
    PROVE  /\ Head(q) \in S
           /\ Tail(q) \in Seq(S)
           /\ Len(q) = 1 <=> Tail(q) = <<>>
           /\ \A s : Lists(q, s) <=> s = Head(q) \/ Lists(Tail(q), s)
<1>1. Len(q) \in Nat \ {0} /\ DOMAIN q = 1..Len(q)
  BY EmptySeq, LenProperties
<1>2. /\ Head(q) \in S /\ Tail(q) \in Seq(S)
      /\ Len(Tail(q)) = Len(q) - 1
      /\ \A i \in 1..Len(Tail(q)) : Tail(q)[i] = q[i+1]
  BY HeadTailProperties
<1>3. DOMAIN Tail(q) = 1..Len(Tail(q))
  BY <1>2, LenProperties
<1>4. Len(q) = 1 <=> Tail(q) = <<>>
  <2>1. Len(Tail(q)) = 0 <=> Tail(q) = <<>>
    BY <1>2, EmptySeq
  <2>2. Len(q) = 1 <=> Len(Tail(q)) = 0
    BY <1>1, <1>2
  <2> QED
    BY <2>1, <2>2
<1>5. Head(q) = q[1]
  BY <1>1
<1>6. ASSUME NEW s, NEW i \in DOMAIN q, q[i] = s, s # Head(q)
      PROVE  Lists(Tail(q), s)
  <2>1. i \in Nat /\ i > 1 /\ i <= Len(q)
    BY <1>1, <1>5, <1>6
  <2>2. i - 1 \in 1..Len(Tail(q)) /\ (i - 1) + 1 = i
    BY <1>1, <1>2, <2>1
  <2>3. Tail(q)[i - 1] = s
    BY <1>2, <1>6, <2>2
  <2> QED
    BY <1>3, <2>2, <2>3 DEF Lists
<1>7. ASSUME NEW s, NEW j \in DOMAIN Tail(q), Tail(q)[j] = s
      PROVE  Lists(q, s)
  <2>1. j + 1 \in 1..Len(q) /\ q[j + 1] = s
    BY <1>1, <1>2, <1>3, <1>7
  <2> QED
    BY <1>1, <2>1 DEF Lists
<1>8. Lists(q, Head(q))
  BY <1>1, <1>5 DEF Lists
<1>9. ASSUME NEW s
      PROVE  Lists(q, s) <=> s = Head(q) \/ Lists(Tail(q), s)
  <2>1. Lists(q, s) /\ s # Head(q) => Lists(Tail(q), s)
    BY <1>6 DEF Lists
  <2>2. Lists(Tail(q), s) => Lists(q, s)
    BY <1>7 DEF Lists
  <2> QED
    BY <1>8, <2>1, <2>2
<1> QED
  BY <1>2, <1>4, <1>9

(* close_all_persistent closes exactly the sessions that were registered.  *)
LEMMA OrdersList ==
    ASSUME NEW set \in SUBSET Sessions, NEW order \in Orders(set)
    PROVE  /\ order \in Seq(Sessions)
           /\ \A s : Lists(order, s) <=> s \in set
<1>1. IsFiniteSet(set) /\ Cardinality(set) \in Nat
  <2>1. IsFiniteSet(Sessions)
    BY MaxSessionsAssumption, FS_Interval DEF Sessions
  <2> QED
    BY <2>1, FS_Subset, FS_CardinalityType
<1> DEFINE n == Cardinality(set)
<1>2. order \in [1..n -> set]
  BY DEF Orders
<1>3. order \in Injection(1..n, set)
  BY <1>2 DEF Orders, Injection, IsInjective
<1>4. Cardinality(1..n) = n
  BY <1>1, FS_Interval
<1>5. order \in Surjection(1..n, set)
  BY <1>1, <1>3, <1>4, FS_Injection
<1>6. order \in Seq(Sessions)
  BY <1>1, <1>2, IsASeq
<1>7. \A s : Lists(order, s) <=> s \in set
  BY <1>2, <1>5 DEF Surjection, Lists
<1> QED
  BY <1>6, <1>7

(* None is no session.                                                     *)
LEMMA NoneIsNoSession == None \notin Sessions
BY NoneAssumption DEF Sessions

(* A new session is one that nobody could know.                            *)
LEMMA NewIsFresh ==
    ASSUME created \in Nat, NewSession
    PROVE  /\ created' \in Nat
           /\ created' \in Sessions
           /\ Fresh(created')
           /\ \A s \in Sessions : Fresh(s)' <=> Fresh(s) /\ s # created'
BY MaxSessionsAssumption DEF NewSession, Sessions, Fresh

-----------------------------------------------------------------------------
(* Typing.  Only close changes a thread's list, and it empties it last.    *)
LEMMA CallTypes ==
    ASSUME Types, NEW t \in Threads, Request(t)
    PROVE  Types'
<1> USE DEF Types, Opening, Draining
<1>1. ASSUME NEW p \in Paths, PersistentSqlite(t, p)
      PROVE  Types'
  <2>1. pc[t] = "idle" /\ pc' = [pc EXCEPT ![t] = "open"]
    BY <1>1 DEF PersistentSqlite, Call, Goto
  <2>2. UNCHANGED <<openLock, closed, loop, backend, usable, openFailed,
                    futures, scope, handed, future, snapshot, todo, out>>
    BY <1>1 DEF PersistentSqlite
  <2>3. CASE UNCHANGED <<registry, created>>
    <3>1. registry[p] \in Sessions /\ sess' = [sess EXCEPT ![t] = registry[p]]
      BY <1>1, <2>3, NewIsFresh DEF PersistentSqlite, NewSession
    <3> QED
      BY <2>1, <2>2, <2>3, <3>1, NoneIsNoSession
  <2>4. CASE /\ NewSession
             /\ registry' = [registry EXCEPT ![p] = created']
             /\ sess' = [sess EXCEPT ![t] = created']
    BY <2>1, <2>2, <2>4, NewIsFresh, NoneIsNoSession
  <2> QED
    BY <1>1, <2>3, <2>4 DEF PersistentSqlite
<1>2. CASE OpenSqlite(t)
  BY <1>2, NewIsFresh, NoneIsNoSession DEF OpenSqlite, Call, Goto
<1>3. ASSUME NEW s \in Sessions, Run(t, s)
      PROVE  Types'
  <2>1. pc[t] = "idle"
    BY <1>3 DEF Run, Call
  <2>2. CASE closed[s]
    BY <1>3, <2>1, <2>2 DEF Run
  <2>3. CASE ~closed[s]
    <3>1. /\ futures' = [futures EXCEPT ![s] = @ \cup {t}]
          /\ sess' = [sess EXCEPT ![t] = s]
          /\ out' = [out EXCEPT ![t] = None]
          /\ pc' = [pc EXCEPT ![t] = "waiting"]
      BY <1>3, <2>3 DEF Run, Goto
    <3>2. UNCHANGED <<registry, created, openLock, closed, loop, backend,
                      usable, openFailed, scope, handed, future, snapshot,
                      todo>>
      BY <1>3 DEF Run
    <3> QED
      BY <2>1, <3>1, <3>2, NoneIsNoSession
  <2> QED
    BY <2>2, <2>3
<1>4. ASSUME NEW q \in Seq(Sessions), Closes(t, q), pc[t] = "idle",
             registry' \in [Paths -> Sessions \cup {None}],
             UNCHANGED <<sessionVars, sess, scope, handed, future, snapshot,
                         out>>
      PROVE  Types'
  BY <1>4 DEF Closes, Goto, sessionVars
<1>5. ASSUME NEW p \in Paths, ClosePersistent(t, p)
      PROVE  Types'
  <2> DEFINE q == IF registry[p] = None THEN <<>> ELSE <<registry[p]>>
  <2>1. q \in Seq(Sessions)
    OBVIOUS
  <2> QED
    BY <1>4, <1>5, <2>1 DEF ClosePersistent, Call
<1>6. CASE CloseAllPersistent(t)
  <2> DEFINE set == {registry[p] : p \in Paths} \ {None}
  <2>1. set \in SUBSET Sessions
    OBVIOUS
  <2>2. PICK order \in Orders(set) : Closes(t, order)
    BY <1>6 DEF CloseAllPersistent
  <2>3. order \in Seq(Sessions)
    BY <2>1, OrdersList
  <2> QED
    BY <1>4, <1>6, <2>2, <2>3 DEF CloseAllPersistent, Call
<1> QED
  BY <1>1, <1>2, <1>3, <1>5, <1>6 DEF Request

(* A thread in close has a list to work on; no other thread has one.       *)
LEMMA StepTypes ==
    ASSUME Types, NEW t \in Threads, ThreadStep(t) \/ LoopStep(t)
    PROVE  Types'
<1> USE DEF Types, Opening, Draining
<1>1. CASE OpenUnlocked(t)
  BY <1>1 DEF OpenUnlocked, Goto, sessionVars
<1>2. CASE OpenLocked(t)
  <2>1. /\ pc[t] = "open_locked" /\ sess[t] \in Sessions
        /\ \E label \in {"idle", "open_failed", "opening"} :
                pc' = [pc EXCEPT ![t] = label]
        /\ handed' \subseteq handed \cup {sess[t]}
        /\ DOMAIN openLock' = Sessions /\ DOMAIN loop' = Sessions
    BY <1>2 DEF OpenLocked, Goto
  <2>2. UNCHANGED <<registry, created, closed, backend, usable, openFailed,
                    futures, sess, scope, future, snapshot, todo, out>>
    BY <1>2 DEF OpenLocked
  <2> QED
    BY <2>1, <2>2
<1>3. CASE BackendOpens(t)
  <2>1. /\ pc[t] = "opening" /\ sess[t] \in Sessions
        /\ \E label \in {"idle", "open_failed"} :
                pc' = [pc EXCEPT ![t] = label]
        /\ handed' \subseteq handed \cup {sess[t]}
        /\ DOMAIN openLock' = Sessions /\ DOMAIN backend' = Sessions
        /\ DOMAIN openFailed' = Sessions
    BY <1>3 DEF BackendOpens, Goto
  <2>2. usable' \in [Sessions -> BOOLEAN]
    BY <1>3 DEF BackendOpens
  <2>3. UNCHANGED <<registry, created, closed, loop, futures, sess, scope,
                    future, snapshot, todo, out>>
    BY <1>3 DEF BackendOpens
  <2> QED
    BY <2>1, <2>2, <2>3
<1>4. CASE GiveUpOpen(t)
  <2>1. <<sess[t]>> \in Seq(Sessions) /\ <<sess[t]>> # <<>>
    BY <1>4 DEF GiveUpOpen
  <2> QED
    BY <1>4, <2>1 DEF GiveUpOpen, Goto, sessionVars
<1>5. CASE LoopRuns(t)
  BY <1>5 DEF LoopRuns, sessionVars
<1>6. CASE RunReturns(t)
  BY <1>6 DEF RunReturns, Goto
<1>7. CASE LeaveScope(t)
  <2>1. PICK s \in Sessions : Closes(t, <<s>>)
                               /\ scope' = [scope EXCEPT ![t] = @ \ {s}]
    BY <1>7 DEF LeaveScope
  <2>2. <<s>> \in Seq(Sessions) /\ <<s>> # <<>>
    OBVIOUS
  <2> QED
    BY <1>7, <2>1, <2>2 DEF LeaveScope, Closes, Goto, sessionVars
<1>8. ASSUME todo[t] # <<>>
      PROVE  /\ Head(todo[t]) \in Sessions
             /\ Tail(todo[t]) \in Seq(Sessions)
             /\ Len(todo[t]) = 1 <=> Tail(todo[t]) = <<>>
  <2>1. todo[t] \in Seq(Sessions)
    OBVIOUS
  <2> QED
    BY <1>8, <2>1, Pop
<1>9. CASE CloseLocked(t)
  <2>1. todo[t] # <<>>
    BY <1>9 DEF CloseLocked
  <2>2. CASE NextClose(t) /\ UNCHANGED <<openLock, closed, snapshot>>
    BY <1>8, <1>9, <2>1, <2>2 DEF CloseLocked, NextClose, Goto
  <2>3. CASE /\ Goto(t, "drain") /\ UNCHANGED todo
             /\ openLock' = [openLock EXCEPT ![Head(todo[t])] = t]
             /\ closed' = [closed EXCEPT ![Head(todo[t])] = TRUE]
             /\ snapshot' = [snapshot EXCEPT ![t] = futures[Head(todo[t])]]
    BY <1>9, <2>1, <2>3 DEF CloseLocked, Goto
  <2> QED
    BY <1>9, <2>2, <2>3 DEF CloseLocked
<1>10. CASE Drained(t)
  BY <1>10 DEF Drained, Goto, sessionVars
<1>11. CASE BackendCloses(t)
  BY <1>11 DEF BackendCloses, Goto
<1>12. CASE Stop(t)
  BY <1>12 DEF Stop, Goto
<1>13. CASE Finish(t)
  <2>1. todo[t] # <<>>
    BY <1>13 DEF Finish
  <2> QED
    BY <1>8, <1>13, <2>1 DEF Finish, NextClose, Goto
<1> QED
  BY <1>1, <1>2, <1>3, <1>4, <1>5, <1>6, <1>7, <1>9, <1>10, <1>11, <1>12, <1>13
  DEF ThreadStep, LoopStep

-----------------------------------------------------------------------------
(* Draining.  A step that leaves the futures, their results and the        *)
(* sessions' state alone, and no thread newly in close's second half,      *)
(* disturbs nothing.                                                       *)
LEMMA DrainFrame ==
    ASSUME Types, DrainInv,
           UNCHANGED <<futures, closed, usable, handed, loop, backend, future,
                       out>>,
           \A u \in Threads :
             /\ pc'[u] = "waiting" <=> pc[u] = "waiting"
             /\ pc[u] = "waiting" => sess'[u] = sess[u]
             /\ pc'[u] \in Draining =>
                  /\ pc'[u] = pc[u]
                  /\ todo'[u] = todo[u]
                  /\ snapshot'[u] = snapshot[u]
    PROVE  DrainInv'
<1>1. FuturesAreWaiting'
  BY DEF DrainInv, FuturesAreWaiting
<1>2. \A u \in Threads : CloseDrained(u)'
  BY DEF DrainInv, CloseDrained, Draining
<1>3. OpenIsUp'
  BY DEF DrainInv, OpenIsUp
<1>4. DrainedBeforeTeardown'
  BY DEF DrainInv, DrainedBeforeTeardown
<1> QED
  BY <1>1, <1>2, <1>3, <1>4 DEF DrainInv

(* Requests: only Run touches the futures, and only of an open session.    *)
LEMMA CallDrains ==
    ASSUME Types, DrainInv, NEW t \in Threads, Request(t)
    PROVE  DrainInv'
<1>0. pc[t] = "idle" /\ DOMAIN pc = Threads /\ DOMAIN todo = Threads
        /\ DOMAIN sess = Threads
  BY DEF Types, Request, PersistentSqlite, ClosePersistent, OpenSqlite, Run,
         CloseAllPersistent, Call
<1>1. ASSUME NEW p \in Paths, PersistentSqlite(t, p)
      PROVE  DrainInv'
  <2>1. /\ UNCHANGED <<futures, closed, usable, handed, loop, backend, future,
                       out, todo, snapshot>>
        /\ pc' = [pc EXCEPT ![t] = "open"]
        /\ \A u \in Threads \ {t} : sess'[u] = sess[u]
    BY <1>0, <1>1 DEF PersistentSqlite, Goto
  <2> QED
    BY <1>0, <2>1, DrainFrame DEF Draining
<1>2. CASE OpenSqlite(t)
  <2>1. /\ UNCHANGED <<futures, closed, usable, handed, loop, backend, future,
                       out, todo, snapshot>>
        /\ pc' = [pc EXCEPT ![t] = "open"]
        /\ \A u \in Threads \ {t} : sess'[u] = sess[u]
    BY <1>0, <1>2 DEF OpenSqlite, Goto
  <2> QED
    BY <1>0, <2>1, DrainFrame DEF Draining
<1>3. ASSUME NEW q, Closes(t, q),
             UNCHANGED <<sessionVars, sess, handed, future, snapshot, out>>
      PROVE  DrainInv'
  <2>1. /\ UNCHANGED <<futures, closed, usable, handed, loop, backend, future,
                       out, sess, snapshot>>
        /\ pc' = [pc EXCEPT ![t] = IF q = <<>> THEN "idle" ELSE "close"]
        /\ \A u \in Threads \ {t} : todo'[u] = todo[u]
    BY <1>0, <1>3 DEF Closes, Goto, sessionVars
  <2> QED
    BY <1>0, <2>1, DrainFrame DEF Draining
<1>4. ASSUME NEW p \in Paths, ClosePersistent(t, p)
      PROVE  DrainInv'
  BY <1>3, <1>4 DEF ClosePersistent
<1>5. CASE CloseAllPersistent(t)
  BY <1>3, <1>5 DEF CloseAllPersistent
<1>6. ASSUME NEW s \in Sessions, Run(t, s), closed[s]
      PROVE  DrainInv'
  <2>1. /\ UNCHANGED <<futures, closed, usable, handed, loop, backend, future,
                       sess, snapshot, todo, pc>>
        /\ out' = [out EXCEPT ![t] = "session_closed"]
    BY <1>6 DEF Run
  <2>2. FuturesAreWaiting'
    BY <2>1 DEF DrainInv, FuturesAreWaiting
  <2>3. \A u \in Threads : CloseDrained(u)'
    BY <2>1 DEF DrainInv, CloseDrained, Draining
  <2>4. OpenIsUp'
    BY <2>1 DEF DrainInv, OpenIsUp
  <2>5. DrainedBeforeTeardown'
    BY <2>1 DEF DrainInv, DrainedBeforeTeardown, Types
  <2> QED
    BY <2>2, <2>3, <2>4, <2>5 DEF DrainInv
<1>7. ASSUME NEW s \in Sessions, Run(t, s), ~closed[s]
      PROVE  DrainInv'
  <2>1. /\ UNCHANGED <<closed, usable, handed, loop, backend, future,
                       snapshot, todo>>
        /\ futures' = [futures EXCEPT ![s] = @ \cup {t}]
        /\ sess' = [sess EXCEPT ![t] = s]
        /\ out' = [out EXCEPT ![t] = None]
        /\ pc' = [pc EXCEPT ![t] = "waiting"]
        /\ s \in handed
    BY <1>7 DEF Run, Goto
  <2>2. FuturesAreWaiting'
    BY <1>0, <2>1 DEF DrainInv, FuturesAreWaiting, Types
  <2>3. ASSUME NEW u \in Threads
        PROVE  CloseDrained(u)'
    <3>1. pc'[u] \in Draining => pc[u] = pc'[u] /\ closed[Head(todo[u])]
      BY <1>0, <2>1 DEF Draining, DrainInv, CloseDrained
    <3> QED
      BY <1>7, <2>1, <3>1 DEF DrainInv, CloseDrained, Types
  <2>4. OpenIsUp'
    BY <2>1 DEF DrainInv, OpenIsUp
  <2>5. DrainedBeforeTeardown'
    <3>1. loop[s] = "alive" /\ backend[s] = "open"
      BY <1>7, <2>1 DEF DrainInv, OpenIsUp
    <3>2. None # "backend_closed"
      BY NoneAssumption DEF Outcomes
    <3> QED
      BY <1>0, <2>1, <3>1, <3>2 DEF DrainInv, DrainedBeforeTeardown, Types
  <2> QED
    BY <2>2, <2>3, <2>4, <2>5 DEF DrainInv
<1> QED
  BY <1>1, <1>2, <1>4, <1>5, <1>6, <1>7 DEF Request

(* Opening a session, giving it up, or leaving a block drains nothing and  *)
(* tears nothing down.                                                     *)
LEMMA OpenDrains ==
    ASSUME Types, DrainInv, NEW t \in Threads,
           OpenUnlocked(t) \/ OpenLocked(t) \/ BackendOpens(t)
              \/ GiveUpOpen(t) \/ LeaveScope(t)
    PROVE  DrainInv'
<1>0. DOMAIN pc = Threads /\ DOMAIN todo = Threads
        /\ DOMAIN loop = Sessions /\ DOMAIN backend = Sessions
        /\ usable \in [Sessions -> BOOLEAN]
  BY DEF Types
<1>1. CASE OpenUnlocked(t)
  <2>1. /\ UNCHANGED <<futures, closed, usable, handed, loop, backend, future,
                       out, sess, todo, snapshot>>
        /\ pc[t] = "open" /\ pc'[t] \in {"open_failed", "open_locked"}
        /\ \A u \in Threads \ {t} : pc'[u] = pc[u]
    BY <1>0, <1>1 DEF OpenUnlocked, Goto, sessionVars
  <2> QED
    BY <2>1, DrainFrame DEF Draining
<1>2. CASE GiveUpOpen(t) \/ LeaveScope(t)
  <2>1. /\ UNCHANGED <<futures, closed, usable, handed, loop, backend, future,
                       out, sess, snapshot>>
        /\ pc[t] \in {"open_failed", "idle"} /\ pc'[t] \in {"close", "idle"}
        /\ \A u \in Threads \ {t} : pc'[u] = pc[u] /\ todo'[u] = todo[u]
    BY <1>0, <1>2 DEF GiveUpOpen, LeaveScope, Closes, Goto, sessionVars
  <2> QED
    BY <2>1, DrainFrame DEF Draining
<1>3. CASE OpenLocked(t) \/ BackendOpens(t)
  <2> DEFINE s == sess[t]
  <2>1. /\ UNCHANGED <<futures, closed, future, out, sess, todo, snapshot>>
        /\ pc[t] \in {"open_locked", "opening"}
        /\ pc'[t] \in {"idle", "open_failed", "opening"}
        /\ \A u \in Threads \ {t} : pc'[u] = pc[u]
    BY <1>0, <1>3 DEF OpenLocked, BackendOpens, Goto
  <2>2. s \in Sessions
    BY <2>1 DEF Types, Opening
  <2>3. /\ \A r \in Sessions \ {s} :
              /\ loop'[r] = loop[r] /\ backend'[r] = backend[r]
              /\ usable'[r] = usable[r] /\ (r \in handed' => r \in handed)
        /\ \/ /\ loop'[s] = loop[s] /\ backend'[s] = backend[s]
              /\ usable'[s] = usable[s]
              /\ s \in handed' => s \in handed \/ usable[s]
           \/ /\ ~closed[s] /\ loop'[s] = "alive" /\ backend' = backend
              /\ usable' = usable /\ handed' = handed
           \/ /\ loop[s] = "alive" /\ loop'[s] = "alive"
              /\ backend'[s] = "open"
    BY <1>0, <1>3, <2>2 DEF OpenLocked, BackendOpens
  <2>4. FuturesAreWaiting'
    BY <2>1 DEF DrainInv, FuturesAreWaiting
  <2>5. ASSUME NEW u \in Threads
        PROVE  CloseDrained(u)'
    <3> SUFFICES ASSUME pc'[u] \in Draining
                 PROVE  CloseDrained(u)'
      BY DEF CloseDrained
    <3>1. pc'[u] = pc[u] /\ CloseDrained(u) /\ Head(todo[u]) \in Sessions
      <4>1. u # t /\ pc'[u] = pc[u]
        BY <2>1 DEF Draining
      <4>2. todo[u] # <<>> /\ todo[u] \in Seq(Sessions)
        BY <4>1 DEF Types
      <4> QED
        BY <4>1, <4>2, Pop DEF DrainInv
    <3> QED
      BY <2>1, <2>3, <3>1 DEF CloseDrained, Draining
  <2>6. OpenIsUp'
    BY <2>1, <2>2, <2>3 DEF DrainInv, OpenIsUp
  <2>7. ASSUME NEW u \in Threads
        PROVE  /\ out'[u] # "backend_closed" /\ future'[u] # "backend_closed"
               /\ pc'[u] = "waiting" /\ future'[u] = None =>
                    loop'[sess'[u]] = "alive" /\ backend'[sess'[u]] = "open"
    <3>1. pc'[u] = "waiting" => pc[u] = "waiting" /\ sess[u] \in Sessions
      BY <2>1 DEF Types
    <3> QED
      BY <2>1, <2>2, <2>3, <3>1 DEF DrainInv, DrainedBeforeTeardown
  <2> QED
    BY <2>4, <2>5, <2>6, <2>7 DEF DrainInv, DrainedBeforeTeardown
<1> QED
  BY <1>1, <1>2, <1>3

(* An operation runs and returns.                                          *)
LEMMA OperationDrains ==
    ASSUME Types, DrainInv, NEW t \in Threads, LoopRuns(t) \/ RunReturns(t)
    PROVE  DrainInv'
<1>0. /\ DOMAIN pc = Threads /\ DOMAIN future = Threads
      /\ DOMAIN out = Threads
      /\ pc[t] = "waiting" /\ sess[t] \in Sessions
  BY DEF Types, LoopRuns, RunReturns
<1>1. CASE LoopRuns(t)
  <2>1. /\ UNCHANGED <<futures, closed, usable, handed, loop, backend, out,
                       sess, todo, snapshot, pc>>
        /\ future[t] = None
        /\ \A u \in Threads \ {t} : future'[u] = future[u]
        /\ backend[sess[t]] = "open" => future'[t] \in {"returned", "raised"}
    BY <1>0, <1>1 DEF LoopRuns, sessionVars
  <2>2. future'[t] \in {"returned", "raised"}
    BY <1>0, <2>1 DEF DrainInv, DrainedBeforeTeardown
  <2>3. future'[t] # None /\ future'[t] # "backend_closed"
    BY <2>2, NoneAssumption DEF Outcomes
  <2>4. FuturesAreWaiting' /\ OpenIsUp'
    BY <2>1 DEF DrainInv, FuturesAreWaiting, OpenIsUp
  <2>5. \A u \in Threads : CloseDrained(u)'
    <3> SUFFICES ASSUME NEW u \in Threads, pc'[u] \in Draining
                 PROVE  CloseDrained(u)'
      BY DEF CloseDrained
    <3>1. todo[u] # <<>> /\ todo[u] \in Seq(Sessions)
      BY <2>1 DEF Types
    <3>2. Head(todo[u]) \in Sessions
      BY <3>1, Pop
    <3>3. futures[Head(todo[u])] \subseteq Threads
      BY <3>2 DEF Types
    <3> QED
      BY <2>1, <2>3, <3>3 DEF DrainInv, CloseDrained
  <2>6. DrainedBeforeTeardown'
    BY <2>1, <2>3 DEF DrainInv, DrainedBeforeTeardown
  <2> QED
    BY <2>4, <2>5, <2>6 DEF DrainInv
<1>2. CASE RunReturns(t)
  <2> DEFINE s == sess[t]
  <2>1. /\ UNCHANGED <<closed, usable, handed, loop, backend, sess, todo,
                       snapshot>>
        /\ futures' = [futures EXCEPT ![s] = @ \ {t}]
        /\ pc' = [pc EXCEPT ![t] = "idle"]
        /\ future' = [future EXCEPT ![t] = None]
        /\ \A u \in Threads \ {t} : out'[u] = out[u]
        /\ out'[t] \in {"session_closed", future[t]}
    BY <1>0, <1>2 DEF RunReturns, Goto
  <2>2. FuturesAreWaiting'
    BY <1>0, <2>1 DEF DrainInv, FuturesAreWaiting, Types
  <2>3. \A u \in Threads : CloseDrained(u)'
    <3> SUFFICES ASSUME NEW u \in Threads, pc'[u] \in Draining
                 PROVE  CloseDrained(u)'
      BY DEF CloseDrained
    <3> DEFINE r == Head(todo[u])
    <3>1. u # t /\ pc'[u] = pc[u]
      BY <1>0, <2>1 DEF Draining
    <3>2. todo[u] # <<>> /\ todo[u] \in Seq(Sessions)
      BY <3>1 DEF Types
    <3>3. r \in Sessions
      BY <3>2, Pop
    <3>4. /\ futures'[r] \subseteq futures[r] /\ futures'[r] \subseteq Threads
          /\ t \notin futures'[r]
      BY <1>0, <2>1, <3>3 DEF DrainInv, FuturesAreWaiting, Types
    <3>5. \A v \in futures'[r] : future'[v] = future[v]
      BY <1>0, <2>1, <3>4
    <3> QED
      BY <2>1, <3>1, <3>4, <3>5 DEF DrainInv, CloseDrained
  <2>4. OpenIsUp'
    BY <2>1 DEF DrainInv, OpenIsUp
  <2>5. DrainedBeforeTeardown'
    <3>1. None # "backend_closed"
      BY NoneAssumption DEF Outcomes
    <3> QED
      BY <1>0, <2>1, <3>1 DEF DrainInv, DrainedBeforeTeardown
  <2> QED
    BY <2>2, <2>3, <2>4, <2>5 DEF DrainInv
<1> QED
  BY <1>1, <1>2

(* close: the snapshot is complete because closed was set with it, and     *)
(* nothing of the session is touched before all of it is done.             *)
LEMMA CloseDrains ==
    ASSUME Types, DrainInv, NEW t \in Threads,
           CloseLocked(t) \/ Drained(t) \/ BackendCloses(t) \/ Stop(t)
              \/ Finish(t)
    PROVE  DrainInv'
<1> DEFINE s == Head(todo[t])
<1>0. /\ DOMAIN pc = Threads /\ DOMAIN todo = Threads
      /\ DOMAIN snapshot = Threads
      /\ DOMAIN loop = Sessions /\ DOMAIN backend = Sessions
      /\ closed \in [Sessions -> BOOLEAN] /\ usable \in [Sessions -> BOOLEAN]
      /\ futures \in [Sessions -> SUBSET Threads]
  BY DEF Types
<1>1. pc[t] \in Draining \cup {"close"}
  BY DEF CloseLocked, Drained, BackendCloses, Stop, Finish, Draining
<1>2. s \in Sessions
  <2>1. todo[t] # <<>> /\ todo[t] \in Seq(Sessions)
    BY <1>1 DEF Types
  <2> QED
    BY <2>1, Pop
<1>3. \A u \in Threads : pc[u] \in Draining => Head(todo[u]) \in Sessions
  <2> SUFFICES ASSUME NEW u \in Threads, pc[u] \in Draining
               PROVE  Head(todo[u]) \in Sessions
    OBVIOUS
  <2>1. todo[u] # <<>> /\ todo[u] \in Seq(Sessions)
    BY DEF Types
  <2> QED
    BY <2>1, Pop
<1>4. \A u \in Threads : pc[u] = "waiting" => sess[u] \in Sessions
  BY DEF Types
<1>5. CASE CloseLocked(t)
  <2>1. CASE NextClose(t) /\ UNCHANGED <<openLock, closed, snapshot>>
    <3>1. /\ UNCHANGED <<futures, closed, usable, handed, loop, backend,
                         future, out, sess, snapshot>>
          /\ pc[t] = "close" /\ pc'[t] \in {"idle", "close"}
          /\ \A u \in Threads \ {t} : pc'[u] = pc[u] /\ todo'[u] = todo[u]
      BY <1>0, <1>5, <2>1 DEF CloseLocked, NextClose, Goto
    <3> QED
      BY <3>1, DrainFrame DEF Draining
  <2>2. CASE /\ Goto(t, "drain") /\ UNCHANGED todo
             /\ closed' = [closed EXCEPT ![s] = TRUE]
             /\ snapshot' = [snapshot EXCEPT ![t] = futures[s]]
    <3>1. /\ UNCHANGED <<futures, usable, handed, loop, backend, future, out,
                         sess, todo>>
          /\ pc[t] = "close" /\ pc' = [pc EXCEPT ![t] = "drain"]
      BY <1>5, <2>2 DEF CloseLocked, Goto
    <3>2. FuturesAreWaiting'
      BY <1>0, <3>1 DEF DrainInv, FuturesAreWaiting
    <3>3. ASSUME NEW u \in Threads
          PROVE  CloseDrained(u)'
      <4>1. CASE u = t
        BY <1>0, <1>2, <2>2, <3>1, <4>1 DEF CloseDrained
      <4>2. CASE u # t
        <5>1. pc'[u] = pc[u] /\ snapshot'[u] = snapshot[u]
          BY <1>0, <2>2, <3>1, <4>2
        <5>2. \A r \in Sessions : closed[r] => closed'[r]
          BY <1>0, <2>2
        <5> QED
          BY <1>3, <3>1, <5>1, <5>2 DEF DrainInv, CloseDrained
      <4> QED
        BY <4>1, <4>2
    <3>4. OpenIsUp'
      BY <1>0, <2>2, <3>1 DEF DrainInv, OpenIsUp
    <3>5. DrainedBeforeTeardown'
      BY <1>0, <3>1 DEF DrainInv, DrainedBeforeTeardown
    <3> QED
      BY <3>2, <3>3, <3>4, <3>5 DEF DrainInv
  <2> QED
    BY <1>5, <2>1, <2>2 DEF CloseLocked
<1>6. CASE Drained(t)
  <2>1. /\ UNCHANGED <<futures, closed, usable, handed, loop, backend, future,
                       out, sess, todo, snapshot>>
        /\ pc[t] = "drain" /\ pc'[t] \in {"stop", "aclose"}
        /\ \A u \in Threads \ {t} : pc'[u] = pc[u]
        /\ \A u \in snapshot[t] : u \in futures[s] => future[u] # None
    BY <1>0, <1>6 DEF Drained, Goto, Done, sessionVars
  <2>2. FuturesAreWaiting' /\ OpenIsUp' /\ DrainedBeforeTeardown'
    BY <2>1 DEF DrainInv, FuturesAreWaiting, OpenIsUp, DrainedBeforeTeardown
  <2>3. ASSUME NEW u \in Threads
        PROVE  CloseDrained(u)'
    <3>1. CASE u = t
      BY <2>1, <3>1 DEF DrainInv, CloseDrained, Draining
    <3>2. CASE u # t
      BY <2>1, <3>2 DEF DrainInv, CloseDrained
    <3> QED
      BY <3>1, <3>2
  <2> QED
    BY <2>2, <2>3 DEF DrainInv
<1>7. CASE BackendCloses(t) \/ Stop(t) \/ Finish(t)
  <2>1. /\ UNCHANGED <<futures, closed, handed, future, out, sess>>
        /\ pc[t] \in {"aclose", "stop", "join"}
        /\ pc'[t] \in {"stop", "join", "close", "idle"}
        /\ pc'[t] \in Draining => todo'[t] = todo[t] /\ snapshot'[t] = snapshot[t]
        /\ \A u \in Threads \ {t} :
              /\ pc'[u] = pc[u] /\ todo'[u] = todo[u]
              /\ snapshot'[u] = snapshot[u]
    BY <1>0, <1>7
    DEF BackendCloses, Stop, Finish, NextClose, Goto, Draining
  <2>2. /\ \A r \in Sessions \ {s} :
              /\ loop'[r] = loop[r] /\ backend'[r] = backend[r]
              /\ usable'[r] = usable[r]
        /\ loop'[s] = "alive" => loop[s] = "alive"
        /\ pc'[t] = "join" => loop'[s] # "alive"
    BY <1>0, <1>2, <1>7
    DEF BackendCloses, Stop, Finish, NextClose, Goto
  <2>3. /\ closed[s]
        /\ \A u \in futures[s] : future[u] # None
        /\ futures[s] \subseteq snapshot[t]
    BY <2>1 DEF DrainInv, CloseDrained, Draining
  <2>4. FuturesAreWaiting'
    BY <2>1 DEF DrainInv, FuturesAreWaiting
  <2>5. ASSUME NEW u \in Threads
        PROVE  CloseDrained(u)'
    <3> SUFFICES ASSUME pc'[u] \in Draining
                 PROVE  CloseDrained(u)'
      BY DEF CloseDrained
    <3>1. CASE u = t
      BY <2>1, <2>2, <2>3, <3>1 DEF CloseDrained
    <3>2. CASE u # t
      <4>1. pc[u] \in Draining /\ Head(todo[u]) \in Sessions
        BY <1>3, <2>1, <3>2
      <4> QED
        BY <2>1, <2>2, <3>2, <4>1 DEF DrainInv, CloseDrained
    <3> QED
      BY <3>1, <3>2
  <2>6. OpenIsUp'
    BY <2>1, <2>2, <2>3 DEF DrainInv, OpenIsUp
  <2>7. ASSUME NEW u \in Threads
        PROVE  /\ out'[u] # "backend_closed" /\ future'[u] # "backend_closed"
               /\ pc'[u] = "waiting" /\ future'[u] = None =>
                    loop'[sess'[u]] = "alive" /\ backend'[sess'[u]] = "open"
    <3>1. pc'[u] = "waiting" => pc[u] = "waiting"
      BY <2>1
    <3>2. pc[u] = "waiting" /\ future[u] = None => sess[u] # s
      BY <1>2, <2>3 DEF DrainInv, FuturesAreWaiting
    <3> QED
      BY <1>4, <2>1, <2>2, <3>1, <3>2 DEF DrainInv, DrainedBeforeTeardown
  <2> QED
    BY <2>4, <2>5, <2>6, <2>7 DEF DrainInv, DrainedBeforeTeardown
<1> QED
  BY <1>5, <1>6, <1>7

(* The loop thread ends.                                                   *)
LEMMA LoopStopDrains ==
    ASSUME Types, DrainInv, NEW s \in Sessions, LoopStops(s)
    PROVE  Types' /\ DrainInv'
<1>1. /\ loop[s] = "stopping" /\ loop' = [loop EXCEPT ![s] = "dead"]
      /\ UNCHANGED <<registry, created, openLock, closed, backend, usable,
                     openFailed, futures, pc, sess, scope, handed, future,
                     snapshot, todo, out>>
  BY DEF LoopStops, threadVars
<1>2. Types'
  BY <1>1 DEF Types
<1>3. FuturesAreWaiting'
  BY <1>1 DEF DrainInv, FuturesAreWaiting
<1>4. \A u \in Threads : CloseDrained(u)'
  <2> SUFFICES ASSUME NEW u \in Threads, pc[u] \in Draining
               PROVE  CloseDrained(u)'
    BY <1>1 DEF CloseDrained
  <2>1. \A r \in Sessions : loop'[r] = "alive" => loop[r] = "alive"
    BY <1>1 DEF Types
  <2>2. todo[u] # <<>> /\ todo[u] \in Seq(Sessions)
    BY DEF Types
  <2>3. Head(todo[u]) \in Sessions
    BY <2>2, Pop
  <2> QED
    BY <1>1, <2>1, <2>3 DEF DrainInv, CloseDrained
<1>5. OpenIsUp'
  BY <1>1 DEF DrainInv, OpenIsUp, Types
<1>6. DrainedBeforeTeardown'
  <2>1. \A u \in Threads : pc[u] = "waiting" => sess[u] \in Sessions
    BY DEF Types
  <2> QED
    BY <1>1, <2>1 DEF DrainInv, DrainedBeforeTeardown, Types
<1> QED
  BY <1>2, <1>3, <1>4, <1>5, <1>6 DEF DrainInv

-----------------------------------------------------------------------------
(* Ownership.  A step that leaves the registry, the blocks and the lists   *)
(* alone, starts no loop, and takes no thread out of an opening, leaves    *)
(* the owners alone.                                                       *)
LEMMA OwnerFrame ==
    ASSUME Types, OwnerInv,
           UNCHANGED <<registry, created, scope, todo, closed, usable,
                       handed>>,
           \A s \in Sessions : loop'[s] = "alive" => loop[s] = "alive",
           \A u \in Threads, s \in Sessions :
                sess'[u] = s => sess[u] = s \/ ~Fresh(s),
           \A u \in Threads : pc[u] \in {"opening", "open_failed"} =>
                pc'[u] \in {"opening", "open_failed"} /\ sess'[u] = sess[u]
    PROVE  OwnerInv'
<1>1. /\ \A s \in Sessions : Fresh(s)' <=> Fresh(s)
      /\ \A s \in Sessions : Registered(s)' <=> Registered(s)
      /\ \A u \in Threads, s \in Sessions : InTodo(u, s)' <=> InTodo(u, s)
      /\ \A s \in Sessions : Owned(s)' <=> Owned(s)
  BY DEF Fresh, Registered, InTodo, Owned
<1>2. OneOwner' /\ RegisteredIsOpen'
  BY <1>1 DEF OwnerInv, OneOwner, RegisteredIsOpen
<1>3. FreshIsUnknown'
  BY <1>1 DEF OwnerInv, FreshIsUnknown
<1>4. UnownedIsDown'
  BY <1>1 DEF OwnerInv, UnownedIsDown
<1>5. HalfOpenIsHeld'
  BY <1>1 DEF OwnerInv, HalfOpenIsHeld
<1> QED
  BY <1>2, <1>3, <1>4, <1>5 DEF OwnerInv

(* persistent_sqlite and open_sqlite: a new session gets one owner.        *)
LEMMA OpenOwners ==
    ASSUME Types, OwnerInv, NEW t \in Threads,
           OpenSqlite(t) \/ \E p \in Paths : PersistentSqlite(t, p)
    PROVE  OwnerInv'
<1>0. /\ DOMAIN pc = Threads /\ DOMAIN sess = Threads
      /\ scope \in [Threads -> SUBSET Sessions]
      /\ registry \in [Paths -> Sessions \cup {None}]
      /\ created \in Nat
      /\ pc[t] = "idle"
      /\ None \notin Sessions
  BY NoneIsNoSession DEF Types, OpenSqlite, PersistentSqlite, Call
<1>1. /\ UNCHANGED <<todo, closed, usable, loop, handed>>
      /\ pc' = [pc EXCEPT ![t] = "open"]
      /\ \A u \in Threads \ {t} : sess'[u] = sess[u]
  BY <1>0 DEF OpenSqlite, PersistentSqlite, Goto
<1>2. \A u \in Threads, s \in Sessions : InTodo(u, s)' <=> InTodo(u, s)
  BY <1>1 DEF InTodo
<1>3. \A u \in Threads : pc[u] \in {"opening", "open_failed"} =>
            pc'[u] \in {"opening", "open_failed"} /\ sess'[u] = sess[u]
  BY <1>0, <1>1
<1>4. ASSUME NEW p \in Paths, PersistentSqlite(t, p), registry[p] # None
      PROVE  OwnerInv'
  <2>1. /\ UNCHANGED <<registry, created, scope>>
        /\ sess'[t] = registry[p] /\ Registered(registry[p])
        /\ registry[p] \in Sessions
    BY <1>0, <1>4 DEF PersistentSqlite, Registered
  <2>2. ~Fresh(registry[p])
    BY <2>1 DEF OwnerInv, FreshIsUnknown, Owned
  <2> QED
    BY <1>1, <1>3, <2>1, <2>2, OwnerFrame
<1>5. ASSUME NewSession, sess'[t] = created',
             \/ /\ scope' = [scope EXCEPT ![t] = @ \cup {created'}]
                /\ registry' = registry
             \/ \E p \in Paths : /\ registry[p] = None
                                 /\ registry' = [registry EXCEPT ![p] = created']
                                 /\ scope' = scope
      PROVE  OwnerInv'
  <2>0. PICK n \in Sessions : n = created'
    BY <1>0, <1>5, NewIsFresh
  <2>1. /\ n \in Sessions /\ Fresh(n)
        /\ \A s \in Sessions : Fresh(s)' <=> Fresh(s) /\ s # n
    BY <1>0, <1>5, <2>0, NewIsFresh
  <2>2. /\ ~Registered(n)
        /\ \A u \in Threads : ~InTodo(u, n) /\ n \notin scope[u] /\ sess[u] # n
    BY <2>1 DEF OwnerInv, FreshIsUnknown, Owned
  <2>3. /\ \A s \in Sessions \ {n} : Registered(s)' <=> Registered(s)
        /\ \A s \in Sessions \ {n}, u \in Threads :
              s \in scope'[u] <=> s \in scope[u]
    BY <1>0, <1>5, <2>0 DEF Registered
  <2>4. \A s \in Sessions \ {n} : Owned(s)' <=> Owned(s)
    BY <1>2, <2>3 DEF Owned
  <2>5. Owned(n)'
    BY <1>0, <1>5, <2>0 DEF Owned, Registered
  <2>6. OneOwner'
    <3>1. \A p, q \in Paths : registry'[p] = registry'[q] /\ registry'[p] # None
                => p = q
      BY <1>0, <1>5, <2>0, <2>2 DEF OwnerInv, OneOwner, Registered
    <3>2. ASSUME NEW u \in Threads, NEW s \in Sessions,
                 InTodo(u, s)' \/ s \in scope'[u]
          PROVE  ~Registered(s)'
      <4>1. CASE s # n
        BY <1>2, <2>3, <3>2, <4>1 DEF OwnerInv, OneOwner
      <4>2. CASE s = n
        <5>1. ~InTodo(u, n)' /\ n \notin scope[u]
          BY <1>2, <2>1, <2>2
        <5>2. registry' = registry
          BY <1>5, <3>2, <4>2, <5>1, <2>0
        <5> QED
          BY <2>2, <4>2, <5>2 DEF Registered
      <4> QED
        BY <4>1, <4>2
    <3> QED
      BY <3>1, <3>2 DEF OneOwner
  <2>7. UnownedIsDown'
    BY <1>1, <2>1, <2>4, <2>5 DEF OwnerInv, UnownedIsDown
  <2>8. RegisteredIsOpen'
    <3>1. ~closed[n]
      BY <2>1 DEF OwnerInv, FreshIsUnknown
    <3> QED
      BY <1>1, <2>3, <3>1 DEF OwnerInv, RegisteredIsOpen
  <2>9. FreshIsUnknown'
    BY <1>1, <1>5, <2>0, <2>1, <2>4 DEF OwnerInv, FreshIsUnknown
  <2>10. HalfOpenIsHeld'
    BY <1>1, <1>2, <1>3 DEF OwnerInv, HalfOpenIsHeld
  <2> QED
    BY <2>6, <2>7, <2>8, <2>9, <2>10 DEF OwnerInv
<1>6. ASSUME NEW p \in Paths, PersistentSqlite(t, p), registry[p] = None
      PROVE  OwnerInv'
  BY <1>0, <1>5, <1>6 DEF PersistentSqlite
<1>7. CASE OpenSqlite(t)
  BY <1>0, <1>5, <1>7 DEF OpenSqlite
<1> QED
  BY <1>4, <1>6, <1>7

(* Sessions move from the registry or a block to the list of the thread    *)
(* that will close them.                                                   *)
LEMMA Handover ==
    ASSUME Types, OwnerInv, NEW t \in Threads, NEW S \in SUBSET Sessions,
           pc[t] \in {"idle", "open_failed"},
           pc[t] = "open_failed" => sess[t] \in S,
           UNCHANGED <<created, closed, usable, loop, sess, handed>>,
           \A u \in Threads \ {t} : pc'[u] = pc[u] /\ todo'[u] = todo[u],
           \A s \in Sessions : InTodo(t, s)' <=> s \in S,
           \A p \in Paths : registry'[p] \in {registry[p], None},
           \A u \in Threads : scope'[u] \subseteq scope[u],
           \A s \in Sessions \ S : Registered(s) => Registered(s)',
           \A u \in Threads, s \in Sessions \ S :
                s \in scope[u] => s \in scope'[u],
           \A s \in S : ~Registered(s)' /\ ~Fresh(s)
    PROVE  OwnerInv'
<1>0. None \notin Sessions /\ todo[t] = <<>>
  BY NoneIsNoSession DEF Types, Draining
<1>1. /\ \A s \in Sessions : Fresh(s)' <=> Fresh(s)
      /\ \A u \in Threads \ {t}, s \in Sessions : InTodo(u, s)' <=> InTodo(u, s)
      /\ \A s \in Sessions : ~InTodo(t, s)
      /\ \A s \in Sessions : Registered(s)' => Registered(s)
      /\ \A u \in Threads, s \in Sessions : s \in scope'[u] => s \in scope[u]
  BY <1>0 DEF Fresh, InTodo, Lists, Registered
<1>2. \A s \in Sessions \ S : Owned(s)' <=> Owned(s)
  BY <1>1 DEF Owned
<1>3. \A s \in S : Owned(s)'
  BY DEF Owned
<1>4. OneOwner'
  BY <1>1 DEF OwnerInv, OneOwner
<1>5. RegisteredIsOpen'
  BY <1>1 DEF OwnerInv, RegisteredIsOpen
<1>6. FreshIsUnknown'
  BY <1>1, <1>2 DEF OwnerInv, FreshIsUnknown
<1>7. UnownedIsDown'
  BY <1>1, <1>2, <1>3 DEF OwnerInv, UnownedIsDown
<1>8. HalfOpenIsHeld'
  <2> SUFFICES ASSUME NEW s \in Sessions, loop[s] = "alive", ~usable[s]
               PROVE  \E u \in Threads :
                          \/ sess'[u] = s /\ pc'[u] \in {"opening", "open_failed"}
                          \/ InTodo(u, s)'
    BY DEF HalfOpenIsHeld
  <2>1. PICK u \in Threads :
            \/ sess[u] = s /\ pc[u] \in {"opening", "open_failed"}
            \/ InTodo(u, s)
    BY DEF OwnerInv, HalfOpenIsHeld
  <2>2. CASE u = t
    BY <1>1, <2>1, <2>2
  <2>3. CASE u # t
    BY <1>1, <2>1, <2>3
  <2> QED
    BY <2>2, <2>3
<1> QED
  BY <1>4, <1>5, <1>6, <1>7, <1>8 DEF OwnerInv

(* Every way to start closing is such a move.                              *)
LEMMA StartCloseOwners ==
    ASSUME Types, OwnerInv, NEW t \in Threads,
           \/ \E p \in Paths : ClosePersistent(t, p)
           \/ CloseAllPersistent(t) \/ LeaveScope(t) \/ GiveUpOpen(t)
    PROVE  OwnerInv'
<1>0. /\ DOMAIN pc = Threads /\ DOMAIN todo = Threads
      /\ registry \in [Paths -> Sessions \cup {None}]
      /\ scope \in [Threads -> SUBSET Sessions]
      /\ None \notin Sessions
  BY NoneIsNoSession DEF Types
<1>1. /\ UNCHANGED <<created, closed, usable, loop, sess, handed>>
      /\ pc[t] \in {"idle", "open_failed"}
      /\ \A u \in Threads \ {t} : pc'[u] = pc[u] /\ todo'[u] = todo[u]
  BY <1>0 DEF ClosePersistent, CloseAllPersistent, LeaveScope, GiveUpOpen,
              Closes, Call, Goto, sessionVars
<1>2. \A s \in Sessions : Owned(s) => ~Fresh(s)
  BY DEF OwnerInv, FreshIsUnknown
<1>3. ASSUME NEW p \in Paths, ClosePersistent(t, p)
      PROVE  OwnerInv'
  <2> DEFINE S == {registry[p]} \ {None}
  <2>1. /\ pc[t] = "idle" /\ scope' = scope
        /\ registry' = [registry EXCEPT ![p] = None]
        /\ todo'[t] = IF registry[p] = None THEN <<>> ELSE <<registry[p]>>
    BY <1>0, <1>3 DEF ClosePersistent, Closes, Call
  <2>2. S \in SUBSET Sessions /\ \A s \in S : Registered(s)
    BY <1>0 DEF Registered
  <2>3. \A s \in Sessions : InTodo(t, s)' <=> s \in S
    BY <1>0, <2>1 DEF InTodo, Lists
  <2>4. \A s \in Sessions \ S : Registered(s) => Registered(s)'
    BY <1>0, <2>1 DEF Registered
  <2>5. \A s \in S : ~Registered(s)' /\ ~Fresh(s)
    BY <1>0, <1>2, <2>1, <2>2 DEF Registered, Owned, OwnerInv, OneOwner
  <2>6. \A q \in Paths : registry'[q] \in {registry[q], None}
    BY <1>0, <2>1
  <2> QED
    BY <1>1, <2>1, <2>2, <2>3, <2>4, <2>5, <2>6, Handover
<1>4. CASE CloseAllPersistent(t)
  <2> DEFINE S == {registry[p] : p \in Paths} \ {None}
  <2>1. S \in SUBSET Sessions /\ \A s \in S : Registered(s)
    BY <1>0 DEF Registered
  <2>2. PICK order \in Orders(S) : Closes(t, order)
    BY <1>4 DEF CloseAllPersistent
  <2>3. /\ pc[t] = "idle" /\ scope' = scope
        /\ registry' = [p \in Paths |-> None]
        /\ todo'[t] = order
    BY <1>0, <1>4, <2>2 DEF CloseAllPersistent, Closes, Call
  <2>4. \A s \in Sessions : InTodo(t, s)' <=> s \in S
    BY <2>1, <2>3, OrdersList DEF InTodo
  <2>5. \A s \in Sessions \ S : ~Registered(s)
    BY <1>0 DEF Registered
  <2>6. \A s \in S : ~Registered(s)' /\ ~Fresh(s)
    BY <1>0, <1>2, <2>1, <2>3 DEF Registered, Owned
  <2> QED
    BY <1>1, <2>1, <2>3, <2>4, <2>5, <2>6, Handover
<1>5. CASE LeaveScope(t)
  <2>0. PICK z \in Sessions :
            /\ z \in scope[t] /\ Closes(t, <<z>>)
            /\ scope' = [scope EXCEPT ![t] = @ \ {z}]
    BY <1>0, <1>5 DEF LeaveScope
  <2> DEFINE S == {z}
  <2>1. /\ pc[t] = "idle" /\ registry' = registry
        /\ scope' = [scope EXCEPT ![t] = @ \ {z}]
        /\ todo'[t] = <<z>>
    BY <1>0, <1>5, <2>0 DEF LeaveScope, Closes
  <2>2. \A s \in Sessions : InTodo(t, s)' <=> s \in S
    BY <2>1 DEF InTodo, Lists
  <2>3. ~Registered(z) /\ ~Fresh(z)
    BY <1>2, <2>0 DEF OwnerInv, OneOwner, Owned
  <2>4. \A s \in Sessions : Registered(s)' <=> Registered(s)
    BY <2>1 DEF Registered
  <2>5. \A u \in Threads : scope'[u] \subseteq scope[u]
    BY <1>0, <2>1
  <2>6. \A u \in Threads, s \in Sessions \ S :
            s \in scope[u] => s \in scope'[u]
    BY <1>0, <2>0, <2>1
  <2>7. \A p \in Paths : registry'[p] \in {registry[p], None}
    BY <2>1
  <2>8. \A s \in S : ~Registered(s)' /\ ~Fresh(s)
    BY <2>3, <2>4
  <2>9. S \in SUBSET Sessions
    OBVIOUS
  <2>10. pc[t] # "open_failed"
    BY <2>1
  <2>11. \A s \in Sessions \ S : Registered(s) => Registered(s)'
    BY <2>4
  <2> HIDE DEF S
  <2> QED
    BY <1>1, <2>2, <2>5, <2>6, <2>7, <2>8, <2>9, <2>10, <2>11, Handover
<1>6. CASE GiveUpOpen(t)
  <2>0. PICK z \in Sessions : z = sess[t]
    BY <1>0, <1>6 DEF GiveUpOpen, Types, Opening
  <2> DEFINE S == {z}
  <2>1. /\ pc[t] = "open_failed"
        /\ registry' = [p \in Paths |->
                          IF registry[p] = z THEN None ELSE registry[p]]
        /\ scope' = [scope EXCEPT ![t] = @ \ {z}]
        /\ todo'[t] = <<z>>
    BY <1>0, <1>6, <2>0 DEF GiveUpOpen, Types, Opening
  <2>2. \A s \in Sessions : InTodo(t, s)' <=> s \in S
    BY <2>1 DEF InTodo, Lists
  <2>3. ~Fresh(z)
    BY <2>0 DEF OwnerInv, FreshIsUnknown
  <2>4. \A s \in Sessions \ S : Registered(s) => Registered(s)'
    BY <1>0, <2>1 DEF Registered
  <2>5. ~Registered(z)'
    BY <1>0, <2>1 DEF Registered
  <2>6. \A u \in Threads, s \in Sessions \ S :
            s \in scope[u] => s \in scope'[u]
    BY <1>0, <2>1
  <2>7. /\ \A p \in Paths : registry'[p] \in {registry[p], None}
        /\ \A u \in Threads : scope'[u] \subseteq scope[u]
    BY <1>0, <2>1
  <2>8. \A s \in S : ~Registered(s)' /\ ~Fresh(s)
    BY <2>3, <2>5
  <2>9. S \in SUBSET Sessions /\ sess[t] \in S
    BY <2>0
  <2> HIDE DEF S
  <2> QED
    BY <1>1, <2>2, <2>4, <2>6, <2>7, <2>8, <2>9, Handover
<1> QED
  BY <1>3, <1>4, <1>5, <1>6

(* Opening starts a loop only for a session that is not closed, hence      *)
(* owned; a failed opening stays in the hands of its thread.               *)
LEMMA OpeningOwners ==
    ASSUME Types, OwnerInv, NEW t \in Threads, OpenLocked(t) \/ BackendOpens(t)
    PROVE  OwnerInv'
<1> DEFINE s == sess[t]
<1>0. /\ DOMAIN pc = Threads /\ DOMAIN loop = Sessions
      /\ usable \in [Sessions -> BOOLEAN]
      /\ pc[t] \in {"open_locked", "opening"} /\ s \in Sessions
      /\ UNCHANGED <<registry, created, closed, sess, scope, todo>>
      /\ handed' \subseteq handed \cup {s}
      /\ \A u \in Threads \ {t} : pc'[u] = pc[u]
  BY DEF Types, Opening, OpenLocked, BackendOpens, Goto
<1>1. /\ \A r \in Sessions : Fresh(r)' <=> Fresh(r)
      /\ \A r \in Sessions : Registered(r)' <=> Registered(r)
      /\ \A u \in Threads, r \in Sessions : InTodo(u, r)' <=> InTodo(u, r)
      /\ \A r \in Sessions : Owned(r)' <=> Owned(r)
  BY <1>0 DEF Fresh, Registered, InTodo, Owned
<1>2. /\ \A r \in Sessions \ {s} : loop'[r] = loop[r] /\ usable'[r] = usable[r]
      /\ \/ /\ pc[t] = "open_locked" /\ loop' = loop /\ usable' = usable
         \/ /\ ~closed[s] /\ pc'[t] = "opening" /\ usable' = usable
         \/ /\ pc'[t] = "open_failed" /\ loop' = loop /\ usable' = usable
         \/ /\ usable'[s] /\ loop' = loop
  BY <1>0 DEF OpenLocked, BackendOpens, Goto
<1>3. OneOwner' /\ RegisteredIsOpen' /\ FreshIsUnknown'
  BY <1>0, <1>1 DEF OwnerInv, OneOwner, RegisteredIsOpen, FreshIsUnknown
<1>4. UnownedIsDown'
  <2>1. ~closed[s] => Owned(s)
    BY <1>0 DEF OwnerInv, UnownedIsDown, FreshIsUnknown
  <2> QED
    BY <1>0, <1>1, <1>2, <2>1 DEF OwnerInv, UnownedIsDown
<1>5. HalfOpenIsHeld'
  <2> SUFFICES ASSUME NEW r \in Sessions, loop'[r] = "alive", ~usable'[r]
               PROVE  \E u \in Threads :
                          \/ sess'[u] = r /\ pc'[u] \in {"opening", "open_failed"}
                          \/ InTodo(u, r)'
    BY DEF HalfOpenIsHeld
  <2>1. CASE r = s /\ pc'[t] \in {"opening", "open_failed"}
    BY <1>0, <2>1
  <2>2. CASE ~(r = s /\ pc'[t] \in {"opening", "open_failed"})
    <3>1. loop[r] = "alive" /\ ~usable[r]
      BY <1>2, <2>2
    <3>2. PICK u \in Threads :
              \/ sess[u] = r /\ pc[u] \in {"opening", "open_failed"}
              \/ InTodo(u, r)
      BY <3>1 DEF OwnerInv, HalfOpenIsHeld
    <3>3. CASE u # t \/ InTodo(u, r)
      BY <1>0, <1>1, <3>2, <3>3
    <3>4. CASE u = t /\ ~InTodo(u, r)
      <4>1. r = s /\ pc[t] = "opening"
        BY <1>0, <3>2, <3>4
      <4> QED
        BY <1>2, <2>2, <3>1, <4>1
    <3> QED
      BY <3>3, <3>4
  <2> QED
    BY <2>1, <2>2
<1> QED
  BY <1>3, <1>4, <1>5 DEF OwnerInv

(* close lets go of a session only when its loop no longer runs.           *)
LEMMA CloseOwners ==
    ASSUME Types, DrainInv, OwnerInv, NEW t \in Threads,
           CloseLocked(t) \/ Finish(t)
    PROVE  OwnerInv'
<1>0. /\ DOMAIN pc = Threads /\ DOMAIN todo = Threads
      /\ closed \in [Sessions -> BOOLEAN] /\ usable \in [Sessions -> BOOLEAN]
      /\ pc[t] \in {"close", "join"}
      /\ UNCHANGED <<registry, created, sess, scope, loop, handed>>
      /\ \A u \in Threads \ {t} : pc'[u] = pc[u] /\ todo'[u] = todo[u]
  BY DEF Types, CloseLocked, Finish, NextClose, Goto
<1>1. todo[t] # <<>> /\ todo[t] \in Seq(Sessions)
  BY <1>0 DEF Types, Draining
<1>2. PICK s \in Sessions : s = Head(todo[t])
  BY <1>1, Pop
<1>3. InTodo(t, s)
  BY <1>1, <1>2, Pop DEF InTodo
<1>4. ~Registered(s) /\ Owned(s) /\ ~Fresh(s)
  BY <1>3 DEF OwnerInv, OneOwner, FreshIsUnknown, Owned
<1>5. /\ \A r \in Sessions \ {s} : closed'[r] = closed[r]
                                    /\ usable'[r] = usable[r]
      /\ closed[s] => closed'[s]
      /\ \/ todo' = todo /\ usable' = usable
         \/ /\ todo'[t] = Tail(todo[t])
            /\ closed[s] /\ loop[s] # "alive"
  <2>1. CASE CloseLocked(t)
    BY <1>0, <1>2, <2>1 DEF CloseLocked, NextClose
  <2>2. CASE Finish(t)
    <3>1. closed[s] /\ loop[s] # "alive"
      BY <1>2, <2>2 DEF Finish, DrainInv, CloseDrained, Draining
    <3> QED
      BY <1>0, <1>2, <2>2, <3>1 DEF Finish, NextClose
  <2> QED
    BY <2>1, <2>2
<1>6. /\ \A r \in Sessions : Fresh(r)' <=> Fresh(r)
      /\ \A r \in Sessions : Registered(r)' <=> Registered(r)
  BY <1>0 DEF Fresh, Registered
<1>7. /\ \A u \in Threads, r \in Sessions : InTodo(u, r)' => InTodo(u, r)
      /\ \A u \in Threads, r \in Sessions \ {s} :
            InTodo(u, r) => InTodo(u, r)'
      /\ loop[s] = "alive" =>
            \A u \in Threads : InTodo(u, s) => InTodo(u, s)'
  <2> SUFFICES ASSUME NEW u \in Threads, NEW r \in Sessions
               PROVE  /\ InTodo(u, r)' => InTodo(u, r)
                      /\ r # s \/ loop[s] = "alive" =>
                            (InTodo(u, r) => InTodo(u, r)')
    OBVIOUS
  <2>1. CASE u # t \/ todo' = todo
    BY <1>0, <2>1 DEF InTodo
  <2>2. CASE u = t /\ todo' # todo
    <3>1. todo'[t] = Tail(todo[t]) /\ loop[s] # "alive"
      BY <1>5, <2>2
    <3>2. Lists(todo[t], r) <=> r = s \/ Lists(Tail(todo[t]), r)
      BY <1>1, <1>2, Pop
    <3> QED
      BY <2>2, <3>1, <3>2 DEF InTodo
  <2> QED
    BY <2>1, <2>2
<1>8. /\ \A r \in Sessions \ {s} : Owned(r)' <=> Owned(r)
      /\ \A r \in Sessions : Owned(r)' => Owned(r)
  BY <1>0, <1>6, <1>7 DEF Owned
<1>9. OneOwner'
  BY <1>0, <1>6, <1>7 DEF OwnerInv, OneOwner
<1>10. RegisteredIsOpen'
  BY <1>4, <1>5, <1>6 DEF OwnerInv, RegisteredIsOpen
<1>11. FreshIsUnknown'
  BY <1>0, <1>4, <1>5, <1>6, <1>8 DEF OwnerInv, FreshIsUnknown
<1>12. UnownedIsDown'
  <2>1. Owned(s)' \/ (closed[s] /\ loop[s] # "alive")
    <3>1. CASE todo' = todo
      BY <1>0, <1>3, <3>1 DEF Owned, InTodo
    <3>2. CASE todo' # todo
      BY <1>5, <3>2
    <3> QED
      BY <3>1, <3>2
  <2>2. ASSUME NEW r \in Sessions
        PROVE  Owned(r)' \/ (loop'[r] # "alive" /\ (closed'[r] \/ Fresh(r)'))
    <3>1. CASE r = s
      BY <1>0, <1>5, <2>1, <3>1
    <3>2. CASE r # s
      BY <1>0, <1>5, <1>6, <1>8, <3>2 DEF OwnerInv, UnownedIsDown
    <3> QED
      BY <3>1, <3>2
  <2> QED
    BY <2>2 DEF UnownedIsDown
<1>13. HalfOpenIsHeld'
  <2> SUFFICES ASSUME NEW r \in Sessions, loop'[r] = "alive", ~usable'[r]
               PROVE  \E u \in Threads :
                          \/ sess'[u] = r /\ pc'[u] \in {"opening", "open_failed"}
                          \/ InTodo(u, r)'
    BY DEF HalfOpenIsHeld
  <2>1. loop[r] = "alive" /\ ~usable[r]
    BY <1>0, <1>5
  <2>2. PICK u \in Threads :
            \/ sess[u] = r /\ pc[u] \in {"opening", "open_failed"}
            \/ InTodo(u, r)
    BY <2>1 DEF OwnerInv, HalfOpenIsHeld
  <2>3. CASE InTodo(u, r)
    BY <1>7, <2>1, <2>3
  <2>4. CASE sess[u] = r /\ pc[u] \in {"opening", "open_failed"}
    BY <1>0, <2>4
  <2> QED
    BY <2>2, <2>3, <2>4
<1> QED
  BY <1>9, <1>10, <1>11, <1>12, <1>13 DEF OwnerInv

-----------------------------------------------------------------------------
(* Before the first call there is no session and no future.                *)
LEMMA InitInv == Init => Inv
<1> SUFFICES ASSUME Init
             PROVE  Inv
  OBVIOUS
<1>0. None \notin Sessions /\ None # "backend_closed"
  BY NoneIsNoSession, NoneAssumption DEF Outcomes
<1>1. Types
  BY DEF Init, Types, Opening, Draining
<1>2. DrainInv
  BY <1>0 DEF Init, DrainInv, FuturesAreWaiting, CloseDrained, OpenIsUp,
              DrainedBeforeTeardown, Draining
<1>3. /\ \A s \in Sessions : Fresh(s) /\ ~Registered(s) /\ ~Owned(s)
      /\ \A t \in Threads, s \in Sessions : ~InTodo(t, s)
  BY <1>0, MaxSessionsAssumption DEF Init, Sessions, Fresh, Registered, Owned,
                                     InTodo, Lists
<1>4. OneOwner /\ RegisteredIsOpen
  BY <1>0, <1>3 DEF Init, OneOwner, RegisteredIsOpen
<1>5. FreshIsUnknown /\ UnownedIsDown /\ HalfOpenIsHeld
  BY <1>0, <1>3 DEF Init, FreshIsUnknown, UnownedIsDown, HalfOpenIsHeld
<1> QED
  BY <1>1, <1>2, <1>4, <1>5 DEF Inv, OwnerInv

(* Every step preserves the invariant.                                     *)
LEMMA NextInv == Inv /\ [Next]_vars => Inv'
<1> SUFFICES ASSUME Inv, [Next]_vars
             PROVE  Inv'
  OBVIOUS
<1>0. Types /\ DrainInv /\ OwnerInv
  BY DEF Inv
<1>1. ASSUME NEW t \in Threads, Request(t)
      PROVE  Inv'
  <2>1. Types' /\ DrainInv'
    BY <1>0, <1>1, CallTypes, CallDrains
  <2>2. ASSUME NEW s \in Sessions, Run(t, s)
        PROVE  OwnerInv'
    <3>1. /\ UNCHANGED <<registry, created, scope, todo, closed, usable, loop,
                         handed>>
          /\ pc[t] = "idle" /\ s \in handed
          /\ \A u \in Threads \ {t} : sess'[u] = sess[u] /\ pc'[u] = pc[u]
          /\ sess'[t] \in {sess[t], s}
          /\ sess'[t] = s => pc'[t] = "waiting" \/ sess'[t] = sess[t]
      BY <1>0, <2>2 DEF Run, Call, Goto, Types
    <3>2. ~Fresh(s)
      BY <1>0, <3>1 DEF OwnerInv, FreshIsUnknown
    <3> QED
      BY <1>0, <3>1, <3>2, OwnerFrame
  <2> QED
    BY <1>0, <1>1, <2>1, <2>2, OpenOwners, StartCloseOwners DEF Request, Inv
<1>2. ASSUME NEW t \in Threads, ThreadStep(t) \/ LoopStep(t)
      PROVE  Inv'
  <2>1. Types' /\ DrainInv'
    BY <1>0, <1>2, StepTypes, OpenDrains, OperationDrains, CloseDrains
    DEF ThreadStep, LoopStep
  <2>2. CASE \/ OpenUnlocked(t) \/ LoopRuns(t) \/ RunReturns(t)
             \/ Drained(t) \/ BackendCloses(t) \/ Stop(t)
    <3>1. /\ UNCHANGED <<registry, created, scope, todo, closed, usable, sess,
                         handed>>
          /\ \A s \in Sessions : loop'[s] = "alive" => loop[s] = "alive"
          /\ pc[t] \notin {"opening", "open_failed"}
          /\ \A u \in Threads \ {t} : pc'[u] = pc[u]
      BY <1>0, <2>2
      DEF OpenUnlocked, LoopRuns, RunReturns, Drained, BackendCloses, Stop,
          Goto, Types, sessionVars
    <3>2. OwnerInv'
      BY <1>0, <3>1, OwnerFrame
    <3> QED
      BY <2>1, <3>2 DEF Inv
  <2>3. CASE OpenLocked(t) \/ BackendOpens(t)
    BY <1>0, <2>1, <2>3, OpeningOwners DEF Inv
  <2>4. CASE CloseLocked(t) \/ Finish(t)
    BY <1>0, <2>1, <2>4, CloseOwners DEF Inv
  <2>5. CASE GiveUpOpen(t) \/ LeaveScope(t)
    BY <1>0, <2>1, <2>5, StartCloseOwners DEF Inv
  <2> QED
    BY <1>2, <2>2, <2>3, <2>4, <2>5 DEF ThreadStep, LoopStep
<1>3. ASSUME NEW s \in Sessions, LoopStops(s)
      PROVE  Inv'
  <2>1. /\ UNCHANGED <<registry, created, scope, todo, closed, usable, sess,
                       pc, handed>>
        /\ \A r \in Sessions : loop'[r] = "alive" => loop[r] = "alive"
    BY <1>0, <1>3 DEF LoopStops, threadVars, Types
  <2> QED
    BY <1>0, <1>3, <2>1, LoopStopDrains, OwnerFrame DEF Inv
<1>4. CASE UNCHANGED vars
  <2>1. UNCHANGED <<registry, created, openLock, closed, loop, backend, usable,
                    openFailed, futures, pc, sess, scope, handed, future,
                    snapshot, todo, out>>
    BY <1>4 DEF vars, sessionVars, threadVars
  <2>2. Types'
    BY <1>0, <2>1 DEF Types
  <2>3. DrainInv'
    BY <1>0, <2>1, DrainFrame
  <2>4. OwnerInv'
    BY <1>0, <2>1, OwnerFrame
  <2> QED
    BY <2>2, <2>3, <2>4 DEF Inv
<1> QED
  BY <1>1, <1>2, <1>3, <1>4 DEF Next

(* The inductive invariant holds in every reachable state.                 *)
THEOREM InvHolds == Spec => []Inv
BY InitInv, NextInv, PTL DEF Spec

(* BlockingObjectStore and close(): an operation that was accepted runs on *)
(* a live loop with an open backend, whoever closes the session meanwhile. *)
THEOREM DrainSafe == Spec => []DrainedBeforeTeardown
<1>1. Inv => DrainedBeforeTeardown
  BY DEF Inv, DrainInv
<1> QED
  BY <1>1, InvHolds, PTL

(* The registry: a session with a running loop is always within somebody's *)
(* reach, and no closed session is handed out again.                       *)
THEOREM SessionsKept == Spec => []NoSessionForgotten
<1>1. Inv => NoSessionForgotten
  <2> SUFFICES ASSUME Inv, NEW s \in Sessions
               PROVE  /\ loop[s] = "alive" /\ (\A t \in Threads : ~InHands(t, s))
                            => Registered(s) /\ usable[s]
                      /\ Registered(s) => ~closed[s]
    BY DEF NoSessionForgotten
  <2>1. Registered(s) => ~closed[s]
    BY DEF Inv, OwnerInv, RegisteredIsOpen
  <2>2. ASSUME loop[s] = "alive", \A t \in Threads : ~InHands(t, s)
        PROVE  Registered(s) /\ usable[s]
    <3>1. \A t \in Threads : ~InTodo(t, s) /\ s \notin scope[t]
      BY <2>2 DEF InHands, InTodo, Lists
    <3>2. Registered(s)
      BY <2>2, <3>1 DEF Inv, OwnerInv, UnownedIsDown, Owned
    <3>3. usable[s]
      BY <2>2, <3>1 DEF Inv, OwnerInv, HalfOpenIsHeld, InHands
    <3> QED
      BY <3>2, <3>3
  <2> QED
    BY <2>1, <2>2
<1> QED
  BY <1>1, InvHolds, PTL
=============================================================================
