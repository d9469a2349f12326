------------------------- MODULE RecordCacheProofs -------------------------
(***************************************************************************)
(* Proofs of RecordCache's invariants for every set of tasks and calls,    *)
(* every file the backend may open and any number of SQLite failures,      *)
(* cancellations and close calls, with or without the cache in front.      *)
(*                                                                         *)
(* Inv says who may be doing what: which job the one worker has and why    *)
(* the connection is open under it (OneJob), who holds or waits for the    *)
(* admission lock (LockHeld, LockWaited), how far the lifecycles of the    *)
(* backend and of the cache have come and what that says of connection and *)
(* worker (Life, CacheLife, Opening, Closing), and what the end of a call  *)
(* is founded on (TaskOK).  RowInv says that the result of a settled job   *)
(* is true of the rows, and stays so.                                      *)
(***************************************************************************)
EXTENDS RecordCache, TLAPS, FiniteSetTheorems, SequenceTheorems

In(q, x) == \E i \in DOMAIN q : q[i] = x
Distinct(q) == \A i, j \in DOMAIN q : q[i] = q[j] => i = j

Types ==
    /\ front \in {"cache", "direct"}
    /\ state \in {"none", "open", "closing", "closed", "failed"}
    /\ connection \in {"none", "open", "closed"}
    /\ opener \in {"start", "opening", "undoing", "returned", "raised"}
    /\ closer \in {"none", "start", "waiting", "closing", "closed", "failed",
                   "cancelled"}
    /\ cacheState \in {"none", "open", "closing", "closed", "failed"}
    /\ cacheCloser \in {"none", "draining", "closing", "closed", "failed",
                        "cancelled"}
    /\ jobs \in Seq(Jobs)
    /\ queue \in Seq(Tasks \cup {"close"})
    /\ lock \in Tasks \cup {"close", None}
    /\ results = [j \in Jobs |-> results[j]]
    /\ \A j \in Jobs : results[j].how \in {"pending", "returned", "raised"}
    /\ pc \in [Tasks -> {"idle", "waiting", "running", "closing", "done"}]
    /\ call = [t \in Tasks |-> call[t]]
    /\ out = [t \in Tasks |-> out[t]]
    /\ ran \in [Tasks -> Nat]
    /\ active \subseteq Tasks

(* The worker has at most one job, whoever submitted it still waits for    *)
(* it, and an operation finds the connection open.                         *)
OneJob ==
    /\ ~misused
    /\ Len(jobs) <= 1
    /\ \A j \in Jobs : jobs = <<j>> =>
        /\ ~Settled(j)
        /\ j \in Tasks => pc[j] = "running" /\ connection = "open"
        /\ j = "open" => opener = "opening"
        /\ j = "undo" => opener = "undoing"
        /\ j = "close" => closer = "closing"

LockHeld ==
    /\ \A t \in Tasks : pc[t] = "running" <=> lock = t
    /\ closer = "closing" <=> lock = "close"

LockWaited ==
    /\ Distinct(queue)
    /\ \A t \in Tasks : In(queue, t) <=> pc[t] = "waiting"
    /\ In(queue, "close") <=> closer = "waiting"

Life ==
    /\ state = "none" => /\ \A t \in Tasks : pc[t] = "idle"
                         /\ closer = "none"
                         /\ cacheState = "none"
    /\ state # "none" => opener = "returned"
    /\ state = "open" => closer = "none" /\ connection = "open"
    /\ closer \in {"start", "waiting", "closing"} => state = "closing"
    /\ closer = "none" => state \in {"none", "open"}
    /\ closer = "closed" <=> state = "closed"

CacheLife ==
    /\ front = "direct" => cacheState = "none"
    /\ cacheCloser = "none" <=> cacheState \in {"none", "open"}
    /\ cacheCloser = "closed" <=> cacheState = "closed"
    /\ cacheCloser = "closed" => closer = "closed"
    /\ cacheCloser \in {"closing", "closed", "failed"} => active = {}
    /\ \A t \in active : pc[t] \in {"waiting", "running"}

Opening ==
    /\ opener = "start" => connection = "none" /\ ~Settled("open")
    /\ opener \in {"start", "opening"} => ~Settled("undo")
    /\ opener = "opening" =>
        IF results["open"].how = "returned" THEN connection = "open"
                                            ELSE connection = "none"
    /\ opener = "undoing" =>
        (results["undo"].how = "returned" => connection = "closed")
    /\ opener = "raised" => \/ connection # "open" /\ worker = "down"
                            \/ results["undo"].how = "raised"

Closing ==
    /\ closer \in {"none", "start", "waiting"} => ~Settled("close")
    /\ results["close"].how = "returned" => connection = "closed"
    /\ closer = "closed" => /\ connection = "closed" /\ worker = "down"
                            /\ jobs = <<>>

(* What the end of an operation, and of a close, is founded on.            *)
OperationEnds(t) ==
    /\ call[t] \in Calls[t]
    /\ out[t].how \in {"refused", "withdrawn", "empty"} => ~Settled(t)
    /\ out[t].how = "returned" =>
        results[t].how = "returned" /\ out[t].reply = Answer(t)

CloseEnds(t) ==
    /\ call[t].op = "aclose"
    /\ ~Settled(t)
    /\ out[t].how = "returned" =>
        closer = "closed" /\ (front = "cache" => cacheCloser = "closed")
    /\ out[t].how = "raised" =>
        IF front = "cache" THEN cacheCloser = "failed" ELSE closer = "failed"

TaskOK(t) ==
    /\ ran[t] = (IF Settled(t) THEN 1 ELSE 0)
    /\ Settled(t) => pc[t] \in {"running", "done"} /\ call[t] \in Calls[t]
    /\ pc[t] \in {"waiting", "running"} => call[t] \in Calls[t]
    /\ pc[t] = "closing" => call[t].op = "aclose"
    /\ pc[t] = "done" => OperationEnds(t) \/ CloseEnds(t)

Inv ==
    /\ Types /\ OneJob /\ LockHeld /\ LockWaited
    /\ Life /\ CacheLife /\ Opening /\ Closing
    /\ \A t \in Tasks : TaskOK(t)

(* What the result of a call says of objects o and bindings b, when the    *)
(* keys in gone have been deleted: such a key may have lost its binding.   *)
Says(c, reply, o, b, gone) ==
    /\ c.op = "put_object" => reply # None /\ o[c.ref] = reply
    /\ c.op = "get_object" /\ reply # None =>
        /\ reply[1] \in References
        /\ reply[2] # None /\ o[reply[1]] = reply[2]
    /\ c.op = "bind" => reply # None /\ (c.key \in gone \/ b[c.key] = reply)
    /\ c.op = "get_binding" /\ reply # None =>
        c.key \in gone \/ b[c.key] = reply
    /\ c.op = "get_bound_objects" =>
        \A k \in DOMAIN reply :
            /\ k \in Keys /\ reply[k][1] \in References
            /\ k \in gone \/ b[k] = reply[k][1]
            /\ reply[k][2] # None => o[reply[k][1]] = reply[k][2]
    /\ c.op = "put_bound_objects" =>
        \A k \in DOMAIN c.entries :
            /\ o[c.entries[k][1]] = c.entries[k][2]
            /\ reply[k] # None /\ (k \in gone \/ b[k] = reply[k])

IsObjects(o) == o \in [References -> Texts \cup {None}]
IsBindings(b) == b \in [Keys -> References \cup {None}]
Gone == {k \in Keys : Deleted(k)}

RowInv ==
    /\ IsObjects(objects) /\ IsBindings(bindings)
    /\ \A t \in Tasks : results[t].how = "returned" =>
        Says(call[t], results[t].reply, objects, bindings, Gone)

-----------------------------------------------------------------------------
(* Sequences without repetition.                                           *)

(* Append adds its element.                                                *)
LEMMA AppendIn ==
    ASSUME NEW S, NEW q \in Seq(S), NEW x \in S
    PROVE  /\ Append(q, x) \in Seq(S)
           /\ \A y : In(Append(q, x), y) <=> In(q, y) \/ y = x
           /\ Distinct(q) /\ ~In(q, x) => Distinct(Append(q, x))
<1>1. /\ Append(q, x) \in Seq(S)
      /\ DOMAIN Append(q, x) = 1 .. Len(q) + 1
      /\ \A i \in DOMAIN q : Append(q, x)[i] = q[i]
      /\ Append(q, x)[Len(q) + 1] = x
      /\ DOMAIN q = 1 .. Len(q) /\ Len(q) \in Nat
    OBVIOUS
<1>2. \A i \in DOMAIN Append(q, x) : i \in DOMAIN q \/ i = Len(q) + 1
    BY <1>1
<1>3. Len(q) + 1 \in DOMAIN Append(q, x)
      /\ \A i \in DOMAIN q : i \in DOMAIN Append(q, x)
    BY <1>1
<1>4. ASSUME NEW y PROVE In(Append(q, x), y) <=> In(q, y) \/ y = x
    BY <1>1, <1>2, <1>3 DEF In
<1>5. ASSUME Distinct(q), ~In(q, x) PROVE Distinct(Append(q, x))
    BY <1>1, <1>2, <1>5 DEF Distinct, In
<1> QED
    BY <1>1, <1>4, <1>5

(* Tail takes the first element away.                                      *)
LEMMA TailIn ==
    ASSUME NEW S, NEW q \in Seq(S), q # <<>>, Distinct(q)
    PROVE  /\ Tail(q) \in Seq(S)
           /\ Head(q) \in S /\ In(q, Head(q))
           /\ \A y : In(Tail(q), y) <=> In(q, y) /\ y # Head(q)
           /\ Distinct(Tail(q))
<1>1. /\ Tail(q) \in Seq(S)
      /\ Len(q) \in Nat /\ Len(q) # 0
      /\ DOMAIN q = 1 .. Len(q)
      /\ DOMAIN Tail(q) = 1 .. Len(q) - 1
      /\ Head(q) = q[1] /\ Head(q) \in S
      /\ \A i \in DOMAIN Tail(q) : Tail(q)[i] = q[i + 1]
    OBVIOUS
<1>2. 1 \in DOMAIN q /\ \A i \in DOMAIN Tail(q) : i + 1 \in DOMAIN q /\ i + 1 # 1
    BY <1>1
<1>3. \A i \in DOMAIN q : i # 1 =>
          i - 1 \in DOMAIN Tail(q) /\ (i - 1) + 1 = i
    BY <1>1
<1>4. ASSUME NEW y PROVE In(Tail(q), y) <=> In(q, y) /\ y # Head(q)
    <2>1. ASSUME In(Tail(q), y) PROVE In(q, y) /\ y # Head(q)
        <3>1. PICK i \in DOMAIN Tail(q) : Tail(q)[i] = y
            BY <2>1 DEF In
        <3> QED
            BY <1>1, <1>2, <3>1 DEF In, Distinct
    <2>2. ASSUME In(q, y), y # Head(q) PROVE In(Tail(q), y)
        <3>1. PICK i \in DOMAIN q : q[i] = y
            BY <2>2 DEF In
        <3>2. i # 1
            BY <1>1, <2>2, <3>1
        <3> QED
            BY <1>1, <1>3, <3>1, <3>2 DEF In
    <2> QED
        BY <2>1, <2>2
<1>5. Distinct(Tail(q))
    <2> SUFFICES ASSUME NEW i \in DOMAIN Tail(q), NEW j \in DOMAIN Tail(q),
                        Tail(q)[i] = Tail(q)[j]
                 PROVE  i = j
        BY DEF Distinct
    <2>1. i + 1 = j + 1
        BY <1>1, <1>2 DEF Distinct
    <2> QED
        BY <1>1, <2>1
<1> QED
    BY <1>1, <1>2, <1>4, <1>5 DEF In

(* RemoveAt takes away the element at its place.                           *)
LEMMA RemoveIn ==
    ASSUME NEW S, NEW q \in Seq(S), NEW n \in DOMAIN q, Distinct(q)
    PROVE  /\ RemoveAt(q, n) \in Seq(S)
           /\ \A y : In(RemoveAt(q, n), y) <=> In(q, y) /\ y # q[n]
           /\ Distinct(RemoveAt(q, n))
<1> DEFINE r == RemoveAt(q, n)
<1>1. /\ Len(q) \in Nat /\ n \in Nat /\ 1 <= n /\ n <= Len(q)
      /\ DOMAIN q = 1 .. Len(q)
    OBVIOUS
<1>2. /\ r \in Seq(S)
      /\ DOMAIN r = 1 .. Len(q) - 1
      /\ \A i \in 1 .. Len(q) - 1 :
             r[i] = IF i < n THEN q[i] ELSE q[i + 1]
    <2> DEFINE s == SubSeq(q, 1, n - 1)
               t == SubSeq(q, n + 1, Len(q))
    <2>1. \A i \in 1 .. Len(q) : q[i] \in S
        BY ElementOfSeq
    <2>2. /\ s \in Seq(S) /\ Len(s) = n - 1
          /\ \A i \in 1 .. n - 1 : s[i] = q[i]
        <3>1. \A i \in 1 .. n - 1 : q[i] \in S
            BY <1>1, <2>1
        <3>2. /\ s \in Seq(S)
              /\ Len(s) = IF 1 <= n - 1 THEN (n - 1) - 1 + 1 ELSE 0
              /\ \A i \in 1 .. (n - 1) - 1 + 1 : s[i] = q[1 + i - 1]
            BY <1>1, <3>1, SubSeqProperties
        <3> HIDE DEF s
        <3> QED
            BY <1>1, <3>2
    <2>3. /\ t \in Seq(S) /\ Len(t) = Len(q) - n
          /\ \A i \in 1 .. Len(q) - n : t[i] = q[n + i]
        <3>1. \A i \in n + 1 .. Len(q) : q[i] \in S
            BY <1>1, <2>1
        <3>2. /\ t \in Seq(S)
              /\ Len(t) = IF n + 1 <= Len(q) THEN Len(q) - (n + 1) + 1 ELSE 0
              /\ \A i \in 1 .. Len(q) - (n + 1) + 1 :
                     t[i] = q[(n + 1) + i - 1]
            BY <1>1, <3>1, SubSeqProperties
        <3> HIDE DEF t
        <3>3. Len(t) = Len(q) - n
            BY <1>1, <3>2
        <3>4. ASSUME NEW i \in 1 .. Len(q) - n PROVE t[i] = q[n + i]
            <4>1. i \in 1 .. Len(q) - (n + 1) + 1 /\ (n + 1) + i - 1 = n + i
                BY <1>1
            <4> QED
                BY <3>2, <4>1
        <3> QED
            BY <3>2, <3>3, <3>4
    <2>4. r = s \o t
        BY DEF RemoveAt
    <2> HIDE DEF s, t, r
    <2>5. /\ r \in Seq(S) /\ Len(r) = Len(s) + Len(t)
          /\ \A i \in 1 .. Len(s) + Len(t) :
                 r[i] = IF i <= Len(s) THEN s[i] ELSE t[i - Len(s)]
        BY <2>2, <2>3, <2>4, ConcatProperties
    <2>6. Len(s) + Len(t) = Len(q) - 1 /\ DOMAIN r = 1 .. Len(q) - 1
        BY <1>1, <2>2, <2>3, <2>5, LenProperties
    <2>7. ASSUME NEW i \in 1 .. Len(q) - 1
          PROVE  r[i] = IF i < n THEN q[i] ELSE q[i + 1]
        <3>1. CASE i < n
            BY <1>1, <2>2, <2>5, <2>6, <3>1
        <3>2. CASE ~(i < n)
            <4>1. /\ ~(i <= Len(s)) /\ i - Len(s) = i - n + 1
                  /\ i - n + 1 \in 1 .. Len(q) - n
                  /\ n + (i - n + 1) = i + 1
                BY <1>1, <2>2, <3>2
            <4> QED
                BY <2>3, <2>5, <2>6, <3>2, <4>1
        <3> QED
            BY <3>1, <3>2
    <2> QED
        BY <2>5, <2>6, <2>7
<1> HIDE DEF r
<1>3. \A i \in DOMAIN r : /\ i \in Nat
                          /\ i < n => i \in DOMAIN q /\ r[i] = q[i]
                          /\ ~(i < n) => /\ i + 1 \in DOMAIN q /\ i + 1 # n
                                         /\ r[i] = q[i + 1]
    BY <1>1, <1>2
<1>4. \A i \in DOMAIN q : /\ i < n => i \in DOMAIN r
                          /\ i > n => /\ i - 1 \in DOMAIN r
                                      /\ ~(i - 1 < n) /\ (i - 1) + 1 = i
    BY <1>1, <1>2
<1>5. ASSUME NEW y PROVE In(r, y) <=> In(q, y) /\ y # q[n]
    <2>1. ASSUME In(r, y) PROVE In(q, y) /\ y # q[n]
        <3>1. PICK i \in DOMAIN r : r[i] = y
            BY <2>1 DEF In
        <3>2. CASE i < n
            BY <1>1, <1>3, <3>1, <3>2 DEF In, Distinct
        <3>3. CASE ~(i < n)
            BY <1>1, <1>3, <3>1, <3>3 DEF In, Distinct
        <3> QED
            BY <3>2, <3>3
    <2>2. ASSUME In(q, y), y # q[n] PROVE In(r, y)
        <3>1. PICK i \in DOMAIN q : q[i] = y
            BY <2>2 DEF In
        <3>2. i < n \/ i > n
            BY <1>1, <2>2, <3>1
        <3>3. CASE i < n
            BY <1>3, <1>4, <3>1, <3>3 DEF In
        <3>4. CASE i > n
            BY <1>3, <1>4, <3>1, <3>4 DEF In
        <3> QED
            BY <3>2, <3>3, <3>4
    <2> QED
        BY <2>1, <2>2
<1>6. Distinct(r)
    <2> SUFFICES ASSUME NEW i \in DOMAIN r, NEW j \in DOMAIN r, r[i] = r[j]
                 PROVE  i = j
        BY DEF Distinct
    <2>1. CASE i < n /\ j < n
        BY <1>3, <2>1 DEF Distinct
    <2>2. CASE i < n /\ ~(j < n)
        BY <1>1, <1>3, <2>2 DEF Distinct
    <2>3. CASE ~(i < n) /\ j < n
        BY <1>1, <1>3, <2>3 DEF Distinct
    <2>4. CASE ~(i < n) /\ ~(j < n)
        <3>1. i + 1 = j + 1
            BY <1>3, <2>4 DEF Distinct
        <3> QED
            BY <1>3, <3>1
    <2> QED
        BY <2>1, <2>2, <2>3, <2>4
<1> QED
    BY <1>2, <1>5, <1>6 DEF r

(* A job on an idle worker; the worker's one job, settled.                 *)
LEMMA OneElement ==
    ASSUME NEW S, NEW q \in Seq(S), Len(q) <= 1
    PROVE  /\ q # <<>> => /\ Head(q) \in S /\ q = <<Head(q)>>
                          /\ Tail(q) = <<>>
           /\ \A x : ~In(<<>>, x)
           /\ \A x : In(q, x) => q = <<x>>
<1>1. Len(q) \in Nat /\ DOMAIN q = 1 .. Len(q)
    OBVIOUS
<1>2. \A x : ~In(<<>>, x)
    BY DEF In
<1>3. CASE q = <<>>
    BY <1>2, <1>3
<1>4. CASE q # <<>>
    <2>1. Len(q) = 1
        BY <1>1, <1>4
    <2>2. Head(q) \in S /\ Head(q) = q[1] /\ q = <<q[1]>> /\ Tail(q) = <<>>
        <3>1. Head(q) = q[1] /\ q[1] \in S
            BY <1>4, <2>1, ElementOfSeq
        <3>2. <<q[1]>> \in Seq(S) /\ Len(<<q[1]>>) = 1 /\ <<q[1]>>[1] = q[1]
            BY <3>1
        <3>3. q = <<q[1]>>
            BY <2>1, <3>2, SeqEqual
        <3>4. Tail(q) \in Seq(S) /\ Len(Tail(q)) = 0
            BY <1>4, <2>1, HeadTailProperties
        <3>5. Tail(q) = <<>>
            BY <3>4, EmptySeq
        <3> QED
            BY <3>1, <3>3, <3>5
    <2>3. ASSUME NEW x, In(q, x) PROVE q = <<x>>
        BY <1>1, <2>1, <2>2, <2>3 DEF In
    <2> QED
        BY <1>2, <2>2, <2>3
<1> QED
    BY <1>3, <1>4
-----------------------------------------------------------------------------
(* Inv.                                                                    *)

(* Tasks are not jobs of the lifecycle.                                    *)
LEMMA Names ==
    /\ \A t \in Tasks : t # None /\ t # "open" /\ t # "undo" /\ t # "close"
    /\ None # "open" /\ None # "undo" /\ None # "close"
    /\ Tasks \subseteq Jobs /\ {"open", "undo", "close"} \subseteq Jobs
BY TasksAssumption DEF Jobs

(* The worker's one job, if it has one.                                    *)
LEMMA TheJob ==
    ASSUME Types, OneJob
    PROVE  \/ jobs = <<>>
           \/ /\ jobs # <<>> /\ Head(jobs) \in Jobs
              /\ jobs = <<Head(jobs)>> /\ Tail(jobs) = <<>>
BY OneElement DEF Types, OneJob

(* With the lock free and the backend open nothing runs on the worker.     *)
LEMMA WorkerIdle ==
    ASSUME Types, OneJob, LockHeld, Life, lock = None, state # "none"
    PROVE  jobs = <<>>
<1> SUFFICES ASSUME NEW j \in Jobs, jobs = <<j>> PROVE FALSE
    BY TheJob
<1> QED
    BY Names DEF OneJob, LockHeld, Life, Jobs

(* Before open has submitted its job, and after that has settled, nothing  *)
(* runs on the worker.                                                     *)
LEMMA OpenerIdle ==
    ASSUME Types, OneJob, LockHeld, Life,
           opener = "start" \/ (opener = "opening" /\ Settled("open"))
    PROVE  jobs = <<>> /\ state = "none"
<1>1. state = "none"
    BY DEF Life
<1>2. ASSUME NEW j \in Jobs, jobs = <<j>> PROVE FALSE
    BY <1>1, <1>2, Names DEF OneJob, Life, Jobs
<1> QED
    BY <1>1, <1>2, TheJob

(* A job handed to the idle worker is its only one.                        *)
LEMMA Submits ==
    ASSUME jobs = <<>>, NEW j \in Jobs, Submit(j)
    PROVE  jobs' = <<j>> /\ jobs' \in Seq(Jobs) /\ Len(jobs') <= 1
BY DEF Submit

(* Inv holds before open.                                                  *)
LEMMA InitInv == Init => Inv
<1> SUFFICES ASSUME Init PROVE Inv
    OBVIOUS
<1> USE DEF Init, InitBackend
<1>0. \A j \in Jobs : results[j].how = "pending"
    BY DEF Pends
<1>1. Types
    <2>1. /\ jobs \in Seq(Jobs) /\ queue \in Seq(Tasks \cup {"close"})
        BY EmptySeq
    <2>2. results = [j \in Jobs |-> results[j]]
        OBVIOUS
    <2>3. ran \in [Tasks -> Nat]
        OBVIOUS
    <2>4. call = [t \in Tasks |-> call[t]] /\ out = [t \in Tasks |-> out[t]]
        OBVIOUS
    <2> QED
        BY <1>0, <2>1, <2>2, <2>3, <2>4 DEF Types
<1>2. OneJob
    BY DEF OneJob
<1>3. LockHeld
    BY Names DEF LockHeld
<1>4. LockWaited
    BY DEF LockWaited, In, Distinct
<1>5. Life
    BY DEF Life
<1>6. CacheLife
    BY DEF CacheLife
<1>7. Opening
    BY <1>0, Names DEF Opening, Settled
<1>8. Closing
    BY <1>0, Names DEF Closing, Settled
<1>9. \A t \in Tasks : TaskOK(t)
    BY <1>0, Names DEF TaskOK, Settled
<1> QED
    BY <1>1, <1>2, <1>3, <1>4, <1>5, <1>6, <1>7, <1>8, <1>9 DEF Inv

(* A task is as it was if its own variables are, and no close has changed  *)
(* its outcome.                                                            *)
LEMMA SameTask ==
    ASSUME NEW t \in Tasks, TaskOK(t),
           pc'[t] = pc[t], call'[t] = call[t], out'[t] = out[t],
           results'[t] = results[t], ran'[t] = ran[t], front' = front,
           closer \in {"closed", "failed"} => closer' = closer,
           cacheCloser \in {"closed", "failed"} => cacheCloser' = cacheCloser
    PROVE  TaskOK(t)'
<1>1. Settled(t)' = Settled(t) /\ Answer(t)' = Answer(t)
    BY DEF Settled, Answer
<1>2. OperationEnds(t) => OperationEnds(t)'
    BY <1>1 DEF OperationEnds
<1>3. CloseEnds(t) => CloseEnds(t)'
    BY <1>1 DEF CloseEnds
<1> QED
    BY <1>1, <1>2, <1>3 DEF TaskOK
(* A cancellation changes nothing until it is noticed.                     *)
LEMMA CancelInv ==
    ASSUME Inv, Interruption
    PROVE  Inv'
<1> USE Names DEF Inv, Interruption, Cancel, CacheTearDown, TearDown, backendVars,
       rowVars, lockVars, taskVars, cacheVars
<1>c1. Types'
    BY DEF Types
<1>c2. OneJob'
    BY DEF OneJob, Settled, Types
<1>c3. LockHeld'
    BY DEF LockHeld, Types
<1>c4. LockWaited'
    BY DEF LockWaited, Types
<1>c5. Life'
    BY DEF Life, Types
<1>c6. CacheLife'
    BY DEF CacheLife, Types
<1>c7. Opening'
    BY DEF Opening, Settled, Types
<1>c8. Closing'
    BY DEF Closing, Settled, Types
<1>c9. \A u \in Tasks : TaskOK(u)'
    BY SameTask
<1> QED
    BY <1>c1, <1>c2, <1>c3, <1>c4, <1>c5, <1>c6, <1>c7, <1>c8, <1>c9

(* open starts the worker.                                                 *)
LEMMA OpenStartsInv ==
    ASSUME Inv, OpenStarts /\ UNCHANGED cacheVars
    PROVE  Inv'
<1> USE Names DEF Inv, OpenStarts, rowVars, lockVars, taskVars, cacheVars
<1>1. jobs = <<>> /\ state = "none"
    BY OpenerIdle
<1>2. jobs' = <<"open">> /\ jobs' \in Seq(Jobs) /\ Len(jobs') <= 1
    BY <1>1, Submits
<1>c1. Types'
    BY <1>2 DEF Types
<1>c2. OneJob'
    BY <1>2 DEF OneJob, Opening, Settled
<1>c3. LockHeld'
    BY DEF LockHeld, Types
<1>c4. LockWaited'
    BY DEF LockWaited, Types
<1>c5. Life'
    BY <1>1 DEF Life
<1>c6. CacheLife'
    BY DEF CacheLife, Types
<1>c7. Opening'
    BY DEF Opening, Settled, Types
<1>c8. Closing'
    BY <1>1 DEF Closing, Settled, Life
<1>c9. \A u \in Tasks : TaskOK(u)'
    BY SameTask
<1> QED
    BY <1>c1, <1>c2, <1>c3, <1>c4, <1>c5, <1>c6, <1>c7, <1>c8, <1>c9

(* open returns, raises, or has to undo the connection.                    *)
LEMMA CacheOpenInv ==
    ASSUME Inv, CacheOpen
    PROVE  Inv'
<1> USE Names DEF Inv, CacheOpen, OpenSettles, rowVars, lockVars, taskVars, cacheVars
<1>1. jobs = <<>> /\ state = "none"
    BY OpenerIdle
<1>2. Submit("undo") => /\ jobs' = <<"undo">> /\ jobs' \in Seq(Jobs)
                        /\ Len(jobs') <= 1
    BY <1>1, Submits
<1>c1. Types'
    <2>1. state' \in {"none", "open"} /\ cacheState' \in {"open", cacheState}
        BY <1>1
    <2>2. opener' \in {"returned", "undoing", "raised"}
        OBVIOUS
    <2>3. jobs' \in Seq(Jobs)
        <3>1. jobs' = jobs \/ Submit("undo")
            OBVIOUS
        <3> QED
            BY <1>2, <3>1 DEF Types
    <2>4. UNCHANGED <<front, connection, closer, cacheCloser, queue, lock,
                      results, pc, call, out, ran, active>>
        OBVIOUS
    <2> HIDE DEF CacheOpen, OpenSettles
    <2> QED
        BY <2>1, <2>2, <2>3, <2>4 DEF Types
<1>c2. OneJob'
    <2>1. CASE Submit("undo") /\ opener' = "undoing"
        <3>1. results' = results /\ misused' = misused /\ ~Settled("undo")
            BY DEF Opening
        <3>2. \A j \in Jobs : jobs' = <<j>> => j = "undo"
            BY <1>2, <2>1
        <3>3. ~Settled("undo")' /\ ~misused' /\ Len(jobs') <= 1
            <4>1. ~Settled("undo")'
                BY <3>1 DEF Settled
            <4>2. ~misused'
                BY <3>1 DEF OneJob
            <4>3. Len(jobs') <= 1
                BY <1>2, <2>1
            <4> QED
                BY <4>1, <4>2, <4>3
        <3> QED
            BY <2>1, <3>2, <3>3 DEF OneJob
    <2>2. CASE jobs' = jobs
        BY <1>1, <2>2 DEF OneJob
    <2> QED
        BY <2>1, <2>2
<1>c3. LockHeld'
    BY DEF LockHeld, Types
<1>c4. LockWaited'
    BY DEF LockWaited, Types
<1>c5. Life'
    BY <1>1 DEF Life, Opening
<1>c6. CacheLife'
    BY <1>1 DEF CacheLife, Life, Types
<1>c7. Opening'
    BY DEF Opening, Settled, Types
<1>c8. Closing'
    BY <1>1 DEF Closing, Settled, Life
<1>c9. \A u \in Tasks : TaskOK(u)'
    BY SameTask
<1> QED
    BY <1>c1, <1>c2, <1>c3, <1>c4, <1>c5, <1>c6, <1>c7, <1>c8, <1>c9

(* The connection of a cancelled open is closed again, or not.             *)
LEMMA OpenUndoneInv ==
    ASSUME Inv, OpenUndone /\ UNCHANGED cacheVars
    PROVE  Inv'
<1> USE Names DEF Inv, OpenUndone, rowVars, lockVars, taskVars, cacheVars
<1>c1. Types'
    BY DEF Types
<1>c2. OneJob'
    BY DEF OneJob, Settled
<1>c3. LockHeld'
    BY DEF LockHeld, Types
<1>c4. LockWaited'
    BY DEF LockWaited, Types
<1>c5. Life'
    BY DEF Life
<1>c6. CacheLife'
    BY DEF CacheLife, Types
<1>c7. Opening'
    BY DEF Opening, Settled, Types
<1>c8. Closing'
    BY DEF Closing, Settled, Life
<1>c9. \A u \in Tasks : TaskOK(u)'
    BY SameTask
<1> QED
    BY <1>c1, <1>c2, <1>c3, <1>c4, <1>c5, <1>c6, <1>c7, <1>c8, <1>c9

(* An operation returns or raises.                                         *)
LEMMA EffectHow ==
    ASSUME NEW c, IsCall(c), NEW e \in Effects(c)
    PROVE  e.how \in {"returned", "raised"}
<1> USE DEF Effects, Rows
<1>1. CASE c.op = "put_object"
    BY <1>1 DEF PutObject
<1>2. CASE c.op = "get_object"
    BY <1>2 DEF GetObject
<1>3. CASE c.op = "bind"
    BY <1>3 DEF Bind
<1>4. CASE c.op = "get_binding"
    BY <1>4 DEF GetBinding
<1>5. CASE c.op = "get_bound_objects"
    BY <1>5 DEF GetBoundObjects
<1>6. CASE c.op = "delete_bindings"
    BY <1>6 DEF DeleteBindings
<1>7. CASE c.op = "put_bound_objects"
    BY <1>7 DEF PutBoundObjects, Conflict
<1> QED
    BY <1>1, <1>2, <1>3, <1>4, <1>5, <1>6, <1>7 DEF IsCall

(* Everything but the rows, the worker's jobs and their results.           *)
besideWorker == <<state, connection, worker, lockVars, opener, closer,
                  taskVars, cancelled, torn, cacheVars>>

(* The worker runs the operation of t, its only job, with that result.     *)
Runs(t, result) ==
    /\ jobs = <<t>> /\ jobs' = <<>>
    /\ results' = [results EXCEPT ![t] = result]
    /\ result.how \in {"returned", "raised"}
    /\ ran' = [ran EXCEPT ![t] = @ + 1]
    /\ misused' = (misused \/ connection # "open")
    /\ UNCHANGED besideWorker
    /\ \/ /\ connection = "open"
          /\ \E e \in Effects(call[t]) :
               /\ objects' = e.objects /\ bindings' = e.bindings
               /\ result = [how |-> e.how, reply |-> e.reply]
       \/ UNCHANGED rowVars /\ result.how = "raised"

(* That is what a step of the worker on an operation does.                 *)
LEMMA RunsOne ==
    ASSUME Inv, WorkerRuns, UNCHANGED cacheVars
    PROVE  \E t \in Tasks : \E result : Runs(t, result)
<1>1. PICK t \in Tasks : t = Head(jobs)
    BY DEF WorkerRuns
<1>2. jobs = <<t>> /\ Tail(jobs) = <<>>
    BY <1>1, TheJob DEF Inv, WorkerRuns
<1>3. call[t] \in Calls[t]
    BY <1>1, <1>2, Names DEF Inv, OneJob, TaskOK
<1>4. IsCall(call[t])
    BY <1>3, CallsAssumption
<1>5. /\ ran' = [ran EXCEPT ![t] = @ + 1]
      /\ misused' = (misused \/ connection # "open")
      /\ UNCHANGED besideWorker
    BY <1>1 DEF WorkerRuns, besideWorker
<1>6. CASE /\ connection = "open"
           /\ \E e \in Effects(call[t]) :
                /\ objects' = e.objects /\ bindings' = e.bindings
                /\ Settle(t, [how |-> e.how, reply |-> e.reply])
    <2>1. PICK e \in Effects(call[t]) :
            /\ objects' = e.objects /\ bindings' = e.bindings
            /\ Settle(t, [how |-> e.how, reply |-> e.reply])
        BY <1>6
    <2>2. PICK result : result = [how |-> e.how, reply |-> e.reply]
        OBVIOUS
    <2>3. result.how \in {"returned", "raised"}
        BY <1>4, <2>2, EffectHow
    <2>4. jobs' = <<>> /\ results' = [results EXCEPT ![t] = result]
        BY <1>2, <2>1, <2>2 DEF Settle
    <2> QED
        BY <1>2, <1>5, <1>6, <2>1, <2>2, <2>3, <2>4 DEF Runs
<1>7. CASE /\ Settle(t, [how |-> "raised", reply |-> None])
           /\ UNCHANGED rowVars
    <2>1. PICK result : result = [how |-> "raised", reply |-> None]
        OBVIOUS
    <2>2. result.how = "raised"
        BY <2>1
    <2>3. jobs' = <<>> /\ results' = [results EXCEPT ![t] = result]
        BY <1>2, <1>7, <2>1 DEF Settle
    <2> QED
        BY <1>2, <1>5, <1>7, <2>2, <2>3 DEF Runs
<1> QED
    BY <1>1, <1>6, <1>7 DEF WorkerRuns

(* The worker runs an operation.                                           *)
LEMMA WorkerRunsInv ==
    ASSUME Inv, WorkerRuns, UNCHANGED cacheVars
    PROVE  Inv'
<1> USE Names DEF Inv, besideWorker, lockVars, taskVars, cacheVars
<1>p. PICK t \in Tasks : \E result : Runs(t, result)
    BY RunsOne
<1>q. PICK result : Runs(t, result)
    BY <1>p
<1>1. /\ jobs = <<t>> /\ jobs' = <<>>
      /\ results' = [results EXCEPT ![t] = result]
      /\ result.how \in {"returned", "raised"}
      /\ ran' = [ran EXCEPT ![t] = @ + 1]
      /\ misused' = (misused \/ connection # "open")
      /\ UNCHANGED besideWorker
    BY <1>q DEF Runs
<1>2. t \in Jobs /\ pc[t] = "running" /\ connection = "open"
    BY <1>1 DEF OneJob
<1>3. /\ results'[t] = result
      /\ \A j \in Jobs : j # t => results'[j] = results[j]
      /\ results' = [j \in Jobs |-> results'[j]]
    BY <1>1, <1>2 DEF Types
<1>4. /\ ran'[t] = ran[t] + 1 /\ ran' \in [Tasks -> Nat]
      /\ \A u \in Tasks : u # t => ran'[u] = ran[u]
    BY <1>1 DEF Types
<1>5. jobs' \in Seq(Jobs)
    BY <1>1, EmptySeq
<1>c1. Types'
    BY <1>1, <1>3, <1>4, <1>5 DEF Types
<1>c2. OneJob'
    <2>1. ~misused
        BY DEF OneJob
    <2>2. ~misused'
        BY <1>1, <1>2, <2>1
    <2>3. Len(jobs') <= 1 /\ \A j \in Jobs : jobs' # <<j>>
        BY <1>1
    <2> QED
        BY <2>2, <2>3 DEF OneJob
<1>c3. LockHeld'
    BY <1>1 DEF LockHeld
<1>c4. LockWaited'
    BY <1>1 DEF LockWaited
<1>c5. Life'
    BY <1>1 DEF Life
<1>c6. CacheLife'
    BY <1>1 DEF CacheLife
<1>c7. Opening'
    BY <1>1, <1>3 DEF Opening, Settled
<1>c8. Closing'
    BY <1>1, <1>2, <1>3 DEF Closing, Settled, Life
<1>c9. \A u \in Tasks : TaskOK(u)'
    <2>1. ASSUME NEW u \in Tasks, u # t PROVE TaskOK(u)'
        BY <1>1, <1>3, <1>4, <2>1, SameTask
    <2>2. TaskOK(t)'
        <3>1. ran[t] = 0 /\ call[t] \in Calls[t]
            BY <1>1, <1>2 DEF OneJob, TaskOK
        <3>2. Settled(t)' /\ pc'[t] = "running" /\ call'[t] = call[t]
            BY <1>1, <1>2, <1>3 DEF Settled
        <3>3. ran'[t] = 1
            BY <1>4, <3>1
        <3> QED
            BY <3>1, <3>2, <3>3 DEF TaskOK
    <2> QED
        BY <2>1, <2>2
<1> QED
    BY <1>c1, <1>c2, <1>c3, <1>c4, <1>c5, <1>c6, <1>c7, <1>c8, <1>c9

(* The worker closes the connection, or fails to.                          *)
LEMMA WorkerClosesInv ==
    ASSUME Inv, WorkerCloses, UNCHANGED cacheVars
    PROVE  Inv'
<1> USE Names DEF Inv, rowVars, lockVars, taskVars, cacheVars
<1>1. PICK job \in {"close", "undo"} :
        /\ jobs = <<job>> /\ jobs' = <<>> /\ jobs # <<>> /\ job = Head(jobs)
    BY TheJob DEF WorkerCloses, Settle
<1>2. PICK result :
        /\ results' = [results EXCEPT ![job] = result]
        /\ \/ result.how = "returned" /\ connection' = "closed"
           \/ result.how = "raised" /\ connection' = connection
    <2>1. CASE connection' = "closed"
               /\ Settle(job, [how |-> "returned", reply |-> None])
        <3>1. PICK result : result = [how |-> "returned", reply |-> None]
            OBVIOUS
        <3>2. result.how = "returned"
            BY <3>1
        <3> QED
            BY <2>1, <3>1, <3>2 DEF Settle
    <2>2. CASE connection' = connection
               /\ Settle(job, [how |-> "raised", reply |-> None])
        <3>1. PICK result : result = [how |-> "raised", reply |-> None]
            OBVIOUS
        <3>2. result.how = "raised"
            BY <3>1
        <3> QED
            BY <2>2, <3>1, <3>2 DEF Settle
    <2> QED
        BY <1>1, <2>1, <2>2 DEF WorkerCloses
<1>3. UNCHANGED <<state, worker, lock, queue, opener, closer, pc, call, out,
                  ran, misused, front, cacheState, active, cacheCloser>>
    BY DEF WorkerCloses
<1>4. /\ results'[job] = result
      /\ \A j \in Jobs : j # job => results'[j] = results[j]
      /\ results' = [j \in Jobs |-> results'[j]]
    BY <1>1, <1>2 DEF Types
<1>5. jobs' \in Seq(Jobs)
    BY <1>1, EmptySeq
<1>6. /\ ~Settled(job)
      /\ job = "close" => closer = "closing" /\ lock = "close"
      /\ job = "open" => opener = "opening" /\ state = "none"
      /\ job = "undo" => opener = "undoing" /\ state = "none"
    BY <1>1 DEF OneJob, LockHeld, Life
<1>7. job = "close" => state = "closing" /\ opener = "returned"
    BY <1>6 DEF Life
<1>c1. Types'
    BY <1>1, <1>2, <1>3, <1>4, <1>5 DEF Types
<1>c2. OneJob'
    BY <1>1, <1>3 DEF OneJob
<1>c3. LockHeld'
    BY <1>3 DEF LockHeld
<1>c4. LockWaited'
    BY <1>3 DEF LockWaited
<1>c5. Life'
    BY <1>1, <1>3, <1>6, <1>7 DEF Life
<1>c6. CacheLife'
    BY <1>3 DEF CacheLife
<1>c7. Opening'
    BY <1>1, <1>2, <1>3, <1>4, <1>6, <1>7 DEF Opening, Settled, Types
<1>c8. Closing'
    BY <1>1, <1>2, <1>3, <1>4, <1>6, <1>7 DEF Closing, Settled, Life, Types
<1>c9. \A u \in Tasks : TaskOK(u)'
    BY <1>1, <1>3, <1>4, SameTask
<1> QED
    BY <1>c1, <1>c2, <1>c3, <1>c4, <1>c5, <1>c6, <1>c7, <1>c8, <1>c9

(* The worker opens the connection, or fails to.                           *)
LEMMA WorkerOpensInv ==
    ASSUME Inv, WorkerOpens, UNCHANGED cacheVars
    PROVE  Inv'
<1> USE Names DEF Inv, rowVars, lockVars, taskVars, cacheVars
<1>1. PICK job \in {"open"} :
        /\ jobs = <<job>> /\ jobs' = <<>> /\ jobs # <<>> /\ job = Head(jobs)
    BY TheJob DEF WorkerOpens, Settle
<1>2. PICK result :
        /\ results' = [results EXCEPT ![job] = result]
        /\ \/ result.how = "returned" /\ connection' = "open"
           \/ result.how = "raised" /\ connection' = connection
    <2>1. CASE connection' = "open"
               /\ Settle(job, [how |-> "returned", reply |-> None])
        <3>1. PICK result : result = [how |-> "returned", reply |-> None]
            OBVIOUS
        <3>2. result.how = "returned"
            BY <3>1
        <3> QED
            BY <2>1, <3>1, <3>2 DEF Settle
    <2>2. CASE connection' = connection
               /\ Settle(job, [how |-> "raised", reply |-> None])
        <3>1. PICK result : result = [how |-> "raised", reply |-> None]
            OBVIOUS
        <3>2. result.how = "raised"
            BY <3>1
        <3> QED
            BY <2>2, <3>1, <3>2 DEF Settle
    <2> QED
        BY <1>1, <2>1, <2>2 DEF WorkerOpens
<1>3. UNCHANGED <<state, worker, lock, queue, opener, closer, pc, call, out,
                  ran, misused, front, cacheState, active, cacheCloser>>
    BY DEF WorkerOpens
<1>4. /\ results'[job] = result
      /\ \A j \in Jobs : j # job => results'[j] = results[j]
      /\ results' = [j \in Jobs |-> results'[j]]
    BY <1>1, <1>2 DEF Types
<1>5. jobs' \in Seq(Jobs)
    BY <1>1, EmptySeq
<1>6. /\ ~Settled(job)
      /\ job = "close" => closer = "closing" /\ lock = "close"
      /\ job = "open" => opener = "opening" /\ state = "none"
      /\ job = "undo" => opener = "undoing" /\ state = "none"
    BY <1>1 DEF OneJob, LockHeld, Life
<1>7. job = "close" => state = "closing" /\ opener = "returned"
    BY <1>6 DEF Life
<1>c1. Types'
    BY <1>1, <1>2, <1>3, <1>4, <1>5 DEF Types
<1>c2. OneJob'
    BY <1>1, <1>3 DEF OneJob
<1>c3. LockHeld'
    BY <1>3 DEF LockHeld
<1>c4. LockWaited'
    BY <1>3 DEF LockWaited
<1>c5. Life'
    BY <1>1, <1>3, <1>6, <1>7 DEF Life
<1>c6. CacheLife'
    BY <1>3 DEF CacheLife
<1>c7. Opening'
    BY <1>1, <1>2, <1>3, <1>4, <1>6, <1>7 DEF Opening, Settled, Types
<1>c8. Closing'
    BY <1>1, <1>2, <1>3, <1>4, <1>6, <1>7 DEF Closing, Settled, Life, Types
<1>c9. \A u \in Tasks : TaskOK(u)'
    BY <1>1, <1>3, <1>4, SameTask
<1> QED
    BY <1>c1, <1>c2, <1>c3, <1>c4, <1>c5, <1>c6, <1>c7, <1>c8, <1>c9
-----------------------------------------------------------------------------
(* Steps of a task.  Only task t has moved, and what it moved to is right. *)
OnlyTask(t) ==
    /\ pc' \in [Tasks -> {"idle", "waiting", "running", "closing", "done"}]
    /\ call' = [u \in Tasks |-> call'[u]]
    /\ out' = [u \in Tasks |-> out'[u]]
    /\ \A u \in Tasks \ {t} :
        pc'[u] = pc[u] /\ call'[u] = call[u] /\ out'[u] = out[u]

(* What no step of a task changes.                                         *)
besideTasks == <<connection, worker, results, opener, ran, misused, front>>

(* A call that neither holds nor awaits the lock begins a close or ends.   *)
LEMMA QuietTask ==
    ASSUME Inv, NEW t \in Tasks, OnlyTask(t), TaskOK(t)',
           pc[t] \in {"idle", "closing"}, pc'[t] \in {"closing", "done"},
           state # "none",
           UNCHANGED <<besideTasks, jobs, lockVars, active>>,
           \/ UNCHANGED <<state, closer>>
           \/ closer = "none" /\ closer' = "start" /\ state' = "closing",
           \/ UNCHANGED <<cacheState, cacheCloser>>
           \/ /\ cacheCloser = "none" /\ cacheCloser' = "draining"
              /\ cacheState' = "closing" /\ front = "cache"
    PROVE  Inv'
<1> USE Names DEF Inv, OnlyTask, besideTasks, lockVars
<1>1. Types'
    BY DEF Types
<1>2. OneJob'
    BY DEF OneJob, Settled
<1>3. LockHeld'
    BY DEF LockHeld
<1>4. LockWaited'
    BY DEF LockWaited
<1>5. Life'
    BY DEF Life, Types
<1>6. CacheLife'
    BY DEF CacheLife, Types
<1>7. Opening'
    BY DEF Opening, Settled
<1>8. Closing'
    BY DEF Closing, Settled
<1>9. \A u \in Tasks : TaskOK(u)'
    BY SameTask
<1> QED
    BY <1>1, <1>2, <1>3, <1>4, <1>5, <1>6, <1>7, <1>8, <1>9

(* A task takes the free lock of an open backend and submits its job.      *)
LEMMA TakesLock ==
    ASSUME Inv, NEW t \in Tasks, OnlyTask(t), TaskOK(t)', ~Settled(t),
           pc[t] \in {"idle", "waiting"}, pc'[t] = "running",
           state = "open", lock = None, lock' = t, Submit(t),
           queue' \in Seq(Tasks \cup {"close"}), Distinct(queue)',
           \A x : In(queue, x)' <=> In(queue, x) /\ x # t,
           UNCHANGED <<besideTasks, state, closer, cacheState, cacheCloser>>,
           \/ UNCHANGED active
           \/ cacheState = "open" /\ active' = active \cup {t}
    PROVE  Inv'
<1> USE Names DEF Inv, OnlyTask, besideTasks
<1>0. jobs = <<>> /\ jobs' = <<t>> /\ jobs' \in Seq(Jobs) /\ Len(jobs') <= 1
    BY WorkerIdle, Submits
<1>1. Types'
    BY <1>0 DEF Types
<1>2. OneJob'
    <2>1. ~Settled(t)' /\ ~misused' /\ connection' = "open"
        BY DEF Settled, OneJob, Life
    <2>2. \A j \in Jobs : jobs' = <<j>> => j = t
        BY <1>0
    <2> QED
        BY <1>0, <2>1, <2>2 DEF OneJob
<1>3. LockHeld'
    BY DEF LockHeld
<1>4. LockWaited'
    BY DEF LockWaited
<1>5. Life'
    BY DEF Life
<1>6. CacheLife'
    BY DEF CacheLife, Types
<1>7. Opening'
    BY DEF Opening, Settled, Life
<1>8. Closing'
    BY DEF Closing, Settled, Life
<1>9. \A u \in Tasks : TaskOK(u)'
    BY SameTask
<1> QED
    BY <1>1, <1>2, <1>3, <1>4, <1>5, <1>6, <1>7, <1>8, <1>9

(* A task gets in line for the lock.                                       *)
LEMMA GetsInLine ==
    ASSUME Inv, NEW t \in Tasks, OnlyTask(t), TaskOK(t)',
           pc[t] = "idle", pc'[t] = "waiting",
           state = "open", queue' = Append(queue, t),
           UNCHANGED <<besideTasks, jobs, lock, state, closer, cacheState,
                       cacheCloser>>,
           \/ UNCHANGED active
           \/ cacheState = "open" /\ active' = active \cup {t}
    PROVE  Inv'
<1> USE Names DEF Inv, OnlyTask, besideTasks
<1>0. /\ queue' \in Seq(Tasks \cup {"close"})
      /\ \A x : In(queue', x) <=> In(queue, x) \/ x = t
      /\ Distinct(queue')
    <2>1. /\ Append(queue, t) \in Seq(Tasks \cup {"close"})
          /\ \A x : In(Append(queue, t), x) <=> In(queue, x) \/ x = t
          /\ Distinct(queue) /\ ~In(queue, t) => Distinct(Append(queue, t))
        BY AppendIn DEF Types
    <2> QED
        BY <2>1 DEF LockWaited
<1>1. Types'
    BY <1>0 DEF Types
<1>2. OneJob'
    BY DEF OneJob, Settled
<1>3. LockHeld'
    BY DEF LockHeld
<1>4. LockWaited'
    BY <1>0 DEF LockWaited
<1>5. Life'
    BY DEF Life
<1>6. CacheLife'
    BY DEF CacheLife, Types
<1>7. Opening'
    BY DEF Opening, Settled, Life
<1>8. Closing'
    BY DEF Closing, Settled, Life
<1>9. \A u \in Tasks : TaskOK(u)'
    BY SameTask
<1> QED
    BY <1>1, <1>2, <1>3, <1>4, <1>5, <1>6, <1>7, <1>8, <1>9

(* A task gives up its place in line, and its call ends.                   *)
LEMMA LeavesLine ==
    ASSUME Inv, NEW t \in Tasks, OnlyTask(t), TaskOK(t)',
           pc[t] = "waiting", pc'[t] = "done",
           queue' \in Seq(Tasks \cup {"close"}), Distinct(queue)',
           \A x : In(queue, x)' <=> In(queue, x) /\ x # t,
           UNCHANGED <<besideTasks, jobs, lock, state, closer, cacheState,
                       cacheCloser>>,
           active' = active \ {t}
    PROVE  Inv'
<1> USE Names DEF Inv, OnlyTask, besideTasks
<1>1. Types'
    BY DEF Types
<1>2. OneJob'
    BY DEF OneJob, Settled
<1>3. LockHeld'
    BY DEF LockHeld
<1>4. LockWaited'
    BY DEF LockWaited
<1>5. Life'
    BY DEF Life
<1>6. CacheLife'
    BY DEF CacheLife, Types
<1>7. Opening'
    BY DEF Opening, Settled
<1>8. Closing'
    BY DEF Closing, Settled
<1>9. \A u \in Tasks : TaskOK(u)'
    BY SameTask
<1> QED
    BY <1>1, <1>2, <1>3, <1>4, <1>5, <1>6, <1>7, <1>8, <1>9

(* A task's job has settled: it releases the lock and its call ends.       *)
LEMMA ReleasesLock ==
    ASSUME Inv, NEW t \in Tasks, OnlyTask(t), TaskOK(t)', Settled(t),
           pc[t] = "running", pc'[t] = "done", lock' = None,
           UNCHANGED <<besideTasks, jobs, queue, state, closer, cacheState,
                       cacheCloser>>,
           active' = active \ {t}
    PROVE  Inv'
<1> USE Names DEF Inv, OnlyTask, besideTasks
<1>1. Types'
    BY DEF Types
<1>2. OneJob'
    BY DEF OneJob, Settled
<1>3. LockHeld'
    BY DEF LockHeld
<1>4. LockWaited'
    BY DEF LockWaited
<1>5. Life'
    BY DEF Life
<1>6. CacheLife'
    BY DEF CacheLife, Types
<1>7. Opening'
    BY DEF Opening, Settled
<1>8. Closing'
    BY DEF Closing, Settled
<1>9. \A u \in Tasks : TaskOK(u)'
    BY SameTask
<1> QED
    BY <1>1, <1>2, <1>3, <1>4, <1>5, <1>6, <1>7, <1>8, <1>9

(* Only t moves when its call ends, and when it goes on to another await.  *)
LEMMA EndsOnly ==
    ASSUME Types, NEW t \in Tasks, NEW how, NEW reply, End(t, how, reply),
           call' = call \/ \E c : call' = [call EXCEPT ![t] = c]
    PROVE  /\ OnlyTask(t) /\ pc'[t] = "done"
           /\ out'[t].how = how /\ out'[t].reply = reply
<1>1. /\ pc' \in [Tasks -> {"idle", "waiting", "running", "closing", "done"}]
      /\ pc'[t] = "done" /\ \A u \in Tasks \ {t} : pc'[u] = pc[u]
    BY DEF End, Types
<1>2. /\ out' = [u \in Tasks |-> out'[u]]
      /\ \A u \in Tasks \ {t} : out'[u] = out[u]
      /\ out'[t] = [how |-> how, reply |-> reply]
    BY DEF End, Types
<1>3. /\ call' = [u \in Tasks |-> call'[u]]
      /\ \A u \in Tasks \ {t} : call'[u] = call[u]
    BY DEF Types
<1> QED
    BY <1>1, <1>2, <1>3 DEF OnlyTask

(* See EndsOnly.                                                           *)
LEMMA MovesOnly ==
    ASSUME Types, NEW t \in Tasks, NEW to \in {"waiting", "running", "closing"},
           pc' = [pc EXCEPT ![t] = to], UNCHANGED out,
           call' = call \/ \E c : call' = [call EXCEPT ![t] = c]
    PROVE  OnlyTask(t) /\ pc'[t] = to
<1>1. /\ pc' \in [Tasks -> {"idle", "waiting", "running", "closing", "done"}]
      /\ pc'[t] = to /\ \A u \in Tasks \ {t} : pc'[u] = pc[u]
    BY DEF Types
<1>2. /\ out' = [u \in Tasks |-> out'[u]]
      /\ \A u \in Tasks \ {t} : out'[u] = out[u]
    BY DEF Types
<1>3. /\ call' = [u \in Tasks |-> call'[u]]
      /\ \A u \in Tasks \ {t} : call'[u] = call[u]
    BY DEF Types
<1> QED
    BY <1>1, <1>2, <1>3 DEF OnlyTask

(* A call that was refused, withdrawn or empty has run nothing.            *)
LEMMA RefusedTask ==
    ASSUME NEW t \in Tasks, TaskOK(t), pc[t] \in {"idle", "waiting"},
           pc'[t] = "done", call'[t] \in Calls[t],
           out'[t].how \in {"refused", "withdrawn", "empty"},
           results'[t] = results[t], ran'[t] = ran[t]
    PROVE  TaskOK(t)'
<1>1. ~Settled(t) /\ ~Settled(t)'
    BY DEF TaskOK, Settled
<1> QED
    BY <1>1 DEF TaskOK, OperationEnds

(* A call that goes on to await the lock or its job has run nothing.       *)
LEMMA AwaitingTask ==
    ASSUME NEW t \in Tasks, TaskOK(t), pc[t] \in {"idle", "waiting"},
           pc'[t] \in {"waiting", "running"}, call'[t] \in Calls[t],
           results'[t] = results[t], ran'[t] = ran[t]
    PROVE  TaskOK(t)' /\ ~Settled(t)
<1>1. ~Settled(t) /\ ~Settled(t)'
    BY DEF TaskOK, Settled
<1> QED
    BY <1>1 DEF TaskOK

(* An operation is called, of the backend or of the cache.                 *)
LEMMA StartInv ==
    ASSUME Inv, NEW t \in Tasks, NEW c \in Calls[t], Start(t, c),
           UNCHANGED <<front, cacheState, cacheCloser>>,
           \/ UNCHANGED active
           \/ cacheState = "open" /\ active' = active \cup {t},
           pc'[t] = "done" => UNCHANGED active
    PROVE  Inv'
<1>1. /\ Types /\ TaskOK(t) /\ pc[t] = "idle" /\ state # "none"
      /\ call' = [call EXCEPT ![t] = c] /\ call'[t] = c
      /\ UNCHANGED <<state, connection, worker, results, opener, closer, ran,
                     misused>>
    BY DEF Start, Inv, Types
<1>2. UNCHANGED besideTasks
    BY <1>1 DEF besideTasks
<1>3. CASE /\ \E how \in {"refused", "empty"} : End(t, how, None)
           /\ UNCHANGED <<lockVars, jobs>>
    <2>1. PICK how \in {"refused", "empty"} : End(t, how, None)
        BY <1>3
    <2>2. OnlyTask(t) /\ pc'[t] = "done" /\ out'[t].how = how
        BY <1>1, <2>1, EndsOnly
    <2>3. TaskOK(t)'
        BY <1>1, <2>2, RefusedTask
    <2> QED
        BY <1>1, <1>2, <1>3, <2>2, <2>3, QuietTask
<1>4. CASE /\ state = "open" /\ Free
           /\ lock' = t /\ Submit(t)
           /\ pc' = [pc EXCEPT ![t] = "running"]
           /\ UNCHANGED <<queue, out>>
    <2>1. OnlyTask(t) /\ pc'[t] = "running"
        BY <1>1, <1>4, MovesOnly
    <2>2. TaskOK(t)' /\ ~Settled(t)
        BY <1>1, <2>1, AwaitingTask
    <2>3. /\ queue' \in Seq(Tasks \cup {"close"}) /\ Distinct(queue)'
          /\ ~In(queue, t)
        BY <1>1, <1>4 DEF Inv, Types, LockWaited
    <2>4. \A x : In(queue, x)' <=> In(queue, x) /\ x # t
        BY <1>4, <2>3
    <2> QED
        BY <1>1, <1>2, <1>4, <2>1, <2>2, <2>3, <2>4, TakesLock DEF Free
<1>5. CASE /\ state = "open"
           /\ queue' = Append(queue, t)
           /\ pc' = [pc EXCEPT ![t] = "waiting"]
           /\ UNCHANGED <<lock, jobs, out>>
    <2>1. OnlyTask(t) /\ pc'[t] = "waiting"
        BY <1>1, <1>5, MovesOnly
    <2>2. TaskOK(t)'
        BY <1>1, <2>1, AwaitingTask
    <2> QED
        BY <1>1, <1>2, <1>5, <2>1, <2>2, GetsInLine
<1> QED
    BY <1>3, <1>4, <1>5 DEF Start

(* An operation of the cache is called.                                    *)
LEMMA CacheStartInv ==
    ASSUME Inv, NEW t \in Tasks, NEW c \in Calls[t], CacheStart(t, c)
    PROVE  Inv'
<1>1. UNCHANGED <<front, cacheState, cacheCloser>>
    BY DEF CacheStart
<1>2. CASE /\ cacheState = "open"
           /\ Start(t, c)
           /\ active' = IF pc'[t] = "done" THEN active ELSE active \cup {t}
    BY <1>1, <1>2, StartInv
<1>3. CASE /\ cacheState \notin {"none", "open"}
           /\ pc[t] = "idle"
           /\ call' = [call EXCEPT ![t] = c]
           /\ End(t, "refused", None)
           /\ UNCHANGED <<rowVars, state, connection, worker, jobs, results,
                          lockVars, opener, closer, cancelled, ran, misused,
                          faults, torn, active>>
    <2>1. Types /\ TaskOK(t) /\ call'[t] = c /\ state # "none"
        BY <1>3 DEF Inv, Types, Life
    <2>2. OnlyTask(t) /\ pc'[t] = "done" /\ out'[t].how = "refused"
        BY <1>3, <2>1, EndsOnly
    <2>3. TaskOK(t)'
        BY <1>3, <2>1, <2>2, RefusedTask
    <2>4. UNCHANGED besideTasks
        BY <1>1, <1>3 DEF besideTasks
    <2> QED
        BY <1>1, <1>3, <2>1, <2>2, <2>3, <2>4, QuietTask
<1> QED
    BY <1>2, <1>3 DEF CacheStart

(* What t leaves alone when it steps on by itself.                         *)
LEMMA LeavesAlone ==
    ASSUME NEW t \in Tasks, NEW reply,
           \/ Leaves(t, Admit(t)) \/ Leaves(t, Withdraw(t))
           \/ Leaves(t, Resume(t, reply))
    PROVE  /\ UNCHANGED <<besideTasks, state, closer, cacheState, cacheCloser,
                          call>>
           /\ active' = IF pc'[t] = "done" THEN active \ {t} ELSE active
BY DEF Leaves, Admit, Withdraw, Resume, besideTasks

(* The lock reaches the first in line.                                     *)
LEMMA AdmitInv ==
    ASSUME Inv, NEW t \in Tasks, Leaves(t, Admit(t))
    PROVE  Inv'
<1>1. /\ UNCHANGED <<besideTasks, state, closer, cacheState, cacheCloser, call>>
      /\ active' = IF pc'[t] = "done" THEN active \ {t} ELSE active
    BY LeavesAlone
<1>2. /\ pc[t] = "waiting" /\ lock = None /\ Head(queue) = t
      /\ queue' = Tail(queue)
    BY DEF Leaves, Admit
<1>3. Types /\ TaskOK(t) /\ call'[t] \in Calls[t] /\ Distinct(queue)
    BY <1>1, <1>2 DEF Inv, TaskOK, LockWaited
<1>4. queue # <<>>
    BY <1>2 DEF Inv, LockWaited, In
<1>5. /\ queue' \in Seq(Tasks \cup {"close"}) /\ Distinct(queue')
      /\ \A x : In(queue', x) <=> In(queue, x) /\ x # t
    <2>1. queue \in Seq(Tasks \cup {"close"})
        BY <1>3 DEF Types
    <2> QED
        BY <1>2, <1>3, <1>4, <2>1, TailIn
<1>6. results'[t] = results[t] /\ ran'[t] = ran[t]
    BY <1>1 DEF besideTasks
<1>7. CASE /\ state = "open"
           /\ lock' = t /\ Submit(t)
           /\ pc' = [pc EXCEPT ![t] = "running"]
           /\ UNCHANGED out
    <2>1. OnlyTask(t) /\ pc'[t] = "running"
        BY <1>1, <1>3, <1>7, MovesOnly
    <2>2. TaskOK(t)' /\ ~Settled(t)
        BY <1>2, <1>3, <1>6, <2>1, AwaitingTask
    <2>3. UNCHANGED active
        BY <1>1, <2>1
    <2> QED
        BY <1>1, <1>2, <1>5, <1>7, <2>1, <2>2, <2>3, TakesLock
<1>8. CASE End(t, "refused", None) /\ UNCHANGED <<lock, jobs>>
    <2>1. OnlyTask(t) /\ pc'[t] = "done" /\ out'[t].how = "refused"
        BY <1>1, <1>3, <1>8, EndsOnly
    <2>2. TaskOK(t)'
        BY <1>2, <1>3, <1>6, <2>1, RefusedTask
    <2> QED
        BY <1>1, <1>2, <1>5, <1>8, <2>1, <2>2, LeavesLine
<1> QED
    BY <1>7, <1>8 DEF Leaves, Admit

(* A cancelled waiter withdraws.                                           *)
LEMMA WithdrawInv ==
    ASSUME Inv, NEW t \in Tasks, Leaves(t, Withdraw(t))
    PROVE  Inv'
<1>1. /\ UNCHANGED <<besideTasks, state, closer, cacheState, cacheCloser, call>>
      /\ active' = IF pc'[t] = "done" THEN active \ {t} ELSE active
    BY LeavesAlone
<1>2. /\ pc[t] = "waiting" /\ LeavesQueue(t) /\ End(t, "withdrawn", None)
      /\ UNCHANGED <<lock, jobs>>
    BY DEF Leaves, Withdraw
<1>3. Types /\ TaskOK(t) /\ call'[t] \in Calls[t] /\ Distinct(queue)
    BY <1>1, <1>2 DEF Inv, TaskOK, LockWaited
<1>4. PICK i \in DOMAIN queue : queue[i] = t /\ queue' = RemoveAt(queue, i)
    BY <1>2 DEF LeavesQueue
<1>5. /\ queue' \in Seq(Tasks \cup {"close"}) /\ Distinct(queue')
      /\ \A x : In(queue', x) <=> In(queue, x) /\ x # t
    <2>1. queue \in Seq(Tasks \cup {"close"})
        BY <1>3 DEF Types
    <2> QED
        BY <1>3, <1>4, <2>1, RemoveIn
<1>6. results'[t] = results[t] /\ ran'[t] = ran[t]
    BY <1>1 DEF besideTasks
<1>7. OnlyTask(t) /\ pc'[t] = "done" /\ out'[t].how = "withdrawn"
    BY <1>1, <1>2, <1>3, EndsOnly
<1>8. TaskOK(t)'
    BY <1>2, <1>3, <1>6, <1>7, RefusedTask
<1> QED
    BY <1>1, <1>2, <1>5, <1>7, <1>8, LeavesLine

(* A settled operation's call ends.                                        *)
LEMMA ResumeInv ==
    ASSUME Inv, NEW t \in Tasks, Leaves(t, Resume(t, Answer(t)))
    PROVE  Inv'
<1>0. PICK reply : reply = Answer(t)
    OBVIOUS
<1>1. /\ UNCHANGED <<besideTasks, state, closer, cacheState, cacheCloser, call>>
      /\ active' = IF pc'[t] = "done" THEN active \ {t} ELSE active
    BY <1>0, LeavesAlone
<1>2. /\ pc[t] = "running" /\ Settled(t) /\ lock' = None
      /\ UNCHANGED <<jobs, queue>>
      /\ \/ End(t, "cancelled", None)
         \/ End(t, results[t].how, reply)
    BY <1>0 DEF Leaves, Resume
<1>3. Types /\ TaskOK(t) /\ call[t] \in Calls[t] /\ call'[t] = call[t]
    BY <1>1, <1>2 DEF Inv, TaskOK
<1>4. PICK how, answer :
        /\ End(t, how, answer)
        /\ how = "cancelled" \/ (how = results[t].how /\ answer = reply)
    BY <1>2
<1>5. /\ OnlyTask(t) /\ pc'[t] = "done"
      /\ out'[t].how = how /\ out'[t].reply = answer
    BY <1>1, <1>3, <1>4, EndsOnly
<1>6. results'[t] = results[t] /\ ran'[t] = ran[t] /\ front' = front
    BY <1>1 DEF besideTasks
<1>7. Settled(t)' = Settled(t) /\ Answer(t)' = reply
    BY <1>0, <1>3, <1>6 DEF Settled, Answer
<1>8. TaskOK(t)'
    <2>1. results[t].how \in {"returned", "raised"}
        BY <1>2, <1>3, Names DEF Types, Settled
    <2>2. OperationEnds(t)'
        BY <1>3, <1>4, <1>5, <1>6, <1>7, <2>1 DEF OperationEnds
    <2> QED
        BY <1>2, <1>3, <1>5, <1>6, <1>7, <2>2 DEF TaskOK
<1> QED
    BY <1>1, <1>2, <1>5, <1>8, ReleasesLock

-----------------------------------------------------------------------------
(* Closing.                                                                *)

(* A close call begins: it waits for the close task.                       *)
LEMMA ClosingTask ==
    ASSUME NEW t \in Tasks, TaskOK(t), pc[t] = "idle", pc'[t] = "closing",
           call'[t].op = "aclose", results'[t] = results[t], ran'[t] = ran[t]
    PROVE  TaskOK(t)'
<1>1. ~Settled(t) /\ ~Settled(t)'
    BY DEF TaskOK, Settled
<1> QED
    BY <1>1 DEF TaskOK

(* A close call ends.                                                      *)
LEMMA ClosedTask ==
    ASSUME NEW t \in Tasks, TaskOK(t), pc[t] \in {"idle", "closing"},
           pc'[t] = "done", call'[t].op = "aclose",
           results'[t] = results[t], ran'[t] = ran[t],
           out'[t].how = "returned" =>
               closer' = "closed" /\ (front' = "cache" => cacheCloser' = "closed"),
           out'[t].how = "raised" =>
               IF front' = "cache" THEN cacheCloser' = "failed"
                                   ELSE closer' = "failed"
    PROVE  TaskOK(t)'
<1>1. ~Settled(t) /\ ~Settled(t)'
    BY DEF TaskOK, Settled
<1>2. CloseEnds(t)'
    BY <1>1 DEF CloseEnds
<1> QED
    BY <1>1, <1>2 DEF TaskOK

(* aclose of the backend.                                                  *)
LEMMA AcloseInv ==
    ASSUME Inv, NEW t \in Tasks, front = "direct", Aclose(t),
           UNCHANGED cacheVars
    PROVE  Inv'
<1>1. /\ Types /\ TaskOK(t) /\ pc[t] = "idle" /\ state # "none"
      /\ call' = [call EXCEPT ![t] = [op |-> "aclose"]]
      /\ UNCHANGED <<connection, worker, jobs, results, lockVars, opener, ran,
                     misused>>
      /\ UNCHANGED <<front, cacheState, active, cacheCloser>>
    BY DEF Aclose, Inv, cacheVars
<1>2. call'[t].op = "aclose" /\ \E c : call' = [call EXCEPT ![t] = c]
    BY <1>1 DEF Types
<1>3. UNCHANGED besideTasks
    BY <1>1 DEF besideTasks
<1>4. CASE /\ state = "closed" /\ End(t, "returned", None)
           /\ UNCHANGED <<state, closer>>
    <2>1. OnlyTask(t) /\ pc'[t] = "done" /\ out'[t].how = "returned"
        BY <1>1, <1>2, <1>4, EndsOnly
    <2>2. closer' = "closed"
        BY <1>4 DEF Inv, Life
    <2>3. TaskOK(t)'
        BY <1>1, <1>2, <2>1, <2>2, ClosedTask
    <2> QED
        BY <1>1, <1>3, <1>4, <2>1, <2>3, QuietTask
<1>5. CASE /\ BeginClose
           /\ pc' = [pc EXCEPT ![t] = "closing"]
           /\ UNCHANGED out
    <2>1. OnlyTask(t) /\ pc'[t] = "closing"
        BY <1>1, <1>2, <1>5, MovesOnly
    <2>2. TaskOK(t)'
        BY <1>1, <1>2, <2>1, ClosingTask
    <2> QED
        BY <1>1, <1>3, <1>5, <2>1, <2>2, QuietTask DEF BeginClose
<1> QED
    BY <1>4, <1>5 DEF Aclose

(* aclose of the cache.                                                    *)
LEMMA CacheAcloseInv ==
    ASSUME Inv, NEW t \in Tasks, CacheAclose(t)
    PROVE  Inv'
<1>1. /\ Types /\ TaskOK(t) /\ pc[t] = "idle" /\ front = "cache"
      /\ cacheState # "none"
      /\ call' = [call EXCEPT ![t] = [op |-> "aclose"]]
      /\ UNCHANGED <<state, connection, worker, jobs, results, lockVars,
                     opener, closer, ran, misused, front, active>>
    BY DEF CacheAclose, Inv
<1>2. call'[t].op = "aclose" /\ \E c : call' = [call EXCEPT ![t] = c]
    BY <1>1 DEF Types
<1>3. UNCHANGED besideTasks
    BY <1>1 DEF besideTasks
<1>4. state # "none"
    BY <1>1 DEF Inv, Life
<1>5. CASE /\ cacheState = "closed" /\ End(t, "returned", None)
           /\ UNCHANGED <<cacheState, cacheCloser>>
    <2>1. OnlyTask(t) /\ pc'[t] = "done" /\ out'[t].how = "returned"
        BY <1>1, <1>2, <1>5, EndsOnly
    <2>2. closer' = "closed" /\ cacheCloser' = "closed"
        BY <1>1, <1>5 DEF Inv, CacheLife
    <2>3. TaskOK(t)'
        BY <1>1, <1>2, <2>1, <2>2, ClosedTask
    <2> QED
        BY <1>1, <1>3, <1>4, <1>5, <2>1, <2>3, QuietTask
<1>6. CASE /\ IF cacheCloser = "none"
              THEN cacheState' = "closing" /\ cacheCloser' = "draining"
              ELSE UNCHANGED <<cacheState, cacheCloser>>
           /\ pc' = [pc EXCEPT ![t] = "closing"]
           /\ UNCHANGED out
    <2>1. OnlyTask(t) /\ pc'[t] = "closing"
        BY <1>1, <1>2, <1>6, MovesOnly
    <2>2. TaskOK(t)'
        BY <1>1, <1>2, <2>1, ClosingTask
    <2> QED
        BY <1>1, <1>3, <1>4, <1>6, <2>1, <2>2, QuietTask
<1> QED
    BY <1>5, <1>6 DEF CacheAclose

(* The close task has ended, and with it a call that waited for it.        *)
LEMMA CloseReturnsInv ==
    ASSUME Inv, NEW t \in Tasks,
           \/ front = "direct" /\ AcloseReturns(t) /\ UNCHANGED cacheVars
           \/ CacheAcloseReturns(t)
    PROVE  Inv'
<1>1. /\ Types /\ TaskOK(t) /\ pc[t] = "closing"
      /\ UNCHANGED <<state, connection, worker, jobs, results, lockVars,
                     opener, closer, call, ran, misused, front, cacheState,
                     active, cacheCloser>>
    BY DEF AcloseReturns, CacheAcloseReturns, Inv, cacheVars
<1>2. PICK how :
        /\ End(t, how, None)
        /\ \/ how = "cancelled"
           \/ /\ front = "direct" /\ how = Outcome(closer)
              /\ closer \in {"closed", "failed"}
           \/ /\ front = "cache" /\ how = Outcome(cacheCloser)
              /\ cacheCloser \in {"closed", "failed"}
    BY DEF AcloseReturns, CacheAcloseReturns
<1>3. OnlyTask(t) /\ pc'[t] = "done" /\ out'[t].how = how
    BY <1>1, <1>2, EndsOnly
<1>4. call'[t].op = "aclose" /\ state # "none"
    BY <1>1 DEF TaskOK, Inv, Life
<1>5. TaskOK(t)'
    BY <1>1, <1>2, <1>3, <1>4, ClosedTask DEF Outcome, Inv, CacheLife
<1>6. UNCHANGED besideTasks
    BY <1>1 DEF besideTasks
<1> QED
    BY <1>1, <1>3, <1>4, <1>5, <1>6, QuietTask

(* The close task has the lock: it submits its job.                        *)
LEMMA CloserTakesLockInv ==
    ASSUME Inv, closer \in {"start", "waiting"},
           lock = None, lock' = "close", Submit("close"), closer' = "closing",
           queue' \in Seq(Tasks \cup {"close"}), Distinct(queue)',
           \A x : In(queue, x)' <=> In(queue, x) /\ x # "close",
           UNCHANGED <<rowVars, state, connection, worker, results, opener,
                       taskVars, ran, misused, cacheVars>>
    PROVE  Inv'
<1> USE Names DEF Inv, rowVars, lockVars, taskVars, cacheVars
<1>1. state = "closing"
    BY DEF Life
<1>2. jobs = <<>> /\ jobs' = <<"close">> /\ jobs' \in Seq(Jobs)
      /\ Len(jobs') <= 1
    BY <1>1, WorkerIdle, Submits
<1>c1. Types'
    BY <1>2 DEF Types
<1>c2. OneJob'
    <2>1. ~Settled("close")' /\ ~misused'
        BY DEF Settled, OneJob, Closing
    <2>2. \A j \in Jobs : jobs' = <<j>> => j = "close"
        BY <1>2
    <2> QED
        BY <1>2, <2>1, <2>2 DEF OneJob
<1>c3. LockHeld'
    BY DEF LockHeld
<1>c4. LockWaited'
    BY DEF LockWaited
<1>c5. Life'
    BY DEF Life
<1>c6. CacheLife'
    BY DEF CacheLife
<1>c7. Opening'
    BY DEF Opening, Settled, Types
<1>c8. Closing'
    BY DEF Closing, Settled, Types
<1>c9. \A u \in Tasks : TaskOK(u)'
    BY SameTask
<1> QED
    BY <1>c1, <1>c2, <1>c3, <1>c4, <1>c5, <1>c6, <1>c7, <1>c8, <1>c9

(* The close task starts.                                                  *)
LEMMA CloserStartsInv ==
    ASSUME Inv, CloserStarts, UNCHANGED cacheVars
    PROVE  Inv'
<1>1. CASE /\ Free /\ lock' = "close" /\ Submit("close")
           /\ closer' = "closing" /\ UNCHANGED queue
    <2>1. queue' \in Seq(Tasks \cup {"close"}) /\ Distinct(queue)'
        BY <1>1 DEF Inv, Types, LockWaited
    <2>2. \A x : In(queue, x)' <=> In(queue, x) /\ x # "close"
        BY <1>1 DEF Free, In
    <2> QED
        BY <1>1, <2>1, <2>2, CloserTakesLockInv DEF CloserStarts, Free
<1>2. CASE /\ queue' = Append(queue, "close") /\ closer' = "waiting"
           /\ UNCHANGED <<lock, jobs>>
    <2> USE Names DEF Inv, CloserStarts, rowVars, taskVars, cacheVars
    <2>0. closer = "start" /\ state = "closing"
        BY DEF Life
    <2>1. /\ queue' \in Seq(Tasks \cup {"close"})
          /\ \A x : In(queue', x) <=> In(queue, x) \/ x = "close"
          /\ Distinct(queue')
        <3>1. /\ Append(queue, "close") \in Seq(Tasks \cup {"close"})
              /\ \A x : In(Append(queue, "close"), x) <=>
                            In(queue, x) \/ x = "close"
              /\ Distinct(queue) /\ ~In(queue, "close") =>
                     Distinct(Append(queue, "close"))
            BY AppendIn DEF Types
        <3> QED
            BY <1>2, <2>0, <3>1 DEF LockWaited
    <2>2. Types'
        BY <1>2, <2>1 DEF Types
    <2>3. OneJob'
        BY <1>2, <2>0 DEF OneJob, Settled
    <2>4. LockHeld'
        BY <1>2, <2>0 DEF LockHeld
    <2>5. LockWaited'
        BY <1>2, <2>1 DEF LockWaited
    <2>6. Life'
        BY <1>2, <2>0 DEF Life
    <2>7. CacheLife'
        BY <1>2, <2>0 DEF CacheLife
    <2>8. Opening'
        BY DEF Opening, Settled
    <2>9. Closing'
        BY <1>2, <2>0 DEF Closing, Settled
    <2>10. \A u \in Tasks : TaskOK(u)'
        BY <2>0, SameTask
    <2> QED
        BY <2>2, <2>3, <2>4, <2>5, <2>6, <2>7, <2>8, <2>9, <2>10
<1> QED
    BY <1>1, <1>2 DEF CloserStarts

(* The lock reaches the close task.                                        *)
LEMMA CloserAdmittedInv ==
    ASSUME Inv, CloserAdmitted, UNCHANGED cacheVars
    PROVE  Inv'
<1>1. /\ closer = "waiting" /\ lock = None /\ Head(queue) = "close"
      /\ queue' = Tail(queue) /\ lock' = "close"
      /\ Submit("close") /\ closer' = "closing"
      /\ UNCHANGED <<rowVars, state, connection, worker, results, opener,
                     taskVars, ran, misused, cacheVars>>
    BY DEF CloserAdmitted
<1>2. queue # <<>>
    BY <1>1 DEF Inv, LockWaited, In
<1>3. queue \in Seq(Tasks \cup {"close"}) /\ Distinct(queue)
    BY DEF Inv, Types, LockWaited
<1>4. /\ queue' \in Seq(Tasks \cup {"close"}) /\ Distinct(queue')
      /\ \A x : In(queue', x) <=> In(queue, x) /\ x # "close"
    BY <1>1, <1>2, <1>3, TailIn
<1> QED
    BY <1>1, <1>4, CloserTakesLockInv

(* The close task ends.                                                    *)
LEMMA CloserEndsInv ==
    ASSUME Inv, CloserEnds, UNCHANGED cacheVars
    PROVE  Inv'
<1> USE Names DEF Inv, CloserEnds, rowVars, lockVars, taskVars, cacheVars
<1>1. /\ closer' \in {"closed", "failed", "cancelled"}
      /\ closer' = "closed" => /\ results["close"].how = "returned"
                               /\ state' = "closed"
      /\ closer' # "closed" => state' = "failed"
    BY DEF Settled
<1>2. state = "closing"
    BY DEF Life
<1>c1. Types'
    BY <1>1 DEF Types
<1>c2. OneJob'
    BY DEF OneJob
<1>c3. LockHeld'
    BY <1>1 DEF LockHeld
<1>c4. LockWaited'
    BY <1>1 DEF LockWaited
<1>c5. Life'
    BY <1>1, <1>2 DEF Life
<1>c6. CacheLife'
    BY <1>1 DEF CacheLife
<1>c7. Opening'
    BY <1>1, <1>2 DEF Opening, Settled, Life
<1>c8. Closing'
    BY <1>1 DEF Closing, Settled
<1>c9. \A u \in Tasks : TaskOK(u)'
    BY SameTask
<1> QED
    BY <1>c1, <1>c2, <1>c3, <1>c4, <1>c5, <1>c6, <1>c7, <1>c8, <1>c9

(* The close task is cancelled before its first step or while it waits.    *)
LEMMA CloserCancelledInv ==
    ASSUME Inv, CloserCancelled, UNCHANGED cacheVars
    PROVE  Inv'
<1> USE Names DEF Inv, rowVars, taskVars, cacheVars
<1>1. /\ closer' = "cancelled" /\ closer \in {"start", "waiting"}
      /\ UNCHANGED <<connection, jobs, results, lock, opener, pc, call, out,
                     ran, misused, front, cacheState, active, cacheCloser>>
    BY DEF CloserCancelled
<1>2. state = "closing" /\ opener = "returned"
    BY <1>1 DEF Life
<1>3. state' \in {"closing", "failed"}
    BY <1>2 DEF CloserCancelled
<1>4. /\ queue' \in Seq(Tasks \cup {"close"}) /\ Distinct(queue')
      /\ \A x : In(queue', x) <=> In(queue, x) /\ x # "close"
    <2>0. queue \in Seq(Tasks \cup {"close"}) /\ Distinct(queue)
        BY DEF Types, LockWaited
    <2>1. CASE closer = "start" /\ UNCHANGED queue
        BY <2>0, <2>1 DEF LockWaited
    <2>2. CASE LeavesQueue("close")
        <3>1. PICK i \in DOMAIN queue :
                queue[i] = "close" /\ queue' = RemoveAt(queue, i)
            BY <2>2 DEF LeavesQueue
        <3> QED
            BY <2>0, <3>1, RemoveIn
    <2> QED
        BY <2>1, <2>2 DEF CloserCancelled
<1>5. Types'
    BY <1>1, <1>3, <1>4 DEF Types
<1>6. OneJob'
    BY <1>1 DEF OneJob, Settled
<1>7. LockHeld'
    BY <1>1 DEF LockHeld
<1>8. LockWaited'
    BY <1>1, <1>4 DEF LockWaited
<1>9. Life'
    BY <1>1, <1>2, <1>3 DEF Life
<1>10. CacheLife'
    BY <1>1 DEF CacheLife
<1>11. Opening'
    BY <1>1, <1>2 DEF Opening, Settled
<1>12. Closing'
    BY <1>1 DEF Closing, Settled
<1>13. \A u \in Tasks : TaskOK(u)'
    BY <1>1, SameTask
<1> QED
    BY <1>5, <1>6, <1>7, <1>8, <1>9, <1>10, <1>11, <1>12, <1>13

(* The cache's close task: drained, done, or cancelled.                    *)
LEMMA CacheCloseInv ==
    ASSUME Inv, CacheCloseStep
    PROVE  Inv'
<1> USE Names DEF Inv, CacheCloseStep, CacheDrained, CacheClosed, BeginClose,
       CacheCloserCancelled, backendVars, rowVars, lockVars, taskVars, cacheVars
<1>c1. Types'
    BY DEF Types
<1>c2. OneJob'
    BY DEF OneJob, Settled, Types
<1>c3. LockHeld'
    BY DEF LockHeld, Types
<1>c4. LockWaited'
    BY DEF LockWaited, Types
<1>c5. Life'
    BY DEF Life, CacheLife, Types
<1>c6. CacheLife'
    BY DEF CacheLife, Life, Types
<1>c7. Opening'
    BY DEF Opening, Settled, Types
<1>c8. Closing'
    BY DEF Closing, Settled, Types
<1>c9. \A u \in Tasks : TaskOK(u)'
    BY SameTask
<1> QED
    BY <1>c1, <1>c2, <1>c3, <1>c4, <1>c5, <1>c6, <1>c7, <1>c8, <1>c9

(* Every step preserves Inv.                                               *)
LEMMA NextInv ==
    ASSUME Inv, [Next]_vars
    PROVE  Inv'
<1>1. CASE UNCHANGED vars
    <2> USE <1>1 DEF Inv, vars, backendVars, rowVars, lockVars, taskVars,
                     cacheVars
    <2>1. (/\ Types /\ OneJob /\ LockHeld /\ LockWaited
           /\ Life /\ CacheLife /\ Opening /\ Closing)'
        BY DEF Types, OneJob, LockHeld, LockWaited, Life, CacheLife, Opening,
               Closing, Settled
    <2>2. \A t \in Tasks : TaskOK(t)'
        BY SameTask
    <2> QED
        BY <2>1, <2>2
<1>2. ASSUME NEW t \in Tasks, Request(t) PROVE Inv'
    <2>1. ASSUME NEW c \in Calls[t], Start(t, c), UNCHANGED cacheVars
          PROVE  Inv'
        BY <2>1, StartInv DEF cacheVars
    <2> QED
        BY <1>2, <2>1, CacheStartInv, AcloseInv, CacheAcloseInv DEF Request
<1>3. ASSUME NEW t \in Tasks, TaskStep(t) PROVE Inv'
    BY <1>3, AdmitInv, WithdrawInv, ResumeInv, CloseReturnsInv DEF TaskStep
<1>4. CASE WorkerStep
    BY <1>4, WorkerRunsInv, WorkerClosesInv, WorkerOpensInv DEF WorkerStep
<1>5. CASE OpenStep
    BY <1>5, OpenStartsInv, CacheOpenInv, OpenUndoneInv DEF OpenStep
<1>6. CASE CloseStep
    BY <1>6, CloserStartsInv, CloserAdmittedInv, CloserEndsInv,
       CloserCancelledInv DEF CloseStep
<1>7. CASE CacheCloseStep
    BY <1>7, CacheCloseInv
<1>8. CASE Interruption
    BY <1>8, CancelInv
<1> QED
    BY <1>1, <1>2, <1>3, <1>4, <1>5, <1>6, <1>7, <1>8 DEF Next

(* Inv is an invariant of the backend and its cache.                       *)
THEOREM InvHolds == Spec => []Inv
<1>1. Inv /\ [Next]_vars => Inv'
    BY NextInv
<1> QED
    BY InitInv, <1>1, PTL DEF Spec

-----------------------------------------------------------------------------
(* A call that has ended left no job, no claim on the lock and no place    *)
(* among the active operations, and an open that raised no connection:     *)
(* OneJob, LockHeld, LockWaited, CacheLife and Opening.                    *)
THEOREM NothingLeft == Spec => []EndedLeavesNothing
<1>1. Inv => EndedLeavesNothing
    <2> SUFFICES ASSUME Inv PROVE EndedLeavesNothing
        OBVIOUS
    <2>1. ASSUME NEW t \in Tasks, Ended(t)
          PROVE  ~OnWorker(t) /\ lock # t /\ ~Waits(t) /\ t \notin active
        <3>1. pc[t] = "done"
            BY <2>1 DEF Ended
        <3>2. ~OnWorker(t)
            <4> SUFFICES ASSUME In(jobs, t) PROVE FALSE
                BY DEF OnWorker, In
            <4>1. jobs = <<t>>
                BY OneElement DEF Inv, Types, OneJob
            <4> QED
                BY <3>1, <4>1, Names DEF Inv, OneJob
        <3>3. lock # t
            BY <3>1 DEF Inv, LockHeld
        <3>4. ~Waits(t)
            BY <3>1 DEF Inv, LockWaited, In, Waits
        <3>5. t \notin active
            BY <3>1 DEF Inv, CacheLife
        <3> QED
            BY <3>2, <3>3, <3>4, <3>5
    <2> QED
        BY <2>1 DEF Inv, OneJob, Opening, EndedLeavesNothing
<1> QED
    BY InvHolds, <1>1, PTL

(* A close call is none of the operations.                                 *)
LEMMA OperationsDoNotClose ==
    ASSUME NEW t \in Tasks, call[t] \in Calls[t]
    PROVE  call[t].op # "aclose"
BY CallsAssumption DEF IsCall

(* A close that returned has released everything, and no two close calls   *)
(* disagree: CloseEnds, Closing and CacheLife.                             *)
THEOREM CloseIsFinal == Spec => []CloseReleases
<1>1. Inv => CloseReleases
    <2> SUFFICES ASSUME Inv PROVE CloseReleases
        OBVIOUS
    <2>1. ASSUME NEW t \in Tasks, CloseCall(t) PROVE CloseEnds(t)
        BY <2>1, OperationsDoNotClose
           DEF CloseCall, Ended, Inv, TaskOK, OperationEnds
    <2>2. ASSUME NEW t \in Tasks, CloseCall(t), out[t].how = "returned"
          PROVE  /\ connection = "closed" /\ worker = "down" /\ jobs = <<>>
                 /\ state = "closed"
                 /\ front = "cache" => cacheState = "closed" /\ active = {}
        BY <2>1, <2>2 DEF CloseEnds, Inv, Closing, Life, CacheLife
    <2>3. ASSUME NEW t \in Tasks, NEW u \in Tasks, CloseCall(t),
                 CloseCall(u), out[t].how = "returned"
          PROVE  out[u].how # "raised"
        BY <2>1, <2>3 DEF CloseEnds
    <2> QED
        BY <2>2, <2>3 DEF CloseReleases
<1> QED
    BY InvHolds, <1>1, PTL

-----------------------------------------------------------------------------
(* The rows.                                                               *)

(* o2 and b2 come after o and b: an object row is never changed, and a     *)
(* binding only by deleting its key.                                       *)
Follows(o, b, o2, b2, gone) ==
    /\ \A r \in References : o[r] # None => o2[r] = o[r]
    /\ \A k \in Keys : b[k] # None => k \in gone \/ b2[k] = b[k]

(* What a result says stays true.                                          *)
LEMMA StaysTrue ==
    ASSUME NEW c, IsCall(c), NEW reply, NEW o, NEW b, NEW gone,
           NEW o2, NEW b2, NEW gone2,
           Says(c, reply, o, b, gone), gone \subseteq gone2,
           Follows(o, b, o2, b2, gone2)
    PROVE  Says(c, reply, o2, b2, gone2)
<1> USE RowsAssumption DEF Says, Follows
<1>1. CASE c.op = "put_object"
    BY <1>1 DEF IsCall
<1>2. CASE c.op = "get_object"
    BY <1>2
<1>3. CASE c.op = "bind"
    BY <1>3 DEF IsCall
<1>4. CASE c.op = "get_binding"
    BY <1>4 DEF IsCall
<1>5. CASE c.op = "get_bound_objects"
    BY <1>5
<1>6. CASE c.op = "delete_bindings"
    BY <1>6
<1>7. CASE c.op = "put_bound_objects"
    BY <1>7 DEF IsCall
<1> QED
    BY <1>1, <1>2, <1>3, <1>4, <1>5, <1>6, <1>7 DEF IsCall

(* A set with no two elements in it.                                       *)
LEMMA AtMostOne ==
    ASSUME NEW S, IsFiniteSet(S), ~(Cardinality(S) > 1),
           NEW v \in S, NEW w \in S
    PROVE  v = w
<1> SUFFICES ASSUME v # w PROVE FALSE
    OBVIOUS
<1>1. IsFiniteSet({v}) /\ Cardinality({v}) = 1
    BY FS_Singleton
<1>2. Cardinality({v} \cup {w}) = 2
    BY <1>1, FS_AddElement
<1>3. {v} \cup {w} \in SUBSET S
    OBVIOUS
<1>4. Cardinality({v} \cup {w}) <= Cardinality(S) /\ Cardinality(S) \in Nat
    BY <1>3, FS_Subset, FS_CardinalityType
<1> QED
    BY <1>2, <1>4

(* A batch that does not conflict leaves each of its texts stored: those   *)
(* it proposes for one row, and the one that is there, are the same.       *)
LEMMA InsertsAll ==
    ASSUME IsObjects(objects), NEW entries,
           IsFiniteSet(DOMAIN entries),
           \A k \in DOMAIN entries :
               entries[k][1] \in References /\ entries[k][2] \in Texts,
           ~Conflicts(entries)
    PROVE  /\ IsObjects(InsertObjects(entries))
           /\ \A r \in References :
                objects[r] # None => InsertObjects(entries)[r] = objects[r]
           /\ \A k \in DOMAIN entries :
                InsertObjects(entries)[entries[k][1]] = entries[k][2]
<1>1. ASSUME NEW r \in References
      PROVE  /\ Proposed(entries, r) \subseteq Texts
             /\ IsFiniteSet(Proposed(entries, r))
    <2> DEFINE D == {j \in DOMAIN entries : entries[j][1] = r}
               P == Proposed(entries, r)
               f == [j \in D |-> entries[j][2]]
    <2>1. IsFiniteSet(D)
        BY FS_Subset
    <2>2. f \in Surjection(D, P)
        BY DEF Surjection, Proposed
    <2>3. IsFiniteSet(P)
        BY <2>1, <2>2, FS_Surjection
    <2> QED
        BY <2>3 DEF Proposed
<1>2. ASSUME NEW r \in References, Proposed(entries, r) # {}
      PROVE  (CHOOSE text \in Proposed(entries, r) : TRUE)
                \in Proposed(entries, r)
    BY <1>2
<1>3. IsObjects(InsertObjects(entries))
    <2>1. ASSUME NEW r \in References
          PROVE  InsertObjects(entries)[r] \in Texts \cup {None}
        BY <1>1, <1>2 DEF InsertObjects, IsObjects
    <2> QED
        BY <2>1 DEF InsertObjects, IsObjects
<1>4. ASSUME NEW k \in DOMAIN entries
      PROVE  InsertObjects(entries)[entries[k][1]] = entries[k][2]
    <2>1. PICK r \in References : r = entries[k][1]
        OBVIOUS
    <2> DEFINE P == Proposed(entries, r)
               S == (P \cup {objects[r]}) \ {None}
    <2>2. entries[k][2] \in P /\ entries[k][2] \in S
        BY <2>1, RowsAssumption DEF Proposed
    <2>3. IsFiniteSet(S)
        BY <1>1, FS_AddElement, FS_RemoveElement
    <2>4. ~(Cardinality(S) > 1)
        BY <2>2 DEF Conflicts
    <2>5. InsertObjects(entries)[r] \in S
        <3>1. CASE objects[r] = None
            <4>1. InsertObjects(entries)[r] = CHOOSE text \in P : TRUE
                BY <2>2, <3>1 DEF InsertObjects
            <4>2. InsertObjects(entries)[r] \in P
                BY <1>2, <2>2, <4>1
            <4>3. None \notin P
                BY <1>1, RowsAssumption
            <4> QED
                BY <4>2, <4>3
        <3>2. CASE objects[r] # None
            BY <3>2 DEF InsertObjects
        <3> QED
            BY <3>1, <3>2
    <2> HIDE DEF S
    <2>6. InsertObjects(entries)[r] = entries[k][2]
        BY <2>2, <2>3, <2>4, <2>5, AtMostOne
    <2> QED
        BY <2>1, <2>6
<1> QED
    BY <1>3, <1>4 DEF InsertObjects

(* The rows an operation leaves are well formed and follow the ones it     *)
(* found, and what it returns is true of them.                             *)
LEMMA EffectRows ==
    ASSUME IsObjects(objects), IsBindings(bindings),
           NEW c, IsCall(c), NEW e \in Effects(c), NEW gone,
           c.op = "delete_bindings" => c.keys \subseteq gone
    PROVE  /\ IsObjects(e.objects) /\ IsBindings(e.bindings)
           /\ Follows(objects, bindings, e.objects, e.bindings, gone)
           /\ e.how = "returned" =>
                Says(c, e.reply, e.objects, e.bindings, gone)
<1> USE RowsAssumption DEF Rows, Follows, Says, IsObjects, IsBindings
<1>1. CASE c.op = "put_object"
    <2>1. e = PutObject(c.ref, c.text) /\ c.ref \in References /\ c.text \in Texts
        BY <1>1 DEF Effects, IsCall
    <2> QED
        BY <1>1, <2>1 DEF PutObject
<1>2. CASE c.op = "get_object"
    <2>1. /\ e.objects = objects /\ e.bindings = bindings
          /\ \/ e.reply = None
             \/ \E r \in References :
                    objects[r] # None /\ e.reply = <<r, objects[r]>>
        BY <1>2 DEF Effects, IsCall, GetObject
    <2> QED
        BY <1>2, <2>1
<1>3. CASE c.op = "bind"
    <2>1. e = Bind(c.key, c.ref) /\ c.key \in Keys /\ c.ref \in References
        BY <1>3 DEF Effects, IsCall
    <2> QED
        BY <1>3, <2>1 DEF Bind
<1>4. CASE c.op = "get_binding"
    BY <1>4 DEF Effects, IsCall, GetBinding
<1>5. CASE c.op = "get_bound_objects"
    <2>1. e = GetBoundObjects(c.keys) /\ c.keys \subseteq Keys
        BY <1>5 DEF Effects, IsCall
    <2> QED
        BY <1>5, <2>1 DEF GetBoundObjects
<1>6. CASE c.op = "delete_bindings"
    <2>1. e = DeleteBindings(c.keys)
        BY <1>6 DEF Effects
    <2> QED
        BY <1>6, <2>1 DEF DeleteBindings
<1>7. CASE c.op = "put_bound_objects"
    <2>1. /\ e = PutBoundObjects(c.entries)
          /\ DOMAIN c.entries \subseteq Keys /\ IsFiniteSet(DOMAIN c.entries)
          /\ \A k \in DOMAIN c.entries :
                c.entries[k][1] \in References /\ c.entries[k][2] \in Texts
        BY <1>7 DEF Effects, IsCall
    <2>2. CASE Conflicts(c.entries)
        BY <2>1, <2>2 DEF PutBoundObjects, Conflict
    <2>3. CASE ~Conflicts(c.entries)
        <3>1. /\ e.objects = InsertObjects(c.entries)
              /\ e.bindings = InsertBindings(c.entries)
              /\ e.reply = [k \in DOMAIN c.entries |->
                                InsertBindings(c.entries)[k]]
            BY <2>1, <2>3 DEF PutBoundObjects
        <3>2. /\ IsObjects(e.objects)
              /\ \A r \in References :
                    objects[r] # None => e.objects[r] = objects[r]
              /\ \A k \in DOMAIN c.entries :
                    e.objects[c.entries[k][1]] = c.entries[k][2]
            BY <2>1, <2>3, <3>1, InsertsAll
        <3>3. /\ IsBindings(e.bindings)
              /\ \A k \in Keys : bindings[k] # None => e.bindings[k] = bindings[k]
              /\ \A k \in DOMAIN c.entries : e.bindings[k] # None
            BY <2>1, <3>1 DEF InsertBindings
        <3>4. \A k \in DOMAIN c.entries : e.reply[k] = e.bindings[k]
            BY <3>1
        <3> QED
            BY <1>7, <3>2, <3>3, <3>4
    <2> QED
        BY <2>2, <2>3
<1> QED
    BY <1>1, <1>2, <1>3, <1>4, <1>5, <1>6, <1>7 DEF IsCall

(* RowInv holds of every file that may be opened.                          *)
LEMMA InitRows == Init => RowInv
<1> SUFFICES ASSUME Init PROVE RowInv
    OBVIOUS
<1>1. IsObjects(objects) /\ IsBindings(bindings)
    BY RowsAssumption DEF Init, InitBackend, IsObjects, IsBindings
<1>2. \A t \in Tasks : results[t].how = "pending"
    BY DEF Init, InitBackend, Pends, Jobs
<1> QED
    BY <1>1, <1>2 DEF RowInv

(* A task that has begun keeps its call.                                   *)
LEMMA CallKept ==
    ASSUME Inv, [Next]_vars, NEW t \in Tasks, pc[t] # "idle"
    PROVE  call'[t] = call[t]
<1> USE DEF taskVars
<1>1. CASE UNCHANGED vars
    BY <1>1 DEF vars, backendVars
<1>2. ASSUME NEW u \in Tasks, Request(u) PROVE call'[t] = call[t]
    <2>1. pc[u] = "idle" /\ \E c : call' = [call EXCEPT ![u] = c]
        BY <1>2 DEF Request, Start, CacheStart, Aclose, CacheAclose
    <2> QED
        BY <2>1 DEF Inv, Types
<1>3. ASSUME NEW u \in Tasks, TaskStep(u) PROVE call'[t] = call[t]
    BY <1>3 DEF TaskStep, Leaves, Admit, Withdraw, Resume, AcloseReturns,
                CacheAcloseReturns
<1>4. CASE WorkerStep
    BY <1>4 DEF WorkerStep, WorkerRuns, WorkerCloses, WorkerOpens
<1>5. CASE OpenStep
    BY <1>5 DEF OpenStep, OpenStarts, CacheOpen, OpenSettles, OpenUndone
<1>6. CASE CloseStep
    BY <1>6 DEF CloseStep, CloserStarts, CloserAdmitted, CloserEnds,
                CloserCancelled
<1>7. CASE CacheCloseStep
    BY <1>7 DEF CacheCloseStep, CacheDrained, CacheClosed,
                CacheCloserCancelled, backendVars
<1>8. CASE Interruption
    BY <1>8 DEF Interruption, Cancel, CacheTearDown, TearDown
<1> QED
    BY <1>1, <1>2, <1>3, <1>4, <1>5, <1>6, <1>7, <1>8 DEF Next

(* No row, no history and no result of an operation has changed.           *)
SameRows ==
    /\ UNCHANGED <<objects, bindings, ran>>
    /\ \A t \in Tasks : results'[t] = results[t]

(* Only the worker, running an operation, changes rows or settles it.      *)
LEMMA OnlyWorkerWrites ==
    ASSUME Inv, [Next]_vars, ~(WorkerRuns /\ UNCHANGED cacheVars)
    PROVE  SameRows
<1> USE DEF rowVars, SameRows
<1>1. CASE UNCHANGED vars
    BY <1>1 DEF vars, backendVars
<1>2. ASSUME NEW u \in Tasks, Request(u) PROVE SameRows
    BY <1>2 DEF Request, Start, CacheStart, Aclose, CacheAclose
<1>3. ASSUME NEW u \in Tasks, TaskStep(u) PROVE SameRows
    BY <1>3 DEF TaskStep, Leaves, Admit, Withdraw, Resume, AcloseReturns,
                CacheAcloseReturns
<1>4. CASE WorkerStep
    <2>1. PICK j \in {"open", "undo", "close"}, how \in {"returned", "raised"} :
            /\ results' = [results EXCEPT
                             ![j] = [how |-> how, reply |-> None]]
            /\ UNCHANGED <<rowVars, ran>>
        BY <1>4 DEF WorkerStep, WorkerCloses, WorkerOpens, Settle
    <2>2. PICK result : result = [how |-> how, reply |-> None]
        OBVIOUS
    <2>3. results' = [results EXCEPT ![j] = result]
        BY <2>1, <2>2
    <2>4. \A t \in Tasks : results'[t] = results[t]
        BY <2>3, Names DEF Inv, Types
    <2> QED
        BY <2>1, <2>4
<1>5. CASE OpenStep
    BY <1>5 DEF OpenStep, OpenStarts, CacheOpen, OpenSettles, OpenUndone
<1>6. CASE CloseStep
    BY <1>6 DEF CloseStep, CloserStarts, CloserAdmitted, CloserEnds,
                CloserCancelled
<1>7. CASE CacheCloseStep
    BY <1>7 DEF CacheCloseStep, CacheDrained, CacheClosed,
                CacheCloserCancelled, backendVars
<1>8. CASE Interruption
    BY <1>8 DEF Interruption, Cancel, CacheTearDown, TearDown
<1> QED
    BY <1>1, <1>2, <1>3, <1>4, <1>5, <1>6, <1>7, <1>8 DEF Next

(* Every step preserves RowInv.                                            *)
LEMMA NextRows ==
    ASSUME Inv, RowInv, [Next]_vars
    PROVE  RowInv'
<1>1. \A t \in Tasks : Settled(t) => call'[t] = call[t] /\ IsCall(call[t])
    BY CallKept, CallsAssumption DEF Inv, TaskOK
<1>2. \A t \in Tasks : ran[t] > 0 => Settled(t)
    BY DEF Inv, TaskOK
<1>3. CASE SameRows
    <2>1. Gone \subseteq Gone'
        BY <1>1, <1>2, <1>3 DEF Gone, Deleted, SameRows
    <2>2. ASSUME NEW t \in Tasks, results'[t].how = "returned"
          PROVE  Says(call[t], results[t].reply, objects, bindings, Gone)'
        <3>1. /\ results'[t] = results[t] /\ Settled(t)
              /\ UNCHANGED <<objects, bindings>>
            BY <1>3, <2>2 DEF SameRows, Settled
        <3>2. /\ call'[t] = call[t] /\ IsCall(call[t])
              /\ Says(call[t], results[t].reply, objects, bindings, Gone)
            BY <1>1, <2>2, <3>1 DEF RowInv
        <3>3. Follows(objects, bindings, objects', bindings', Gone')
            BY <3>1 DEF Follows
        <3>4. PICK c, reply, o, b, gone, o2, b2, gone2 :
                /\ c = call[t] /\ reply = results[t].reply
                /\ o = objects /\ b = bindings /\ gone = Gone
                /\ o2 = objects' /\ b2 = bindings' /\ gone2 = Gone'
            OBVIOUS
        <3>5. Says(c, reply, o2, b2, gone2)
            BY <2>1, <3>2, <3>3, <3>4, StaysTrue
        <3> QED
            BY <3>1, <3>2, <3>4, <3>5
    <2> QED
        BY <1>3, <2>2 DEF RowInv, SameRows
<1>4. CASE WorkerRuns /\ UNCHANGED cacheVars
    <2>1. PICK t \in Tasks : \E result : Runs(t, result)
        BY <1>4, RunsOne
    <2>2. PICK result : Runs(t, result)
        BY <2>1
    <2>3. /\ results'[t] = result /\ ~Settled(t) /\ pc[t] = "running"
          /\ \A u \in Tasks : u # t => results'[u] = results[u]
        BY <2>2, Names DEF Runs, Inv, Types, OneJob
    <2>4. /\ ran'[t] > 0 /\ call'[t] = call[t] /\ IsCall(call[t])
          /\ \A u \in Tasks : ran[u] > 0 => ran'[u] > 0
        <3>1. call'[t] = call[t] /\ IsCall(call[t])
            BY <2>3, CallKept, CallsAssumption DEF Inv, TaskOK
        <3>2. ran' = [ran EXCEPT ![t] = @ + 1] /\ ran \in [Tasks -> Nat]
            BY <2>2 DEF Runs, Inv, Types
        <3> QED
            BY <3>1, <3>2
    <2>5. Gone \subseteq Gone'
        BY <1>1, <1>2, <2>4 DEF Gone, Deleted
    <2>6. call[t].op = "delete_bindings" => call[t].keys \subseteq Gone'
        BY <2>4 DEF Gone, Deleted, IsCall
    <2>7. PICK c, o, b, gone, o2, b2, gone2 :
            /\ c = call[t]
            /\ o = objects /\ b = bindings /\ gone = Gone
            /\ o2 = objects' /\ b2 = bindings' /\ gone2 = Gone'
        OBVIOUS
    <2>8. /\ IsObjects(o2) /\ IsBindings(b2)
          /\ Follows(o, b, o2, b2, gone2)
          /\ result.how = "returned" => Says(c, result.reply, o2, b2, gone2)
        <3>1. CASE \E e \in Effects(c) :
                     /\ o2 = e.objects /\ b2 = e.bindings
                     /\ result = [how |-> e.how, reply |-> e.reply]
            <4>1. PICK e \in Effects(c) :
                     /\ o2 = e.objects /\ b2 = e.bindings
                     /\ result = [how |-> e.how, reply |-> e.reply]
                BY <3>1
            <4>2. IsObjects(objects) /\ IsBindings(bindings)
                BY DEF RowInv
            <4>3. c.op = "delete_bindings" => c.keys \subseteq gone2
                BY <2>6, <2>7
            <4>4. /\ IsObjects(o2) /\ IsBindings(b2)
                  /\ Follows(objects, bindings, o2, b2, gone2)
                  /\ e.how = "returned" => Says(c, e.reply, o2, b2, gone2)
                BY <2>4, <2>7, <4>1, <4>2, <4>3, EffectRows
            <4>5. result.how = e.how /\ result.reply = e.reply
                BY <4>1
            <4> QED
                BY <2>7, <4>4, <4>5
        <3>2. CASE o2 = o /\ b2 = b /\ result.how = "raised"
            BY <2>7, <3>2 DEF Follows, RowInv
        <3> QED
            BY <2>2, <2>7, <3>1, <3>2 DEF Runs, rowVars
    <2>9. ASSUME NEW u \in Tasks, results'[u].how = "returned"
          PROVE  Says(call[u], results[u].reply, objects, bindings, Gone)'
        <3>1. CASE u = t
            BY <2>3, <2>4, <2>7, <2>8, <2>9, <3>1
        <3>2. CASE u # t
            <4>1. results'[u] = results[u] /\ Settled(u)
                BY <2>3, <2>9, <3>2 DEF Settled
            <4>2. /\ call'[u] = call[u] /\ IsCall(call[u])
                  /\ Says(call[u], results[u].reply, objects, bindings, Gone)
                BY <1>1, <2>9, <4>1 DEF RowInv
            <4>3. PICK d, reply : d = call[u] /\ reply = results[u].reply
                OBVIOUS
            <4>4. Says(d, reply, o2, b2, gone2)
                BY <2>5, <2>7, <2>8, <4>2, <4>3, StaysTrue
            <4> QED
                BY <2>7, <4>1, <4>2, <4>3, <4>4
        <3> QED
            BY <3>1, <3>2
    <2> QED
        BY <2>7, <2>8, <2>9 DEF RowInv
<1> QED
    BY <1>3, <1>4, OnlyWorkerWrites

(* RowInv is an invariant.                                                 *)
THEOREM RowInvHolds == Spec => []RowInv
<1>1. Inv /\ RowInv /\ [Next]_vars => RowInv'
    BY NextRows
<1> QED
    BY InitRows, InvHolds, <1>1, PTL DEF Spec

(* What a returned call answers is true of the rows.                       *)
LEMMA Answers ==
    ASSUME Inv, RowInv, NEW t \in Tasks, OperationEnds(t),
           out[t].how = "returned"
    PROVE  AnswerTrue(t)
<1>1. PICK c, rows : c = call[t] /\ rows = results[t].reply
    OBVIOUS
<1>2. /\ IsCall(c) /\ results[t].how = "returned"
      /\ out[t].reply = IF front = "cache" THEN CacheReply(c, rows) ELSE rows
    BY <1>1, CallsAssumption DEF OperationEnds, Answer
<1>3. Says(c, rows, objects, bindings, Gone)
    BY <1>1, <1>2 DEF RowInv
<1>4. c.op # "get_bound_objects" => out[t].reply = rows
    BY <1>2 DEF CacheReply
<1> USE <1>1, <1>2, <1>3 DEF AnswerTrue
<1>5. CASE c.op = "put_object"
    BY <1>4, <1>5 DEF Says
<1>6. CASE c.op = "get_object"
    BY <1>4, <1>6 DEF Says
<1>7. CASE c.op = "bind"
    BY <1>4, <1>7 DEF Says, Gone
<1>8. CASE c.op = "get_binding"
    BY <1>4, <1>8 DEF Says, Gone
<1>9. CASE c.op = "get_bound_objects"
    <2>1. PICK reply : reply = out[t].reply
        OBVIOUS
    <2>2. ASSUME NEW k \in DOMAIN reply
          PROVE  /\ k \in DOMAIN rows /\ reply[k] = rows[k]
                 /\ front = "cache" => /\ rows[k][1].schema = c.schema
                                       /\ rows[k][2] = TextOf[rows[k][1].hash]
        BY <1>9, <2>1 DEF CacheReply, Hit
    <2>3. ASSUME NEW k \in DOMAIN reply
          PROVE  /\ Deleted(k) \/ bindings[k] = reply[k][1]
                 /\ reply[k][2] # None => objects[reply[k][1]] = reply[k][2]
        BY <1>9, <2>2 DEF Says, Gone
    <2> QED
        BY <1>9, <2>1, <2>2, <2>3
<1>10. CASE c.op = "delete_bindings"
    BY <1>10
<1>11. CASE c.op = "put_bound_objects"
    BY <1>4, <1>11 DEF Says, Gone
<1> QED
    BY <1>5, <1>6, <1>7, <1>8, <1>9, <1>10, <1>11 DEF IsCall

(* An operation runs at most once, on an open connection; one that was     *)
(* refused or withdrawn never ran, and the answer of one that returned     *)
(* stays true of the rows: TaskOK, and RowInv for the answer.              *)
THEOREM AnswersStayTrue == Spec => []AnsweredRanOnce
<1>1. Inv /\ RowInv => AnsweredRanOnce
    <2> SUFFICES ASSUME Inv, RowInv PROVE AnsweredRanOnce
        OBVIOUS
    <2>1. ~misused
        BY DEF Inv, OneJob
    <2>2. ASSUME NEW t \in Tasks
          PROVE  /\ ran[t] <= 1
                 /\ Ended(t) /\ out[t].how \in {"refused", "withdrawn", "empty"}
                      => ran[t] = 0
                 /\ Ended(t) /\ out[t].how = "returned" /\ call[t].op # "aclose"
                      => ran[t] = 1 /\ AnswerTrue(t)
        <3>1. /\ ran[t] = (IF Settled(t) THEN 1 ELSE 0)
              /\ Ended(t) => OperationEnds(t) \/ CloseEnds(t)
            BY DEF Inv, TaskOK, Ended
        <3>2. CloseEnds(t) => call[t].op = "aclose" /\ ran[t] = 0
            BY <3>1 DEF CloseEnds
        <3>3. OperationEnds(t) /\ out[t].how = "returned" => Settled(t)
            BY DEF OperationEnds, Settled
        <3>4. OperationEnds(t) /\ out[t].how \in {"refused", "withdrawn", "empty"}
                => ran[t] = 0
            BY <3>1 DEF OperationEnds
        <3> QED
            BY <3>1, <3>2, <3>3, <3>4, Answers
    <2> QED
        BY <2>1, <2>2 DEF AnsweredRanOnce
<1> QED
    BY InvHolds, RowInvHolds, <1>1, PTL
=============================================================================
