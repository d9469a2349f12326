---------------------------- MODULE LeasePostgres ----------------------------
(***************************************************************************)
(* _PostgreSQLStore.transaction (lease/_postgres.py), one action per SQL   *)
(* statement, run by concurrent sessions.  Every authority call opens its  *)
(* own connection and transaction at PostgreSQL's default READ COMMITTED:  *)
(*                                                                         *)
(*   SELECT ... FOR UPDATE   locks the committed row, waiting for whoever  *)
(*                           holds it; finds nothing, and locks nothing,   *)
(*                           when no row is committed;                     *)
(*   INSERT ... ON CONFLICT  waits for another transaction's uncommitted   *)
(*   DO NOTHING              insert of the key, then inserts, or yields no *)
(*                           row when the key is committed;                *)
(*   UPDATE ... WHERE old    writes if every column still has the value    *)
(*                           that was read.                                *)
(*                                                                         *)
(* Locks and uncommitted writes end with the transaction.  Connections may *)
(* break at any point; a commit whose acknowledgement is lost is a Commit  *)
(* whose reply the caller never sees (callers may repeat any call).        *)
(***************************************************************************)
EXTENDS LeaseTransitions

CONSTANT Sessions   \* the transactions that may be open at one time

ASSUME SessionsAssumption == None \notin Sessions

VARIABLES
    rows, granted, reported,  \* as in LeaseAuthority; rows are committed rows
    pc,     \* the next statement of each session
    call,   \* the call a session is executing, None when it is idle
    orig,   \* the row the session read ("original"), None if there was none
    out,    \* what the session's transition yielded
    lock,   \* external: the session holding the lock on a key's row
    ins     \* external: the session with an uncommitted insert of a key

authVars == <<rows, granted, reported>>
sessVars == <<pc, call, orig, out>>
pgVars == <<rows, granted, reported, pc, call, orig, out, lock, ins>>

(* The calls of LeaseAuthority, each with the transition it passes.        *)
AcquireCalls ==
    [op : {"acquire"}, request : Requests, who : Identities,
     duration : Durations]
RenewCalls == [op : {"renew"}, lease : granted, duration : Durations]
PublishCalls ==
    {[op |-> "publish", lease |-> l, terminal |-> SucceedTerminal(l, r)] :
        l \in granted, r \in Results}
    \cup {[op |-> "publish", lease |-> l, terminal |-> FailTerminal(l, r, f)] :
            l \in granted, r \in Results, f \in Failures}
VerifyCalls == [op : {"verify"}, terminal : reported]

KeyOf(c) ==
    IF c.op = "acquire" THEN c.request.key
    ELSE IF c.op = "verify" THEN c.terminal.request.key
    ELSE c.lease.request.key

Transition(c, row, now) ==
    IF c.op = "acquire"
    THEN AcquireTransition(row, now, c.request, c.who, c.duration)
    ELSE IF c.op = "renew" THEN RenewTransition(row, now, c.lease, c.duration)
    ELSE IF c.op = "publish"
    THEN TerminalizeTransition(row, now, c.lease, c.terminal)
    ELSE VerifyTransition(row, c.terminal)

(* The outcomes that are exceptions, which make psycopg roll back.         *)
Raises(o) == o.outcome \in {"stale", "terminal_conflict", "fence_exhausted"}

Init ==
    /\ rows = [k \in Keys |-> None]
    /\ granted = {}
    /\ reported = {}
    /\ pc = [s \in Sessions |-> "idle"]
    /\ call = [s \in Sessions |-> None]
    /\ orig = [s \in Sessions |-> None]
    /\ out = [s \in Sessions |-> None]
    /\ lock = [k \in Keys |-> None]
    /\ ins = [k \in Keys |-> None]

Goto(s, label) == pc' = [pc EXCEPT ![s] = label]

Begin(s) ==
    /\ pc[s] = "idle"
    /\ \E c \in AcquireCalls \cup RenewCalls \cup PublishCalls \cup VerifyCalls :
            call' = [call EXCEPT ![s] = c]
    /\ Goto(s, "select")
    /\ UNCHANGED <<authVars, orig, out, lock, ins>>

(* SELECT ... FOR UPDATE, and _decode_row of what it found.                *)
ReadWithoutLock(s, k) == UNCHANGED lock

LockRow(s, k) == lock[k] = None /\ lock' = [lock EXCEPT ![k] = s]

Select(s) ==
    LET k == KeyOf(call[s]) IN
    /\ pc[s] = "select"
    /\ IF rows[k] = None THEN UNCHANGED lock ELSE LockRow(s, k)
    /\ orig' = [orig EXCEPT ![s] = rows[k]]
    /\ Goto(s, "decide")
    /\ UNCHANGED <<authVars, call, out, ins>>

(* Read the database's clock and run the transition on the row read.       *)
Decide(s) ==
    \E now \in Times :
        LET o == Transition(call[s], orig[s], now) IN
        /\ pc[s] = "decide"
        /\ out' = [out EXCEPT ![s] = o]
        /\ Goto(s, IF Raises(o) THEN "raise"
                   ELSE IF o.row = orig[s] THEN "commit"
                   ELSE IF orig[s] = None THEN "insert" ELSE "update")
        /\ UNCHANGED <<authVars, call, orig, lock, ins>>

InsertIgnoresConflict(s) ==
    /\ pc[s] = "insert"
    /\ ins[KeyOf(call[s])] = None
    /\ ins' = [ins EXCEPT ![KeyOf(call[s])] = s]
    /\ Goto(s, "commit")
    /\ UNCHANGED <<authVars, call, orig, out, lock>>

Insert(s) ==
    LET k == KeyOf(call[s]) IN
    /\ pc[s] = "insert"
    /\ ins[k] = None
    /\ IF rows[k] = None
       THEN ins' = [ins EXCEPT ![k] = s] /\ Goto(s, "commit")
       ELSE UNCHANGED ins /\ Goto(s, "reselect")
    /\ UNCHANGED <<authVars, call, orig, out, lock>>

(* The key was inserted by another transaction: lock and read its row, and *)
(* decide again from what it holds.                                        *)
Reselect(s) ==
    LET k == KeyOf(call[s]) IN
    /\ pc[s] = "reselect"
    /\ LockRow(s, k)
    /\ orig' = [orig EXCEPT ![s] = rows[k]]
    /\ Goto(s, IF rows[k] = None THEN "raise" ELSE "decide")
    /\ UNCHANGED <<authVars, call, out, ins>>

(* The conditional UPDATE: it takes the row lock if it is not held, and    *)
(* raises when the row is no longer the one that was read.                 *)
Update(s) ==
    LET k == KeyOf(call[s]) IN
    /\ pc[s] = "update"
    /\ lock[k] \in {None, s}
    /\ lock' = [lock EXCEPT ![k] = s]
    /\ Goto(s, IF rows[k] = orig[s] THEN "commit" ELSE "lost")
    /\ UNCHANGED <<authVars, call, orig, out, ins>>

(* The transaction is over: its locks go, the session is idle again.       *)
ReleaseKeepsLock(s) ==
    /\ ins' = [k \in Keys |-> IF ins[k] = s THEN None ELSE ins[k]]
    /\ pc' = [pc EXCEPT ![s] = "idle"]
    /\ call' = [call EXCEPT ![s] = None]
    /\ orig' = [orig EXCEPT ![s] = None]
    /\ out' = [out EXCEPT ![s] = None]
    /\ UNCHANGED lock

Release(s) ==
    /\ lock' = [k \in Keys |-> IF lock[k] = s THEN None ELSE lock[k]]
    /\ ins' = [k \in Keys |-> IF ins[k] = s THEN None ELSE ins[k]]
    /\ pc' = [pc EXCEPT ![s] = "idle"]
    /\ call' = [call EXCEPT ![s] = None]
    /\ orig' = [orig EXCEPT ![s] = None]
    /\ out' = [out EXCEPT ![s] = None]

Commit(s) ==
    /\ pc[s] = "commit"
    /\ rows' = IF out[s].row = orig[s] THEN rows
               ELSE [rows EXCEPT ![KeyOf(call[s])] = out[s].row]
    /\ granted' = granted \cup ({out[s].lease} \ {None})
    /\ reported' = reported \cup ({out[s].terminal} \ {None})
    /\ Release(s)

Rollback(s) ==
    /\ pc[s] \in {"raise", "lost"}
    /\ Release(s)
    /\ UNCHANGED authVars

(* External: the connection breaks, or the process dies, before COMMIT.    *)
Disconnect(s) ==
    /\ pc[s] # "idle"
    /\ Release(s)
    /\ UNCHANGED authVars

Run(s) ==
    \/ Select(s) \/ Decide(s) \/ Insert(s) \/ Reselect(s) \/ Update(s)
    \/ Commit(s) \/ Rollback(s)

Next == \E s \in Sessions : Begin(s) \/ Run(s) \/ Disconnect(s)

(* A client goes on with its transaction, and PostgreSQL queues those who  *)
(* wait for a lock or an insert: one that becomes free again and again is  *)
(* granted to each waiter.  (pc leaves a session one statement at a time,  *)
(* so fairness of Run is fairness of every statement.)                     *)
Fairness == \A s \in Sessions : SF_pgVars(Run(s))

SafeSpec == Init /\ [][Next]_pgVars
Spec == SafeSpec /\ Fairness

-----------------------------------------------------------------------------
(* The store's own corruption alarms never go off in concurrent use:       *)
(* "conditional PostgreSQL authority update lost" and "conflicting         *)
(* PostgreSQL row disappeared".                                            *)
NoFalseCorruption ==
    \A s \in Sessions :
        /\ pc[s] # "lost"
        /\ pc[s] = "reselect" => rows[KeyOf(call[s])] # None

(* The statement-level store implements the atomic authority: each commit  *)
(* is one atomic transaction, everything else is invisible.                *)
Atomic == INSTANCE LeaseAuthority
ImplementsAuthority == Atomic!Spec

(* Nobody waits for ever: every call ends, by commit, by an error or by a  *)
(* broken connection.                                                      *)
CallsEnd == \A s \in Sessions : pc[s] # "idle" ~> pc[s] = "idle"
=============================================================================
