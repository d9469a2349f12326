------------------------- MODULE LeasePostgresProofs -------------------------
(***************************************************************************)
(* Proofs that the statements of _PostgreSQLStore.transaction, interleaved *)
(* in any way by any number of sessions, implement the atomic authority of *)
(* LeaseAuthority, that the store's corruption alarms cannot go off, and   *)
(* therefore that every theorem of LeaseAuthorityProofs holds of the       *)
(* PostgreSQL store.                                                       *)
(***************************************************************************)
EXTENDS LeasePostgres, TLAPS

(* The theorems about the authority's rows; what the timed part of that    *)
(* module says of a clock is not used here, and any values do for it.      *)
A == INSTANCE LeaseAuthorityProofs WITH clock <- 0, steady <- TRUE

Calls == AcquireCalls \cup RenewCalls \cup PublishCalls \cup VerifyCalls

(***************************************************************************)
(* The inductive invariant.  A session that read a row keeps it locked,    *)
(* and unchanged, until its transaction ends; one that read nothing locks  *)
(* nothing, and is kept apart from the others by its uncommitted insert    *)
(* alone.  Either way the row a session is about to replace is still the   *)
(* one its transition was computed from.                                   *)
(***************************************************************************)
HoldsWhatItRead(s) ==
    pc[s] \in {"decide", "update", "commit"} /\ orig[s] # None =>
        /\ lock[KeyOf(call[s])] = s
        /\ rows[KeyOf(call[s])] = orig[s]

Decided(s) ==
    pc[s] \in {"insert", "update", "commit"} =>
        \E now \in Times :
            /\ out[s] = Transition(call[s], orig[s], now)
            /\ ~Raises(out[s])

OwnsItsInsert(s) ==
    /\ pc[s] = "insert" => orig[s] = None
    /\ pc[s] = "update" => orig[s] # None
    /\ pc[s] = "commit" /\ orig[s] = None =>
            /\ ins[KeyOf(call[s])] = s
            /\ rows[KeyOf(call[s])] = None

SessionOK(s) ==
    /\ pc[s] \in {"idle", "select", "decide", "insert", "reselect", "update",
                  "commit", "raise"}
    /\ pc[s] # "idle" => call[s] \in Calls
    /\ pc[s] = "reselect" => rows[KeyOf(call[s])] # None
    /\ HoldsWhatItRead(s)
    /\ Decided(s)
    /\ OwnsItsInsert(s)

Shape ==
    /\ DOMAIN pc = Sessions
    /\ DOMAIN call = Sessions
    /\ DOMAIN orig = Sessions
    /\ DOMAIN out = Sessions
    /\ DOMAIN lock = Keys
    /\ DOMAIN ins = Keys

PInv == Shape /\ A!Inv /\ \A s \in Sessions : SessionOK(s)

-----------------------------------------------------------------------------
(* The two instances of the authority are about the same operators.        *)

(* The assumptions on the constants are those of the authority.            *)
LEMMA SameConstants ==
    /\ Requests \subseteq A!Request
    /\ Times \subseteq Nat /\ Durations \subseteq Nat \ {0}
    /\ MaxFence \in Nat \ {0}
    /\ None \notin A!Row
    /\ None \notin A!Lease
    /\ None \notin A!Terminal
    /\ None \notin Nat
    /\ None \notin Results
    /\ None \notin Failures
    /\ A!Lease = Lease
    /\ A!Terminal = Terminal
<1> USE DEF A!Request, Request, A!ReplayPolicy, ReplayPolicy, A!Fences, Fences,
            A!TerminalOutcome, TerminalOutcome
<1>1. A!Lease = Lease
  BY DEF A!Lease, Lease
<1>2. A!Terminal = Terminal
  BY <1>1 DEF A!Terminal, Terminal, A!TerminalShape, TerminalShape
<1>3. A!Row = Row
  BY <1>2 DEF A!Row, Row
<1> QED
  BY <1>1, <1>2, <1>3, RequestsAssumption, TimeAssumption,
     MaxFenceAssumption, NoneAssumption

(* The transitions a session runs are those of the atomic authority.       *)
LEMMA SameTransitions ==
    \A row, now, request, who, duration, l, t, result, failure :
        /\ A!AcquireTransition(row, now, request, who, duration)
             = AcquireTransition(row, now, request, who, duration)
        /\ A!RenewTransition(row, now, l, duration)
             = RenewTransition(row, now, l, duration)
        /\ A!TerminalizeTransition(row, now, l, t)
             = TerminalizeTransition(row, now, l, t)
        /\ A!VerifyTransition(row, t) = VerifyTransition(row, t)
        /\ A!SucceedTerminal(l, result) = SucceedTerminal(l, result)
        /\ A!FailTerminal(l, result, failure)
             = FailTerminal(l, result, failure)
BY DEF
    A!AcquireTransition, A!RenewTransition, A!TerminalizeTransition,
    A!VerifyTransition, A!Held, A!TakeOver, A!Grant, A!WithLease,
    A!WithTerminal, A!Only, A!Leased, A!Terminalized, A!NewLease, A!LeaseOf,
    A!RecoveryTerminal, A!SucceedTerminal, A!FailTerminal, A!Current, A!Extend,
    AcquireTransition, RenewTransition, TerminalizeTransition,
    VerifyTransition, Held, TakeOver, Grant, WithLease, WithTerminal, Only,
    Leased, Terminalized, NewLease, LeaseOf, RecoveryTerminal,
    SucceedTerminal, FailTerminal, Current, Extend

-----------------------------------------------------------------------------
(* Every call names one key of the table.                                  *)
LEMMA CallKey ==
    ASSUME granted \subseteq Lease, reported \subseteq Terminal,
           NEW c \in Calls
    PROVE  KeyOf(c) \in Keys
<1>1. \A r \in Requests : r.key \in Keys
  BY RequestsAssumption DEF Request
<1>2. \A l \in granted : l.request.key \in Keys
  BY <1>1 DEF Lease
<1>3. \A t \in reported : t.request.key \in Keys
  BY <1>1 DEF Terminal
<1>4. CASE c \in AcquireCalls
  BY <1>1, <1>4 DEF AcquireCalls, KeyOf
<1>5. CASE c \in RenewCalls
  BY <1>2, <1>5 DEF RenewCalls, KeyOf
<1>6. CASE c \in PublishCalls
  BY <1>2, <1>6 DEF PublishCalls, KeyOf
<1>7. CASE c \in VerifyCalls
  BY <1>3, <1>7 DEF VerifyCalls, KeyOf
<1> QED
  BY <1>4, <1>5, <1>6, <1>7 DEF Calls

(* Storing what a call's transition makes of the row is a step of the      *)
(* atomic authority.                                                       *)
LEMMA CallIsStep ==
    ASSUME NEW c \in Calls, NEW now \in Times,
           A!Transact(KeyOf(c), Transition(c, rows[KeyOf(c)], now))
    PROVE  A!Step(now)
<1>1. CASE c \in AcquireCalls
  <2>1. /\ c.request \in Requests /\ c.who \in Identities
        /\ c.duration \in Durations /\ c.op = "acquire"
    BY <1>1 DEF AcquireCalls
  <2>2. A!Acquire(now, c.request, c.who, c.duration)
    BY <2>1, SameTransitions DEF KeyOf, Transition, A!Acquire
  <2> QED
    BY <2>1, <2>2 DEF A!Step
<1>2. CASE c \in RenewCalls
  <2>1. c.lease \in granted /\ c.duration \in Durations /\ c.op = "renew"
    BY <1>2 DEF RenewCalls
  <2>2. A!Renew(now, c.lease, c.duration)
    BY <2>1, SameTransitions DEF KeyOf, Transition, A!Renew
  <2> QED
    BY <2>1, <2>2 DEF A!Step
<1>3. CASE c \in PublishCalls
  <2>1. c.op = "publish" /\ c.lease \in granted
    BY <1>3 DEF PublishCalls
  <2>2. A!Terminalize(now, c.lease, c.terminal)
    BY <2>1, SameTransitions DEF KeyOf, Transition, A!Terminalize
  <2>3. \/ \E r \in Results : c.terminal = SucceedTerminal(c.lease, r)
        \/ \E r \in Results, f \in Failures :
                c.terminal = FailTerminal(c.lease, r, f)
    BY <1>3 DEF PublishCalls
  <2> QED
    BY <2>1, <2>2, <2>3, SameTransitions DEF A!Step, A!Succeed, A!Fail
<1>4. CASE c \in VerifyCalls
  <2>1. c.terminal \in reported /\ c.op = "verify"
    BY <1>4 DEF VerifyCalls
  <2>2. A!VerifyTerminal(c.terminal)
    BY <2>1, SameTransitions DEF KeyOf, Transition, A!VerifyTerminal
  <2> QED
    BY <2>1, <2>2 DEF A!Step
<1> QED
  BY <1>1, <1>2, <1>3, <1>4 DEF Calls

(* What a transition makes of a row that is there is one of the kinds of   *)
(* change that LeaseAuthorityProofs classifies, so it leaves a row there.  *)
LEMMA RowStays ==
    ASSUME A!Inv, NEW c \in Calls, NEW now \in Times,
           NEW row, A!RowOK(KeyOf(c), row), row # None
    PROVE  Transition(c, row, now).row # None
<1> DEFINE k == KeyOf(c)
           o == Transition(c, row, now)
<1>1. granted \subseteq Lease /\ reported \subseteq Terminal /\ now \in Nat
  BY SameConstants DEF A!Inv, A!TypeOK
<1>2. \A r \in Requests : r.key \in Keys
  BY RequestsAssumption DEF Request
<1>3. A!Evolves(k, row, now, o)
  <2>1. CASE c \in AcquireCalls
    <3>1. /\ c.request \in Requests /\ c.who \in Identities
          /\ c.duration \in Nat /\ c.op = "acquire"
      BY <2>1, TimeAssumption DEF AcquireCalls
    <3>2. o = A!AcquireTransition(row, now, c.request, c.who, c.duration)
      BY <3>1, SameTransitions DEF Transition
    <3>3. k = c.request.key
      BY <3>1 DEF KeyOf
    <3> QED
      BY <1>1, <3>1, <3>2, <3>3, SameConstants, A!AcquireEvolves
  <2>2. CASE c \in RenewCalls
    <3>1. c.lease \in A!Lease /\ c.duration \in Nat /\ c.op = "renew"
      BY <1>1, <2>2, TimeAssumption, SameConstants DEF RenewCalls
    <3>2. o = A!RenewTransition(row, now, c.lease, c.duration)
      BY <3>1, SameTransitions DEF Transition
    <3>3. k = c.lease.request.key
      BY <3>1 DEF KeyOf
    <3> QED
      BY <1>1, <3>1, <3>2, <3>3, SameConstants, A!RenewEvolves
  <2>3. CASE c \in PublishCalls
    <3>1. /\ c.lease \in A!Lease /\ c.op = "publish"
          /\ \/ \E r \in Results : c.terminal = A!SucceedTerminal(c.lease, r)
             \/ \E r \in Results, f \in Failures :
                     c.terminal = A!FailTerminal(c.lease, r, f)
      BY <1>1, <2>3, SameConstants, SameTransitions DEF PublishCalls
    <3>2. c.terminal \in A!Terminal
      BY <3>1, SameConstants, A!PublishedTerminals
    <3>3. /\ c.terminal.request = c.lease.request
          /\ c.terminal.who = c.lease.who
          /\ c.terminal.fence = c.lease.fence
          /\ c.terminal.outcome # "recovery_required"
      <4>1. CASE \E r \in Results : c.terminal = A!SucceedTerminal(c.lease, r)
        BY <4>1 DEF A!SucceedTerminal
      <4>2. CASE \E r \in Results, f \in Failures :
                    c.terminal = A!FailTerminal(c.lease, r, f)
        BY <4>2 DEF A!FailTerminal
      <4> QED
        BY <3>1, <4>1, <4>2
    <3>4. o = A!TerminalizeTransition(row, now, c.lease, c.terminal)
      BY <3>1, SameTransitions DEF Transition
    <3>5. k = c.lease.request.key
      BY <3>1 DEF KeyOf
    <3> QED
      BY <1>1, <3>1, <3>2, <3>3, <3>4, <3>5, SameConstants,
         A!TerminalizeEvolves
  <2>4. CASE c \in VerifyCalls
    <3>1. c.op = "verify"
      BY <2>4 DEF VerifyCalls
    <3>2. o = A!VerifyTransition(row, c.terminal)
      BY <3>1, SameTransitions DEF Transition
    <3> QED
      BY <3>2 DEF A!VerifyTransition, A!WithTerminal, A!Only, A!Evolves,
                  A!Keeps
  <2> QED
    BY <2>1, <2>2, <2>3, <2>4 DEF Calls
<1>4. A!Advances(row, o.row)
  BY <1>1, <1>3, SameConstants, A!EvolvesAdvances
<1> QED
  BY <1>4 DEF A!Advances

(* On an absent row only acquire does not raise, and it creates the row.   *)
LEMMA RowOpens ==
    ASSUME NEW c \in Calls, NEW now \in Times,
           ~Raises(Transition(c, None, now))
    PROVE  Transition(c, None, now).row # None
<1>1. c.op = "acquire"
  BY DEF Raises, Transition, RenewTransition, TerminalizeTransition,
         VerifyTransition, Only
<1>2. c \in AcquireCalls
  BY <1>1 DEF Calls, AcquireCalls, RenewCalls, PublishCalls, VerifyCalls
<1>3. /\ c.request \in Requests /\ c.who \in Identities
      /\ c.duration \in Nat /\ now \in Nat
  BY <1>2, TimeAssumption DEF AcquireCalls
<1> DEFINE l == NewLease(c.request, c.who, 1, now + c.duration)
<1>4. l \in Lease
  BY <1>3, MaxFenceAssumption DEF NewLease, Lease, Fences
<1>5. Transition(c, None, now).row = Leased(l)
  BY <1>1 DEF Transition, AcquireTransition, Grant, WithLease
<1>6. Leased(l) \in Row
  BY <1>4 DEF Leased, Lease, Row
<1> QED
  BY <1>5, <1>6, NoneAssumption

-----------------------------------------------------------------------------
(* A session keeps its invariant while another one runs, provided the      *)
(* other leaves alone the row this session has locked, the key it has      *)
(* inserted, and its locks.                                                *)
LEMMA OthersUndisturbed ==
    ASSUME NEW t \in Sessions, SessionOK(t),
           pc[t] # "idle" => KeyOf(call[t]) \in Keys,
           pc'[t] = pc[t], call'[t] = call[t],
           orig'[t] = orig[t], out'[t] = out[t],
           Calls \subseteq Calls',
           \A k \in Keys : lock[k] = t => lock'[k] = t,
           \A k \in Keys : ins[k] = t => ins'[k] = t,
           \A k \in Keys : rows[k] # None => rows'[k] # None,
           \A k \in Keys : lock[k] = t /\ rows[k] # None => rows'[k] = rows[k],
           \A k \in Keys : ins[k] = t /\ rows[k] = None => rows'[k] = rows[k]
    PROVE  SessionOK(t)'
<1> DEFINE k == KeyOf(call[t])
<1>1. KeyOf(call[t])' = k
  BY DEF KeyOf
<1>2. HoldsWhatItRead(t)'
  BY <1>1 DEF SessionOK, HoldsWhatItRead
<1>3. Decided(t)'
  BY DEF SessionOK, Decided, Transition, Raises
<1>4. OwnsItsInsert(t)'
  BY <1>1 DEF SessionOK, OwnsItsInsert
<1> QED
  BY <1>1, <1>2, <1>3, <1>4 DEF SessionOK

(* Leases and terminals handed out stay so: no call ceases to be one.      *)
LEMMA CallsGrow ==
    ASSUME granted \subseteq granted', reported \subseteq reported'
    PROVE  Calls \subseteq Calls'
BY DEF Calls, AcquireCalls, RenewCalls, PublishCalls, VerifyCalls

(* No session is in a transaction, and the table is empty.                 *)
LEMMA InitPInv == Init => PInv
<1> SUFFICES ASSUME Init
             PROVE  PInv
  OBVIOUS
<1>1. A!Init
  BY DEF Init, A!Init
<1>2. A!Inv
  BY <1>1, SameConstants, A!InitInv
<1>3. Shape
  BY DEF Init, Shape
<1>4. ASSUME NEW s \in Sessions
      PROVE  SessionOK(s)
  <2>1. pc[s] = "idle"
    BY DEF Init
  <2> QED
    BY <2>1 DEF SessionOK, HoldsWhatItRead, Decided, OwnsItsInsert
<1> QED
  BY <1>2, <1>3, <1>4 DEF PInv

(* A COMMIT stores what the session's transition makes of the row that is  *)
(* committed now, whatever happened since the session read it: it is one   *)
(* atomic transaction of the authority.                                    *)
LEMMA CommitIsAtomic ==
    ASSUME PInv, NEW s \in Sessions, Commit(s)
    PROVE  /\ \E now \in Times : A!Step(now)
           /\ KeyOf(call[s]) \in Keys
           /\ out[s].row # None
           /\ rows' = [rows EXCEPT ![KeyOf(call[s])] = out[s].row]
           /\ \/ orig[s] = rows[KeyOf(call[s])] /\ orig[s] # None
                    /\ lock[KeyOf(call[s])] = s
              \/ orig[s] = None /\ rows[KeyOf(call[s])] = None
                    /\ ins[KeyOf(call[s])] = s
<1> DEFINE k == KeyOf(call[s])
<1>1. SessionOK(s) /\ pc[s] = "commit" /\ call[s] \in Calls
  BY DEF PInv, SessionOK, Commit
<1>2. /\ granted \subseteq Lease /\ reported \subseteq Terminal
      /\ rows \in [Keys -> A!Row \cup {None}]
      /\ \A j \in Keys : A!RowOK(j, rows[j])
  BY SameConstants DEF PInv, A!Inv, A!TypeOK, A!RowOK
<1>3. k \in Keys
  BY <1>1, <1>2, CallKey
<1>4. PICK now \in Times : /\ out[s] = Transition(call[s], orig[s], now)
                           /\ ~Raises(out[s])
  BY <1>1 DEF SessionOK, Decided
<1>5. \/ orig[s] = rows[k] /\ orig[s] # None /\ lock[k] = s
      \/ orig[s] = None /\ rows[k] = None /\ ins[k] = s
  BY <1>1 DEF SessionOK, HoldsWhatItRead, OwnsItsInsert
<1>6. out[s] = Transition(call[s], rows[k], now)
  BY <1>4, <1>5
<1>7. out[s].row # None
  BY <1>1, <1>2, <1>3, <1>4, <1>5, RowStays, RowOpens DEF PInv
<1>8. rows' = [rows EXCEPT ![k] = out[s].row]
  <2>1. CASE out[s].row = orig[s]
    <3>1. rows' = rows /\ rows[k] = out[s].row
      BY <1>5, <1>7, <2>1 DEF Commit
    <3> QED
      BY <1>2, <1>3, <3>1
  <2>2. CASE out[s].row # orig[s]
    BY <2>2 DEF Commit
  <2> QED
    BY <2>1, <2>2
<1>9. A!Transact(k, Transition(call[s], rows[k], now))
  BY <1>6, <1>8 DEF Commit, A!Transact
<1> QED
  BY <1>1, <1>3, <1>5, <1>7, <1>8, <1>9, CallIsStep

(* The end of a transaction leaves its session idle and no other disturbed.*)
LEMMA ReleaseOK ==
    ASSUME Shape, NEW s \in Sessions, Release(s)
    PROVE  /\ Shape'
           /\ SessionOK(s)'
           /\ \A t \in Sessions \ {s} :
                /\ pc'[t] = pc[t] /\ call'[t] = call[t]
                /\ orig'[t] = orig[t] /\ out'[t] = out[t]
                /\ \A k \in Keys : lock[k] = t => lock'[k] = t
                /\ \A k \in Keys : ins[k] = t => ins'[k] = t
<1>1. Shape'
  BY DEF Shape, Release
<1>2. pc'[s] = "idle"
  BY DEF Shape, Release
<1>3. SessionOK(s)'
  BY <1>2 DEF SessionOK, HoldsWhatItRead, Decided, OwnsItsInsert
<1>4. ASSUME NEW t \in Sessions \ {s}
      PROVE  /\ pc'[t] = pc[t] /\ call'[t] = call[t]
             /\ orig'[t] = orig[t] /\ out'[t] = out[t]
             /\ \A k \in Keys : lock[k] = t => lock'[k] = t
             /\ \A k \in Keys : ins[k] = t => ins'[k] = t
  BY DEF Shape, Release
<1> QED
  BY <1>1, <1>3, <1>4

(* Committing preserves the invariant.                                     *)
LEMMA CommitOK ==
    ASSUME PInv, NEW s \in Sessions, Commit(s)
    PROVE  PInv' /\ A!Next
<1> DEFINE key == KeyOf(call[s])
<1>1. PICK now \in Times : A!Step(now)
  BY CommitIsAtomic
<1>2. A!Next
  BY <1>1 DEF A!Next
<1>3. A!Inv'
  BY <1>2, SameConstants, A!NextInv DEF PInv
<1>4. Shape /\ Release(s)
  BY DEF PInv, Commit
<1>5. Shape' /\ SessionOK(s)'
  BY <1>4, ReleaseOK
<1>6. Calls \subseteq Calls'
  BY CallsGrow DEF Commit
<1>7. granted \subseteq Lease /\ reported \subseteq Terminal
      /\ rows \in [Keys -> A!Row \cup {None}]
  BY SameConstants DEF PInv, A!Inv, A!TypeOK
<1>8. /\ \A k \in Keys \ {key} : rows'[k] = rows[k]
      /\ rows'[key] # None
  BY <1>7, CommitIsAtomic
<1>9. ASSUME NEW t \in Sessions \ {s}
      PROVE  SessionOK(t)'
  <2>1. SessionOK(t) /\ (pc[t] # "idle" => KeyOf(call[t]) \in Keys)
    BY <1>7, CallKey DEF PInv, SessionOK
  <2>2. \A k \in Keys : rows[k] # None => rows'[k] # None
    BY <1>8
  <2>3. \A k \in Keys : lock[k] = t /\ rows[k] # None => rows'[k] = rows[k]
    BY <1>8, CommitIsAtomic
  <2>4. \A k \in Keys : ins[k] = t /\ rows[k] = None => rows'[k] = rows[k]
    BY <1>8, CommitIsAtomic
  <2> QED
    BY <1>4, <1>6, <2>1, <2>2, <2>3, <2>4, ReleaseOK, OthersUndisturbed
<1> QED
  BY <1>2, <1>3, <1>5, <1>9 DEF PInv

(* Every other statement leaves the tables alone; it preserves the         *)
(* invariant if its own session stays well and it takes no lock and no     *)
(* insert away from another.                                               *)
LEMMA QuietStep ==
    ASSUME PInv, NEW s \in Sessions, UNCHANGED authVars, Shape',
           SessionOK(s)',
           \A t \in Sessions \ {s} :
                /\ pc'[t] = pc[t] /\ call'[t] = call[t]
                /\ orig'[t] = orig[t] /\ out'[t] = out[t]
                /\ \A k \in Keys : lock[k] = t => lock'[k] = t
                /\ \A k \in Keys : ins[k] = t => ins'[k] = t
    PROVE  PInv' /\ UNCHANGED A!vars
<1>1. UNCHANGED A!vars
  BY DEF authVars, A!vars
<1>2. A!Inv'
  BY <1>1, SameConstants, A!NextInv DEF PInv
<1>3. Calls \subseteq Calls'
  BY CallsGrow DEF authVars
<1>4. granted \subseteq Lease /\ reported \subseteq Terminal
  BY SameConstants DEF PInv, A!Inv, A!TypeOK
<1>5. ASSUME NEW t \in Sessions \ {s}
      PROVE  SessionOK(t)'
  <2>1. SessionOK(t) /\ (pc[t] # "idle" => KeyOf(call[t]) \in Keys)
    BY <1>4, CallKey DEF PInv, SessionOK
  <2>2. rows' = rows
    BY DEF authVars
  <2> QED
    BY <1>3, <2>1, <2>2, OthersUndisturbed
<1> QED
  BY <1>1, <1>2, <1>5 DEF PInv

(* Each statement preserves the invariant, and is an atomic transaction of *)
(* the authority (COMMIT) or invisible to it (every other).                *)
LEMMA SessionStep ==
    ASSUME PInv, NEW s \in Sessions, Begin(s) \/ Run(s) \/ Disconnect(s)
    PROVE  PInv' /\ (A!Next \/ UNCHANGED A!vars)
<1> DEFINE key == KeyOf(call[s])
<1>1. /\ Shape /\ SessionOK(s)
      /\ granted \subseteq Lease /\ reported \subseteq Terminal
  BY SameConstants DEF PInv, A!Inv, A!TypeOK
<1>2. pc[s] # "idle" => call[s] \in Calls /\ key \in Keys
  BY <1>1, CallKey DEF SessionOK
<1>3. s # None
  BY SessionsAssumption
<1>4. CASE Begin(s)
  <2>1. PICK c \in Calls : call' = [call EXCEPT ![s] = c]
    BY <1>4 DEF Begin, Calls
  <2>2. Shape' /\ pc'[s] = "select" /\ call'[s] = c
    BY <1>1, <1>4, <2>1 DEF Begin, Goto, Shape
  <2>3. UNCHANGED authVars /\ Calls' = Calls
    BY <1>4 DEF Begin, authVars, Calls, AcquireCalls, RenewCalls, PublishCalls,
                VerifyCalls
  <2>4. SessionOK(s)'
    BY <2>2, <2>3 DEF SessionOK, HoldsWhatItRead, Decided, OwnsItsInsert
  <2> QED
    BY <1>1, <1>4, <2>2, <2>3, <2>4, QuietStep DEF Begin, Goto, Shape
<1>5. CASE Select(s)
  <2>1. /\ pc[s] = "select" /\ call'[s] = call[s] /\ pc'[s] = "decide"
        /\ orig'[s] = rows[key] /\ rows' = rows
        /\ rows[key] # None => lock[key] = None /\ lock'[key] = s
    BY <1>1, <1>2, <1>5 DEF Select, Goto, LockRow, Shape, authVars
  <2>2. Shape'
    BY <1>1, <1>5 DEF Select, Goto, LockRow, Shape
  <2>3. UNCHANGED authVars /\ Calls' = Calls
    BY <1>5 DEF Select, authVars, Calls, AcquireCalls, RenewCalls,
                PublishCalls, VerifyCalls
  <2>4. SessionOK(s)'
    <3>1. KeyOf(call[s])' = key
      BY <2>1 DEF KeyOf
    <3> QED
      BY <1>2, <2>1, <2>3, <3>1
      DEF SessionOK, HoldsWhatItRead, Decided, OwnsItsInsert
  <2>5. \A k \in Keys : lock[k] \in Sessions \ {s} => lock'[k] = lock[k]
    BY <1>1, <1>2, <1>5, <2>1, SessionsAssumption DEF Select, LockRow, Shape
  <2> QED
    BY <1>1, <1>5, <2>2, <2>3, <2>4, <2>5, QuietStep DEF Select, Goto, Shape
<1>6. CASE Decide(s)
  <2>1. PICK now \in Times :
            LET o == Transition(call[s], orig[s], now) IN
            /\ pc[s] = "decide"
            /\ out' = [out EXCEPT ![s] = o]
            /\ Goto(s, IF Raises(o) THEN "raise"
                       ELSE IF o.row = orig[s] THEN "commit"
                       ELSE IF orig[s] = None THEN "insert" ELSE "update")
            /\ UNCHANGED <<authVars, call, orig, lock, ins>>
    BY <1>6 DEF Decide
  <2> DEFINE o == Transition(call[s], orig[s], now)
  <2>2. /\ out'[s] = o /\ pc[s] = "decide"
        /\ pc'[s] = IF Raises(o) THEN "raise"
                    ELSE IF o.row = orig[s] THEN "commit"
                    ELSE IF orig[s] = None THEN "insert" ELSE "update"
        /\ call' = call /\ orig' = orig /\ lock' = lock /\ ins' = ins
        /\ rows' = rows
    BY <1>1, <2>1 DEF Goto, Shape, authVars
  <2>3. Shape'
    BY <1>1, <2>1 DEF Goto, Shape
  <2>4. UNCHANGED authVars /\ Calls' = Calls
    BY <2>1 DEF authVars, Calls, AcquireCalls, RenewCalls, PublishCalls,
                VerifyCalls
  <2>5. ~Raises(o) /\ orig[s] = None => o.row # None
    BY <1>2, <2>2, RowOpens
  <2>6. SessionOK(s)'
    <3>1. KeyOf(call[s])' = key
      BY <2>2 DEF KeyOf
    <3>2. HoldsWhatItRead(s)'
      BY <1>1, <2>2, <3>1 DEF SessionOK, HoldsWhatItRead
    <3>3. Decided(s)'
      <4>1. Transition(call[s], orig[s], now)' = o
        BY <2>2 DEF Transition
      <4>2. Raises(out[s])' <=> Raises(o)
        BY <2>2 DEF Raises
      <4> QED
        BY <2>2, <4>1, <4>2 DEF Decided
    <3>4. OwnsItsInsert(s)'
      BY <2>2, <2>5 DEF OwnsItsInsert
    <3> QED
      BY <1>2, <2>2, <2>4, <3>2, <3>3, <3>4 DEF SessionOK
  <2> QED
    BY <1>1, <2>1, <2>2, <2>3, <2>4, <2>6, QuietStep DEF Goto, Shape
<1>7. CASE Insert(s)
  <2>1. /\ pc[s] = "insert" /\ ins[key] = None
        /\ call' = call /\ orig' = orig /\ out' = out /\ lock' = lock
        /\ rows' = rows
        /\ \/ /\ rows[key] = None /\ ins' = [ins EXCEPT ![key] = s]
              /\ pc'[s] = "commit"
           \/ /\ rows[key] # None /\ ins' = ins
              /\ pc'[s] = "reselect"
    BY <1>1, <1>7 DEF Insert, Goto, Shape, authVars
  <2>2. Shape'
    BY <1>1, <1>7, <2>1 DEF Insert, Goto, Shape
  <2>3. UNCHANGED authVars /\ Calls' = Calls
    BY <1>7 DEF Insert, authVars, Calls, AcquireCalls, RenewCalls,
                PublishCalls, VerifyCalls
  <2>4. SessionOK(s)'
    <3>1. KeyOf(call[s])' = key
      BY <2>1 DEF KeyOf
    <3>2. HoldsWhatItRead(s)' /\ OwnsItsInsert(s)'
      BY <1>1, <1>2, <2>1, <3>1
      DEF SessionOK, HoldsWhatItRead, OwnsItsInsert, Shape
    <3>3. Decided(s)'
      BY <1>1, <2>1 DEF SessionOK, Decided, Transition, Raises
    <3> QED
      BY <1>2, <2>1, <2>3, <3>1, <3>2, <3>3 DEF SessionOK
  <2>5. \A k \in Keys : ins[k] \in Sessions \ {s} => ins'[k] = ins[k]
    BY <1>1, <1>2, <2>1, SessionsAssumption DEF Shape
  <2>6. \A t \in Sessions \ {s} : pc'[t] = pc[t]
    BY <1>1, <1>7 DEF Insert, Goto, Shape
  <2> QED
    BY <1>1, <2>1, <2>2, <2>3, <2>4, <2>5, <2>6, QuietStep
<1>8. CASE Reselect(s)
  <2>1. /\ pc[s] = "reselect" /\ rows[key] # None
        /\ call' = call /\ out' = out /\ ins' = ins /\ rows' = rows
        /\ lock[key] = None /\ lock' = [lock EXCEPT ![key] = s]
        /\ orig'[s] = rows[key] /\ pc'[s] = "decide"
    BY <1>1, <1>8 DEF Reselect, Goto, LockRow, Shape, authVars, SessionOK
  <2>2. Shape'
    BY <1>1, <1>8 DEF Reselect, Goto, LockRow, Shape
  <2>3. UNCHANGED authVars /\ Calls' = Calls
    BY <1>8 DEF Reselect, authVars, Calls, AcquireCalls, RenewCalls,
                PublishCalls, VerifyCalls
  <2>4. SessionOK(s)'
    <3>1. KeyOf(call[s])' = key /\ lock'[key] = s
      BY <1>1, <1>2, <2>1 DEF KeyOf, Shape
    <3> QED
      BY <1>2, <2>1, <2>3, <3>1
      DEF SessionOK, HoldsWhatItRead, Decided, OwnsItsInsert
  <2>5. \A k \in Keys : lock[k] \in Sessions \ {s} => lock'[k] = lock[k]
    BY <1>1, <1>2, <2>1, SessionsAssumption DEF Shape
  <2>6. \A t \in Sessions \ {s} : pc'[t] = pc[t] /\ orig'[t] = orig[t]
    BY <1>1, <1>8 DEF Reselect, Goto, Shape
  <2> QED
    BY <1>1, <2>1, <2>2, <2>3, <2>4, <2>5, <2>6, QuietStep
<1>9. CASE Update(s)
  <2>1. /\ pc[s] = "update" /\ orig[s] # None
        /\ lock[key] = s /\ rows[key] = orig[s]
    BY <1>1, <1>9 DEF Update, SessionOK, OwnsItsInsert, HoldsWhatItRead
  <2>2. /\ call' = call /\ out' = out /\ ins' = ins /\ rows' = rows
        /\ orig' = orig /\ lock' = [lock EXCEPT ![key] = s]
        /\ pc'[s] = "commit"
    BY <1>1, <1>9, <2>1 DEF Update, Goto, Shape, authVars
  <2>3. Shape'
    BY <1>1, <1>9 DEF Update, Goto, Shape
  <2>4. UNCHANGED authVars /\ Calls' = Calls
    BY <1>9 DEF Update, authVars, Calls, AcquireCalls, RenewCalls,
                PublishCalls, VerifyCalls
  <2>5. SessionOK(s)'
    <3>1. KeyOf(call[s])' = key /\ lock'[key] = s
      BY <1>1, <1>2, <2>1, <2>2 DEF KeyOf, Shape
    <3>2. Decided(s)'
      BY <1>1, <2>1, <2>2 DEF SessionOK, Decided, Transition, Raises
    <3> QED
      BY <1>2, <2>1, <2>2, <2>4, <3>1, <3>2
      DEF SessionOK, HoldsWhatItRead, OwnsItsInsert
  <2>6. \A k \in Keys : lock[k] \in Sessions \ {s} => lock'[k] = lock[k]
    BY <1>1, <1>2, <2>1, <2>2 DEF Shape
  <2>7. \A t \in Sessions \ {s} : pc'[t] = pc[t]
    BY <1>1, <1>9 DEF Update, Goto, Shape
  <2> QED
    BY <1>1, <2>1, <2>2, <2>3, <2>4, <2>5, <2>6, <2>7, QuietStep
<1>10. CASE Commit(s)
  BY <1>10, CommitOK
<1>11. CASE Rollback(s) \/ Disconnect(s)
  <2>1. Release(s) /\ UNCHANGED authVars
    BY <1>11 DEF Rollback, Disconnect
  <2> QED
    BY <1>1, <2>1, ReleaseOK, QuietStep
<1> QED
  BY <1>4, <1>5, <1>6, <1>7, <1>8, <1>9, <1>10, <1>11 DEF Run

(* Every step of the store preserves the invariant, and is a step of the   *)
(* authority or a stutter.                                                 *)
LEMMA StepRefines == PInv /\ [Next]_pgVars => PInv' /\ [A!Next]_(A!vars)
<1> SUFFICES ASSUME PInv, [Next]_pgVars
             PROVE  PInv' /\ [A!Next]_(A!vars)
  OBVIOUS
<1>1. CASE UNCHANGED pgVars
  <2>1. /\ UNCHANGED A!vars /\ UNCHANGED authVars
        /\ pc' = pc /\ call' = call /\ orig' = orig /\ out' = out
        /\ lock' = lock /\ ins' = ins
    BY <1>1 DEF pgVars, A!vars, authVars
  <2>2. A!Inv'
    BY <2>1, SameConstants, A!NextInv DEF PInv
  <2>3. Shape'
    BY <2>1 DEF PInv, Shape
  <2>4. ASSUME NEW t \in Sessions
        PROVE  SessionOK(t)'
    <3>1. SessionOK(t) /\ (pc[t] # "idle" => KeyOf(call[t]) \in Keys)
      BY CallKey, SameConstants DEF PInv, SessionOK, A!Inv, A!TypeOK
    <3>2. Calls \subseteq Calls'
      BY <2>1, CallsGrow DEF authVars
    <3> QED
      BY <2>1, <3>1, <3>2, OthersUndisturbed DEF authVars
  <2> QED
    BY <2>1, <2>2, <2>3, <2>4 DEF PInv
<1>2. CASE Next
  BY <1>2, SessionStep DEF Next
<1> QED
  BY <1>1, <1>2

(* The inductive invariant holds in every reachable state.                 *)
THEOREM PInvHolds == SafeSpec => []PInv
BY InitPInv, StepRefines, PTL DEF SafeSpec

(* "conditional PostgreSQL authority update lost" and "conflicting         *)
(* PostgreSQL row disappeared" are never raised, however many sessions     *)
(* interleave their statements and wherever connections break.             *)
THEOREM NoFalseAlarm == SafeSpec => []NoFalseCorruption
<1>1. PInv => NoFalseCorruption
  BY DEF PInv, SessionOK, NoFalseCorruption
<1> QED
  BY <1>1, PInvHolds, PTL

(* The authority LeasePostgres names is the one LeaseAuthorityProofs is    *)
(* about.                                                                  *)
LEMMA SameAuthority ==
    /\ Atomic!Init <=> A!Init
    /\ Atomic!Next <=> A!Next
BY DEF
    A!Init, A!Next, A!Step, A!Acquire, A!Renew, A!Succeed, A!Fail,
    A!Terminalize, A!VerifyTerminal, A!Transact, A!AcquireTransition,
    A!RenewTransition, A!TerminalizeTransition, A!VerifyTransition, A!Held,
    A!TakeOver, A!Grant, A!WithLease, A!WithTerminal, A!Only, A!Leased,
    A!Terminalized, A!NewLease, A!LeaseOf, A!RecoveryTerminal,
    A!SucceedTerminal, A!FailTerminal, A!Current, A!Extend,
    Atomic!Init, Atomic!Next, Atomic!Step, Atomic!Acquire,
    Atomic!Renew, Atomic!Succeed, Atomic!Fail, Atomic!Terminalize,
    Atomic!VerifyTerminal, Atomic!Transact, Atomic!AcquireTransition,
    Atomic!RenewTransition, Atomic!TerminalizeTransition,
    Atomic!VerifyTransition, Atomic!Held, Atomic!TakeOver, Atomic!Grant,
    Atomic!WithLease, Atomic!WithTerminal, Atomic!Only, Atomic!Leased,
    Atomic!Terminalized, Atomic!NewLease, Atomic!LeaseOf,
    Atomic!RecoveryTerminal, Atomic!SucceedTerminal, Atomic!FailTerminal,
    Atomic!Current, Atomic!Extend

(* Refinement: the statement-level store implements the atomic authority;  *)
(* a COMMIT is one authority transaction and nothing else is visible.      *)
THEOREM Refinement == SafeSpec => ImplementsAuthority
<1>1. Init => Atomic!Init
  BY DEF Init, Atomic!Init
<1>2. PInv /\ [Next]_pgVars => [Atomic!Next]_(Atomic!vars)
  BY StepRefines, SameAuthority DEF A!vars, Atomic!vars
<1> QED
  BY <1>1, <1>2, PInvHolds, PTL DEF SafeSpec, ImplementsAuthority, Atomic!Spec

(* What the authority guarantees, the PostgreSQL store guarantees: one     *)
(* holder per fence, exactly one terminal, fencing, one holder of a        *)
(* no_redrive effect and no lease beyond its row.                          *)
THEOREM StoreGuarantees ==
    SafeSpec => [](/\ Atomic!OneHolderPerFence
                   /\ Atomic!ReportedStaysAuthoritative
                   /\ Atomic!TerminalOfNewestFence
                   /\ Atomic!NoRedriveOneHolder
                   /\ Atomic!GrantWithinRow)
<1>1. SafeSpec => A!Spec
  <2>1. Init => A!Init
    BY DEF Init, A!Init
  <2> QED
    BY <2>1, StepRefines, PInvHolds, PTL DEF SafeSpec, A!Spec
<1>2. A!Spec => []A!OneHolderPerFence
  BY SameConstants, A!FenceUnique
<1>3. A!Spec => []A!ReportedStaysAuthoritative
  BY SameConstants, A!ExactlyOnce
<1>4. A!Spec => []A!TerminalOfNewestFence
  BY SameConstants, A!Fencing
<1>5. A!Spec => []A!NoRedriveOneHolder
  BY SameConstants, A!NoRedrive
<1>6. A!Spec => []A!GrantWithinRow
  BY SameConstants, A!GrantsWithinRow
<1>7. /\ A!OneHolderPerFence <=> Atomic!OneHolderPerFence
      /\ A!TerminalOfNewestFence <=> Atomic!TerminalOfNewestFence
      /\ A!NoRedriveOneHolder <=> Atomic!NoRedriveOneHolder
      /\ A!GrantWithinRow <=> Atomic!GrantWithinRow
  BY DEF A!OneHolderPerFence, Atomic!OneHolderPerFence,
         A!TerminalOfNewestFence, Atomic!TerminalOfNewestFence,
         A!NoRedriveOneHolder, Atomic!NoRedriveOneHolder,
         A!GrantWithinRow, Atomic!GrantWithinRow
<1>8. A!ReportedStaysAuthoritative <=> Atomic!ReportedStaysAuthoritative
  BY DEF A!ReportedStaysAuthoritative, Atomic!ReportedStaysAuthoritative,
         A!VerifyTransition, Atomic!VerifyTransition, A!WithTerminal,
         Atomic!WithTerminal, A!Only, Atomic!Only
<1> QED
  BY <1>1, <1>2, <1>3, <1>4, <1>5, <1>6, <1>7, <1>8, PTL
=============================================================================
