--------------------------- MODULE LeaseAuthority ---------------------------
(***************************************************************************)
(* LeaseAuthority (lease/authority.py) over a store whose transactions are *)
(* atomic: _MemoryStore (a lock around the transition) and _SQLiteStore    *)
(* (BEGIN IMMEDIATE ... COMMIT).  LeasePostgres shows that the row-locking *)
(* PostgreSQL store implements the same specification.                     *)
(*                                                                         *)
(* The authority clock is not trusted: every transaction may read any time *)
(* in Times, later or earlier than the one before (the code takes the wall *)
(* clock of the process or of the database).  What needs a monotonic clock *)
(* is in LeaseAuthorityTimed.                                              *)
(*                                                                         *)
(* Callers are arbitrary: at any moment one may ask for any request under  *)
(* any identity, and may present any lease that was ever granted, so lost  *)
(* replies, retries, duplicated calls and forgotten copies are all here.   *)
(***************************************************************************)
EXTENDS LeaseTransitions

VARIABLES
    rows,      \* the table: the row of every semantic key, None if absent
    granted,   \* history: every lease a transaction has returned
    reported   \* history: every terminal a transaction has returned

vars == <<rows, granted, reported>>

Init ==
    /\ rows = [k \in Keys |-> None]
    /\ granted = {}
    /\ reported = {}

(* One transaction of the store: it stores the row and returns the reply.  *)
Transact(key, out) ==
    /\ rows' = [rows EXCEPT ![key] = out.row]
    /\ granted' = granted \cup ({out.lease} \ {None})
    /\ reported' = reported \cup ({out.terminal} \ {None})

Acquire(now, request, who, duration) ==
    Transact(request.key,
        AcquireTransition(rows[request.key], now, request, who, duration))

Renew(now, l, duration) ==
    Transact(l.request.key,
        RenewTransition(rows[l.request.key], now, l, duration))

Terminalize(now, l, terminal) ==
    Transact(l.request.key,
        TerminalizeTransition(rows[l.request.key], now, l, terminal))

Succeed(now, l, result) == Terminalize(now, l, SucceedTerminal(l, result))

Fail(now, l, result, failure) ==
    Terminalize(now, l, FailTerminal(l, result, failure))

VerifyTerminal(terminal) ==
    Transact(terminal.request.key,
        VerifyTransition(rows[terminal.request.key], terminal))

(* What can happen when the authority clock reads now.                     *)
Step(now) ==
    \/ \E request \in Requests, who \in Identities, duration \in Durations :
            Acquire(now, request, who, duration)
    \/ \E l \in granted, duration \in Durations : Renew(now, l, duration)
    \/ \E l \in granted, result \in Results : Succeed(now, l, result)
    \/ \E l \in granted, result \in Results, failure \in Failures :
            Fail(now, l, result, failure)
    \/ \E l \in granted, result \in Results :
            VerifyTerminal(SucceedTerminal(l, result))
    \/ \E terminal \in reported : VerifyTerminal(terminal)

Next == \E now \in Times : Step(now)

Spec == Init /\ [][Next]_vars

-----------------------------------------------------------------------------
(* Every row passes the checks of _decode_row, so no history of calls can  *)
(* leave a row the authority then refuses to read; every lease and every   *)
(* terminal handed out passes its validator, fence range included.         *)
TypeOK ==
    /\ rows \in [Keys -> Row \cup {None}]
    /\ \A k \in Keys : rows[k] # None =>
            Decodes(rows[k]) /\ rows[k].request.key = k
    /\ granted \subseteq Lease
    /\ reported \subseteq Terminal

(* The fence identifies the holder: two leases ever granted on one key     *)
(* with one fence belong to the same request and the same identity, even   *)
(* if the clock jumps back between the two acquisitions.                   *)
OneHolderPerFence ==
    \A l1, l2 \in granted :
        l1.request.key = l2.request.key /\ l1.fence = l2.fence
            => l1.request = l2.request /\ l1.who = l2.who

(* A lease in a caller's hands never promises more than the stored row:    *)
(* its fence was not skipped, and while the row is leased under that fence *)
(* the row does not expire before the caller's copy says.                  *)
GrantWithinRow ==
    \A l \in granted :
        LET row == rows[l.request.key] IN
            /\ row # None
            /\ row.request = l.request
            /\ l.fence <= row.fence
            /\ l.fence = row.fence =>
                 /\ l.who = row.who
                 /\ row.terminal = None => l.expires <= row.expires

(* Exactly one terminal: once any caller was told a terminal for a key,    *)
(* verify_terminal accepts that terminal in every later state, and so no   *)
(* second one can ever be reported.                                        *)
ReportedStaysAuthoritative ==
    \A t \in reported :
        VerifyTransition(rows[t.request.key], t).terminal = t

(* Fencing: a terminal outcome belongs to the newest lease of its key; no  *)
(* holder that was taken over can have closed the effect.                  *)
TerminalOfNewestFence ==
    \A t \in reported, l \in granted :
        l.request.key = t.request.key =>
            /\ l.fence <= t.fence
            /\ l.fence = t.fence => l.who = t.who

(* A no_redrive effect is handed to one holder only, ever.                 *)
NoRedriveOneHolder ==
    \A l1, l2 \in granted :
        l1.request.policy = "no_redrive" /\ l1.request.key = l2.request.key
            => l1.who = l2.who /\ l1.fence = 1 /\ l2.fence = 1

(* A lost reply costs nothing while the lease is live: whatever copy of    *)
(* the current fence the holder kept, acquiring again returns the stored   *)
(* lease, under the same fence and without touching the row.               *)
HolderRecoversLease ==
    \A l \in granted, now \in Times, duration \in Durations :
        LET row == rows[l.request.key]
            out == AcquireTransition(row, now, l.request, l.who, duration)
        IN  row.terminal = None /\ row.fence = l.fence /\ row.expires > now
                => out.row = row /\ out.lease = LeaseOf(row)

(* Publication is idempotent: a holder that repeats succeed or fail after  *)
(* the terminal was stored gets it back, at any later time and with any    *)
(* copy of the lease it published under.                                   *)
PublicationIdempotent ==
    \A t \in reported, l \in granted, now \in Times :
        (/\ t.outcome # "recovery_required"
         /\ l.request = t.request
         /\ l.fence = t.fence)
            => TerminalizeTransition(rows[t.request.key], now, l, t)
                 = WithTerminal(rows[t.request.key], t)

(* A row, once there, never goes away, never changes its request, moves    *)
(* its fence up one at a time, gives a fence to one identity, and never    *)
(* shortens a lease under its fence; a terminal row never changes again.   *)
RowEvolution ==
    [][\A k \in Keys : rows[k] # None =>
        LET old == rows[k]
            new == rows'[k]
        IN  /\ new # None
            /\ old.terminal # None => new = old
            /\ new.request = old.request
            /\ new.fence \in {old.fence, old.fence + 1}
            /\ new.fence = old.fence => new.who = old.who
            /\ new.fence = old.fence /\ new.terminal = None
                    => new.expires >= old.expires
            /\ new.fence # old.fence => new.terminal = None]_vars
=============================================================================
