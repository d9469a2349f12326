-------------------------- MODULE LeaseTransitions --------------------------
(***************************************************************************)
(* The decision logic of LeaseAuthority (lease/authority.py): the closures *)
(* named "transition" that acquire, renew, succeed, fail and               *)
(* verify_terminal hand to the store.  Each takes the stored row, the      *)
(* authority time and the caller's arguments, and yields the row to store  *)
(* with the reply.  An exception makes the store roll back, so an error    *)
(* outcome keeps the row.                                                  *)
(*                                                                         *)
(* Data abstraction: (owner_id, attempt_id) is one identity "who", since   *)
(* the code only ever compares the two together; a timestamp is a natural  *)
(* number; the recovery failure, a digest of the expired lease, is that    *)
(* lease itself (the digest is injective for every purpose of the code).   *)
(*                                                                         *)
(* A definition X followed by a definition Y of the same parameters, where *)
(* Y is the one the specification uses, is a mutation: a mistake this code *)
(* could have contained, kept to show which property would notice it.      *)
(***************************************************************************)
EXTENDS Naturals

CONSTANTS
    Keys,        \* semantic keys
    Hashes,      \* request hashes
    Requests,    \* the requests callers make, a subset of Request
    Identities,  \* (owner_id, attempt_id) pairs
    Results,     \* result references
    Failures,    \* failures a caller reports
    Times,       \* values the authority clock may return
    Durations,   \* lease durations callers ask for
    MaxFence,    \* _MAX_FENCE
    None         \* Python's None

ReplayPolicy == {"idempotent", "durable_workflow", "no_redrive"}
TerminalOutcome == {"succeeded", "failed", "recovery_required"}

Request == [key : Keys, hash : Hashes, policy : ReplayPolicy]

Fences == 1..MaxFence

Lease == [request : Requests, who : Identities, fence : Fences, expires : Nat]

(***************************************************************************)
(* Terminal's validator: succeeded carries only a result, failed a result  *)
(* and a failure, recovery_required only a failure.                        *)
(***************************************************************************)
TerminalShape(t) ==
    /\ t.result = None <=> t.outcome = "recovery_required"
    /\ t.failure = None <=> t.outcome = "succeeded"

Terminal ==
    {t \in [request : Requests, outcome : TerminalOutcome, who : Identities,
            fence : Fences, result : Results \cup {None},
            failure : Failures \cup Lease \cup {None}] : TerminalShape(t)}

(***************************************************************************)
(* The checks of _decode_row (and of the table's CHECK constraint): a      *)
(* leased row has an expiry and no terminal; any other row has no expiry   *)
(* and a terminal that agrees with its other columns.                      *)
(***************************************************************************)
Decodes(row) ==
    IF row.state = "leased"
    THEN row.expires # None /\ row.terminal = None
    ELSE /\ row.expires = None
         /\ row.terminal # None
         /\ row.terminal.outcome = row.state
         /\ row.terminal.request = row.request
         /\ row.terminal.who = row.who
         /\ row.terminal.fence = row.fence

Row ==
    [request : Requests, state : {"leased"} \cup TerminalOutcome,
     who : Identities, fence : Fences, expires : Nat \cup {None},
     terminal : Terminal \cup {None}]

ASSUME RequestsAssumption == Requests \subseteq Request
ASSUME TimeAssumption == Times \subseteq Nat /\ Durations \subseteq Nat \ {0}
ASSUME MaxFenceAssumption == MaxFence \in Nat \ {0}
ASSUME NoneAssumption ==
    /\ None \notin Row
    /\ None \notin Lease
    /\ None \notin Terminal
    /\ None \notin Nat
    /\ None \notin Results
    /\ None \notin Failures

-----------------------------------------------------------------------------
(* Rows and leases: _LeaseRow.leased, .terminalized and .lease             *)

NewLease(request, who, fence, expires) ==
    [request |-> request, who |-> who, fence |-> fence, expires |-> expires]

Leased(l) ==
    [request |-> l.request, state |-> "leased", who |-> l.who,
     fence |-> l.fence, expires |-> l.expires, terminal |-> None]

Terminalized(t) ==
    [request |-> t.request, state |-> t.outcome, who |-> t.who,
     fence |-> t.fence, expires |-> None, terminal |-> t]

LeaseOf(row) == NewLease(row.request, row.who, row.fence, row.expires)

(* The terminals callers and the recovery path build.                      *)
SucceedTerminal(l, result) ==
    [request |-> l.request, outcome |-> "succeeded", who |-> l.who,
     fence |-> l.fence, result |-> result, failure |-> None]

FailTerminal(l, result, failure) ==
    [request |-> l.request, outcome |-> "failed", who |-> l.who,
     fence |-> l.fence, result |-> result, failure |-> failure]

RecoveryTerminal(row) ==
    [request |-> row.request, outcome |-> "recovery_required",
     who |-> row.who, fence |-> row.fence, result |-> None,
     failure |-> LeaseOf(row)]

-----------------------------------------------------------------------------
(* What a transaction yields: the row to store and the reply, which names  *)
(* an outcome (an AcquireOutcome, or the exception raised) and carries a   *)
(* lease or a terminal where the code returns one.                         *)

WithLease(row, outcome, l) ==
    [row |-> row, outcome |-> outcome, lease |-> l, terminal |-> None]
WithTerminal(row, t) ==
    [row |-> row, outcome |-> t.outcome, lease |-> None, terminal |-> t]
Only(row, outcome) ==
    [row |-> row, outcome |-> outcome, lease |-> None, terminal |-> None]

Grant(l) == WithLease(Leased(l), "acquired", l)

(* acquire, the row's lease has expired.  A no_redrive effect is never     *)
(* given out again: the row is closed with a recovery terminal that names  *)
(* the lost holder.  Any other policy hands it on under the next fence.    *)
TakeOverSameFence(row, now, request, who, duration) ==
    IF request.policy = "no_redrive"
    THEN WithTerminal(Terminalized(RecoveryTerminal(row)),
                      RecoveryTerminal(row))
    ELSE Grant(NewLease(request, who, row.fence, now + duration))

TakeOverAlways(row, now, request, who, duration) ==
    IF row.fence = MaxFence THEN Only(row, "fence_exhausted")
    ELSE Grant(NewLease(request, who, row.fence + 1, now + duration))

TakeOverUnbounded(row, now, request, who, duration) ==
    IF request.policy = "no_redrive"
    THEN WithTerminal(Terminalized(RecoveryTerminal(row)),
                      RecoveryTerminal(row))
    ELSE Grant(NewLease(request, who, row.fence + 1, now + duration))

TakeOver(row, now, request, who, duration) ==
    IF request.policy = "no_redrive"
    THEN WithTerminal(Terminalized(RecoveryTerminal(row)),
                      RecoveryTerminal(row))
    ELSE IF row.fence = MaxFence THEN Only(row, "fence_exhausted")
    ELSE Grant(NewLease(request, who, row.fence + 1, now + duration))

(* acquire, the row's lease is live: its holder gets it back unchanged, so *)
(* that a lost reply can be retried; anyone else is told to wait.          *)
HeldMints(row, now, request, who, duration) ==
    IF row.who = who
    THEN WithLease(row, "acquired",
                   NewLease(request, who, row.fence, now + duration))
    ELSE Only(row, "busy")

Held(row, now, request, who, duration) ==
    IF row.who = who THEN WithLease(row, "acquired", LeaseOf(row))
    ELSE Only(row, "busy")

AcquireIgnoresExpiry(row, now, request, who, duration) ==
    IF row = None THEN Grant(NewLease(request, who, 1, now + duration))
    ELSE IF row.request # request THEN Only(row, "request_conflict")
    ELSE IF row.terminal # None THEN WithTerminal(row, row.terminal)
    ELSE TakeOver(row, now, request, who, duration)

AcquireReopens(row, now, request, who, duration) ==
    IF row = None THEN Grant(NewLease(request, who, 1, now + duration))
    ELSE IF row.request # request THEN Only(row, "request_conflict")
    ELSE IF row.terminal # None
         THEN Grant(NewLease(request, who, row.fence, now + duration))
    ELSE IF row.expires > now THEN Held(row, now, request, who, duration)
    ELSE TakeOver(row, now, request, who, duration)

AcquireTransition(row, now, request, who, duration) ==
    IF row = None THEN Grant(NewLease(request, who, 1, now + duration))
    ELSE IF row.request # request THEN Only(row, "request_conflict")
    ELSE IF row.terminal # None THEN WithTerminal(row, row.terminal)
    ELSE IF row.expires > now THEN Held(row, now, request, who, duration)
    ELSE TakeOver(row, now, request, who, duration)

-----------------------------------------------------------------------------
(* renew and _terminalize: the presented lease must be, in every column,   *)
(* the one stored, and still live.                                         *)

CurrentIgnoresFence(row, l, now) ==
    row.who = l.who /\ row.expires > now

Current(row, l, now) ==
    /\ row.who = l.who
    /\ row.fence = l.fence
    /\ row.expires = l.expires
    /\ row.expires > now

(* A renewal that would not lengthen the lease leaves the row alone.       *)
Extend(row, now, duration) ==
    IF now + duration <= row.expires
    THEN WithLease(row, "renewed", LeaseOf(row))
    ELSE LET renewed == NewLease(row.request, row.who, row.fence,
                                 now + duration)
         IN  WithLease(Leased(renewed), "renewed", renewed)

RenewTransition(row, now, l, duration) ==
    IF row = None THEN Only(row, "stale")
    ELSE IF row.request # l.request THEN Only(row, "stale")
    ELSE IF row.terminal # None \/ ~Current(row, l, now)
         THEN Only(row, "stale")
    ELSE Extend(row, now, duration)

TerminalizeOverwrites(row, now, l, terminal) ==
    IF row = None THEN Only(row, "stale")
    ELSE IF row.request # l.request THEN Only(row, "stale")
    ELSE IF row.terminal # None
         THEN IF row.fence = l.fence
              THEN WithTerminal(Terminalized(terminal), terminal)
              ELSE Only(row, "terminal_conflict")
    ELSE IF ~Current(row, l, now) THEN Only(row, "stale")
    ELSE WithTerminal(Terminalized(terminal), terminal)

TerminalizeRefusesRetry(row, now, l, terminal) ==
    IF row = None THEN Only(row, "stale")
    ELSE IF row.request # l.request THEN Only(row, "stale")
    ELSE IF row.terminal # None THEN Only(row, "terminal_conflict")
    ELSE IF ~Current(row, l, now) THEN Only(row, "stale")
    ELSE WithTerminal(Terminalized(terminal), terminal)

TerminalizeTransition(row, now, l, terminal) ==
    IF row = None THEN Only(row, "stale")
    ELSE IF row.request # l.request THEN Only(row, "stale")
    ELSE IF row.terminal # None
         THEN IF row.terminal = terminal
              THEN WithTerminal(row, row.terminal)
              ELSE Only(row, "terminal_conflict")
    ELSE IF ~Current(row, l, now) THEN Only(row, "stale")
    ELSE WithTerminal(Terminalized(terminal), terminal)

(* verify_terminal reads the row and never changes it.                     *)
VerifyTransition(row, terminal) ==
    IF row # None /\ row.terminal # None /\ row.terminal = terminal
    THEN WithTerminal(row, row.terminal)
    ELSE Only(row, "terminal_conflict")
=============================================================================
