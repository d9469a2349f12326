------------------------ MODULE LeaseAuthorityProofs ------------------------
(***************************************************************************)
(* Proofs of LeaseAuthority's invariants for every set of keys, requests   *)
(* and callers, every clock, and every MaxFence; and, at the end, of what  *)
(* LeaseAuthorityTimed adds to them.                                       *)
(*                                                                         *)
(* The argument has two halves.  The transition lemmas show that whatever  *)
(* branch acquire, renew, _terminalize or verify_terminal takes, its       *)
(* outcome is one of five kinds of change to a row (Evolves).  Lemma       *)
(* EvolvesInv shows that a transaction of each kind preserves the          *)
(* inductive invariant Inv.                                                *)
(***************************************************************************)
EXTENDS LeaseAuthorityTimed, TLAPS

RowOK(k, row) ==
    row # None => row \in Row /\ Decodes(row) /\ row.request.key = k

(* The row is left as it is; a lease or terminal returned is the stored.   *)
Keeps(row, out) ==
    /\ out.row = row
    /\ out.lease # None => row # None /\ row.terminal = None
                             /\ out.lease = LeaseOf(row)
    /\ out.terminal # None => row # None /\ row.terminal = out.terminal

(* The row becomes the lease that is returned.                             *)
Stores(out) ==
    /\ out.lease \in Lease
    /\ out.row = Leased(out.lease)
    /\ out.terminal = None

(* First acquisition.                                                      *)
Opens(k, row, out) ==
    /\ row = None
    /\ Stores(out)
    /\ out.lease.request.key = k
    /\ out.lease.fence = 1

(* Takeover of an expired lease.                                           *)
HandsOn(row, now, out) ==
    /\ row # None /\ row.terminal = None
    /\ row.expires <= now
    /\ row.request.policy # "no_redrive"
    /\ Stores(out)
    /\ out.lease.request = row.request
    /\ out.lease.fence = row.fence + 1

(* Renewal by the holder.                                                  *)
Lengthens(row, out) ==
    /\ row # None /\ row.terminal = None
    /\ Stores(out)
    /\ out.lease.request = row.request
    /\ out.lease.who = row.who
    /\ out.lease.fence = row.fence
    /\ out.lease.expires >= row.expires

(* Publication of a terminal for the stored lease.                         *)
Closes(row, now, out) ==
    /\ row # None /\ row.terminal = None
    /\ out.terminal \in Terminal
    /\ out.terminal.request = row.request
    /\ out.terminal.who = row.who
    /\ out.terminal.fence = row.fence
    /\ out.terminal.outcome = "recovery_required" => row.expires <= now
    /\ out.row = Terminalized(out.terminal)
    /\ out.lease = None

Evolves(k, row, now, out) ==
    \/ Keeps(row, out)
    \/ Opens(k, row, out)
    \/ HandsOn(row, now, out)
    \/ Lengthens(row, out)
    \/ Closes(row, now, out)

-----------------------------------------------------------------------------
(* A decoded row without a terminal is a lease.                            *)
LEMMA LeasedRow ==
    ASSUME NEW k, NEW row, RowOK(k, row), row # None, row.terminal = None
    PROVE  /\ row.state = "leased"
           /\ row.expires \in Nat
           /\ LeaseOf(row) \in Lease
<1>1. row.state = "leased" /\ row.expires \in Nat
  BY DEF RowOK, Row, Decodes
<1> QED
  BY <1>1 DEF RowOK, Row, LeaseOf, NewLease, Lease

(* Taking over an expired lease closes a no_redrive effect, refuses at the *)
(* last fence, or hands the effect on.                                     *)
LEMMA TakeOverEvolves ==
    ASSUME NEW k, NEW row, RowOK(k, row), row # None, row.terminal = None,
           NEW now \in Nat, NEW who \in Identities, NEW duration \in Nat,
           row.expires <= now
    PROVE  Evolves(k, row, now, TakeOver(row, now, row.request, who, duration))
<1> DEFINE out == TakeOver(row, now, row.request, who, duration)
<1>1. row \in Row /\ row.request \in Requests /\ row.who \in Identities
        /\ row.fence \in Fences
  BY DEF RowOK, Row
<1>2. CASE row.request.policy = "no_redrive"
  <2>1. RecoveryTerminal(row) \in Terminal
    <3>1. LeaseOf(row) \in Lease
      BY LeasedRow
    <3> QED
      BY <1>1, <3>1, NoneAssumption
      DEF RecoveryTerminal, Terminal, TerminalShape, TerminalOutcome
  <2>2. /\ out.row = Terminalized(RecoveryTerminal(row))
        /\ out.terminal = RecoveryTerminal(row)
        /\ out.lease = None
    BY <1>2 DEF TakeOver, WithTerminal
  <2>3. Closes(row, now, out)
    BY <2>1, <2>2 DEF Closes, RecoveryTerminal
  <2> QED
    BY <2>3 DEF Evolves
<1>3. CASE row.request.policy # "no_redrive" /\ row.fence = MaxFence
  BY <1>3 DEF TakeOver, Only, Evolves, Keeps
<1>4. CASE row.request.policy # "no_redrive" /\ row.fence # MaxFence
  <2> DEFINE l == NewLease(row.request, who, row.fence + 1, now + duration)
  <2>1. row.fence + 1 \in Fences
    BY <1>1, <1>4, MaxFenceAssumption DEF Fences
  <2>2. l \in Lease
    BY <1>1, <2>1 DEF NewLease, Lease
  <2>3. out.row = Leased(l) /\ out.lease = l /\ out.terminal = None
    BY <1>4 DEF TakeOver, Grant, WithLease
  <2>4. HandsOn(row, now, out)
    BY <1>4, <2>2, <2>3 DEF HandsOn, Stores, NewLease
  <2> QED
    BY <2>4 DEF Evolves
<1> QED
  BY <1>2, <1>3, <1>4

(* Every branch of acquire is one of the five kinds of change.             *)
LEMMA AcquireEvolves ==
    ASSUME NEW k, NEW row, RowOK(k, row), NEW now \in Nat,
           NEW request \in Requests, request.key = k,
           NEW who \in Identities, NEW duration \in Nat
    PROVE  Evolves(k, row, now,
                   AcquireTransition(row, now, request, who, duration))
<1> DEFINE out == AcquireTransition(row, now, request, who, duration)
<1>1. CASE row = None
  <2> DEFINE l == NewLease(request, who, 1, now + duration)
  <2>1. l \in Lease
    BY MaxFenceAssumption DEF NewLease, Lease, Fences
  <2>2. out.row = Leased(l) /\ out.lease = l /\ out.terminal = None
    BY <1>1 DEF AcquireTransition, Grant, WithLease
  <2> QED
    BY <1>1, <2>1, <2>2 DEF Evolves, Opens, Stores, NewLease
<1>2. CASE row # None /\ row.request # request
  BY <1>2 DEF AcquireTransition, Only, Evolves, Keeps
<1>3. CASE row # None /\ row.request = request /\ row.terminal # None
  BY <1>3 DEF AcquireTransition, WithTerminal, Evolves, Keeps
<1>4. CASE row # None /\ row.request = request /\ row.terminal = None
  <2>1. row.expires \in Nat
    BY <1>4, LeasedRow
  <2>2. CASE row.expires > now
    BY <1>4, <2>2
    DEF AcquireTransition, Held, WithLease, Only, Evolves, Keeps
  <2>3. CASE ~(row.expires > now)
    <3>1. out = TakeOver(row, now, row.request, who, duration)
      BY <1>4, <2>3 DEF AcquireTransition
    <3> QED
      BY <1>4, <2>1, <2>3, <3>1, TakeOverEvolves
  <2> QED
    BY <2>2, <2>3
<1> QED
  BY <1>1, <1>2, <1>3, <1>4

(* renew keeps the row or lengthens the lease it was shown.                *)
LEMMA RenewEvolves ==
    ASSUME NEW k, NEW row, RowOK(k, row), NEW now \in Nat,
           NEW l \in Lease, l.request.key = k, NEW duration \in Nat
    PROVE  Evolves(k, row, now, RenewTransition(row, now, l, duration))
<1> DEFINE out == RenewTransition(row, now, l, duration)
<1>1. CASE \/ row = None
           \/ row.request # l.request
           \/ row.terminal # None
           \/ ~Current(row, l, now)
  BY <1>1 DEF RenewTransition, Only, Evolves, Keeps
<1>2. CASE /\ row # None
           /\ row.request = l.request
           /\ row.terminal = None
           /\ Current(row, l, now)
  <2>1. out = Extend(row, now, duration)
    BY <1>2 DEF RenewTransition
  <2>2. row \in Row /\ row.expires \in Nat
    BY <1>2, LeasedRow DEF RowOK
  <2>3. CASE now + duration <= row.expires
    BY <1>2, <2>1, <2>3 DEF Extend, WithLease, Evolves, Keeps
  <2>4. CASE ~(now + duration <= row.expires)
    <3> DEFINE r == NewLease(row.request, row.who, row.fence, now + duration)
    <3>1. r \in Lease
      BY <2>2 DEF NewLease, Lease, Row
    <3>2. out.row = Leased(r) /\ out.lease = r /\ out.terminal = None
      BY <2>1, <2>4 DEF Extend, WithLease
    <3>3. r.expires >= row.expires
      BY <2>2, <2>4 DEF NewLease
    <3> QED
      BY <1>2, <3>1, <3>2, <3>3 DEF Evolves, Lengthens, Stores, NewLease
  <2> QED
    BY <2>3, <2>4
<1> QED
  BY <1>1, <1>2

(* succeed and fail keep the row or close it for its own holder.           *)
LEMMA TerminalizeEvolves ==
    ASSUME NEW k, NEW row, RowOK(k, row), NEW now \in Nat,
           NEW l \in Lease, l.request.key = k,
           NEW t \in Terminal, t.request = l.request, t.who = l.who,
           t.fence = l.fence, t.outcome # "recovery_required"
    PROVE  Evolves(k, row, now, TerminalizeTransition(row, now, l, t))
<1> DEFINE out == TerminalizeTransition(row, now, l, t)
<1>1. CASE \/ row = None
           \/ row.request # l.request
           \/ row.terminal # None
           \/ ~Current(row, l, now)
  BY <1>1 DEF TerminalizeTransition, Only, WithTerminal, Evolves, Keeps
<1>2. CASE /\ row # None
           /\ row.request = l.request
           /\ row.terminal = None
           /\ Current(row, l, now)
  <2>1. /\ out.row = Terminalized(t)
        /\ out.terminal = t
        /\ out.lease = None
    BY <1>2 DEF TerminalizeTransition, WithTerminal
  <2> QED
    BY <1>2, <2>1 DEF Evolves, Closes, Current
<1> QED
  BY <1>1, <1>2

(* The terminals that succeed and fail build are valid and belong to the   *)
(* lease they are built from.                                              *)
LEMMA PublishedTerminals ==
    ASSUME NEW l \in Lease, NEW result \in Results
    PROVE  /\ SucceedTerminal(l, result) \in Terminal
           /\ \A failure \in Failures :
                FailTerminal(l, result, failure) \in Terminal
BY NoneAssumption
DEF SucceedTerminal, FailTerminal, Terminal, TerminalShape, TerminalOutcome,
    Lease

-----------------------------------------------------------------------------
(***************************************************************************)
(* The inductive invariant.  OneHolderPerFence speaks of leases alone; to  *)
(* carry it over a takeover one has to know that no lease has a fence      *)
(* above the row's (GrantWithinRow), to carry it over an idempotent        *)
(* reacquisition that the row's fence and holder are those of the leases   *)
(* granted under it.  ReportedStored ties every reported terminal to the   *)
(* row, and NoRedriveFence says why a no_redrive row is never handed on.   *)
(***************************************************************************)
ReportedStored ==
    \A t \in reported :
        rows[t.request.key] # None /\ rows[t.request.key].terminal = t

NoRedriveFence ==
    \A k \in Keys :
        rows[k] # None /\ rows[k].request.policy = "no_redrive"
            => rows[k].fence = 1

Inv ==
    /\ TypeOK
    /\ GrantWithinRow
    /\ OneHolderPerFence
    /\ ReportedStored
    /\ NoRedriveFence

(* The empty table satisfies the invariant.                                *)
LEMMA InitInv == Init => Inv
BY NoneAssumption
DEF Init, Inv, TypeOK, GrantWithinRow, OneHolderPerFence, ReportedStored,
    NoRedriveFence

(* What the five kinds have in common.                                     *)
Advances(row, new) ==
    /\ new # None
    /\ new.request = row.request
    /\ new.fence \in {row.fence, row.fence + 1}
    /\ new.fence = row.fence => new.who = row.who
    /\ new.fence = row.fence /\ new.terminal = None
            => row.terminal = None /\ new.expires >= row.expires
    /\ new.fence # row.fence =>
            new.terminal = None /\ row.request.policy # "no_redrive"
    /\ row.terminal # None => new = row

Returns(out) ==
    /\ out.lease # None => /\ out.row # None
                           /\ out.row.terminal = None
                           /\ out.lease = LeaseOf(out.row)
    /\ out.terminal # None => /\ out.row # None
                              /\ out.row.terminal = out.terminal

(* A lease written to a row reads back from it.                            *)
LEMMA StoresRow ==
    ASSUME NEW out, Stores(out)
    PROVE  /\ out.row \in Row
           /\ out.row # None
           /\ Decodes(out.row)
           /\ Returns(out)
           /\ out.row.terminal = None
           /\ out.row.request = out.lease.request
           /\ out.row.who = out.lease.who
           /\ out.row.fence = out.lease.fence
           /\ out.row.expires = out.lease.expires
           /\ out.row.expires \in Nat
<1>1. out.lease \in Lease /\ out.row = Leased(out.lease)
        /\ out.terminal = None
  BY DEF Stores
<1>2. /\ out.row \in Row
      /\ out.row.state = "leased"
      /\ out.row.terminal = None
      /\ out.row.request = out.lease.request
      /\ out.row.who = out.lease.who
      /\ out.row.fence = out.lease.fence
      /\ out.row.expires = out.lease.expires
      /\ out.row.expires \in Nat
  BY <1>1 DEF Leased, Lease, Row
<1>3. out.row # None /\ out.row.expires # None
  BY <1>2, NoneAssumption
<1>4. LeaseOf(out.row) = out.lease
  BY <1>1, <1>2 DEF LeaseOf, NewLease, Lease
<1> QED
  BY <1>1, <1>2, <1>3, <1>4 DEF Decodes, Returns

(* Each of the five kinds moves a row forward, and returns what it stored. *)
LEMMA EvolvesAdvances ==
    ASSUME NEW k, NEW row, RowOK(k, row), NEW now \in Nat,
           NEW out, Evolves(k, row, now, out)
    PROVE  /\ RowOK(k, out.row)
           /\ row # None => Advances(row, out.row)
           /\ row = None /\ out.row # None => out.row.fence = 1
           /\ Returns(out)
<1>1. CASE Keeps(row, out)
  <2>1. out.row = row
    BY <1>1 DEF Keeps
  <2>2. ASSUME row # None
        PROVE  Advances(row, row)
    <3>1. row.fence \in Nat
      BY <2>2, MaxFenceAssumption DEF RowOK, Row, Fences
    <3>2. row.terminal = None => row.expires \in Nat
      BY <2>2, LeasedRow
    <3> QED
      BY <2>2, <3>1, <3>2 DEF Advances
  <2> QED
    BY <1>1, <2>1, <2>2 DEF Keeps, Returns
<1>2. CASE Opens(k, row, out)
  BY <1>2, StoresRow DEF Opens, RowOK
<1>3. CASE HandsOn(row, now, out)
  <2>1. row.fence \in Nat
    BY <1>3, MaxFenceAssumption DEF HandsOn, RowOK, Row, Fences
  <2>2. Stores(out)
    BY <1>3 DEF HandsOn
  <2> QED
    BY <1>3, <2>1, <2>2, StoresRow DEF HandsOn, RowOK, Advances
<1>4. CASE Lengthens(row, out)
  <2>1. row.fence \in Nat
    BY <1>4, MaxFenceAssumption DEF Lengthens, RowOK, Row, Fences
  <2>2. Stores(out)
    BY <1>4 DEF Lengthens
  <2> QED
    BY <1>4, <2>1, <2>2, StoresRow DEF Lengthens, RowOK, Advances
<1>5. CASE Closes(row, now, out)
  <2>1. row.fence \in Nat
    BY <1>5, MaxFenceAssumption DEF Closes, RowOK, Row, Fences
  <2>2. out.terminal \in Terminal /\ out.terminal # None
    BY <1>5, NoneAssumption DEF Closes
  <2>3. /\ out.row \in Row
        /\ out.row.state = out.terminal.outcome
        /\ out.row.state # "leased"
        /\ out.row.expires = None
        /\ out.row.terminal = out.terminal
        /\ out.row.request = out.terminal.request
        /\ out.row.who = out.terminal.who
        /\ out.row.fence = out.terminal.fence
    <3>1. out.row = Terminalized(out.terminal)
      BY <1>5 DEF Closes
    <3>2. /\ out.terminal.request \in Requests
          /\ out.terminal.outcome \in TerminalOutcome
          /\ out.terminal.who \in Identities
          /\ out.terminal.fence \in Fences
      BY <2>2 DEF Terminal
    <3> QED
      BY <2>2, <3>1, <3>2 DEF Terminalized, Row, TerminalOutcome
  <2>4. out.row # None
    BY <2>3, NoneAssumption
  <2>5. RowOK(k, out.row) /\ Returns(out)
    BY <1>5, <2>2, <2>3, <2>4 DEF Closes, RowOK, Decodes, Returns
  <2>6. Advances(row, out.row)
    BY <1>5, <2>1, <2>2, <2>3, <2>4 DEF Closes, Advances
  <2> QED
    BY <1>5, <2>5, <2>6 DEF Closes
<1> QED
  BY <1>1, <1>2, <1>3, <1>4, <1>5 DEF Evolves

(* A transaction whose outcome is one of the five kinds preserves Inv.     *)
LEMMA EvolvesInv ==
    ASSUME Inv, NEW k \in Keys, NEW now \in Nat, NEW out,
           Evolves(k, rows[k], now, out), Transact(k, out)
    PROVE  Inv'
<1> DEFINE row == rows[k]
           new == out.row
<1>1. RowOK(k, row)
  BY DEF Inv, TypeOK, RowOK
<1>2. /\ RowOK(k, new)
      /\ row # None => Advances(row, new)
      /\ row = None /\ new # None => new.fence = 1
      /\ Returns(out)
  BY <1>1, EvolvesAdvances
<1>3. /\ rows' = [rows EXCEPT ![k] = new]
      /\ granted' = granted \cup ({out.lease} \ {None})
      /\ reported' = reported \cup ({out.terminal} \ {None})
  BY DEF Transact
<1>4. /\ rows \in [Keys -> Row \cup {None}]
      /\ granted \subseteq Lease
      /\ reported \subseteq Terminal
  BY DEF Inv, TypeOK
<1>5. /\ rows'[k] = new
      /\ \A j \in Keys \ {k} : rows'[j] = rows[j]
  BY <1>3, <1>4
<1>6. \A r \in Requests : r.key \in Keys
  BY RequestsAssumption DEF Request
<1>7. out.lease # None =>
        /\ new # None
        /\ new.terminal = None
        /\ new.expires \in Nat
        /\ out.lease \in Lease
        /\ out.lease.request = new.request
        /\ out.lease.request.key = k
        /\ out.lease.who = new.who
        /\ out.lease.fence = new.fence
        /\ out.lease.expires = new.expires
  BY <1>2, LeasedRow DEF Returns, LeaseOf, NewLease, RowOK
<1>8. out.terminal # None =>
        /\ new # None
        /\ new.terminal = out.terminal
        /\ out.terminal \in Terminal
        /\ out.terminal.request.key = k
  BY <1>2 DEF Returns, RowOK, Row, Decodes
<1>9. TypeOK'
  <2>1. rows' \in [Keys -> Row \cup {None}]
    BY <1>2, <1>3, <1>4 DEF RowOK
  <2>2. \A j \in Keys : rows'[j] # None =>
            Decodes(rows'[j]) /\ rows'[j].request.key = j
    BY <1>2, <1>5 DEF RowOK, Inv, TypeOK
  <2>3. granted' \subseteq Lease /\ reported' \subseteq Terminal
    BY <1>3, <1>4, <1>7, <1>8
  <2> QED
    BY <2>1, <2>2, <2>3 DEF TypeOK
<1>10. GrantWithinRow'
  <2> SUFFICES ASSUME NEW l \in granted'
               PROVE  /\ rows'[l.request.key] # None
                      /\ rows'[l.request.key].request = l.request
                      /\ l.fence <= rows'[l.request.key].fence
                      /\ l.fence = rows'[l.request.key].fence =>
                           /\ l.who = rows'[l.request.key].who
                           /\ rows'[l.request.key].terminal = None
                                => l.expires <= rows'[l.request.key].expires
    BY DEF GrantWithinRow
  <2>1. CASE l \notin granted
    <3>1. l = out.lease /\ out.lease # None
      BY <1>3, <2>1
    <3>2. new.fence \in Nat
      BY <1>2, <1>7, <3>1, MaxFenceAssumption DEF RowOK, Row, Fences
    <3> QED
      BY <1>5, <1>7, <3>1, <3>2
  <2>2. CASE l \in granted /\ l.request.key # k
    BY <1>4, <1>5, <1>6, <2>2 DEF Inv, GrantWithinRow, Lease
  <2>3. CASE l \in granted /\ l.request.key = k
    <3>1. /\ row # None
          /\ row.request = l.request
          /\ l.fence <= row.fence
          /\ l.fence = row.fence =>
               /\ l.who = row.who
               /\ row.terminal = None => l.expires <= row.expires
      BY <2>3 DEF Inv, GrantWithinRow
    <3>2. row.fence \in Nat /\ l.fence \in Nat /\ l.expires \in Nat
      BY <1>1, <1>4, <2>3, <3>1, MaxFenceAssumption
      DEF RowOK, Row, Lease, Fences
    <3>3. Advances(row, new)
      BY <1>2, <3>1
    <3>4. row.terminal = None => row.expires \in Nat
      BY <1>1, <3>1, LeasedRow
    <3>5. new.terminal = None => new.expires \in Nat
      BY <1>2, <3>3, LeasedRow DEF Advances
    <3> QED
      BY <1>5, <2>3, <3>1, <3>2, <3>3, <3>4, <3>5 DEF Advances
  <2> QED
    BY <2>1, <2>2, <2>3
<1>11. OneHolderPerFence'
  <2> SUFFICES ASSUME NEW l1 \in granted', NEW l2 \in granted',
                      l1.request.key = l2.request.key,
                      l1.fence = l2.fence
               PROVE  l1.request = l2.request /\ l1.who = l2.who
    BY DEF OneHolderPerFence
  <2>1. CASE l1 \in granted /\ l2 \in granted
    BY <2>1 DEF Inv, OneHolderPerFence
  <2>2. CASE l1 = out.lease /\ out.lease # None
    BY <1>5, <1>7, <1>10, <2>2 DEF GrantWithinRow
  <2>3. CASE l2 = out.lease /\ out.lease # None
    BY <1>5, <1>7, <1>10, <2>3 DEF GrantWithinRow
  <2> QED
    BY <1>3, <2>1, <2>2, <2>3
<1>12. ReportedStored'
  <2> SUFFICES ASSUME NEW t \in reported'
               PROVE  /\ rows'[t.request.key] # None
                      /\ rows'[t.request.key].terminal = t
    BY DEF ReportedStored
  <2>1. CASE t \notin reported
    BY <1>3, <1>5, <1>8, <2>1
  <2>2. CASE t \in reported /\ t.request.key # k
    BY <1>4, <1>5, <1>6, <2>2 DEF Inv, ReportedStored, Terminal
  <2>3. CASE t \in reported /\ t.request.key = k
    <3>1. row # None /\ row.terminal = t /\ t # None
      BY <1>4, <2>3, NoneAssumption DEF Inv, ReportedStored
    <3> QED
      BY <1>2, <1>5, <2>3, <3>1 DEF Advances
  <2> QED
    BY <2>1, <2>2, <2>3
<1>13. NoRedriveFence'
  BY <1>2, <1>5 DEF Inv, NoRedriveFence, Advances
<1> QED
  BY <1>9, <1>10, <1>11, <1>12, <1>13 DEF Inv

(* Every operation of the authority is a transaction of one of the kinds.  *)
LEMMA StepEvolves ==
    ASSUME Inv, NEW now \in Nat, Step(now)
    PROVE  \E k \in Keys : \E out :
                Evolves(k, rows[k], now, out) /\ Transact(k, out)
<1>1. \A k \in Keys : RowOK(k, rows[k])
  BY DEF Inv, TypeOK, RowOK
<1>2. \A r \in Requests : r.key \in Keys
  BY RequestsAssumption DEF Request
<1>3. \A l \in granted : l \in Lease /\ l.request \in Requests
  BY DEF Inv, TypeOK, Lease
<1>4. CASE \E request \in Requests, who \in Identities,
              duration \in Durations : Acquire(now, request, who, duration)
  <2>1. PICK request \in Requests, who \in Identities, duration \in Durations :
             Acquire(now, request, who, duration)
    BY <1>4
  <2>2. duration \in Nat
    BY TimeAssumption
  <2>3. Evolves(request.key, rows[request.key], now,
          AcquireTransition(rows[request.key], now, request, who, duration))
    BY <1>1, <1>2, <2>2, AcquireEvolves
  <2> QED
    BY <1>2, <2>1, <2>3 DEF Acquire
<1>5. CASE \E l \in granted, duration \in Durations : Renew(now, l, duration)
  <2>1. PICK l \in granted, duration \in Durations : Renew(now, l, duration)
    BY <1>5
  <2>2. duration \in Nat
    BY TimeAssumption
  <2>3. Evolves(l.request.key, rows[l.request.key], now,
          RenewTransition(rows[l.request.key], now, l, duration))
    BY <1>1, <1>2, <1>3, <2>2, RenewEvolves
  <2> QED
    BY <1>2, <1>3, <2>1, <2>3 DEF Renew
<1>6. ASSUME NEW l \in granted, NEW t \in Terminal,
             t.request = l.request, t.who = l.who, t.fence = l.fence,
             t.outcome # "recovery_required", Terminalize(now, l, t)
      PROVE  \E k \in Keys : \E out :
                Evolves(k, rows[k], now, out) /\ Transact(k, out)
  <2>1. Evolves(l.request.key, rows[l.request.key], now,
          TerminalizeTransition(rows[l.request.key], now, l, t))
    BY <1>1, <1>2, <1>3, <1>6, TerminalizeEvolves
  <2> QED
    BY <1>2, <1>3, <1>6, <2>1 DEF Terminalize
<1>7. CASE \E l \in granted, result \in Results : Succeed(now, l, result)
  <2>1. PICK l \in granted, result \in Results : Succeed(now, l, result)
    BY <1>7
  <2>2. SucceedTerminal(l, result) \in Terminal
    BY <1>3, PublishedTerminals
  <2> QED
    BY <1>6, <2>1, <2>2 DEF Succeed, SucceedTerminal
<1>8. CASE \E l \in granted, result \in Results, failure \in Failures :
              Fail(now, l, result, failure)
  <2>1. PICK l \in granted, result \in Results, failure \in Failures :
             Fail(now, l, result, failure)
    BY <1>8
  <2>2. FailTerminal(l, result, failure) \in Terminal
    BY <1>3, PublishedTerminals
  <2> QED
    BY <1>6, <2>1, <2>2 DEF Fail, FailTerminal
<1>9. ASSUME NEW t, t.request.key \in Keys, VerifyTerminal(t)
      PROVE  \E k \in Keys : \E out :
                Evolves(k, rows[k], now, out) /\ Transact(k, out)
  <2>1. Evolves(t.request.key, rows[t.request.key], now,
          VerifyTransition(rows[t.request.key], t))
    BY DEF VerifyTransition, WithTerminal, Only, Evolves, Keeps
  <2> QED
    BY <1>9, <2>1 DEF VerifyTerminal
<1>10. CASE \E l \in granted, result \in Results :
              VerifyTerminal(SucceedTerminal(l, result))
  BY <1>2, <1>3, <1>9, <1>10 DEF SucceedTerminal
<1>11. CASE \E t \in reported : VerifyTerminal(t)
  BY <1>2, <1>9, <1>11 DEF Inv, TypeOK, Terminal
<1> QED
  BY <1>4, <1>5, <1>7, <1>8, <1>10, <1>11 DEF Step

(* Every step of the authority preserves the invariant.                    *)
LEMMA NextInv == Inv /\ [Next]_vars => Inv'
<1> SUFFICES ASSUME Inv, [Next]_vars
             PROVE  Inv'
  OBVIOUS
<1>1. CASE UNCHANGED vars
  BY <1>1
  DEF vars, Inv, TypeOK, GrantWithinRow, OneHolderPerFence, ReportedStored,
      NoRedriveFence
<1>2. CASE Next
  <2>1. PICK now \in Times : Step(now)
    BY <1>2 DEF Next
  <2>2. now \in Nat
    BY TimeAssumption
  <2> QED
    BY <2>1, <2>2, StepEvolves, EvolvesInv
<1> QED
  BY <1>1, <1>2

(* The inductive invariant holds in every reachable state.                 *)
THEOREM InvHolds == Spec => []Inv
BY InitInv, NextInv, PTL DEF Spec

(* Type correctness: whatever the callers and the clock do, every row of   *)
(* the table passes _decode_row and every lease and terminal its validator *)
(* (fences stay in 1.._MAX_FENCE).                                         *)
THEOREM TypeCorrect == Spec => []TypeOK
<1>1. Inv => TypeOK
  BY DEF Inv
<1> QED
  BY <1>1, InvHolds, PTL

(* acquire and renew: a fence identifies one holder and one request.       *)
THEOREM FenceUnique == Spec => []OneHolderPerFence
<1>1. Inv => OneHolderPerFence
  BY DEF Inv
<1> QED
  BY <1>1, InvHolds, PTL

(* No caller ever holds a lease that promises more than the stored row.    *)
THEOREM GrantsWithinRow == Spec => []GrantWithinRow
<1>1. Inv => GrantWithinRow
  BY DEF Inv
<1> QED
  BY <1>1, InvHolds, PTL

(* Exactly-once terminals: every terminal ever reported to a caller is the *)
(* authoritative one in every later state.                                 *)
THEOREM ExactlyOnce == Spec => []ReportedStaysAuthoritative
<1>1. Inv => ReportedStaysAuthoritative
  <2> SUFFICES ASSUME Inv, NEW t \in reported
               PROVE  VerifyTransition(rows[t.request.key], t).terminal = t
    BY DEF ReportedStaysAuthoritative
  <2>1. rows[t.request.key] # None /\ rows[t.request.key].terminal = t
    BY DEF Inv, ReportedStored
  <2>2. t # None
    BY NoneAssumption DEF Inv, TypeOK
  <2> QED
    BY <2>1, <2>2 DEF VerifyTransition, WithTerminal
<1> QED
  BY <1>1, InvHolds, PTL

(* Fencing: a reported terminal belongs to the newest lease of its key.    *)
THEOREM Fencing == Spec => []TerminalOfNewestFence
<1>1. Inv => TerminalOfNewestFence
  <2> SUFFICES ASSUME Inv, NEW t \in reported, NEW l \in granted,
                      l.request.key = t.request.key
               PROVE  /\ l.fence <= t.fence
                      /\ l.fence = t.fence => l.who = t.who
    BY DEF TerminalOfNewestFence
  <2> DEFINE row == rows[t.request.key]
  <2>1. row # None /\ row.terminal = t /\ t # None
    BY NoneAssumption DEF Inv, ReportedStored, TypeOK
  <2>2. t.request.key \in Keys
    BY RequestsAssumption DEF Inv, TypeOK, Terminal, Request
  <2>3. t.who = row.who /\ t.fence = row.fence
    BY <2>1, <2>2 DEF Inv, TypeOK, Decodes
  <2> QED
    BY <2>1, <2>3 DEF Inv, GrantWithinRow
<1> QED
  BY <1>1, InvHolds, PTL

(* ReplayPolicy.NO_REDRIVE: one holder, under fence 1, for ever.           *)
THEOREM NoRedrive == Spec => []NoRedriveOneHolder
<1>1. Inv => NoRedriveOneHolder
  <2> SUFFICES ASSUME Inv, NEW l1 \in granted, NEW l2 \in granted,
                      l1.request.policy = "no_redrive",
                      l1.request.key = l2.request.key
               PROVE  l1.who = l2.who /\ l1.fence = 1 /\ l2.fence = 1
    BY DEF NoRedriveOneHolder
  <2> DEFINE row == rows[l1.request.key]
  <2>1. /\ row # None
        /\ row.request = l1.request
        /\ l1.fence <= row.fence
        /\ l2.fence <= row.fence
    BY DEF Inv, GrantWithinRow
  <2>2. l1 \in Lease /\ l2 \in Lease
    BY DEF Inv, TypeOK
  <2>3. l1.request.key \in Keys
    BY <2>2, RequestsAssumption DEF Lease, Request
  <2>4. row.fence = 1
    BY <2>1, <2>3 DEF Inv, NoRedriveFence
  <2>5. l1.fence = 1 /\ l2.fence = 1
    BY <2>1, <2>2, <2>4, MaxFenceAssumption DEF Lease, Fences
  <2> QED
    BY <2>5 DEF Inv, OneHolderPerFence
<1> QED
  BY <1>1, InvHolds, PTL

(* A holder that lost a reply gets its live lease back by acquiring again. *)
THEOREM HolderRecovers == Spec => []HolderRecoversLease
<1>1. Inv => HolderRecoversLease
  <2> SUFFICES ASSUME Inv, NEW l \in granted, NEW now \in Times,
                      NEW duration \in Durations,
                      rows[l.request.key].terminal = None,
                      rows[l.request.key].fence = l.fence,
                      rows[l.request.key].expires > now
               PROVE  LET row == rows[l.request.key]
                          out == AcquireTransition(row, now, l.request, l.who,
                                                   duration)
                      IN  out.row = row /\ out.lease = LeaseOf(row)
    BY DEF HolderRecoversLease
  <2>1. /\ rows[l.request.key] # None
        /\ rows[l.request.key].request = l.request
        /\ rows[l.request.key].who = l.who
    BY DEF Inv, GrantWithinRow
  <2> QED
    BY <2>1 DEF AcquireTransition, Held, WithLease
<1> QED
  BY <1>1, InvHolds, PTL

(* succeed and fail may be repeated after they committed.                  *)
THEOREM IdempotentPublication == Spec => []PublicationIdempotent
<1>1. Inv => PublicationIdempotent
  <2> SUFFICES ASSUME Inv, NEW t \in reported, NEW l \in granted,
                      NEW now \in Times, l.request = t.request
               PROVE  TerminalizeTransition(rows[t.request.key], now, l, t)
                        = WithTerminal(rows[t.request.key], t)
    BY DEF PublicationIdempotent
  <2>1. /\ rows[t.request.key] # None
        /\ rows[t.request.key].terminal = t
        /\ t # None
        /\ rows[t.request.key].request = l.request
    BY NoneAssumption DEF Inv, ReportedStored, TypeOK, GrantWithinRow
  <2> QED
    BY <2>1 DEF TerminalizeTransition
<1> QED
  BY <1>1, InvHolds, PTL

(* How a row may change: never deleted, one request, the fence up by at    *)
(* most one and for one holder, no lease shortened, no terminal replaced.  *)
THEOREM RowsEvolve == Spec => RowEvolution
<1>1. Inv /\ [Next]_vars =>
        [\A k \in Keys : rows[k] # None =>
            LET old == rows[k]
                new == rows'[k]
            IN  /\ new # None
                /\ old.terminal # None => new = old
                /\ new.request = old.request
                /\ new.fence \in {old.fence, old.fence + 1}
                /\ new.fence = old.fence => new.who = old.who
                /\ new.fence = old.fence /\ new.terminal = None
                        => new.expires >= old.expires
                /\ new.fence # old.fence => new.terminal = None]_vars
  <2> SUFFICES ASSUME Inv, Next, NEW j \in Keys, rows[j] # None
               PROVE  Advances(rows[j], rows'[j])
    BY DEF Advances
  <2>1. PICK now \in Times : Step(now)
    BY DEF Next
  <2>2. now \in Nat
    BY TimeAssumption
  <2>3. PICK k \in Keys : \E out :
             Evolves(k, rows[k], now, out) /\ Transact(k, out)
    BY <2>1, <2>2, StepEvolves
  <2>4. PICK out : Evolves(k, rows[k], now, out) /\ Transact(k, out)
    BY <2>3
  <2>5. RowOK(k, rows[k]) /\ RowOK(j, rows[j])
    BY DEF Inv, TypeOK, RowOK
  <2>6. CASE j = k
    <3>1. rows'[k] = out.row
      BY <2>4 DEF Transact, Inv, TypeOK
    <3> QED
      BY <2>2, <2>4, <2>5, <2>6, <3>1, EvolvesAdvances
  <2>7. CASE j # k
    <3>1. rows'[j] = rows[j]
      BY <2>4, <2>7 DEF Transact, Inv, TypeOK
    <3>2. rows[j].fence \in Nat
      BY <2>5, MaxFenceAssumption DEF RowOK, Row, Fences
    <3>3. rows[j].terminal = None => rows[j].expires \in Nat
      BY <2>5, LeasedRow
    <3> QED
      BY <3>1, <3>2, <3>3 DEF Advances
  <2> QED
    BY <2>6, <2>7
<1> QED
  BY <1>1, InvHolds, PTL DEF Spec, RowEvolution
-----------------------------------------------------------------------------
(***************************************************************************)
(* What a clock that is not set back adds, for every instance: a lease     *)
(* excludes its predecessors in time, and recovery never overtakes a live  *)
(* holder.  Both are properties of pairs of leases; the inductive          *)
(* invariant TimedInv restates them against the stored row, which is what  *)
(* the transitions compare with.                                           *)
(***************************************************************************)
(* Unless the clock was set back: a lease whose fence the row has moved    *)
(* past has expired ...                                                    *)
OvertakenExpired ==
    steady => \A l \in granted :
        l.fence < rows[l.request.key].fence => l.expires <= clock

(* ... and so has every lease of an effect that was closed for recovery.   *)
RecoveredExpired ==
    steady => \A l \in granted :
        rows[l.request.key].state = "recovery_required"
            => l.expires <= clock

TimedInv ==
    /\ Inv
    /\ clock \in Times
    /\ OvertakenExpired
    /\ RecoveredExpired

(* The empty table satisfies the timed invariant at any time.              *)
LEMMA TimedInitInv == TimedInit => TimedInv
BY InitInv DEF TimedInit, Init, TimedInv, OvertakenExpired, RecoveredExpired

(* The clock moving preserves it: what has expired stays expired unless it *)
(* is set back.                                                            *)
LEMMA TickInv == TimedInv /\ Tick => TimedInv'
<1> SUFFICES ASSUME TimedInv, Tick
             PROVE  TimedInv'
  OBVIOUS
<1>1. Inv'
  BY NextInv DEF TimedInv, Tick
<1>2. /\ clock \in Nat /\ clock' \in Times /\ clock' \in Nat
      /\ steady' => steady /\ clock < clock'
  BY TimeAssumption DEF TimedInv, Tick
<1>3. \A l \in granted : l.expires \in Nat
  BY DEF TimedInv, Inv, TypeOK, Lease
<1>4. OvertakenExpired'
  BY <1>2, <1>3 DEF TimedInv, Tick, vars, OvertakenExpired
<1>5. RecoveredExpired'
  BY <1>2, <1>3 DEF TimedInv, Tick, vars, RecoveredExpired
<1> QED
  BY <1>1, <1>2, <1>4, <1>5 DEF TimedInv

(* A transaction at the clock's time expires nothing early.                *)
LEMMA TimedStepInv == TimedInv /\ TimedStep => TimedInv'
<1> SUFFICES ASSUME TimedInv, TimedStep
             PROVE  TimedInv'
  OBVIOUS
<1>1. Inv /\ clock \in Times /\ clock \in Nat /\ clock' = clock
        /\ steady' = steady
  BY TimeAssumption DEF TimedInv, TimedStep
<1>2. PICK k \in Keys : \E out :
           Evolves(k, rows[k], clock, out) /\ Transact(k, out)
  BY <1>1, StepEvolves DEF TimedStep
<1>3. PICK out : Evolves(k, rows[k], clock, out) /\ Transact(k, out)
  BY <1>2
<1> DEFINE row == rows[k]
           new == out.row
<1>4. Inv'
  BY <1>1, <1>3, EvolvesInv
<1>5. RowOK(k, row)
  BY <1>1 DEF Inv, TypeOK, RowOK
<1>6. /\ RowOK(k, new)
      /\ row # None => Advances(row, new)
      /\ Returns(out)
  BY <1>1, <1>3, <1>5, EvolvesAdvances
<1>7. /\ rows'[k] = new
      /\ \A j \in Keys \ {k} : rows'[j] = rows[j]
      /\ granted' = granted \cup ({out.lease} \ {None})
  BY <1>1, <1>3 DEF Transact, Inv, TypeOK
<1>8. \A l \in granted : l \in Lease /\ l.request.key \in Keys
  BY <1>1, RequestsAssumption DEF Inv, TypeOK, Lease, Request
<1>9. ASSUME NEW l \in granted', l \notin granted
      PROVE  /\ l.request.key = k
             /\ l.fence = new.fence
             /\ new.fence \in Nat
             /\ new.terminal = None
             /\ new.state = "leased"
  <2>1. l = out.lease /\ out.lease # None
    BY <1>7, <1>9
  <2> QED
    BY <1>6, <2>1, LeasedRow, MaxFenceAssumption
    DEF Returns, LeaseOf, NewLease, RowOK, Row, Fences
(* For a lease of this key granted earlier: either the row kept its fence  *)
(* or the lease the row held had expired.                                  *)
<1>10. ASSUME NEW l \in granted, l.request.key = k
       PROVE  /\ row # None
              /\ l.fence \in Nat /\ l.expires \in Nat /\ row.fence \in Nat
              /\ l.fence <= row.fence
              /\ row.terminal = None =>
                   /\ row.expires \in Nat
                   /\ l.fence = row.fence => l.expires <= row.expires
              /\ new.fence # row.fence => row.expires <= clock
              /\ new.fence # row.fence => row.terminal = None
              /\ new.fence # row.fence => new.state = "leased"
              /\ new.state = "recovery_required" =>
                   \/ row.state = "recovery_required"
                   \/ row.terminal = None /\ row.expires <= clock
  <2>1. row # None /\ l.fence <= row.fence
          /\ (l.fence = row.fence /\ row.terminal = None
                => l.expires <= row.expires)
    BY <1>1, <1>10 DEF Inv, GrantWithinRow
  <2>2. l.fence \in Nat /\ l.expires \in Nat /\ row.fence \in Nat
    BY <1>5, <1>8, <2>1, MaxFenceAssumption DEF Lease, RowOK, Row, Fences
  <2>3. row.terminal = None => row.expires \in Nat /\ row.state = "leased"
    BY <1>5, <2>1, LeasedRow
  <2>4. CASE Keeps(row, out)
    BY <2>1, <2>2, <2>3, <2>4 DEF Keeps
  <2>5. CASE HandsOn(row, clock, out)
    BY <2>1, <2>2, <2>3, <2>5 DEF HandsOn, Stores, Leased
  <2>6. CASE Lengthens(row, out)
    BY <2>1, <2>2, <2>3, <2>6 DEF Lengthens, Stores, Leased
  <2>7. CASE Closes(row, clock, out)
    BY <2>1, <2>2, <2>3, <2>7 DEF Closes, Terminalized
  <2> QED
    BY <1>3, <2>1, <2>4, <2>5, <2>6, <2>7 DEF Evolves, Opens
<1>11. OvertakenExpired'
  <2> SUFFICES ASSUME steady, NEW l \in granted',
                      l.fence < rows'[l.request.key].fence
               PROVE  l.expires <= clock
    BY <1>1 DEF OvertakenExpired
  <2>1. CASE l \notin granted
    BY <1>7, <1>9, <2>1
  <2>2. CASE l \in granted /\ l.request.key # k
    BY <1>7, <1>8, <2>2 DEF TimedInv, OvertakenExpired
  <2>3. CASE l \in granted /\ l.request.key = k
    <3>1. l.fence < row.fence => l.expires <= clock
      BY <2>3 DEF TimedInv, OvertakenExpired
    <3>2. CASE new.fence = row.fence
      BY <1>7, <2>3, <3>1, <3>2
    <3>3. CASE new.fence # row.fence
      BY <1>1, <1>10, <2>3, <3>1, <3>3
    <3> QED
      BY <3>2, <3>3
  <2> QED
    BY <2>1, <2>2, <2>3
<1>12. RecoveredExpired'
  <2> SUFFICES ASSUME steady, NEW l \in granted',
                      rows'[l.request.key].state = "recovery_required"
               PROVE  l.expires <= clock
    BY <1>1 DEF RecoveredExpired
  <2>1. CASE l \notin granted
    BY <1>7, <1>9, <2>1
  <2>2. CASE l \in granted /\ l.request.key # k
    BY <1>7, <1>8, <2>2 DEF TimedInv, RecoveredExpired
  <2>3. CASE l \in granted /\ l.request.key = k
    <3>1. new.state = "recovery_required"
      BY <1>7, <2>3
    <3>2. l.fence < row.fence => l.expires <= clock
      BY <2>3 DEF TimedInv, OvertakenExpired
    <3>3. row.state = "recovery_required" => l.expires <= clock
      BY <2>3 DEF TimedInv, RecoveredExpired
    <3> QED
      BY <1>1, <1>10, <2>3, <3>1, <3>2, <3>3
  <2> QED
    BY <2>1, <2>2, <2>3
<1> QED
  BY <1>1, <1>4, <1>11, <1>12 DEF TimedInv

(* The timed inductive invariant (acquire's expiry test, expires_at > now) *)
(* holds in every reachable state.                                         *)
THEOREM TimedInvHolds == TimedSpec => []TimedInv
<1>1. TimedInv /\ UNCHANGED timedVars => TimedInv'
  <2> SUFFICES ASSUME TimedInv, UNCHANGED timedVars
               PROVE  TimedInv'
    OBVIOUS
  <2>1. Inv'
    BY NextInv DEF TimedInv, timedVars, vars
  <2> QED
    BY <2>1
    DEF TimedInv, timedVars, OvertakenExpired, RecoveredExpired
<1>2. TimedInv /\ [TimedNext]_timedVars => TimedInv'
  BY <1>1, TickInv, TimedStepInv DEF TimedNext
<1> QED
  BY <1>2, TimedInitInv, PTL DEF TimedSpec

(* The authority under any clock, set back or not, implements              *)
(* LeaseAuthority, so what is proved of that holds here too.               *)
THEOREM TimedImplementsAuthority == TimedSpec => Spec
<1>1. TimedInit => Init
  BY DEF TimedInit
<1>2. TimedInv /\ [TimedNext]_timedVars => [Next]_vars
  BY DEF TimedInv, TimedNext, Tick, TimedStep, Next, timedVars, vars
<1> QED
  BY <1>1, <1>2, TimedInvHolds, PTL DEF TimedSpec, Spec

(* acquire's takeover guard (expires_at > now) excludes in time: once a    *)
(* newer fence was granted, every older lease has expired.                 *)
THEOREM TimeExclusion == TimedSpec => []OlderLeasesExpired
<1>1. TimedInv => OlderLeasesExpired
  <2> SUFFICES ASSUME TimedInv, steady, NEW l1 \in granted, NEW l2 \in granted,
                      l1.request.key = l2.request.key, l1.fence < l2.fence
               PROVE  l1.expires <= clock
    BY DEF OlderLeasesExpired
  <2> DEFINE row == rows[l1.request.key]
  <2>1. row # None /\ l2.fence <= row.fence
    BY DEF TimedInv, Inv, GrantWithinRow
  <2>2. l1.fence \in Nat /\ l2.fence \in Nat /\ row.fence \in Nat
    <3>1. l1 \in Lease /\ l2 \in Lease
      BY DEF TimedInv, Inv, TypeOK
    <3>2. l1.request.key \in Keys
      BY <3>1, RequestsAssumption DEF Lease, Request
    <3>3. row \in Row
      BY <2>1, <3>2 DEF TimedInv, Inv, TypeOK
    <3> QED
      BY <3>1, <3>3, MaxFenceAssumption DEF Lease, Row, Fences
  <2> QED
    BY <2>1, <2>2 DEF TimedInv, OvertakenExpired
<1> QED
  BY <1>1, TimedInvHolds, PTL

(* The recovery terminal of a no_redrive effect is only ever written after *)
(* every lease on it has expired.                                          *)
THEOREM RecoveryAfterExpiry == TimedSpec => []RecoveryOnlyAfterExpiry
<1>1. TimedInv => RecoveryOnlyAfterExpiry
  <2> SUFFICES ASSUME TimedInv, steady, NEW t \in reported, NEW l \in granted,
                      t.outcome = "recovery_required",
                      l.request.key = t.request.key
               PROVE  l.expires <= clock
    BY DEF RecoveryOnlyAfterExpiry
  <2> DEFINE row == rows[t.request.key]
  <2>1. row # None /\ row.terminal = t /\ t # None
    BY NoneAssumption DEF TimedInv, Inv, ReportedStored, TypeOK
  <2>2. t.request.key \in Keys
    BY RequestsAssumption DEF TimedInv, Inv, TypeOK, Terminal, Request
  <2>3. row.state = "recovery_required"
    BY <2>1, <2>2 DEF TimedInv, Inv, TypeOK, Decodes
  <2> QED
    BY <2>3 DEF TimedInv, RecoveredExpired
<1> QED
  BY <1>1, TimedInvHolds, PTL

(* acquire never disturbs a live lease of another identity.                *)
THEOREM LiveHolderUndisturbed == TimedSpec => LiveHolderKeepsRow
<1>1. TimedInv /\ [TimedNext]_timedVars =>
        [\A k \in Keys :
            (/\ rows[k] # None
             /\ rows[k].terminal = None
             /\ rows[k].expires > clock)
                => /\ rows'[k].who = rows[k].who
                   /\ rows'[k].fence = rows[k].fence
                   /\ rows'[k].state # "recovery_required"]_timedVars
  <2> SUFFICES ASSUME TimedInv, TimedNext, NEW j \in Keys, rows[j] # None,
                      rows[j].terminal = None, rows[j].expires > clock
               PROVE  /\ rows'[j].who = rows[j].who
                      /\ rows'[j].fence = rows[j].fence
                      /\ rows'[j].state # "recovery_required"
    OBVIOUS
  <2>1. RowOK(j, rows[j]) /\ rows[j].state = "leased"
          /\ rows[j].expires \in Nat /\ clock \in Nat
    <3>1. RowOK(j, rows[j])
      BY DEF TimedInv, Inv, TypeOK, RowOK
    <3> QED
      BY <3>1, LeasedRow, TimeAssumption DEF TimedInv
  <2>2. CASE Tick
    BY <2>1, <2>2 DEF Tick, vars
  <2>3. CASE TimedStep
    <3>1. PICK k \in Keys : \E out :
               Evolves(k, rows[k], clock, out) /\ Transact(k, out)
      BY <2>1, <2>3, StepEvolves DEF TimedStep, TimedInv
    <3>2. PICK out : Evolves(k, rows[k], clock, out) /\ Transact(k, out)
      BY <3>1
    <3>3. CASE j # k
      <4>1. rows'[j] = rows[j]
        BY <3>2, <3>3 DEF Transact, TimedInv, Inv, TypeOK
      <4> QED
        BY <2>1, <4>1
    <3>4. CASE j = k
      <4>1. rows'[j] = out.row
        BY <3>2, <3>4 DEF Transact, TimedInv, Inv, TypeOK
      <4>2. CASE Keeps(rows[j], out)
        BY <2>1, <4>1, <4>2 DEF Keeps
      <4>3. ~Opens(k, rows[j], out) /\ ~HandsOn(rows[j], clock, out)
        BY <2>1 DEF Opens, HandsOn
      <4>4. CASE Lengthens(rows[j], out)
        BY <4>1, <4>4 DEF Lengthens, Stores, Leased
      <4>5. CASE Closes(rows[j], clock, out)
        BY <2>1, <4>1, <4>5 DEF Closes, Terminalized
      <4> QED
        BY <3>2, <3>4, <4>2, <4>3, <4>4, <4>5 DEF Evolves
    <3> QED
      BY <3>3, <3>4
  <2> QED
    BY <2>2, <2>3 DEF TimedNext
<1> QED
  BY <1>1, TimedInvHolds, PTL DEF TimedSpec, LiveHolderKeepsRow
=============================================================================
