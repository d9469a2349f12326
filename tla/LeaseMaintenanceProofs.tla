----------------------- MODULE LeaseMaintenanceProofs -----------------------
(***************************************************************************)
(* Proofs of LeaseMaintenance's invariants for every lease duration, any   *)
(* number of transient failures, lost replies, interrupts and restarts of  *)
(* the renewer, and a clock that may jump and be set back; only what a     *)
(* stale lease means asks for a clock that never was (steady).             *)
(*                                                                         *)
(* What the four properties rest on is which thread may still move and     *)
(* what it knows.  OneRenewer says that, unless a join() was interrupted,  *)
(* every renewer but the last one started is dead and that one is dead     *)
(* once the owner publishes; HandleKnows says who holds a true copy of the *)
(* stored lease at each point of the renewer's loop, as long as the lease  *)
(* is still the owner's.                                                   *)
(***************************************************************************)
EXTENDS LeaseMaintenance, TLAPS

Places == {"new", "body", "joining", "publishing", "exiting", "clean",
           "unclean"}
Labels == {"unborn", "waiting", "renewing", "storing", "failing", "stopping",
           "dead"}
Errors == {"stale", "transient", "conflict"}

(* The leases that can be the handle's own.                                *)
OwnLease == {l \in Lease : l.who = Me /\ l.fence = 1}

Types ==
    /\ row \in Row /\ Decodes(row)
    /\ clock \in Nat /\ steady \in BOOLEAN
    /\ faults \in [failures : Nat, interrupts : Nat]
    /\ main \in Places
    /\ held \in OwnLease
    /\ loss \in Errors \cup {None}
    /\ stop \in BOOLEAN /\ terminalizing \in BOOLEAN /\ started \in BOOLEAN
    /\ gen \in Nat
    /\ renewer \in [Generations -> Labels]
    /\ local = [g \in Generations |-> local[g]]
    /\ \A g \in Generations :
        /\ renewer[g] \in {"renewing", "storing"} => local[g] \in OwnLease
        /\ renewer[g] = "failing" => local[g] \in {"stale", "transient"}

(* A renewer is restarted at most once for each fault.                     *)
Counts ==
    /\ gen <= faults.failures + faults.interrupts
    /\ faults.failures + faults.interrupts <= MaxFaults

(* What the owner's thread may rely on.                                    *)
Owning ==
    /\ main = "new" => gen = 0 /\ ~started
    /\ main \in {"joining", "publishing"} => ~started /\ want \in Terminal
    /\ main = "publishing" => chosen \in OwnLease
    /\ main = "clean" => started
    /\ started => returned # None /\ row.terminal = returned

(* Only the renewer last started may move, and not while or after a        *)
(* terminal is published, nor after __exit__ returned.                     *)
OneRenewer ==
    Uninterrupted =>
        /\ \A g \in Generations : /\ g < gen => renewer[g] = "dead"
                                  /\ g > gen => renewer[g] = "unborn"
        /\ main = "new" => renewer[gen] = "unborn"
        /\ main \in {"publishing", "clean", "unclean"} \/ started =>
            renewer[gen] = "dead"

(* Who holds the stored lease while it is the owner's, expired or not: the *)
(* handle, or the renewer between its renewal and its assignment of _lease.*)
(* After a failed renewal nobody may (its reply may be the one lost), and  *)
(* then the handle has a loss and publishes no more.                       *)
HandleKnows ==
    Uninterrupted =>
        /\ renewer[gen] \in {"unborn", "waiting", "renewing", "storing",
                             "failing"} => loss = None
        /\ renewer[gen] = "stopping" => loss # None
        /\ Mine /\ loss = None
             /\ renewer[gen] \in {"unborn", "waiting", "renewing", "dead"} =>
            held = LeaseOf(row)
        /\ Mine /\ renewer[gen] \in {"renewing", "storing"} =>
            local[gen] = LeaseOf(row)
        /\ steady /\ renewer[gen] = "failing" /\ local[gen] = "stale" =>
            ~MyLive
        /\ steady /\ loss = "stale" => ~MyLive
        /\ main = "publishing" => chosen = held /\ loss = None

Inv == Types /\ Counts /\ Owning /\ OneRenewer /\ HandleKnows
-----------------------------------------------------------------------------
(* The transitions, as the handle sees them.                               *)

(* r holds a lease of the owner's, and one that is live at time now.       *)
Owned(r) == r.terminal = None /\ r.who = Me /\ r.fence = 1

Live(r, now) == Owned(r) /\ r.expires > now

(* The facts about constants the proofs use.                               *)
LEMMA Constants ==
    /\ Me \in Identities /\ Contender \in Identities /\ Me # Contender
    /\ Duration \in Nat
    /\ MaxFaults \in Nat
    /\ 1 \in Fences
    /\ Times \subseteq Nat
BY MaintenanceAssumption, TimeAssumption, MaxFenceAssumption DEF Fences

(* A leased row has an expiry, any other a terminal.                       *)
LEMMA RowShape ==
    ASSUME NEW r \in Row, Decodes(r)
    PROVE  /\ r # None
           /\ r.terminal = None => r.expires \in Nat /\ LeaseOf(r) \in Lease
           /\ r.terminal # None => r.terminal \in Terminal
           /\ LeaseOf(r).who = r.who /\ LeaseOf(r).fence = r.fence
           /\ LeaseOf(r).request = r.request /\ LeaseOf(r).expires = r.expires
BY NoneAssumption DEF Row, Decodes, LeaseOf, NewLease, Lease

(* Storing a lease, or a terminal, makes a row that decodes.               *)
LEMMA StoredRow ==
    /\ \A l \in Lease : /\ Leased(l) \in Row /\ Decodes(Leased(l))
                        /\ Leased(l).terminal = None
                        /\ LeaseOf(Leased(l)) = l
    /\ \A t \in Terminal : /\ Terminalized(t) \in Row
                           /\ Decodes(Terminalized(t))
                           /\ Terminalized(t).terminal = t
<1>1. ASSUME NEW l \in Lease
      PROVE  /\ Leased(l) \in Row /\ Decodes(Leased(l))
             /\ Leased(l).terminal = None
             /\ LeaseOf(Leased(l)) = l
    BY NoneAssumption DEF Leased, Lease, Row, Decodes, LeaseOf, NewLease
<1>2. ASSUME NEW t \in Terminal
      PROVE  /\ Terminalized(t) \in Row
             /\ Decodes(Terminalized(t))
             /\ Terminalized(t).terminal = t
    <2>1. /\ t.request \in Requests /\ t.outcome \in TerminalOutcome
          /\ t.who \in Identities /\ t.fence \in Fences
        BY DEF Terminal
    <2>2. t.outcome # "leased" /\ t # None
        BY <2>1, NoneAssumption DEF TerminalOutcome
    <2> QED
        BY <2>1, <2>2 DEF Terminalized, Row, Decodes
<1> QED
    BY <1>1, <1>2

(* A contender's acquire takes a row only after it expired, and never      *)
(* makes it the owner's.                                                   *)
LEMMA ContendRow ==
    ASSUME NEW r \in Row, Decodes(r), NEW now \in Nat, NEW q,
           q = AcquireTransition(r, now, r.request, Contender, Duration).row
    PROVE  /\ q \in Row /\ Decodes(q)
           /\ r.terminal # None => q = r
           /\ Owned(q) => q = r
<1>1. r # None
    BY RowShape
<1>2. CASE r.terminal # None
    BY <1>1, <1>2 DEF AcquireTransition, WithTerminal
<1>3. CASE r.terminal = None /\ r.expires > now
    BY <1>1, <1>3 DEF AcquireTransition, Held, WithLease, Only
<1>4. CASE r.terminal = None /\ ~(r.expires > now)
    <2>1. q = TakeOver(r, now, r.request, Contender, Duration).row
        BY <1>1, <1>4 DEF AcquireTransition
    <2>2. CASE r.request.policy = "no_redrive"
        <3>1. RecoveryTerminal(r) \in Terminal
            BY <1>4, RowShape, NoneAssumption
               DEF RecoveryTerminal, Terminal, TerminalShape, Row,
                   TerminalOutcome
        <3>2. q = Terminalized(RecoveryTerminal(r))
            BY <2>1, <2>2 DEF TakeOver, WithTerminal
        <3>3. q.terminal # None
            BY <3>1, <3>2, StoredRow, NoneAssumption
        <3> QED
            BY <1>4, <3>1, <3>2, <3>3, StoredRow DEF Owned
    <2>3. CASE r.request.policy # "no_redrive" /\ r.fence = MaxFence
        BY <2>1, <2>3 DEF TakeOver, Only
    <2>4. CASE r.request.policy # "no_redrive" /\ r.fence # MaxFence
        <3>1. PICK l : l = NewLease(r.request, Contender, r.fence + 1,
                                    now + Duration)
            OBVIOUS
        <3>2. r.fence + 1 \in Fences
            BY <2>4, MaxFenceAssumption DEF Row, Fences
        <3>3. l \in Lease /\ l.who = Contender
            BY <3>1, <3>2, Constants DEF NewLease, Lease, Row
        <3>4. q = Leased(l)
            BY <2>1, <2>4, <3>1 DEF TakeOver, Grant, WithLease
        <3>5. q.who # Me
            BY <3>3, <3>4, Constants DEF Leased
        <3> QED
            BY <1>4, <3>3, <3>4, <3>5, StoredRow DEF Owned
    <2> QED
        BY <2>2, <2>3, <2>4
<1> QED
    BY <1>2, <1>3, <1>4

(* A renewal returns the lease it stored, or refuses a lease that is not   *)
(* the stored and live one.                                                *)
LEMMA RenewRow ==
    ASSUME NEW r \in Row, Decodes(r), NEW now \in Nat, NEW l \in OwnLease,
           NEW o, o = RenewTransition(r, now, l, Duration)
    PROVE  /\ o.row \in Row /\ Decodes(o.row)
           /\ r.terminal # None => o.row = r
           /\ o.lease # None => o.lease \in OwnLease
                                  /\ o.lease = LeaseOf(o.row)
           /\ o.lease = None => ~(Live(r, now) /\ l = LeaseOf(r))
<1>1. r # None
    BY RowShape
<1>2. CASE r.request # l.request \/ r.terminal # None \/ ~Current(r, l, now)
    <2>1. o.row = r /\ o.lease = None
        BY <1>1, <1>2 DEF RenewTransition, Only
    <2>2. ~(Live(r, now) /\ l = LeaseOf(r))
        BY <1>2, RowShape DEF Live, Owned, Current
    <2> QED
        BY <2>1, <2>2
<1>3. CASE /\ r.request = l.request /\ r.terminal = None
           /\ Current(r, l, now)
    <2>1. o = Extend(r, now, Duration)
        BY <1>1, <1>3 DEF RenewTransition
    <2>2. r.who = Me /\ r.fence = 1 /\ r.expires \in Nat
        BY <1>3, RowShape DEF Current, OwnLease
    <2>3. CASE now + Duration <= r.expires
        <3>1. o.row = r /\ o.lease = LeaseOf(r)
            BY <2>1, <2>3 DEF Extend, WithLease
        <3>2. LeaseOf(r) \in OwnLease
            BY <1>3, <2>2, RowShape DEF OwnLease
        <3> QED
            BY <3>1, <3>2, NoneAssumption DEF OwnLease
    <2>4. CASE ~(now + Duration <= r.expires)
        <3>1. PICK n : n = NewLease(r.request, r.who, r.fence,
                                    now + Duration)
            OBVIOUS
        <3>2. n \in OwnLease
            BY <2>2, <3>1, Constants DEF NewLease, Lease, Row, OwnLease
        <3>3. o.row = Leased(n) /\ o.lease = n
            BY <2>1, <2>4, <3>1 DEF Extend, WithLease
        <3> QED
            BY <1>3, <3>2, <3>3, StoredRow, NoneAssumption DEF OwnLease
    <2> QED
        BY <2>3, <2>4
<1> QED
    BY <1>2, <1>3

(* A publication returns the row's terminal, and refuses as stale only a   *)
(* lease that is not the stored and live one.                              *)
LEMMA TerminalizeRow ==
    ASSUME NEW r \in Row, Decodes(r), NEW now \in Nat, NEW l \in Lease,
           NEW t \in Terminal,
           NEW o, o = TerminalizeTransition(r, now, l, t)
    PROVE  /\ o.row \in Row /\ Decodes(o.row)
           /\ r.terminal # None => o.row = r
           /\ o.terminal # None => o.row.terminal = o.terminal
           /\ o.row # r => o.row.terminal # None
           /\ o.terminal = None /\ o.outcome = "stale" =>
               ~(Live(r, now) /\ l = LeaseOf(r))
<1>1. r # None /\ t # None
    BY RowShape, NoneAssumption
<1>2. CASE r.request # l.request \/ (r.terminal = None /\ ~Current(r, l, now))
    <2>1. o.row = r /\ o.terminal = None
        BY <1>1, <1>2 DEF TerminalizeTransition, Only
    <2>2. ~(Live(r, now) /\ l = LeaseOf(r))
        BY <1>2, RowShape DEF Live, Owned, Current
    <2> QED
        BY <2>1, <2>2
<1>3. CASE r.request = l.request /\ r.terminal # None
    BY <1>1, <1>3 DEF TerminalizeTransition, Only, WithTerminal, Live, Owned
<1>4. CASE r.request = l.request /\ r.terminal = None /\ Current(r, l, now)
    <2>1. o.row = Terminalized(t) /\ o.terminal = t
        BY <1>1, <1>4 DEF TerminalizeTransition, WithTerminal
    <2> QED
        BY <1>1, <1>4, <2>1, StoredRow
<1> QED
    BY <1>2, <1>3, <1>4
-----------------------------------------------------------------------------
(* The invariant.                                                          *)

(* Inv holds when the handle has been made for the lease just acquired.    *)
LEMMA InitInv == Init => Inv
<1> SUFFICES ASSUME Init PROVE Inv
    OBVIOUS
<1>1. PICK request \in Requests :
        /\ row = Leased(NewLease(request, Me, 1, Duration))
        /\ held = NewLease(request, Me, 1, Duration)
    BY DEF Init
<1>2. held \in OwnLease
    BY <1>1, Constants DEF NewLease, Lease, OwnLease
<1>3. row \in Row /\ Decodes(row) /\ LeaseOf(row) = held
    BY <1>1, <1>2, StoredRow DEF OwnLease
<1>4. 0 \in Generations
    BY Constants DEF Generations
<1>5. Types
    <2>1. /\ renewer \in [Generations -> Labels]
          /\ \A g \in Generations : renewer[g] = "unborn"
        BY DEF Init, Labels
    <2>2. local = [g \in Generations |-> local[g]]
        BY DEF Init
    <2>3. /\ clock \in Nat /\ gen \in Nat /\ main \in Places
          /\ faults \in [failures : Nat, interrupts : Nat]
          /\ loss \in Errors \cup {None}
          /\ stop = FALSE /\ terminalizing = FALSE /\ started = FALSE
          /\ steady = TRUE
        BY DEF Init, Places
    <2> QED
        BY <1>2, <1>3, <2>1, <2>2, <2>3 DEF Types
<1>6. Counts
    BY Constants DEF Init, Counts
<1>7. Owning
    BY DEF Init, Owning
<1>8. OneRenewer
    BY <1>4 DEF Init, OneRenewer, Generations
<1>9. HandleKnows
    BY <1>3, <1>4, LossAssumption DEF Init, HandleKnows
<1> QED
    BY <1>5, <1>6, <1>7, <1>8, <1>9 DEF Inv

(* The handle is unharmed by what others do to the row, as long as they    *)
(* keep a terminal and neither change nor give back a lease of the owner's.*)
LEMMA OthersInv ==
    ASSUME Inv, row' \in Row, Decodes(row)', clock' \in Nat,
           row.terminal # None => row' = row,
           Mine' => row' = row,
           steady' \in BOOLEAN,
           steady' => steady /\ (MyLive' => MyLive),
           UNCHANGED <<faults, main, want, chosen, returned, handleVars,
                       renewer, local>>
    PROVE  Inv'
<1>1. Types'
    BY DEF Inv, Types, handleVars
<1>2. Counts'
    BY DEF Inv, Counts, handleVars
<1>3. Owning'
    BY DEF Inv, Owning, handleVars
<1>4. OneRenewer'
    BY DEF Inv, OneRenewer, Uninterrupted, handleVars
<1>5. HandleKnows'
    BY DEF Inv, HandleKnows, Uninterrupted, handleVars, Mine
<1> QED
    BY <1>1, <1>2, <1>3, <1>4, <1>5 DEF Inv

(* Time and the contender preserve Inv.                                    *)
LEMMA WorldInv ==
    ASSUME Inv, Tick \/ Contend \/ ContenderPublishes
    PROVE  Inv'
<1>1. row \in Row /\ Decodes(row) /\ clock \in Nat
    BY DEF Inv, Types
<1>2. CASE Tick
    <2>1. /\ clock' \in Nat /\ row' = row
          /\ steady' = (steady /\ clock' > clock)
        BY <1>2, Constants DEF Tick
    <2>2. row.terminal = None => row.expires \in Nat
        BY <1>1, RowShape
    <2>3. clock' > clock /\ MyLive' => MyLive
        BY <1>1, <2>1, <2>2 DEF MyLive, Mine
    <2>4. steady' \in BOOLEAN /\ (steady' => steady /\ clock' > clock)
        BY <2>1 DEF Inv, Types
    <2> QED
        BY <1>1, <1>2, <2>1, <2>3, <2>4, OthersInv DEF Tick
<1>3. CASE Contend
    <2>1. /\ row' \in Row /\ Decodes(row')
          /\ row.terminal # None => row' = row
          /\ Owned(row') => row' = row
        BY <1>1, <1>3, ContendRow DEF Contend
    <2>2. Mine' => row' = row
        BY <2>1 DEF Mine, Owned
    <2>3. UNCHANGED timeVars
        BY <1>3 DEF Contend
    <2>4. (MyLive' => MyLive) /\ steady \in BOOLEAN
        BY <2>2, <2>3 DEF MyLive, Mine, timeVars, Inv, Types
    <2> QED
        BY <1>1, <1>3, <2>1, <2>2, <2>3, <2>4, OthersInv
           DEF Contend, timeVars
<1>4. CASE ContenderPublishes
    <2>1. PICK result \in Results :
            row' = TerminalizeTransition(row, clock, LeaseOf(row),
                        SucceedTerminal(LeaseOf(row), result)).row
        BY <1>4 DEF ContenderPublishes
    <2>2. row.terminal = None /\ row.who = Contender
        BY <1>4 DEF ContenderPublishes
    <2>3. LeaseOf(row) \in Lease
        BY <1>1, <2>2, RowShape
    <2>4. SucceedTerminal(LeaseOf(row), result) \in Terminal
        BY <2>3, NoneAssumption
           DEF SucceedTerminal, Terminal, TerminalShape, Lease,
               TerminalOutcome
    <2>5. /\ row' \in Row /\ Decodes(row')
          /\ row' # row => row'.terminal # None
        BY <1>1, <2>1, <2>3, <2>4, TerminalizeRow
    <2>6. ~Mine' /\ ~MyLive'
        BY <2>2, <2>5, Constants DEF MyLive, Mine
    <2>7. UNCHANGED timeVars /\ steady \in BOOLEAN
        BY <1>4 DEF ContenderPublishes, Inv, Types
    <2> QED
        BY <1>1, <1>4, <2>2, <2>5, <2>6, <2>7, OthersInv
           DEF ContenderPublishes, timeVars
<1> QED
    BY <1>2, <1>3, <1>4

(* The renewer last started exists.                                        *)
LEMMA GenExists ==
    ASSUME Types, Counts
    PROVE  gen \in Generations
BY Constants DEF Types, Counts, Generations

(* __enter__ starts the first renewer.                                     *)
LEMMA EnterInv ==
    ASSUME Inv, Enter
    PROVE  Inv'
<1> USE DEF Enter, Goto, handleVars, timeVars
<1>1. gen = 0 /\ gen \in Generations /\ ~started
    BY GenExists DEF Inv, Owning
<1>2. Types'
    BY <1>1 DEF Inv, Types, Places, Labels
<1>3. Counts'
    BY DEF Inv, Counts
<1>4. Owning'
    BY DEF Inv, Owning
<1>5. renewer'[gen] = "waiting"
      /\ \A g \in Generations : g # gen => renewer'[g] = renewer[g]
    BY <1>1 DEF Inv, Types
<1>6. OneRenewer'
    BY <1>1, <1>5 DEF Inv, OneRenewer, Uninterrupted, Generations
<1>7. HandleKnows'
    BY <1>1, <1>5 DEF Inv, OneRenewer, HandleKnows, Uninterrupted, MyLive, Mine
<1> QED
    BY <1>2, <1>3, <1>4, <1>6, <1>7 DEF Inv

(* The start of a succeed or fail call.                                    *)
LEMMA PrepareInv ==
    ASSUME Inv, Prepare
    PROVE  Inv'
<1> USE DEF Prepare, timeVars
<1>1. want' \in Terminal
    BY NoneAssumption
       DEF Inv, Types, OwnLease, Lease, SucceedTerminal, FailTerminal,
           Terminal, TerminalShape, TerminalOutcome
<1>2. Types'
    BY DEF Inv, Types, Places
<1>3. Counts'
    BY DEF Inv, Counts
<1>4. Owning'
    BY <1>1 DEF Inv, Owning
<1>5. OneRenewer'
    BY DEF Inv, OneRenewer, Uninterrupted
<1>6. HandleKnows'
    BY DEF Inv, HandleKnows, Uninterrupted, MyLive, Mine
<1> QED
    BY <1>2, <1>3, <1>4, <1>5, <1>6 DEF Inv

(* __exit__ stops the renewer, joins it and returns.                       *)
LEMMA ExitInv ==
    ASSUME Inv, Exit \/ ExitReturns
    PROVE  Inv'
<1> USE DEF Exit, ExitReturns, handleVars, timeVars
<1>1. Types'
    BY DEF Inv, Types, Places
<1>2. Counts'
    BY DEF Inv, Counts
<1>3. Owning'
    BY DEF Inv, Owning
<1>4. OneRenewer'
    BY DEF Inv, OneRenewer, Uninterrupted
<1>5. HandleKnows'
    BY DEF Inv, HandleKnows, Uninterrupted, MyLive, Mine
<1> QED
    BY <1>1, <1>2, <1>3, <1>4, <1>5 DEF Inv

(* A step of a renewer, unless a join() was interrupted, is one of the     *)
(* renewer last started.                                                   *)
LEMMA OnlyLast ==
    ASSUME Inv, NEW g \in Generations, renewer[g] \notin {"unborn", "dead"}
    PROVE  Uninterrupted => /\ g = gen
                            /\ main \in {"body", "joining", "exiting"}
                            /\ ~started
<1>1. gen \in Nat /\ g \in Nat /\ gen \in Generations
    BY GenExists DEF Inv, Types, Generations
<1> QED
    BY <1>1 DEF Inv, OneRenewer, Types, Places
(* The renewer wakes and reads _lease, or ends.                            *)
LEMMA WaitOverInv ==
    ASSUME Inv, NEW g \in Generations, WaitOver(g)
    PROVE  Inv'
<1> USE DEF WaitOver, Goto, Local, handleVars, timeVars
<1>1. Types'
    BY DEF Inv, Types, Labels
<1>2. Counts'
    BY DEF Inv, Counts
<1>3. Owning'
    BY DEF Inv, Owning
<1>4. \/ renewer'[g] = "dead"
      \/ renewer'[g] = "renewing" /\ local'[g] = held
    BY DEF Inv, Types
<1>5. \A h \in Generations : h # g => renewer'[h] = renewer[h]
    BY DEF Inv, Types
<1>6. OneRenewer'
    <2>1. Uninterrupted => g = gen /\ gen \in Nat
                             /\ main \in {"body", "joining", "exiting"}
        BY OnlyLast DEF Inv, Types
    <2> QED
        BY <1>4, <1>5, <2>1, OnlyLast DEF Inv, OneRenewer, Uninterrupted,
           Generations
<1>7. HandleKnows'
    BY <1>4, OnlyLast DEF Inv, HandleKnows, Uninterrupted, MyLive, Mine
<1> QED
    BY <1>1, <1>2, <1>3, <1>6, <1>7 DEF Inv

(* A renewal returns a lease, is refused, or fails.                        *)
LEMMA RenewReturnsInv ==
    ASSUME Inv, NEW g \in Generations, RenewReturns(g)
    PROVE  Inv'
<1>1. PICK o : o = RenewTransition(row, clock, local[g], Duration)
    OBVIOUS
<1>2. /\ renewer[g] = "renewing"
      /\ UNCHANGED <<timeVars, main, want, chosen, returned, handleVars>>
      /\ \/ /\ o.lease # None
            /\ row' = o.row /\ UNCHANGED faults
            /\ Goto(g, "storing") /\ Local(g, o.lease)
         \/ /\ o.lease = None
            /\ UNCHANGED <<row, faults>>
            /\ Goto(g, "failing") /\ Local(g, "stale")
         \/ /\ Transient(o)
            /\ Goto(g, "failing") /\ Local(g, "transient")
    BY <1>1 DEF RenewReturns
<1>3. /\ row \in Row /\ Decodes(row) /\ clock \in Nat
      /\ local[g] \in OwnLease
    BY <1>2 DEF Inv, Types
<1>4. /\ o.row \in Row /\ Decodes(o.row)
      /\ row.terminal # None => o.row = row
      /\ o.lease # None => o.lease \in OwnLease /\ o.lease = LeaseOf(o.row)
      /\ o.lease = None => ~(MyLive /\ local[g] = LeaseOf(row))
    BY <1>1, <1>3, RenewRow DEF MyLive, Mine, Live, Owned
<1>5. /\ row' \in Row /\ Decodes(row')
      /\ row.terminal # None => row' = row
    BY <1>2, <1>3, <1>4 DEF Transient
<1>6. /\ faults' \in [failures : Nat, interrupts : Nat]
      /\ Counts'
      /\ Uninterrupted' = Uninterrupted
    <2>1. CASE UNCHANGED faults
        BY <1>2, <2>1 DEF Inv, Types, Counts, Uninterrupted, handleVars
    <2>2. CASE Transient(o)
        BY <1>2, <2>2, Constants
           DEF Inv, Types, Counts, Uninterrupted, handleVars, Transient,
               MoreFaults
    <2> QED
        BY <1>2, <2>1, <2>2
<1>7. \/ /\ renewer' = [renewer EXCEPT ![g] = "storing"]
         /\ local'[g] = o.lease /\ o.lease # None /\ row' = o.row
      \/ /\ renewer' = [renewer EXCEPT ![g] = "failing"]
         /\ local'[g] = "stale" /\ o.lease = None /\ row' = row
      \/ /\ renewer' = [renewer EXCEPT ![g] = "failing"]
         /\ local'[g] = "transient"
    BY <1>2 DEF Inv, Types, Goto, Local
<1>8. /\ local' = [h \in Generations |-> local'[h]]
      /\ \A h \in Generations : h # g => local'[h] = local[h]
    BY <1>2 DEF Inv, Types, Local
<1>9. \A h \in Generations : h # g => renewer'[h] = renewer[h]
    BY <1>7 DEF Inv, Types
<1>10. renewer'[g] \in {"storing", "failing"}
       /\ (renewer'[g] = "storing" => local'[g] = o.lease /\ o.lease # None)
       /\ (renewer'[g] = "failing" => local'[g] \in {"stale", "transient"})
    BY <1>7 DEF Inv, Types
<1>11. Types'
    <2>1. renewer' \in [Generations -> Labels]
        BY <1>7 DEF Inv, Types, Labels
    <2>2. ASSUME NEW h \in Generations
          PROVE  /\ renewer'[h] \in {"renewing", "storing"} =>
                        local'[h] \in OwnLease
                 /\ renewer'[h] = "failing" =>
                        local'[h] \in {"stale", "transient"}
        BY <1>4, <1>8, <1>9, <1>10 DEF Inv, Types
    <2> QED
        BY <1>2, <1>5, <1>6, <1>8, <2>1, <2>2
           DEF Inv, Types, handleVars, timeVars
<1>12. Owning'
    BY <1>2, <1>5 DEF Inv, Owning, handleVars
<1>13. OneRenewer'
    <2>1. Uninterrupted => g = gen /\ gen \in Nat
                             /\ main \in {"body", "joining", "exiting"}
                             /\ ~started
        BY <1>2, OnlyLast DEF Inv, Types
    <2> QED
        BY <1>2, <1>6, <1>9, <2>1
           DEF Inv, OneRenewer, handleVars, Generations
<1>14. HandleKnows'
    <2> SUFFICES ASSUME Uninterrupted PROVE HandleKnows'
        BY <1>6 DEF HandleKnows
    <2>1. g = gen /\ main # "publishing" /\ loss = None
        BY <1>2, OnlyLast DEF Inv, HandleKnows
    <2>2. local'[g] = "stale" /\ renewer'[g] = "failing" => ~MyLive'
        <3>1. MyLive => local[g] = LeaseOf(row)
            BY <1>2, <2>1 DEF Inv, HandleKnows, MyLive
        <3>2. row' = row /\ o.lease = None => MyLive' = MyLive
            BY <1>2 DEF MyLive, Mine, timeVars
        <3> QED
            BY <1>4, <1>7, <3>1, <3>2 DEF Inv, Types
    <2>3. renewer'[g] = "storing" => local'[g] = LeaseOf(row')
        BY <1>4, <1>7 DEF Inv, Types
    <2> QED
        BY <1>2, <1>10, <2>1, <2>2, <2>3, LossAssumption
           DEF HandleKnows, handleVars, timeVars
<1> QED
    BY <1>6, <1>11, <1>12, <1>13, <1>14 DEF Inv

(* The renewed lease becomes the handle's.                                 *)
LEMMA StoreRenewedInv ==
    ASSUME Inv, NEW g \in Generations, StoreRenewed(g)
    PROVE  Inv'
<1> USE DEF StoreRenewed, Goto, Local, timeVars
<1>1. Types'
    BY DEF Inv, Types, Labels
<1>2. Counts'
    BY DEF Inv, Counts
<1>3. Owning'
    BY DEF Inv, Owning
<1>4. /\ renewer'[g] = "waiting"
      /\ \A h \in Generations : h # g => renewer'[h] = renewer[h]
    BY DEF Inv, Types
<1>5. Uninterrupted => g = gen /\ gen \in Nat
                         /\ main \in {"body", "joining", "exiting"}
                         /\ ~started
    BY OnlyLast DEF Inv, Types
<1>6. OneRenewer'
    BY <1>4, <1>5 DEF Inv, OneRenewer, Uninterrupted, Generations
<1>7. HandleKnows'
    BY <1>4, <1>5 DEF Inv, HandleKnows, Uninterrupted, MyLive, Mine
<1> QED
    BY <1>1, <1>2, <1>3, <1>6, <1>7 DEF Inv

(* The renewer records its loss.                                           *)
LEMMA RecordLossInv ==
    ASSUME Inv, NEW g \in Generations, RecordLoss(g)
    PROVE  Inv'
<1> USE DEF RecordLoss, Goto, Local, timeVars
<1>0. local[g] \in {"stale", "transient"}
    BY DEF Inv, Types
<1>1. Types'
    BY <1>0 DEF Inv, Types, Labels, Errors
<1>2. Counts'
    BY DEF Inv, Counts
<1>3. Owning'
    BY DEF Inv, Owning
<1>4. /\ renewer'[g] = "stopping"
      /\ \A h \in Generations : h # g => renewer'[h] = renewer[h]
    BY DEF Inv, Types
<1>5. Uninterrupted => g = gen /\ gen \in Nat
                         /\ main \in {"body", "joining", "exiting"}
                         /\ ~started
    BY OnlyLast DEF Inv, Types
<1>6. OneRenewer'
    BY <1>4, <1>5 DEF Inv, OneRenewer, Uninterrupted, Generations
<1>7. HandleKnows'
    BY <1>0, <1>4, <1>5, LossAssumption
       DEF Inv, HandleKnows, Uninterrupted, MyLive, Mine
<1> QED
    BY <1>1, <1>2, <1>3, <1>6, <1>7 DEF Inv

(* The renewer ends after a loss.                                          *)
LEMMA StopSelfInv ==
    ASSUME Inv, NEW g \in Generations, StopSelf(g)
    PROVE  Inv'
<1> USE DEF StopSelf, Goto, timeVars
<1>1. Types'
    BY DEF Inv, Types, Labels
<1>2. Counts'
    BY DEF Inv, Counts
<1>3. Owning'
    BY DEF Inv, Owning
<1>4. /\ renewer'[g] = "dead"
      /\ \A h \in Generations : h # g => renewer'[h] = renewer[h]
    BY DEF Inv, Types
<1>5. Uninterrupted => g = gen /\ gen \in Nat
                         /\ main \in {"body", "joining", "exiting"}
                         /\ ~started
    BY OnlyLast DEF Inv, Types
<1>6. OneRenewer'
    BY <1>4, <1>5 DEF Inv, OneRenewer, Uninterrupted, Generations
<1>7. HandleKnows'
    BY <1>4, <1>5 DEF Inv, HandleKnows, Uninterrupted, MyLive, Mine
<1> QED
    BY <1>1, <1>2, <1>3, <1>6, <1>7 DEF Inv
(* _abort_terminalization.  What the caller has to see to: a restart of    *)
(* the renewer is paid for by a fault, the renewer joined is dead, and an  *)
(* error reported as stale is one.                                         *)
LEMMA AbortInv ==
    ASSUME Inv, NEW error, AbortTerminalization(error),
           main \in {"joining", "publishing"}, main' = "body",
           UNCHANGED <<timeVars, returned, local>>,
           row' \in Row, Decodes(row)',
           row.terminal # None => row' = row,
           Mine' => row' = row,
           faults' \in [failures : Nat, interrupts : Nat],
           faults.failures + faults.interrupts
               <= faults'.failures + faults'.interrupts,
           faults'.failures + faults'.interrupts <= MaxFaults,
           loss = None /\ error \notin {"stale", "conflict"} =>
               faults.failures + faults.interrupts
                   < faults'.failures + faults'.interrupts,
           Uninterrupted' => Uninterrupted /\ renewer[gen] = "dead",
           Uninterrupted' /\ error = "stale" /\ loss = None => ~MyLive'
    PROVE  Inv'
<1> USE DEF timeVars
<1>0. /\ MyLive' => MyLive
      /\ Mine' => Mine /\ row' = row
    BY DEF MyLive, Mine
<1>1. /\ ~started /\ started' = started /\ held' = held
      /\ terminalizing' = FALSE
      /\ loss' \in Errors \cup {None}
      /\ loss # None => loss' = loss
      /\ loss = None => loss' \in {error, None}
    BY DEF AbortTerminalization, Inv, Types, Errors
<1>2. ~Exited
    BY DEF Exited
<1>3. /\ \A h \in Generations :
            /\ renewer[h] \in {"renewing", "storing"} => local[h] \in OwnLease
            /\ renewer[h] = "failing" => local[h] \in {"stale", "transient"}
      /\ local' = [h \in Generations |-> local'[h]]
    BY DEF Inv, Types
<1>4. Owning'
    BY <1>1 DEF Inv, Owning
<1>5. CASE UNCHANGED <<stop, gen, renewer>>
    <2>1. Types'
        BY <1>1, <1>3, <1>5 DEF Inv, Types, Places
    <2>2. Counts'
        BY <1>5, Constants DEF Inv, Counts, Types
    <2>3. OneRenewer'
        BY <1>1, <1>5 DEF Inv, OneRenewer
    <2>4. HandleKnows'
        BY <1>0, <1>1, <1>5 DEF Inv, HandleKnows
    <2> QED
        BY <1>4, <2>1, <2>2, <2>3, <2>4 DEF Inv
<1>6. CASE ~UNCHANGED <<stop, gen, renewer>>
    <2>1. /\ loss' = None /\ stop' = FALSE /\ gen' = gen + 1
          /\ renewer' = [renewer EXCEPT ![gen + 1] = "waiting"]
        BY <1>2, <1>6 DEF AbortTerminalization
    <2>2. loss = None /\ error \notin {"stale", "conflict"}
        BY <1>1, <2>1, LossAssumption DEF AbortTerminalization
    <2>3. Counts' /\ gen + 1 \in Generations /\ gen \in Nat
        BY <2>1, <2>2, Constants DEF Inv, Types, Counts, Generations
    <2>4. /\ renewer'[gen'] = "waiting"
          /\ \A h \in Generations : h # gen' => renewer'[h] = renewer[h]
          /\ renewer' \in [Generations -> Labels]
        BY <2>1, <2>3 DEF Inv, Types, Labels
    <2>5. Types'
        <3>1. ASSUME NEW h \in Generations
              PROVE  /\ renewer'[h] \in {"renewing", "storing"} =>
                            local'[h] \in OwnLease
                     /\ renewer'[h] = "failing" =>
                            local'[h] \in {"stale", "transient"}
            BY <1>3, <2>4
        <3>2. /\ clock' \in Nat /\ gen' \in Nat /\ main' \in Places
              /\ held' \in OwnLease
              /\ stop' \in BOOLEAN /\ started' \in BOOLEAN
              /\ terminalizing' \in BOOLEAN /\ steady' \in BOOLEAN
            <4>1. clock' \in Nat /\ held' \in OwnLease
                BY <1>1 DEF Inv, Types
            <4>2. main' \in Places
                BY DEF Places
            <4>5. gen' \in Nat
                BY <2>1, <2>3
            <4>6. stop' \in BOOLEAN
                BY <2>1
            <4>3. started' \in BOOLEAN
                BY <1>1 DEF Inv, Types
            <4>4. terminalizing' \in BOOLEAN
                BY <1>1
            <4>7. steady' \in BOOLEAN
                BY DEF Inv, Types
            <4> QED
                BY <4>1, <4>2, <4>3, <4>4, <4>5, <4>6, <4>7
        <3> QED
            BY <1>1, <1>3, <2>4, <3>1, <3>2 DEF Types
    <2>6. OneRenewer'
        <3>1. ASSUME Uninterrupted', NEW h \in Generations
              PROVE  /\ h < gen' => renewer'[h] = "dead"
                     /\ h > gen' => renewer'[h] = "unborn"
            <4>1. h \in Nat
                BY DEF Generations
            <4>2. h < gen' => h < gen \/ h = gen
                BY <2>1, <2>3, <4>1
            <4>3. h > gen' => h > gen
                BY <2>1, <2>3, <4>1
            <4>4. h < gen' \/ h > gen' => h # gen'
                BY <2>1, <2>3, <4>1
            <4> QED
                BY <2>4, <3>1, <4>2, <4>3, <4>4 DEF Inv, OneRenewer
        <3> QED
            BY <1>1, <3>1 DEF OneRenewer
    <2>7. HandleKnows'
        BY <1>0, <1>1, <2>1, <2>2, <2>4, LossAssumption DEF Inv, HandleKnows
    <2> QED
        BY <1>4, <2>3, <2>5, <2>6, <2>7 DEF Inv
<1> QED
    BY <1>5, <1>6

(* The renewer was joined: on to the publication, or the loss is raised.   *)
LEMMA JoinedInv ==
    ASSUME Inv, Joined
    PROVE  Inv'
<1>1. /\ main = "joining" /\ renewer[gen] = "dead"
      /\ UNCHANGED <<row, timeVars, faults, returned, local>>
    BY DEF Joined
<1>2. CASE loss = None
    <2>1. /\ main' = "publishing" /\ chosen' = held
          /\ UNCHANGED <<want, handleVars, renewer>>
        BY <1>2 DEF Joined
    <2> USE <1>1, <1>2, <2>1 DEF handleVars, timeVars
    <2>2. Types'
        BY DEF Inv, Types, Places
    <2>3. Counts'
        BY DEF Inv, Counts
    <2>4. Owning'
        BY DEF Inv, Owning, Types
    <2>5. OneRenewer'
        BY DEF Inv, OneRenewer, Uninterrupted
    <2>6. HandleKnows'
        BY DEF Inv, HandleKnows, Uninterrupted, MyLive, Mine
    <2> QED
        BY <2>2, <2>3, <2>4, <2>5, <2>6 DEF Inv
<1>3. CASE loss # None
    <2>1. main' = "body" /\ AbortTerminalization(loss)
        BY <1>3 DEF Joined
    <2>2. row \in Row /\ Decodes(row)
          /\ faults \in [failures : Nat, interrupts : Nat]
          /\ faults.failures + faults.interrupts <= MaxFaults
        BY DEF Inv, Types, Counts
    <2>3. MyLive' = MyLive /\ Uninterrupted' = Uninterrupted
        BY <1>1 DEF MyLive, Mine, Uninterrupted, timeVars
    <2> QED
        BY <1>1, <1>3, <2>1, <2>2, <2>3, AbortInv
<1> QED
    BY <1>2, <1>3

(* A fault more.                                                           *)
LEMMA OneMoreFault ==
    ASSUME Types, Counts, MoreFaults,
           \/ faults' = [faults EXCEPT !.interrupts = @ + 1]
           \/ faults' = [faults EXCEPT !.failures = @ + 1]
    PROVE  /\ faults' \in [failures : Nat, interrupts : Nat]
           /\ faults'.failures + faults'.interrupts <= MaxFaults
           /\ faults.failures + faults.interrupts
                  <= faults'.failures + faults'.interrupts
           /\ faults.failures + faults.interrupts
                  < faults'.failures + faults'.interrupts
           /\ Uninterrupted' => Uninterrupted
           /\ faults' = [faults EXCEPT !.interrupts = @ + 1] =>
                  ~Uninterrupted'
BY Constants DEF Types, Counts, MoreFaults, Uninterrupted

(* join() is interrupted: the one way to two renewers.                     *)
LEMMA JoinInterruptedInv ==
    ASSUME Inv, JoinInterrupted
    PROVE  Inv'
<1>1. /\ main = "joining" /\ main' = "body"
      /\ AbortTerminalization("interrupt")
      /\ UNCHANGED <<row, timeVars, returned, local>>
      /\ MoreFaults /\ faults' = [faults EXCEPT !.interrupts = @ + 1]
    BY DEF JoinInterrupted
<1>2. row \in Row /\ Decodes(row) /\ Types /\ Counts
    BY DEF Inv, Types
<1>3. MyLive' = MyLive
    BY <1>1 DEF MyLive, Mine, timeVars
<1> QED
    BY <1>1, <1>2, <1>3, OneMoreFault, AbortInv

(* The publication returns the terminal, is refused, or fails.             *)
LEMMA PublishReturnsInv ==
    ASSUME Inv, PublishReturns
    PROVE  Inv'
<1>1. PICK o : o = TerminalizeTransition(row, clock, chosen, want)
    OBVIOUS
<1>2. /\ main = "publishing" /\ main' = "body"
      /\ UNCHANGED <<timeVars, local>>
    BY DEF PublishReturns
<1>3. /\ row \in Row /\ Decodes(row) /\ clock \in Nat /\ Types /\ Counts
      /\ chosen \in Lease /\ want \in Terminal
    BY <1>2 DEF Inv, Types, Owning, OwnLease
<1>4. /\ o.row \in Row /\ Decodes(o.row)
      /\ row.terminal # None => o.row = row
      /\ o.terminal # None => o.row.terminal = o.terminal
      /\ o.row # row => o.row.terminal # None
      /\ o.terminal = None /\ o.outcome = "stale" =>
               ~(MyLive /\ chosen = LeaseOf(row))
    BY <1>1, <1>3, TerminalizeRow DEF MyLive, Mine, Live, Owned
<1>5. Uninterrupted => /\ renewer[gen] = "dead"
                       /\ Mine => chosen = LeaseOf(row)
    BY <1>2 DEF Inv, OneRenewer, HandleKnows
<1>6. row' \in {row, o.row} =>
        /\ row' \in Row /\ Decodes(row')
        /\ row.terminal # None => row' = row
        /\ Mine' => row' = row
        /\ MyLive' => MyLive
    BY <1>2, <1>3, <1>4 DEF MyLive, Mine, timeVars
<1>7. CASE /\ o.terminal # None
           /\ row' = o.row
           /\ returned' = o.terminal
           /\ started' = TRUE
           /\ terminalizing' = FALSE
           /\ UNCHANGED <<faults, held, loss, stop, gen, renewer>>
    <2> USE <1>2, <1>7 DEF timeVars
    <2>1. Types'
        BY <1>4 DEF Inv, Types, Places
    <2>2. Counts'
        BY DEF Inv, Counts
    <2>3. Owning'
        BY <1>4 DEF Owning
    <2>4. OneRenewer'
        BY DEF Inv, OneRenewer, Uninterrupted
    <2>5. HandleKnows'
        BY <1>5, <1>6 DEF Inv, HandleKnows, Uninterrupted, Mine
    <2> QED
        BY <2>1, <2>2, <2>3, <2>4, <2>5 DEF Inv
<1>8. CASE /\ o.terminal = None
           /\ AbortTerminalization(IF o.outcome = "stale" THEN "stale"
                                   ELSE "conflict")
           /\ UNCHANGED <<row, faults, returned>>
    <2>1. PICK error : /\ error = (IF o.outcome = "stale" THEN "stale"
                                   ELSE "conflict")
                       /\ AbortTerminalization(error)
        BY <1>8
    <2>2. Uninterrupted' = Uninterrupted /\ MyLive' = MyLive
        BY <1>2, <1>8 DEF Uninterrupted, MyLive, Mine, timeVars
    <2>3. Uninterrupted /\ error = "stale" => ~MyLive
        BY <1>4, <1>5, <1>8, <2>1 DEF MyLive
    <2>4. faults \in [failures : Nat, interrupts : Nat]
          /\ faults.failures + faults.interrupts <= MaxFaults
        BY <1>3 DEF Types, Counts
    <2>5. error \in {"stale", "conflict"}
        BY <2>1
    <2> QED
        BY <1>2, <1>3, <1>5, <1>8, <2>1, <2>2, <2>3, <2>4, <2>5, AbortInv
<1>9. CASE /\ Transient(o)
           /\ AbortTerminalization("transient")
           /\ UNCHANGED returned
    <2>1. row' \in {row, o.row} /\ MoreFaults
          /\ faults' = [faults EXCEPT !.failures = @ + 1]
        BY <1>9 DEF Transient
    <2> QED
        BY <1>2, <1>3, <1>5, <1>6, <1>9, <2>1, OneMoreFault, AbortInv
<1> QED
    BY <1>1, <1>7, <1>8, <1>9 DEF PublishReturns

(* Every step preserves Inv.                                               *)
LEMMA NextInv ==
    ASSUME Inv, [Next]_vars
    PROVE  Inv'
<1>1. CASE UNCHANGED vars
    BY <1>1 DEF vars, handleVars, timeVars, Inv, Types, Counts, Owning, OneRenewer,
       HandleKnows, Uninterrupted, MyLive, Mine
<1>2. CASE Tick \/ Contend \/ ContenderPublishes
    BY <1>2, WorldInv
<1>3. CASE Owner
    BY <1>3, EnterInv, PrepareInv, JoinedInv, JoinInterruptedInv,
       PublishReturnsInv, ExitInv DEF Owner
<1>4. ASSUME NEW g \in Generations, Renewer(g)
      PROVE  Inv'
    BY <1>4, WaitOverInv, RenewReturnsInv, StoreRenewedInv, RecordLossInv,
       StopSelfInv DEF Renewer
<1> QED
    BY <1>1, <1>2, <1>3, <1>4 DEF Next

(* Inv is an invariant of the handle.                                      *)
THEOREM InvHolds == SafeSpec => []Inv
<1>1. Inv /\ [Next]_vars => Inv'
    BY NextInv
<1> QED
    BY InitInv, <1>1, PTL DEF SafeSpec

-----------------------------------------------------------------------------
(* succeed and fail publish with the stored lease, after the renewer is    *)
(* gone: HandleKnows and OneRenewer at "publishing".                       *)
THEOREM Publishes == SafeSpec => []PublishesStoredLease
<1>1. Inv => PublishesStoredLease
    <2> SUFFICES ASSUME Inv, Uninterrupted, main = "publishing"
                 PROVE  Alive = {} /\ (Mine => chosen = LeaseOf(row))
        BY DEF PublishesStoredLease
    <2>1. ASSUME NEW g \in Generations PROVE renewer[g] \in {"unborn", "dead"}
        <3>1. g \in Nat /\ gen \in Nat
            BY DEF Generations, Inv, Types
        <3>2. g < gen \/ g = gen \/ g > gen
            BY <3>1
        <3> QED
            BY <3>2 DEF Inv, OneRenewer
    <2>2. Alive = {}
        BY <2>1 DEF Alive
    <2>3. Mine => chosen = LeaseOf(row)
        BY DEF Inv, HandleKnows, OneRenewer
    <2> QED
        BY <2>2, <2>3
<1> QED
    BY InvHolds, <1>1, PTL

(* A handle that reports a stale lease has lost it, unless the authority's *)
(* clock was set back.                                                     *)
THEOREM StaleIsStale == SafeSpec => []StaleMeansNotLive
<1>1. Inv => StaleMeansNotLive
    BY DEF Inv, HandleKnows, StaleMeansNotLive
<1> QED
    BY InvHolds, <1>1, PTL

(* No renewer is left once a terminal is committed or __exit__ returned.   *)
THEOREM RenewersEnd == SafeSpec => []NoRenewerOutlivesHandle
<1>1. Inv => NoRenewerOutlivesHandle
    <2> SUFFICES ASSUME Inv, Uninterrupted,
                        started \/ main \in {"clean", "unclean"}
                 PROVE  Alive = {}
        BY DEF NoRenewerOutlivesHandle
    <2>1. ASSUME NEW g \in Generations PROVE renewer[g] \in {"unborn", "dead"}
        <3>1. g \in Nat /\ gen \in Nat
            BY DEF Generations, Inv, Types
        <3>2. g < gen \/ g = gen \/ g > gen
            BY <3>1
        <3> QED
            BY <3>2 DEF Inv, OneRenewer
    <2> QED
        BY <2>1 DEF Alive
<1> QED
    BY InvHolds, <1>1, PTL

(* A clean __exit__ means the returned terminal is the authoritative one,  *)
(* whatever was interrupted before.                                        *)
THEOREM CleanMeansPublished == SafeSpec => []CleanExitPublished
<1>1. Inv => CleanExitPublished
    BY DEF Inv, Owning, CleanExitPublished
<1> QED
    BY InvHolds, <1>1, PTL
=============================================================================
