-------------------------- MODULE LeaseMaintenance --------------------------
(***************************************************************************)
(* LeaseMaintenance (lease/authority.py): a handle that renews a lease on  *)
(* a background thread while its owner works, and publishes the terminal.  *)
(*                                                                         *)
(* The owner's thread runs __enter__, any number of succeed / fail calls   *)
(* and __exit__; every (re)start of the renewer is a thread of its own,    *)
(* numbered by _renewer_generation.  Each authority call is one atomic     *)
(* transaction on the row (LeasePostgres shows it is).  A call may fail    *)
(* for a transient reason, before it committed or, if LostReplies, after;  *)
(* a contender may take the lease over once it has expired.  If Interrupts *)
(* a KeyboardInterrupt may hit the owner while it joins the renewer.       *)
(***************************************************************************)
EXTENDS LeaseTransitions, FiniteSets

CONSTANTS
    Me, Contender,   \* two identities
    Duration,        \* the lease duration, a member of Durations
    MaxFaults,       \* bound on transient failures and interrupts
    LostReplies,     \* may a committed authority call lose its reply?
    Interrupts       \* may join() be interrupted?

ASSUME MaintenanceAssumption ==
    /\ Me \in Identities /\ Contender \in Identities /\ Me # Contender
    /\ Duration \in Durations
    /\ MaxFaults \in Nat
    /\ LostReplies \in BOOLEAN /\ Interrupts \in BOOLEAN

(* None is not one of the errors _loss may hold.                           *)
ASSUME LossAssumption == None \notin {"stale", "transient", "conflict"}

VARIABLES
    row,            \* the authority's row for the leased key
    clock,          \* the authority's time
    steady,         \* history: the clock was never set back
    faults,         \* transient failures and interrupts so far
    main,           \* where the owner's thread is
    want,           \* the terminal its current succeed / fail call publishes
    chosen,         \* the lease _prepare_for_terminalization returned to it
    returned,       \* the terminal a succeed / fail call has returned
    held,           \* _lease
    loss,           \* _loss
    stop,           \* _stop
    terminalizing,  \* _terminalizing
    started,        \* _terminalization_started (and _terminalized)
    gen,            \* _renewer_generation, the number of the thread _thread
    renewer,        \* where each renewer thread is
    local           \* each renewer's local: current, renewed or exc

handleVars == <<held, loss, stop, terminalizing, started, gen>>
timeVars == <<clock, steady>>
vars == <<row, timeVars, faults, main, want, chosen, returned, handleVars,
          renewer, local>>

Generations == 0..MaxFaults

(* _entered and _exited are positions of the owner's thread.               *)
Exited == main \in {"exiting", "clean", "unclean"}

Init ==
    \E request \in Requests :
        LET l == NewLease(request, Me, 1, Duration) IN
        /\ row = Leased(l)
        /\ clock = 0
        /\ steady = TRUE
        /\ faults = [failures |-> 0, interrupts |-> 0]
        /\ main = "new"
        /\ want = None
        /\ chosen = None
        /\ returned = None
        /\ held = l
        /\ loss = None
        /\ stop = FALSE
        /\ terminalizing = FALSE
        /\ started = FALSE
        /\ gen = 0
        /\ renewer = [g \in Generations |-> "unborn"]
        /\ local = [g \in Generations |-> None]

-----------------------------------------------------------------------------
(* External: time, and a contender that works by the same authority.  The  *)
(* clock is the database's or an injected one: it passes, it jumps, and it *)
(* may be set back.                                                        *)

Tick ==
    /\ \E t \in Times \ {clock} :
         clock' = t /\ steady' = (steady /\ t > clock)
    /\ UNCHANGED <<row, faults, main, want, chosen, returned, handleVars,
                   renewer, local>>

Contend ==
    /\ row' = AcquireTransition(row, clock, row.request, Contender,
                                Duration).row
    /\ UNCHANGED <<timeVars, faults, main, want, chosen, returned, handleVars,
                   renewer, local>>

ContenderPublishes ==
    /\ row.who = Contender
    /\ row.terminal = None
    /\ \E result \in Results :
        row' = TerminalizeTransition(row, clock, LeaseOf(row),
                    SucceedTerminal(LeaseOf(row), result)).row
    /\ UNCHANGED <<timeVars, faults, main, want, chosen, returned, handleVars,
                   renewer, local>>

MoreFaults == faults.failures + faults.interrupts < MaxFaults

(* A transient failure of an authority call with result o: the transaction *)
(* did not commit, or it did and the reply was lost.                       *)
Transient(o) ==
    /\ MoreFaults
    /\ faults' = [faults EXCEPT !.failures = @ + 1]
    /\ \/ row' = row
       \/ LostReplies /\ row' = o.row

-----------------------------------------------------------------------------
(* The renewer: _run.                                                      *)

Goto(g, label) == renewer' = [renewer EXCEPT ![g] = label]
Local(g, value) == local' = [local EXCEPT ![g] = value]

(* wait() returns: with stop set the thread ends, else it reads _lease.    *)
WaitOver(g) ==
    /\ renewer[g] = "waiting"
    /\ IF stop THEN Goto(g, "dead") /\ Local(g, None)
               ELSE Goto(g, "renewing") /\ Local(g, held)
    /\ UNCHANGED <<row, timeVars, faults, main, want, chosen, returned,
                   handleVars>>

RenewReturns(g) ==
    LET o == RenewTransition(row, clock, local[g], Duration) IN
    /\ renewer[g] = "renewing"
    /\ \/ /\ o.lease # None
          /\ row' = o.row /\ UNCHANGED faults
          /\ Goto(g, "storing") /\ Local(g, o.lease)
       \/ /\ o.lease = None
          /\ UNCHANGED <<row, faults>>
          /\ Goto(g, "failing") /\ Local(g, "stale")
       \/ /\ Transient(o)
          /\ Goto(g, "failing") /\ Local(g, "transient")
    /\ UNCHANGED <<timeVars, main, want, chosen, returned, handleVars>>

StoreForgotten(g) ==
    /\ renewer[g] = "storing"
    /\ Goto(g, "waiting") /\ Local(g, None)
    /\ UNCHANGED <<row, timeVars, faults, main, want, chosen, returned,
                   handleVars>>

StoreRenewed(g) ==
    /\ renewer[g] = "storing"
    /\ held' = local[g]
    /\ Goto(g, "waiting") /\ Local(g, None)
    /\ UNCHANGED <<row, timeVars, faults, main, want, chosen, returned,
                   loss, stop, terminalizing, started, gen>>

RecordLoss(g) ==
    /\ renewer[g] = "failing"
    /\ loss' = local[g]
    /\ Goto(g, "stopping") /\ Local(g, None)
    /\ UNCHANGED <<row, timeVars, faults, main, want, chosen, returned,
                   held, stop, terminalizing, started, gen>>

StopSelf(g) ==
    /\ renewer[g] = "stopping"
    /\ stop' = TRUE
    /\ Goto(g, "dead")
    /\ UNCHANGED <<row, timeVars, faults, main, want, chosen, returned,
                   held, loss, terminalizing, started, gen, local>>

Renewer(g) ==
    \/ WaitOver(g) \/ RenewReturns(g) \/ StoreRenewed(g) \/ RecordLoss(g)
    \/ StopSelf(g)

-----------------------------------------------------------------------------
(* The owner's thread.                                                     *)

Enter ==
    /\ main = "new"
    /\ main' = "body"
    /\ Goto(0, "waiting")
    /\ UNCHANGED <<row, timeVars, faults, want, chosen, returned, handleVars,
                   local>>

(* _abort_terminalization(error), called with _terminalizing set.          *)
AbortTerminalization(error) ==
    /\ ~started
    /\ terminalizing' = FALSE
    /\ loss' = IF error \in {"stale", "conflict"} /\ loss = None
               THEN error ELSE loss
    /\ IF loss' # None \/ Exited
       THEN UNCHANGED <<stop, gen, renewer>>
       ELSE /\ stop' = FALSE
            /\ gen' = gen + 1
            /\ renewer' = [renewer EXCEPT ![gen + 1] = "waiting"]
    /\ UNCHANGED <<held, started>>

(* succeed / fail: the checks of _prepare_for_terminalization.  When one   *)
(* of them raises, the call is over and nothing has changed.               *)
Prepare ==
    /\ main = "body"
    /\ ~started /\ ~terminalizing /\ loss = None /\ ~stop
    /\ \E result \in Results :
         \/ want' = SucceedTerminal(held, result)
         \/ \E failure \in Failures :
                want' = FailTerminal(held, result, failure)
    /\ terminalizing' = TRUE
    /\ stop' = TRUE
    /\ main' = "joining"
    /\ UNCHANGED <<row, timeVars, faults, chosen, returned, held, loss, started,
                   gen, renewer, local>>

(* join() returned: check() raises a loss the renewer recorded, else the   *)
(* lease is read for publication.                                          *)
JoinedWithoutWaiting ==
    /\ main = "joining"
    /\ IF loss = None
       THEN /\ main' = "publishing"
            /\ chosen' = held
            /\ UNCHANGED <<want, handleVars, renewer>>
       ELSE /\ main' = "body"
            /\ want' = None
            /\ AbortTerminalization(loss)
            /\ UNCHANGED chosen
    /\ UNCHANGED <<row, timeVars, faults, returned, local>>

Joined ==
    /\ main = "joining"
    /\ renewer[gen] = "dead"
    /\ IF loss = None
       THEN /\ main' = "publishing"
            /\ chosen' = held
            /\ UNCHANGED <<want, handleVars, renewer>>
       ELSE /\ main' = "body"
            /\ want' = None
            /\ AbortTerminalization(loss)
            /\ UNCHANGED chosen
    /\ UNCHANGED <<row, timeVars, faults, returned, local>>

(* KeyboardInterrupt out of join().                                        *)
JoinInterrupted ==
    /\ Interrupts
    /\ main = "joining"
    /\ renewer[gen] # "dead"
    /\ MoreFaults
    /\ faults' = [faults EXCEPT !.interrupts = @ + 1]
    /\ main' = "body"
    /\ want' = None
    /\ AbortTerminalization("interrupt")
    /\ UNCHANGED <<row, timeVars, chosen, returned, local>>

(* LeaseAuthority.succeed / fail, and what the handle does with its end.   *)
PublishReturns ==
    LET o == TerminalizeTransition(row, clock, chosen, want) IN
    /\ main = "publishing"
    /\ main' = "body"
    /\ want' = None
    /\ chosen' = None
    /\ \/ /\ o.terminal # None
          /\ row' = o.row
          /\ returned' = o.terminal
          /\ started' = TRUE
          /\ terminalizing' = FALSE
          /\ UNCHANGED <<faults, held, loss, stop, gen, renewer>>
       \/ /\ o.terminal = None
          /\ AbortTerminalization(IF o.outcome = "stale" THEN "stale"
                                  ELSE "conflict")
          /\ UNCHANGED <<row, faults, returned>>
       \/ /\ Transient(o)
          /\ AbortTerminalization("transient")
          /\ UNCHANGED returned
    /\ UNCHANGED <<timeVars, local>>

ExitLeavesRenewer ==
    /\ main = "body"
    /\ main' = "exiting"
    /\ UNCHANGED <<row, timeVars, faults, want, chosen, returned, handleVars,
                   renewer, local>>

Exit ==
    /\ main = "body"
    /\ main' = "exiting"
    /\ stop' = TRUE
    /\ UNCHANGED <<row, timeVars, faults, want, chosen, returned, held, loss,
                   terminalizing, started, gen, renewer, local>>

(* join() returned.  The exit is clean if no exception was under way,      *)
(* check() finds no loss and a terminal was published.                     *)
ExitWithoutJoin ==
    /\ main = "exiting"
    /\ \/ loss = None /\ started /\ main' = "clean"
       \/ main' = "unclean"
    /\ UNCHANGED <<row, timeVars, faults, want, chosen, returned, handleVars,
                   renewer, local>>

ExitIgnoresPublication ==
    /\ main = "exiting"
    /\ renewer[gen] = "dead"
    /\ \/ loss = None /\ main' = "clean"
       \/ main' = "unclean"
    /\ UNCHANGED <<row, timeVars, faults, want, chosen, returned, handleVars,
                   renewer, local>>

ExitReturns ==
    /\ main = "exiting"
    /\ renewer[gen] = "dead"
    /\ \/ loss = None /\ started /\ main' = "clean"
       \/ main' = "unclean"
    /\ UNCHANGED <<row, timeVars, faults, want, chosen, returned, handleVars,
                   renewer, local>>

Owner == Enter \/ Prepare \/ Joined \/ JoinInterrupted \/ PublishReturns
           \/ Exit \/ ExitReturns

(* The handle is used up; the world goes on.                               *)
Next ==
    \/ Tick \/ Contend \/ ContenderPublishes
    \/ Owner
    \/ \E g \in Generations : Renewer(g)

(* Threads run, waits time out or are woken, authority calls return; an    *)
(* owner inside succeed, fail or __exit__ goes on.  Nothing makes an owner *)
(* call, a contender come or the clock stop.                               *)
Fairness ==
    /\ WF_vars(Joined \/ PublishReturns \/ ExitReturns)
    /\ \A g \in Generations : WF_vars(Renewer(g))

SafeSpec == Init /\ [][Next]_vars
Spec == SafeSpec /\ Fairness

-----------------------------------------------------------------------------
Alive == {g \in Generations : renewer[g] \notin {"unborn", "dead"}}

(* The stored lease is the owner's, expired or not, and live.              *)
Mine == row.terminal = None /\ row.who = Me /\ row.fence = 1

MyLive == Mine /\ row.expires > clock

(* What the handle's threads owe each other takes it that there is one     *)
(* renewer.  An interrupted join() breaks that: _abort_terminalization     *)
(* starts another while the first is still inside renew.                   *)
Uninterrupted == faults.interrupts = 0

(* A succeed or fail call reaches the authority only after the renewer is  *)
(* gone, and with the very lease the authority stores if it is still ours: *)
(* the authority compares every column, expires_at included, so a copy one *)
(* renewal old would be refused.  This holds whatever the clock does.      *)
PublishesStoredLease ==
    Uninterrupted /\ main = "publishing" =>
        /\ Alive = {}
        /\ Mine => chosen = LeaseOf(row)

(* The handle reports a stale lease only if the lease is no longer a live  *)
(* lease of the owner at the authority, as long as the authority's clock   *)
(* was not set back: set back after a renewal was refused for an expired   *)
(* lease, it makes the row live again while the handle keeps its loss.     *)
StaleMeansNotLive ==
    Uninterrupted /\ steady /\ loss = "stale" => ~MyLive

(* A renewer is left running only inside the context and before a terminal *)
(* is committed; after __exit__ returned none is alive.                    *)
NoRenewerOutlivesHandle ==
    Uninterrupted /\ (started \/ main \in {"clean", "unclean"}) => Alive = {}

(* A clean exit means the terminal that succeed or fail returned is the    *)
(* authoritative one, interrupts or not.                                   *)
CleanExitPublished ==
    main = "clean" => returned # None /\ row.terminal = returned

(* Every call on the handle returns: the renewer it joins does end.        *)
CallsReturn ==
    /\ main \in {"joining", "publishing"} ~> main = "body"
    /\ main = "exiting" ~> main \in {"clean", "unclean"}

(* After a transient failure "the caller can retry": the handle never      *)
(* answers StaleLeaseError for an effect whose authoritative terminal is   *)
(* the owner's own.                                                        *)
OwnTerminalNotStale ==
    loss = "stale" =>
        ~(/\ row.terminal # None
          /\ row.who = Me
          /\ row.state # "recovery_required")
=============================================================================
