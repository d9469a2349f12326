------------------------- MODULE LeaseAuthorityTimed -------------------------
(***************************************************************************)
(* LeaseAuthority with the authority clock as a variable: the database     *)
(* server's clock_timestamp() for PostgreSQL, the host clock for SQLite    *)
(* and memory.  It may be set back at any time, and everything that rests  *)
(* on the fence holds nevertheless.  As long as it never was (steady), a   *)
(* lease excludes others in time too, and not only by its fence.           *)
(***************************************************************************)
EXTENDS LeaseAuthority

VARIABLES
    clock,    \* the authority's time
    steady    \* history: the clock was never set back

timedVars == <<rows, granted, reported, clock, steady>>

TimedInit == Init /\ clock \in Times /\ steady = TRUE

(* External: time passes, or the clock is set back.                        *)
Tick ==
    /\ \E t \in Times \ {clock} :
         clock' = t /\ steady' = (steady /\ t > clock)
    /\ UNCHANGED vars

TimedStep == Step(clock) /\ UNCHANGED <<clock, steady>>

TimedNext == Tick \/ TimedStep

TimedSpec == TimedInit /\ [][TimedNext]_timedVars

-----------------------------------------------------------------------------
(* Mutual exclusion in time: when a key has been granted under a newer     *)
(* fence, every copy of an older lease has already expired by its own      *)
(* expires_at, so a holder that respects its expiry never works at the     *)
(* same time as its successor (as long as the clock was not set back).     *)
OlderLeasesExpired ==
    steady => \A l1, l2 \in granted :
        l1.request.key = l2.request.key /\ l1.fence < l2.fence
            => l1.expires <= clock

(* The recovery path never closes the effect of a holder whose lease is    *)
(* still live, as long as the clock was not set back.                      *)
RecoveryOnlyAfterExpiry ==
    steady => \A t \in reported, l \in granted :
        t.outcome = "recovery_required" /\ l.request.key = t.request.key
            => l.expires <= clock

(* While a lease is the stored one and live, it stays stored: the only     *)
(* steps that change its row are its holder's renewal and publication.     *)
LiveHolderKeepsRow ==
    [][\A k \in Keys :
        (/\ rows[k] # None
         /\ rows[k].terminal = None
         /\ rows[k].expires > clock)
            => /\ rows'[k].who = rows[k].who
               /\ rows'[k].fence = rows[k].fence
               /\ rows'[k].state # "recovery_required"]_timedVars
=============================================================================
