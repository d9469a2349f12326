------------------------- MODULE MCLeaseMaintenance -------------------------
(* Small instances of LeaseMaintenance.                                    *)
EXTENDS LeaseMaintenance

CONSTANTS k1, h1, r1, f1

MCRequests ==
    {[key |-> k1, hash |-> h1, policy |-> p] : p \in {"idempotent", "no_redrive"}}

(* Between 1 and 3 a lease granted at 0 expires, and one renewed at 1 does *)
(* so at 3 exactly.                                                        *)
MCTimes == {0, 1, 3}
=============================================================================
