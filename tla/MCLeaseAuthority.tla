-------------------------- MODULE MCLeaseAuthority --------------------------
(* Small instance of LeaseAuthorityTimed: one key asked for under two      *)
(* requests, of which one may be redriven and the other may not.           *)
EXTENDS LeaseAuthorityTimed

CONSTANTS k1, h1, h2, a, b, r1, r2, f1

MCRequests ==
    {[key |-> k1, hash |-> h1, policy |-> "durable_workflow"],
     [key |-> k1, hash |-> h2, policy |-> "no_redrive"]}

MCTimes == 0..5
MCDurations == {1, 2}
=============================================================================
