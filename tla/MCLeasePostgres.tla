--------------------------- MODULE MCLeasePostgres ---------------------------
(* Small instances of LeasePostgres.                                       *)
EXTENDS LeasePostgres

CONSTANTS k1, h1, a, b, r1, f1, s1, s2, s3

MCRequests == {[key |-> k1, hash |-> h1, policy |-> "idempotent"]}
MCTimes == 0..1
=============================================================================
