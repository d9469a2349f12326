------------------------- MODULE MCPostgresBackend -------------------------
(* Small instances of PostgresBackend.                                     *)
EXTENDS PostgresBackend, TLC

CONSTANTS k1, k2, k3, sA, v1, v2, bad, s1, s2, s3

R(v) == [schema |-> sA, hash |-> v]
Awaited(op, entries) ==
    [op |-> op, schema |-> sA, entries |-> entries, enlisted |-> FALSE]
Enlisted(op, entries) ==
    [op |-> op, schema |-> sA, entries |-> entries, enlisted |-> TRUE]
E(k, ref) == [key |-> k, ref |-> ref]

(* Batches that name their rows in opposite orders, one of them enlisted.  *)
MCStoreCalls ==
    {Awaited("put", <<E(None, R(v1))>>),
     Awaited("bind", <<E(k1, R(v1))>>),
     Enlisted("bind", <<E(k1, R(v2))>>),
     Awaited("put_many", <<E(k1, R(v1)), E(k2, R(v2))>>),
     Awaited("put_many", <<E(k2, R(v1)), E(k1, R(v1))>>),
     Enlisted("put_many", <<E(k2, R(v2)), E(k1, R(v1))>>),
     Enlisted("get_many", <<E(k1, None), E(k2, None)>>)}

(* Evictions in two chunks, a reader of keys of both chunks, and callers   *)
(* with transactions of their own.                                         *)
MCEvictCalls ==
    {Awaited("evict", <<E(k1, None), E(k2, None), E(k3, None)>>),
     Awaited("put_many", <<E(k2, R(v1)), E(k3, R(v1))>>),
     Awaited("get_many", <<E(k2, None), E(k3, None)>>),
     Enlisted("put", <<E(None, R(v2))>>),
     Enlisted("bind", <<E(k2, R(v2))>>)}

(* No action looks at the reads, nor does a property of this instance.     *)
WithoutReads ==
    <<rowVars, stored, told, evicted, pc, call, pos, txnVars, localVars,
      callerVars>>

SessionSymmetry == Permutations(Sessions)
=============================================================================
