--------------------------- MODULE MCRecordCache ---------------------------
(* Small instance of RecordCache: two references that differ in schema     *)
(* only, two texts so that writers can conflict.                           *)
EXTENDS RecordCache, TLC

CONSTANTS t1, t2, t3, k1, sA, sB, h1, x, y

rA == [schema |-> sA, hash |-> h1]
rB == [schema |-> sB, hash |-> h1]

PutA == [op |-> "put_bound_objects", entries |-> [k \in {k1} |-> <<rA, x>>]]
PutB == [op |-> "put_bound_objects", entries |-> [k \in {k1} |-> <<rB, x>>]]
ReadMany(ks) == [op |-> "get_bound_objects", keys |-> ks, schema |-> sA]

MCTextOf == h1 :> x

(* An empty file, and one with a damaged object that is bound.             *)
MCStored ==
    {<<[r \in References |-> None], [k \in {k1} |-> None]>>,
     <<[r \in References |-> IF r = rA THEN y ELSE None],
       [k \in {k1} |-> rA]>>}

(* Tasks are alike, so each gets a part of the calls: a writer against a   *)
(* conflicting writer and a deletion, readers and binders beside them.     *)
MCCalls ==
    (t1 :> {PutA, [op |-> "put_object", ref |-> rA, text |-> y]})
    @@ (t2 :> {PutB, [op |-> "bind", key |-> k1, ref |-> rB],
               [op |-> "delete_bindings", keys |-> {k1}]})
    @@ (t3 :> {PutA, ReadMany({k1}), ReadMany({}),
               [op |-> "get_object", ref |-> rB],
               [op |-> "get_binding", key |-> k1]})
=============================================================================
