---------------------------- MODULE ObjectStore ----------------------------
(***************************************************************************)
(* ObjectStore (object_store.py) over a backend whose operations are       *)
(* atomic: MemoryBackend (storage_backends/memory.py, one lock around each *)
(* operation).  A call that raises without having changed anything is not  *)
(* an action, except where its error tells the caller something (a bind    *)
(* conflict names the winner).                                             *)
(*                                                                         *)
(* A record is identified with its canonical JSON text, and a content hash *)
(* with the record it is the hash of: SHA-256 is taken to be free of       *)
(* collisions.  A stored text can also be damaged from outside the         *)
(* program; Damaged texts stand for everything that is not the canonical   *)
(* text of some record (invalid JSON, a non-canonical spelling).           *)
(***************************************************************************)
EXTENDS Naturals, FiniteSets

CONSTANTS
    Keys,      \* binding keys
    Schemas,
    Records,   \* records, by their canonical text
    Damaged,   \* texts that are no record's canonical text
    None

Reference == [schema : Schemas, hash : Records]
Texts == Records \cup Damaged

ASSUME StoreAssumption ==
    /\ Damaged \cap Records = {}
    /\ None \notin Texts
    /\ None \notin Reference

VARIABLES
    objects,   \* the object rows: stored text of each reference, or None
    bindings,  \* the binding rows: reference of each key, or None
    reads,     \* history: <<reference, record>> of every verified read
    stored,    \* history: references reported as stored
    told       \* history: <<key, reference>> reported since its last eviction

vars == <<objects, bindings, reads, stored, told>>

Init ==
    /\ objects = [r \in Reference |-> None]
    /\ bindings = [k \in Keys |-> None]
    /\ reads = {}
    /\ stored = {}
    /\ told = {}

Ref(schema, record) == [schema |-> schema, hash |-> record]

(* verify_stored_record: the row's schema must be the reference's, and the *)
(* text must parse, hash to the reference and be its own canonical form.   *)
VerifiesAnyRecord(ref, schema, text) == schema = ref.schema /\ text \in Records

Verifies(ref, schema, text) == schema = ref.schema /\ text = ref.hash

-----------------------------------------------------------------------------
(* put: insert if absent.  A row already there must hold the same text,    *)
(* else ObjectConflictError.                                               *)
Put(schema, record) ==
    LET ref == Ref(schema, record) IN
    /\ objects' = IF objects[ref] = None
                  THEN [objects EXCEPT ![ref] = record] ELSE objects
    /\ stored' = IF objects[ref] \in {None, record}
                 THEN stored \cup {ref} ELSE stored
    /\ UNCHANGED <<bindings, reads, told>>

(* get: the row of the exact schema, else one of any schema with that      *)
(* hash, which then fails verification.                                    *)
Get(ref) ==
    /\ \/ /\ objects[ref] # None
          /\ reads' = IF Verifies(ref, ref.schema, objects[ref])
                      THEN reads \cup {<<ref, objects[ref]>>} ELSE reads
       \/ /\ objects[ref] = None
          /\ \E other \in Reference :
                /\ other.hash = ref.hash /\ objects[other] # None
                /\ reads' = IF Verifies(ref, other.schema, objects[other])
                            THEN reads \cup {<<ref, objects[other]>>}
                            ELSE reads
    /\ UNCHANGED <<objects, bindings, stored, told>>

(* bind: insert if absent, and answer with the row that is there (BOUND,   *)
(* IDEMPOTENT, or BindingConflictError naming the winner).                 *)
BindOverwrites(key, ref) ==
    /\ bindings' = [bindings EXCEPT ![key] = ref]
    /\ told' = told \cup {<<key, ref>>}
    /\ UNCHANGED <<objects, reads, stored>>

Bind(key, ref) ==
    /\ bindings' = IF bindings[key] = None
                   THEN [bindings EXCEPT ![key] = ref] ELSE bindings
    /\ told' = told \cup {<<key, bindings'[key]>>}
    /\ UNCHANGED <<objects, reads, stored>>

(* resolve: the bound reference; None, which tells nothing, if unbound.    *)
Resolve(key) ==
    /\ bindings[key] # None
    /\ told' = told \cup {<<key, bindings[key]>>}
    /\ UNCHANGED <<objects, bindings, reads, stored>>

(* put_many: all objects are checked before anything is written; then      *)
(* every object is stored and every unbound key bound.  The answer names   *)
(* the winner of each key.                                                 *)
PutManyStoresWinnersOnly(entries) ==
    LET ks == DOMAIN entries
        refs == {entries[k] : k \in {j \in ks : bindings[j] = None}} IN
    /\ \A r \in refs : objects[r] \in {None, r.hash}
    /\ objects' = [r \in Reference |->
                      IF r \in refs THEN r.hash ELSE objects[r]]
    /\ bindings' = [k \in Keys |->
                      IF k \in ks /\ bindings[k] = None
                      THEN entries[k] ELSE bindings[k]]
    /\ stored' = stored \cup {entries[k] : k \in ks}
    /\ told' = told \cup {<<k, bindings'[k]>> : k \in ks}
    /\ UNCHANGED reads

PutMany(entries) ==
    LET ks == DOMAIN entries
        refs == {entries[k] : k \in ks} IN
    /\ \A r \in refs : objects[r] \in {None, r.hash}
    /\ objects' = [r \in Reference |->
                      IF r \in refs THEN r.hash ELSE objects[r]]
    /\ bindings' = [k \in Keys |->
                      IF k \in ks /\ bindings[k] = None
                      THEN entries[k] ELSE bindings[k]]
    /\ stored' = stored \cup refs
    /\ told' = told \cup {<<k, bindings'[k]>> : k \in ks}
    /\ UNCHANGED reads

(* get_many: the verified hit of every bound key, or one of its errors     *)
(* (schema mismatch, missing object, unverifiable text) and no answer.     *)
GetMany(ks, schema) ==
    LET bound == {k \in ks : bindings[k] # None} IN
    /\ \A k \in bound :
         /\ bindings[k].schema = schema
         /\ objects[bindings[k]] # None
         /\ Verifies(bindings[k], bindings[k].schema, objects[bindings[k]])
    /\ reads' = reads \cup {<<bindings[k], objects[bindings[k]]>> : k \in bound}
    /\ told' = told \cup {<<k, bindings[k]>> : k \in bound}
    /\ UNCHANGED <<objects, bindings, stored>>

(* evict_bindings: the binding rows go, the object rows stay.              *)
EvictBindings(ks) ==
    /\ bindings' = [k \in Keys |-> IF k \in ks THEN None ELSE bindings[k]]
    /\ told' = {p \in told : p[1] \notin ks}
    /\ UNCHANGED <<objects, reads, stored>>

(* External: a stored text is damaged outside the program.                 *)
Damage(ref, text) ==
    /\ objects[ref] # None
    /\ objects' = [objects EXCEPT ![ref] = text]
    /\ UNCHANGED <<bindings, reads, stored, told>>

Batches == UNION {[ks -> Reference] : ks \in SUBSET Keys}

Operation ==
    \/ \E schema \in Schemas, record \in Records : Put(schema, record)
    \/ \E ref \in Reference : Get(ref)
    \/ \E key \in Keys, ref \in Reference : Bind(key, ref)
    \/ \E key \in Keys : Resolve(key)
    \/ \E entries \in Batches : PutMany(entries)
    \/ \E ks \in SUBSET Keys, schema \in Schemas : GetMany(ks, schema)
    \/ \E ks \in SUBSET Keys : EvictBindings(ks)

Next ==
    \/ Operation
    \/ \E ref \in Reference, text \in Texts : Damage(ref, text)

Spec == Init /\ [][Next]_vars

-----------------------------------------------------------------------------
(* Rows and answers are what the code's types say; in particular nobody is *)
(* told an absent binding is a reference.                                  *)
TypeOK ==
    /\ objects \in [Reference -> Texts \cup {None}]
    /\ bindings \in [Keys -> Reference \cup {None}]
    /\ reads \subseteq Reference \X Texts
    /\ stored \subseteq Reference
    /\ told \subseteq Keys \X Reference

(* A reference means one record for ever: no read through get or get_many  *)
(* ever returns two different records for it, whatever happened to the     *)
(* stored text in between.                                                 *)
ReferenceMeansOneRecord ==
    \A p, q \in reads : p[1] = q[1] => p[2] = q[2]

(* Content is kept: whatever put or put_many reported as stored is still   *)
(* there, for every record of a batch and not only the ones that won their *)
(* key, and after any eviction.                                            *)
StoredStays == \A ref \in stored : objects[ref] # None

(* First writer wins: between two evictions of a key every caller is told  *)
(* the same reference for it, and it is the one bound.                     *)
OneWinner == \A p \in told : bindings[p[1]] = p[2]

(* A step of the program never rewrites an object row, and changes a       *)
(* binding only from unbound or to unbound.                                *)
RowsWrittenOnce ==
    [][Operation =>
        /\ \A r \in Reference : objects[r] # None => objects'[r] = objects[r]
        /\ \A k \in Keys : bindings[k] # None =>
                bindings'[k] \in {bindings[k], None}]_vars
=============================================================================
