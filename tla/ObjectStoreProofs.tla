------------------------- MODULE ObjectStoreProofs -------------------------
(***************************************************************************)
(* Proofs of ObjectStore's invariants for every set of keys, schemas and   *)
(* records, and whatever is done to stored texts from outside.             *)
(*                                                                         *)
(* ReferenceMeansOneRecord is not inductive: it says nothing about what a  *)
(* later read may return.  ReadsVerified, which says what every read has   *)
(* returned, is.                                                           *)
(***************************************************************************)
EXTENDS ObjectStore, TLAPS

(* Every verified read returned the record the reference is the hash of.   *)
ReadsVerified == \A p \in reads : p[2] = p[1].hash

Inv ==
    /\ TypeOK
    /\ ReadsVerified
    /\ StoredStays
    /\ OneWinner

(* The empty store satisfies the invariant.                                *)
LEMMA InitInv == Init => Inv
BY StoreAssumption
   DEF Init, Inv, TypeOK, ReadsVerified, StoredStays, OneWinner

(* A batch is a function from some of the keys to references.              *)
LEMMA BatchShape ==
    ASSUME NEW entries \in Batches
    PROVE  /\ DOMAIN entries \subseteq Keys
           /\ \A k \in DOMAIN entries : entries[k] \in Reference
BY DEF Batches

(* put keeps the invariant: it inserts a row or finds one.                 *)
LEMMA PutInv ==
    ASSUME Inv, NEW schema \in Schemas, NEW record \in Records,
           Put(schema, record)
    PROVE  Inv'
<1> DEFINE ref == Ref(schema, record)
<1>1. ref \in Reference /\ record \in Texts /\ record # None
  BY StoreAssumption DEF Ref, Reference, Texts
<1>2. TypeOK'
  BY <1>1 DEF Inv, TypeOK, Put
<1>3. \A r \in Reference : objects[r] # None => objects'[r] # None
  BY <1>1 DEF Inv, TypeOK, Put
<1>4. objects'[ref] # None
  BY <1>1 DEF Inv, TypeOK, Put
<1>5. StoredStays'
  BY <1>1, <1>3, <1>4 DEF Inv, TypeOK, Put, StoredStays
<1>6. ReadsVerified' /\ OneWinner'
  BY DEF Inv, Put, ReadsVerified, OneWinner
<1> QED
  BY <1>2, <1>5, <1>6 DEF Inv

(* get keeps the invariant: an answer has passed verify_stored_record.     *)
LEMMA GetInv ==
    ASSUME Inv, NEW ref \in Reference, Get(ref)
    PROVE  Inv'
<1>1. reads' = reads \/ reads' = reads \cup {<<ref, ref.hash>>}
  BY DEF Get, Verifies
<1>2. ref.hash \in Texts
  BY DEF Reference, Texts
<1>3. TypeOK'
  BY <1>1, <1>2 DEF Inv, TypeOK, Get
<1>4. ReadsVerified'
  BY <1>1 DEF Inv, ReadsVerified
<1>5. StoredStays' /\ OneWinner'
  BY DEF Inv, Get, StoredStays, OneWinner
<1> QED
  BY <1>3, <1>4, <1>5 DEF Inv

(* bind keeps the invariant: it answers with the row that is there.        *)
LEMMA BindInv ==
    ASSUME Inv, NEW key \in Keys, NEW ref \in Reference, Bind(key, ref)
    PROVE  Inv'
<1>1. bindings' \in [Keys -> Reference \cup {None}]
  BY DEF Inv, TypeOK, Bind
<1>2. bindings'[key] \in Reference
  BY StoreAssumption DEF Inv, TypeOK, Bind
<1>3. \A k \in Keys : bindings[k] # None => bindings'[k] = bindings[k]
  BY DEF Inv, TypeOK, Bind
<1>4. TypeOK'
  BY <1>1, <1>2 DEF Inv, TypeOK, Bind
<1>5. OneWinner'
  <2> SUFFICES ASSUME NEW p \in told'
               PROVE  bindings'[p[1]] = p[2]
    BY DEF OneWinner
  <2>1. CASE p \in told
    <3>1. p[1] \in Keys /\ p[2] \in Reference /\ bindings[p[1]] = p[2]
      BY <2>1 DEF Inv, TypeOK, OneWinner
    <3> QED
      BY <3>1, <1>3, StoreAssumption
  <2>2. CASE p = <<key, bindings'[key]>>
    BY <2>2
  <2> QED
    BY <2>1, <2>2 DEF Bind
<1>6. ReadsVerified' /\ StoredStays'
  BY DEF Inv, Bind, ReadsVerified, StoredStays
<1> QED
  BY <1>4, <1>5, <1>6 DEF Inv

(* resolve keeps the invariant.                                            *)
LEMMA ResolveInv ==
    ASSUME Inv, NEW key \in Keys, Resolve(key)
    PROVE  Inv'
<1>1. bindings[key] \in Reference
  BY DEF Inv, TypeOK, Resolve
<1>2. TypeOK'
  BY <1>1 DEF Inv, TypeOK, Resolve
<1>3. OneWinner'
  BY DEF Inv, OneWinner, Resolve
<1>4. ReadsVerified' /\ StoredStays'
  BY DEF Inv, Resolve, ReadsVerified, StoredStays
<1> QED
  BY <1>2, <1>3, <1>4 DEF Inv

(* put_many keeps the invariant: it stores every record of the batch and   *)
(* answers with the winner of each key.                                    *)
LEMMA PutManyInv ==
    ASSUME Inv, NEW entries \in Batches, PutMany(entries)
    PROVE  Inv'
<1> DEFINE ks == DOMAIN entries
<1> DEFINE refs == {entries[k] : k \in ks}
<1>1. ks \subseteq Keys /\ refs \subseteq Reference
  BY BatchShape
<1>2. \A r \in Reference : r.hash \in Texts /\ r.hash # None
  BY StoreAssumption DEF Reference, Texts
<1>3. objects' = [r \in Reference |-> IF r \in refs THEN r.hash ELSE objects[r]]
  BY DEF PutMany
<1>4. objects' \in [Reference -> Texts \cup {None}]
  BY <1>2, <1>3 DEF Inv, TypeOK
<1>5. bindings' = [k \in Keys |-> IF k \in ks /\ bindings[k] = None
                                  THEN entries[k] ELSE bindings[k]]
  BY DEF PutMany
<1>6. bindings' \in [Keys -> Reference \cup {None}]
  BY <1>1, <1>5 DEF Inv, TypeOK
<1>7. \A k \in ks : bindings'[k] \in Reference
  BY <1>1, <1>5, StoreAssumption DEF Inv, TypeOK
<1>8. \A k \in Keys : bindings[k] # None => bindings'[k] = bindings[k]
  BY <1>5
<1>9. told' = told \cup {<<k, bindings'[k]>> : k \in ks}
  BY DEF PutMany
<1>10. stored' = stored \cup refs /\ reads' = reads
  BY DEF PutMany
<1>11. TypeOK'
  <2>1. told' \subseteq Keys \X Reference
    BY <1>1, <1>7, <1>9 DEF Inv, TypeOK
  <2> QED
    BY <1>1, <1>4, <1>6, <1>10, <2>1 DEF Inv, TypeOK
<1>12. StoredStays'
  BY <1>1, <1>2, <1>3, <1>10 DEF Inv, TypeOK, StoredStays
<1>13. OneWinner'
  <2> SUFFICES ASSUME NEW p \in told'
               PROVE  bindings'[p[1]] = p[2]
    BY DEF OneWinner
  <2>1. CASE p \in told
    <3>1. p[1] \in Keys /\ p[2] \in Reference /\ bindings[p[1]] = p[2]
      BY <2>1 DEF Inv, TypeOK, OneWinner
    <3> QED
      BY <3>1, <1>8, StoreAssumption
  <2>2. CASE p \in {<<k, bindings'[k]>> : k \in ks}
    BY <2>2
  <2> QED
    BY <2>1, <2>2, <1>9
<1>14. ReadsVerified'
  BY <1>10 DEF Inv, ReadsVerified
<1> QED
  BY <1>11, <1>12, <1>13, <1>14 DEF Inv

(* get_many keeps the invariant: each of its hits has been verified.       *)
LEMMA GetManyInv ==
    ASSUME Inv, NEW ks \in SUBSET Keys, NEW schema \in Schemas,
           GetMany(ks, schema)
    PROVE  Inv'
<1> DEFINE bound == {k \in ks : bindings[k] # None}
<1>1. \A k \in bound : /\ bindings[k] \in Reference
                       /\ objects[bindings[k]] = bindings[k].hash
  BY DEF Inv, TypeOK, GetMany, Verifies
<1>2. \A r \in Reference : r.hash \in Texts
  BY DEF Reference, Texts
<1>3. /\ reads' = reads \cup {<<bindings[k], objects[bindings[k]]>> : k \in bound}
      /\ told' = told \cup {<<k, bindings[k]>> : k \in bound}
  BY DEF GetMany
<1>4. UNCHANGED <<objects, bindings, stored>>
  BY DEF GetMany
<1>5. TypeOK'
  BY <1>1, <1>2, <1>3, <1>4 DEF Inv, TypeOK
<1>6. ReadsVerified'
  BY <1>1, <1>3 DEF Inv, ReadsVerified
<1>7. OneWinner'
  BY <1>3, <1>4 DEF Inv, OneWinner
<1>8. StoredStays'
  BY <1>4 DEF Inv, StoredStays
<1> QED
  BY <1>5, <1>6, <1>7, <1>8 DEF Inv

(* evict_bindings keeps the invariant: objects stay, and what was told     *)
(* about the evicted keys no longer counts.                                *)
LEMMA EvictInv ==
    ASSUME Inv, NEW ks \in SUBSET Keys, EvictBindings(ks)
    PROVE  Inv'
<1>1. TypeOK'
  BY DEF Inv, TypeOK, EvictBindings
<1>2. OneWinner'
  <2> SUFFICES ASSUME NEW p \in told'
               PROVE  bindings'[p[1]] = p[2]
    BY DEF OneWinner
  <2>1. p \in told /\ p[1] \notin ks
    BY DEF EvictBindings
  <2>2. p[1] \in Keys /\ bindings[p[1]] = p[2]
    BY <2>1 DEF Inv, TypeOK, OneWinner
  <2> QED
    BY <2>1, <2>2 DEF EvictBindings
<1>3. ReadsVerified' /\ StoredStays'
  BY DEF Inv, EvictBindings, ReadsVerified, StoredStays
<1> QED
  BY <1>1, <1>2, <1>3 DEF Inv

(* Damage to a stored text keeps the invariant: it removes no row.         *)
LEMMA DamageInv ==
    ASSUME Inv, NEW ref \in Reference, NEW txt \in Texts, Damage(ref, txt)
    PROVE  Inv'
<1>1. txt # None
  BY StoreAssumption
<1>2. TypeOK' /\ StoredStays'
  BY <1>1 DEF Inv, TypeOK, StoredStays, Damage
<1>3. ReadsVerified' /\ OneWinner'
  BY DEF Inv, ReadsVerified, OneWinner, Damage
<1> QED
  BY <1>2, <1>3 DEF Inv

(* Every step keeps the invariant.                                         *)
LEMMA NextInv == Inv /\ [Next]_vars => Inv'
<1> SUFFICES ASSUME Inv, [Next]_vars PROVE Inv'
  OBVIOUS
<1>1. CASE Operation
  BY <1>1, PutInv, GetInv, BindInv, ResolveInv, PutManyInv, GetManyInv,
     EvictInv DEF Operation
<1>2. CASE \E ref \in Reference, txt \in Texts : Damage(ref, txt)
  BY <1>2, DamageInv
<1>3. CASE UNCHANGED vars
  BY <1>3 DEF vars, Inv, TypeOK, ReadsVerified, StoredStays, OneWinner
<1> QED
  BY <1>1, <1>2, <1>3 DEF Next

(* The inductive invariant holds in every reachable state.                 *)
THEOREM StoreInvHolds == Spec => []Inv
BY InitInv, NextInv, PTL DEF Spec

(* Verified reads (verify_stored_record): a reference means one record for *)
(* ever, whatever happened to the stored text.                             *)
THEOREM OneRecordPerReference == Spec => []ReferenceMeansOneRecord
<1>1. Inv => ReferenceMeansOneRecord
  BY DEF Inv, ReadsVerified, ReferenceMeansOneRecord
<1> QED
  BY <1>1, StoreInvHolds, PTL

(* Append-only objects: what put and put_many reported stored stays        *)
(* stored, for the losers of a key and after evictions too.                *)
THEOREM ContentKept == Spec => []StoredStays
<1>1. Inv => StoredStays
  BY DEF Inv
<1> QED
  BY <1>1, StoreInvHolds, PTL

(* Single-assignment bindings: between evictions everybody is told the one *)
(* reference that is bound.                                                *)
THEOREM FirstWriterWins == Spec => []OneWinner
<1>1. Inv => OneWinner
  BY DEF Inv
<1> QED
  BY <1>1, StoreInvHolds, PTL

(* Rows and answers always have the shape the code's types declare.        *)
THEOREM StoreTypeCorrect == Spec => []TypeOK
<1>1. Inv => TypeOK
  BY DEF Inv
<1> QED
  BY <1>1, StoreInvHolds, PTL

(* No operation rewrites an object row or rebinds a key: put, put_many and *)
(* bind only fill what is empty, evict_bindings only empties bindings.     *)
THEOREM NoRewrite == Spec => RowsWrittenOnce
<1> DEFINE Kept == /\ \A r \in Reference : objects[r] # None => objects'[r] = objects[r]
                   /\ \A k \in Keys : bindings[k] # None =>
                        bindings'[k] \in {bindings[k], None}
<1>1. ASSUME TypeOK, Operation PROVE Kept
  <2>1. ASSUME NEW schema \in Schemas, NEW record \in Records,
               Put(schema, record)
        PROVE  Kept
    BY <1>1, <2>1 DEF TypeOK, Put
  <2>2. ASSUME NEW ref \in Reference, Get(ref) PROVE Kept
    BY <2>2 DEF Get
  <2>3. ASSUME NEW key \in Keys, NEW ref \in Reference, Bind(key, ref)
        PROVE  Kept
    BY <1>1, <2>3 DEF TypeOK, Bind
  <2>4. ASSUME NEW key \in Keys, Resolve(key) PROVE Kept
    BY <2>4 DEF Resolve
  <2>5. ASSUME NEW entries \in Batches, PutMany(entries) PROVE Kept
    <3>1. \A r \in Reference : objects[r] # None => objects'[r] = objects[r]
      BY <2>5 DEF PutMany
    <3>2. \A k \in Keys : bindings[k] # None => bindings'[k] = bindings[k]
      BY <2>5 DEF PutMany
    <3> QED
      BY <3>1, <3>2
  <2>6. ASSUME NEW ks \in SUBSET Keys, NEW schema \in Schemas,
               GetMany(ks, schema)
        PROVE  Kept
    BY <2>6 DEF GetMany
  <2>7. ASSUME NEW ks \in SUBSET Keys, EvictBindings(ks) PROVE Kept
    BY <2>7 DEF EvictBindings
  <2> QED
    BY <1>1, <2>1, <2>2, <2>3, <2>4, <2>5, <2>6, <2>7 DEF Operation
<1>2. TypeOK /\ [Next]_vars => [Operation => Kept]_vars
  BY <1>1
<1> QED
  BY <1>2, StoreTypeCorrect, PTL DEF Spec, RowsWrittenOnce
=============================================================================
