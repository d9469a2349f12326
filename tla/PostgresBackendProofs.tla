----------------------- MODULE PostgresBackendProofs -----------------------
(***************************************************************************)
(* Proofs about PostgresBackend (storage_backends/postgresql.py), for any  *)
(* number of sessions, keys and records, any calls, any chunk size and any *)
(* number of evictions and enlisted calls: a row has one writer at a time, *)
(* a binding row is evicted once, and within one life of a key every       *)
(* caller is told the same reference.  Where nothing is evicted and every  *)
(* transaction is one call, the statements of all sessions implement the   *)
(* atomic operations of ObjectStore.                                       *)
(***************************************************************************)
EXTENDS PostgresBackend, TLAPS, FiniteSetTheorems

Pairs == Keys \X Nat \X Reference
Heard == [told : SUBSET Pairs, stored : SUBSET Reference]

Types ==
    /\ bindings \in [Keys -> Reference \cup {None}]
    /\ life \in [Keys -> Nat]
    /\ told \subseteq Pairs
    /\ call \in [Sessions -> Calls \cup {None}]
    /\ DOMAIN pc = Sessions
    /\ pos \in [Sessions -> Nat]
    /\ enlisted \in [Sessions -> Nat]
    /\ heard \in [Sessions -> Heard]
    /\ newBindings \in [Sessions -> [Keys -> Reference \cup {None}]]
    /\ deleted \in [Sessions -> SUBSET Keys]
    /\ todo \in [Sessions -> SUBSET Keys]
    /\ got \in [Sessions -> [Keys -> Read \cup {None}]]

(***************************************************************************)
(* Where a session is in its call, and what it holds there.                *)
(***************************************************************************)
Evicting(s) == InCall(s) /\ call[s].op = "evict"

(* The statements of each operation.                                       *)
AtStatement(s) ==
    /\ InCall(s) => call[s] \in Calls
    /\ pc[s] = "insert_objects" => call[s].op \in {"put", "put_many"}
    /\ pc[s] = "fetch_objects" => call[s].op \in {"put", "put_many", "get_many"}
    /\ pc[s] = "insert_bindings" => call[s].op \in {"bind", "put_many"}
    /\ pc[s] = "fetch_bindings" => call[s].op \in {"bind", "put_many", "get_many"}
    /\ pc[s] \in {"delete", "deleting"} => call[s].op = "evict"
    /\ pc[s] = "reply" => call[s].op = "get_many"

(* A session that is in no call is at the start of a list.                 *)
AtStart(s) == pc[s] \in {"idle", "open"} => pos[s] = 0

(* An eviction runs in a transaction of its own, and only there are rows   *)
(* deleted.                                                                *)
EvictsAlone(s) ==
    /\ ~Evicting(s) => deleted[s] = {}
    /\ pc[s] # "deleting" => todo[s] = {}
    /\ pc[s] = "idle" \/ Evicting(s) =>
            newBindings[s] = NoKeys /\ heard[s] = Nothing /\ enlisted[s] = 0

(* Bindings are read after they were written, and a call that is about to  *)
(* commit has read only bound ones.                                        *)
BeforeFetch(s) ==
    \/ pc[s] \in {"idle", "open", "insert_objects", "insert_bindings"}
    \/ call[s].op \in {"put", "evict"}
    \/ pc[s] = "fetch_objects" /\ call[s].op # "get_many"

ReadsItsKeys(s) ==
    /\ BeforeFetch(s) => got[s] = NoKeys
    /\ \A k \in Keys : got[s][k] # None =>
            /\ \E i \in DOMAIN Entries(s) : Entries(s)[i].key = k
            /\ pc[s] = "commit" => got[s][k].ref # None

SessionOK(s) ==
    AtStatement(s) /\ AtStart(s) /\ EvictsAlone(s) /\ ReadsItsKeys(s)

(***************************************************************************)
(* Row locks: an uncommitted insert or delete of a binding row excludes    *)
(* every other one until its transaction ends.                             *)
(***************************************************************************)
Locks ==
    /\ \A s \in Sessions, k \in Keys : newBindings[s][k] # None =>
            /\ bindings[k] = None
            /\ \A t \in Sessions \ {s} : newBindings[t][k] = None
    /\ \A s \in Sessions : \A k \in todo[s] : bindings[k] # None
    /\ EvictedOnce

(***************************************************************************)
(* What sessions have been told or are about to be told.  A session knows  *)
(* the reference of a key privately while the row is its own uncommitted   *)
(* insert.  All other knowledge is public: it agrees per life of the key,  *)
(* and for the current life with the row.                                  *)
(***************************************************************************)
Knows(s, k, n, r) ==
    /\ r # None
    /\ \/ <<k, n, r>> \in heard[s].told
       \/ got[s][k] # None /\ n = got[s][k].life /\ r = got[s][k].ref

Private(s, k, n) == newBindings[s][k] # None /\ n = life[k]

Public(k, n, r) ==
    \/ <<k, n, r>> \in told
    \/ \E s \in Sessions : Knows(s, k, n, r) /\ ~Private(s, k, n)

PublicAgrees ==
    \A k \in Keys, n \in Nat, r \in Reference : Public(k, n, r) =>
        /\ n <= life[k]
        /\ n = life[k] => bindings[k] = r
        /\ \A q \in Reference : Public(k, n, q) => q = r

PrivateAgrees ==
    \A s \in Sessions, k \in Keys, r \in Reference :
        Knows(s, k, life[k], r) /\ newBindings[s][k] # None =>
            r = newBindings[s][k]

Inv ==
    /\ Types
    /\ \A s \in Sessions : SessionOK(s)
    /\ Locks
    /\ PublicAgrees
    /\ PrivateAgrees

-----------------------------------------------------------------------------
(* The initial state.                                                      *)
LEMMA InitInv ==
    ASSUME Init PROVE Inv
<1> USE NoneAssumption DEF Init, NoKeys, Nothing
<1>1. Types
    BY DEF Types, Heard, Pairs
<1>2. ASSUME NEW s \in Sessions PROVE SessionOK(s)
    BY DEF SessionOK, AtStatement, AtStart, EvictsAlone, ReadsItsKeys, InCall, Evicting
<1>3. Locks
    BY DEF Locks, EvictedOnce
<1>4. \A k \in Keys, n \in Nat, r \in Reference : ~Public(k, n, r)
    BY DEF Public, Knows
<1>5. \A s \in Sessions, k \in Keys, r \in Reference : ~Knows(s, k, life[k], r)
    BY DEF Knows
<1> QED
    BY <1>1, <1>2, <1>3, <1>4, <1>5 DEF Inv, PublicAgrees, PrivateAgrees

(***************************************************************************)
(* Frames.                                                                 *)
(***************************************************************************)

(* What another session does leaves a session where it is.                 *)
LEMMA OtherSession ==
    ASSUME NEW t \in Sessions, SessionOK(t),
           pc'[t] = pc[t], pos'[t] = pos[t], call'[t] = call[t], got'[t] = got[t],
           deleted'[t] = deleted[t], todo'[t] \subseteq todo[t],
           newBindings'[t] = newBindings[t], heard'[t] = heard[t],
           enlisted'[t] = enlisted[t]
    PROVE  SessionOK(t)'
BY DEF SessionOK, AtStatement, AtStart, EvictsAlone, ReadsItsKeys, BeforeFetch, InCall,
       Evicting, Entries, NoKeys, Nothing

(* What a row may do in a step: a binding stays until its life ends.       *)
RowStep(k) ==
    \/ life'[k] = life[k] /\ (bindings[k] # None => bindings'[k] = bindings[k])
    \/ life'[k] = life[k] + 1

(* Public knowledge stays consistent as long as whatever becomes public in *)
(* a step is what the row holds after it.                                  *)
LEMMA PublicStep ==
    ASSUME Types, Types', PublicAgrees,
           \A k \in Keys : RowStep(k),
           \A k \in Keys, n \in Nat, r \in Reference :
               Public(k, n, r)' => \/ Public(k, n, r)
                                   \/ n = life'[k] /\ r = bindings'[k]
    PROVE  PublicAgrees'
<1> SUFFICES ASSUME NEW k \in Keys, NEW n \in Nat, NEW r \in Reference,
                    Public(k, n, r)'
             PROVE  /\ n <= life'[k]
                    /\ n = life'[k] => bindings'[k] = r
                    /\ \A q \in Reference : Public(k, n, q)' => q = r
    BY DEF PublicAgrees
<1>1. life[k] \in Nat /\ life'[k] \in Nat /\ RowStep(k)
    BY DEF Types
<1>2. ASSUME NEW q \in Reference, Public(k, n, q)'
      PROVE  /\ n <= life'[k]
             /\ n = life'[k] => bindings'[k] = q
    <2>1. CASE n = life'[k] /\ q = bindings'[k]
        BY <1>1, <2>1
    <2>2. CASE Public(k, n, q)
        <3>1. n <= life[k] /\ (n = life[k] => bindings[k] = q)
            BY <2>2 DEF PublicAgrees
        <3> QED
            BY <3>1, <1>1, NoneAssumption DEF RowStep
    <2> QED
        BY <1>2, <2>1, <2>2
<1>3. ASSUME NEW q \in Reference, Public(k, n, q)'
      PROVE  q = r
    <2>1. CASE n = life'[k]
        BY <1>2, <1>3, <2>1
    <2>2. CASE n # life'[k]
        <3>1. Public(k, n, q) /\ Public(k, n, r)
            BY <1>3, <2>2
        <3> QED
            BY <3>1 DEF PublicAgrees
    <2> QED
        BY <2>1, <2>2
<1> QED
    BY <1>2, <1>3

rowsAndKnowledge == <<bindings, life, told, heard, newBindings, deleted, got>>

(* A step of one session that changes neither rows nor knowledge.          *)
LEMMA QuietStep ==
    ASSUME Inv, NEW s \in Sessions,
           DOMAIN pc' = Sessions, pos' \in [Sessions -> Nat],
           call' \in [Sessions -> Calls \cup {None}],
           enlisted' \in [Sessions -> Nat],
           todo' \in [Sessions -> SUBSET Keys],
           \A t \in Sessions \ {s} :
               /\ pc'[t] = pc[t] /\ pos'[t] = pos[t] /\ call'[t] = call[t]
               /\ enlisted'[t] = enlisted[t] /\ todo'[t] = todo[t],
           UNCHANGED rowsAndKnowledge,
           SessionOK(s)',
           \A k \in todo'[s] : bindings[k] # None
    PROVE  Inv'
<1> USE DEF rowsAndKnowledge
<1>1. Types'
    BY DEF Inv, Types
<1>2. ASSUME NEW t \in Sessions PROVE SessionOK(t)'
    <2>1. CASE t # s
        BY <2>1, OtherSession DEF Inv
    <2> QED
        BY <2>1
<1>3. Locks'
    BY DEF Inv, Locks, EvictedOnce
<1>4. PublicAgrees'
    BY DEF Inv, PublicAgrees, Public, Knows, Private
<1>5. PrivateAgrees'
    BY DEF Inv, PrivateAgrees, Knows
<1> QED
    BY <1>1, <1>2, <1>3, <1>4, <1>5 DEF Inv

(***************************************************************************)
(* The lists of rows and their chunks.                                     *)
(***************************************************************************)

(* A finite set, listed, is a sequence of exactly its elements.            *)
LEMMA Listed ==
    ASSUME NEW S, IsFiniteSet(S)
    PROVE  /\ SetToSeq(S) \in Seq(S)
           /\ \A x \in S : \E i \in DOMAIN SetToSeq(S) : SetToSeq(S)[i] = x
<1> DEFINE n == Cardinality(S)
           q == SetToSeq(S)
<1>1. n \in Nat /\ ExistsBijection(1..n, S)
    BY FS_CardinalityType
<1>2. \E f \in [1..n -> S] : IsInjective(f)
    BY <1>1 DEF ExistsBijection, Bijection, Injection
<1>3. q \in [1..n -> S] /\ IsInjective(q)
    BY <1>2 DEF SetToSeq
<1>4. q \in Injection(1..n, S)
    BY <1>3 DEF Injection
<1>5. Cardinality(1..n) = n
    BY <1>1, FS_Interval
<1>6. q \in Surjection(1..n, S)
    BY <1>4, <1>5, FS_Injection
<1> QED
    BY <1>1, <1>3, <1>6 DEF Surjection

(* The entries of a call.                                                  *)
LEMMA EntriesListed ==
    ASSUME NEW s \in Sessions, call[s] \in Calls
    PROVE  /\ Entries(s) \in Seq(Entry)
           /\ call[s].op # "put" =>
                 \A i \in DOMAIN Entries(s) : Entries(s)[i].key \in Keys
           /\ call[s].op \in {"put", "bind", "put_many"} =>
                 \A i \in DOMAIN Entries(s) : Entries(s)[i].ref \in Reference
BY BackendAssumption, EntriesAssumption DEF Entries, Call

(* The references a call writes or reads; a get_many lists those of the    *)
(* keys it found bound.                                                    *)
LEMMA RowsListed ==
    ASSUME Types, NEW s \in Sessions, SessionOK(s),
           \/ pc[s] \in {"insert_objects", "fetch_objects"}
           \/ pc[s] = "fetch_bindings" /\ call[s].op = "get_many"
    PROVE  /\ ObjectRows(s) \in Seq(Reference)
           /\ call[s].op # "get_many" =>
                /\ DOMAIN ObjectRows(s) = DOMAIN Entries(s)
                /\ \A i \in DOMAIN Entries(s) :
                        ObjectRows(s)[i] = Entries(s)[i].ref
           /\ call[s].op = "get_many" =>
                /\ \A k \in Hits(s) : \E i \in DOMAIN ObjectRows(s) :
                        ObjectRows(s)[i] = got[s][k].ref
                /\ \A i \in DOMAIN ObjectRows(s) : \E k \in Hits(s) :
                        ObjectRows(s)[i] = got[s][k].ref
<1>1. /\ call[s] \in Calls
      /\ call[s].op \in {"put", "put_many", "get_many"}
    BY DEF SessionOK, AtStatement, InCall
<1>2. CASE call[s].op # "get_many"
    BY <1>1, <1>2, EntriesListed DEF ObjectRows
<1>3. CASE call[s].op = "get_many"
    <2> DEFINE refs == {got[s][k].ref : k \in Hits(s)}
               found == {i \in DOMAIN Entries(s) : Entries(s)[i].key \in Hits(s)}
               f == [i \in found |-> got[s][Entries(s)[i].key].ref]
    <2>1. refs \subseteq Reference
        BY DEF Types, Hits, Read
    <2>2. IsFiniteSet(found)
        <3>1. DOMAIN Entries(s) = 1..Len(Entries(s)) /\ Len(Entries(s)) \in Nat
            BY <1>1, EntriesListed
        <3>2. IsFiniteSet(DOMAIN Entries(s))
            BY <3>1, FS_Interval
        <3> QED
            BY <3>2, FS_Subset
    <2>3. \A k \in Hits(s) : \E i \in found : Entries(s)[i].key = k
        BY DEF Hits, SessionOK, ReadsItsKeys
    <2>4. f \in Surjection(found, refs)
        BY <2>3 DEF Surjection
    <2>5. IsFiniteSet(refs)
        BY <2>2, <2>4, FS_Surjection
    <2>6. ObjectRows(s) = SetToSeq(refs)
        BY <1>3 DEF ObjectRows
    <2>7. ObjectRows(s) \in Seq(refs)
        BY <2>5, <2>6, Listed
    <2>8. ObjectRows(s) \in Seq(Reference)
        BY <2>1, <2>7
    <2>9. ASSUME NEW k \in Hits(s)
          PROVE  \E i \in DOMAIN ObjectRows(s) : ObjectRows(s)[i] = got[s][k].ref
        <3>1. got[s][k].ref \in refs
            OBVIOUS
        <3> HIDE DEF refs
        <3> QED
            BY <2>5, <2>6, <3>1, Listed
    <2>10. \A i \in DOMAIN ObjectRows(s) : ObjectRows(s)[i] \in refs
        BY <2>7
    <2>11. ASSUME NEW i \in DOMAIN ObjectRows(s)
           PROVE  \E k \in Hits(s) : ObjectRows(s)[i] = got[s][k].ref
        BY <2>10
    <2> QED
        BY <1>3, <2>8, <2>9, <2>11
<1> QED
    BY <1>2, <1>3

(* A chunk consists of rows of its list, and ends within it.               *)
LEMMA ChunkListed ==
    ASSUME Types, NEW s \in Sessions, NEW S, NEW rows \in Seq(S)
    PROVE  /\ ChunkEnd(s, rows) \in Nat
           /\ \A e \in Chunk(s, rows) : \E i \in DOMAIN rows : rows[i] = e
           /\ \A i \in DOMAIN rows :
                  i <= ChunkEnd(s, rows) /\ ~(i <= pos[s]) =>
                      rows[i] \in Chunk(s, rows)
BY BackendAssumption DEF Types, Chunk, ChunkEnd

(* The cursor of a session that has rows left is at one of them.           *)
LEMMA NextRow ==
    ASSUME Types, NEW s \in Sessions, NEW S, NEW rows \in Seq(S),
           pos[s] < Len(rows)
    PROVE  pos[s] + 1 \in DOMAIN rows
BY DEF Types

-----------------------------------------------------------------------------
(* Steps that leave rows and knowledge alone.                              *)

(* The count of enlisted calls.                                            *)
LEMMA CountsEnlisted ==
    ASSUME enlisted \in [Sessions -> Nat], NEW s \in Sessions,
           enlisted' = enlisted \/ enlisted' = [enlisted EXCEPT ![s] = @ + 1]
    PROVE  /\ enlisted' \in [Sessions -> Nat]
           /\ \A t \in Sessions \ {s} : enlisted'[t] = enlisted[t]
<1>1. CASE enlisted' = enlisted
    BY <1>1
<1>2. CASE enlisted' = [enlisted EXCEPT ![s] = @ + 1]
    BY <1>2
<1> QED
    BY <1>1, <1>2

(* A call begins.                                                          *)
LEMMA BeginStep ==
    ASSUME Inv, NEW s \in Sessions, NEW c \in Calls,
           BeginAwaited(s, c) \/ BeginEnlisted(s, c)
    PROVE  Inv'
<1>1. SessionOK(s) /\ Types
    BY DEF Inv
<1>2. /\ pc[s] \in {"idle", "open"}
      /\ call' = [call EXCEPT ![s] = c]
      /\ pc' = [pc EXCEPT ![s] = FirstStatement(c.op)]
      /\ UNCHANGED <<rowsAndKnowledge, pos, todo>>
      /\ \/ pc[s] = "idle" /\ enlisted' = enlisted
         \/ c.enlisted /\ enlisted' = [enlisted EXCEPT ![s] = @ + 1]
    BY DEF BeginAwaited, BeginEnlisted, Begin, Goto, rowsAndKnowledge,
           rowVars, toldVars, txnVars, localVars
<1>5. /\ enlisted' \in [Sessions -> Nat]
      /\ \A t \in Sessions \ {s} : enlisted'[t] = enlisted[t]
    BY <1>1, <1>2, CountsEnlisted DEF Types
<1>6. c.op = "evict" => pc[s] = "idle" /\ enlisted' = enlisted
    BY <1>2, BackendAssumption
<1>3. c.op \in Ops
    BY BackendAssumption DEF Call
<1>4. SessionOK(s)'
    BY <1>1, <1>2, <1>3, <1>6
       DEF SessionOK, AtStatement, AtStart, EvictsAlone, ReadsItsKeys, BeforeFetch,
           InCall, Evicting, Entries, NoKeys, Nothing, FirstStatement, Ops,
           Types, rowsAndKnowledge
<1> QED
    BY <1>1, <1>2, <1>4, <1>5, QuietStep DEF Types, Inv, Locks

(* The statements that write and read objects, the ends of statements, and *)
(* an enlisted get.                                                        *)
QuietAction(s) ==
    \/ InsertObject(s) \/ ObjectsInserted(s) \/ FetchObjects(s)
    \/ ObjectsFetched(s) \/ BindingsInserted(s) \/ BindingsFetched(s)
    \/ DeleteEnd(s)
    \/ \E ref \in Reference : GetEnlisted(s, ref)

(* Steps that read or write objects, or only move on, preserve Inv.        *)
LEMMA QuietActions ==
    ASSUME Inv, NEW s \in Sessions, QuietAction(s)
    PROVE  Inv'
<1>1. SessionOK(s) /\ Types
    BY DEF Inv
<1>2. UNCHANGED <<rowsAndKnowledge, call, todo>>
    BY DEF QuietAction, InsertObject, ObjectsInserted, FetchObjects,
           ObjectsFetched, BindingsInserted, BindingsFetched, DeleteEnd,
           GetEnlisted, rowsAndKnowledge,
           rowVars, toldVars, txnVars, localVars, callerVars
<1>3. \/ UNCHANGED enlisted
      \/ pc' = pc /\ pc[s] = "open"
         /\ enlisted' = [enlisted EXCEPT ![s] = @ + 1]
    BY DEF QuietAction, InsertObject, ObjectsInserted, FetchObjects,
           ObjectsFetched, BindingsInserted, BindingsFetched, DeleteEnd,
           GetEnlisted, callerVars
<1>4. pc' = pc \/ \E label : pc' = [pc EXCEPT ![s] = label]
    BY DEF QuietAction, InsertObject, ObjectsInserted, FetchObjects,
            ObjectsFetched, BindingsInserted, BindingsFetched, DeleteEnd,
            GetEnlisted, Goto, GotoList, Advance
<1>5. /\ pos' \in [Sessions -> Nat]
      /\ \A t \in Sessions \ {s} : pos'[t] = pos[t]
    <2>1. pos[s] + 1 \in Nat
        BY <1>1 DEF Types
    <2>2. CASE FetchObjects(s)
        <3>1. ChunkEnd(s, ObjectRows(s)) \in Nat
            BY <1>1, <2>2, RowsListed, ChunkListed DEF FetchObjects
        <3> QED
            BY <1>1, <2>2, <3>1 DEF FetchObjects, Advance, Types
    <2>3. CASE DeleteEnd(s)
        <3>1. ChunkEnd(s, Entries(s)) \in Nat
            BY <1>1, <2>3, EntriesListed, ChunkListed
               DEF DeleteEnd, SessionOK, AtStatement, InCall
        <3> QED
            BY <1>1, <2>3, <3>1 DEF DeleteEnd, Types
    <2>4. CASE InsertObject(s)
        BY <1>1, <2>1, <2>4 DEF InsertObject, Advance, Types
    <2>5. CASE ~FetchObjects(s) /\ ~DeleteEnd(s) /\ ~InsertObject(s)
        <3>1. pos' = pos \/ pos' = [pos EXCEPT ![s] = 0]
            BY <2>5 DEF QuietAction, ObjectsInserted, ObjectsFetched,
                   BindingsInserted, BindingsFetched, GetEnlisted, GotoList
        <3>2. pos \in [Sessions -> Nat]
            BY <1>1 DEF Types
        <3> QED
            BY <3>1, <3>2
    <2> QED
        BY <2>2, <2>3, <2>4, <2>5
<1>6. /\ DOMAIN pc' = Sessions
      /\ enlisted' \in [Sessions -> Nat]
      /\ \A t \in Sessions \ {s} : pc'[t] = pc[t] /\ enlisted'[t] = enlisted[t]
    <2>1. DOMAIN pc' = Sessions /\ \A t \in Sessions \ {s} : pc'[t] = pc[t]
        BY <1>1, <1>4 DEF Types
    <2> QED
        BY <2>1, <1>1, <1>3, CountsEnlisted DEF Types
<1>7. SessionOK(s)'
    <2> USE <1>1, <1>2 DEF SessionOK, AtStatement, AtStart, EvictsAlone, ReadsItsKeys,
            BeforeFetch, InCall, Evicting, Entries, NoKeys, Nothing, Types,
            rowsAndKnowledge
    <2>1. CASE InsertObject(s) \/ FetchObjects(s)
        BY <2>1 DEF InsertObject, FetchObjects, Advance, callerVars
    <2>2. CASE ObjectsInserted(s)
        BY <2>2 DEF ObjectsInserted, GotoList, Goto, callerVars
    <2>3. CASE ObjectsFetched(s)
        <3>1. /\ pc[s] = "fetch_objects" /\ enlisted' = enlisted
              /\ pc'[s] \in {"reply", "assert", "conflict", "commit",
                             "insert_bindings"}
              /\ pc'[s] = "reply" => call[s].op = "get_many"
              /\ pc'[s] = "commit" => call[s].op = "put"
              /\ call[s].op = "get_many" => pc'[s] = "reply"
              /\ pc'[s] = "insert_bindings" => call[s].op = "put_many"
            BY <2>3 DEF ObjectsFetched, GotoList, Goto, callerVars
        <3> QED
            BY <3>1
    <2>4. CASE BindingsInserted(s)
        BY <2>4 DEF BindingsInserted, GotoList, Goto, callerVars
    <2>5. CASE BindingsFetched(s)
        <3>1. /\ pc[s] = "fetch_bindings" /\ enlisted' = enlisted
              /\ pc'[s] \in {"fetch_objects", "assert", "commit"}
              /\ pc'[s] = "fetch_objects" <=> call[s].op = "get_many"
              /\ pc'[s] = "commit" =>
                   \A i \in DOMAIN Entries(s) :
                       got[s][Entries(s)[i].key].ref # None
            BY <2>5 DEF BindingsFetched, GotoList, Goto, callerVars
        <3>2. ASSUME NEW k \in Keys, got[s][k] # None, pc'[s] = "commit"
              PROVE  got[s][k].ref # None
            <4>1. PICK i \in DOMAIN Entries(s) : Entries(s)[i].key = k
                BY <3>2
            <4> QED
                BY <3>1, <3>2, <4>1
        <3> HIDE DEF Entries
        <3>3. Entries(s)' = Entries(s)
            BY DEF Entries
        <3>4. ReadsItsKeys(s)'
            BY <3>1, <3>2, <3>3
        <3>5. AtStatement(s)' /\ AtStart(s)' /\ EvictsAlone(s)'
            BY <3>1
        <3> QED
            BY <3>4, <3>5
    <2>6. CASE DeleteEnd(s)
        BY <2>6 DEF DeleteEnd, Goto, callerVars
    <2>7. CASE \E ref \in Reference : GetEnlisted(s, ref)
        BY <2>7 DEF GetEnlisted
    <2> QED
        BY <2>1, <2>2, <2>3, <2>4, <2>5, <2>6, <2>7 DEF QuietAction
<1> QED
    BY <1>1, <1>2, <1>5, <1>6, <1>7, QuietStep DEF Types, Inv, Locks

(* DELETE takes its snapshot.                                              *)
LEMMA DeleteStartStep ==
    ASSUME Inv, NEW s \in Sessions, DeleteStart(s)
    PROVE  Inv'
<1>1. SessionOK(s) /\ Types
    BY DEF Inv
<1> DEFINE rows == KeysOf(Chunk(s, Entries(s)))
<1>2. /\ pc[s] = "delete"
      /\ todo' = [todo EXCEPT ![s] = {k \in rows : bindings[k] # None}]
      /\ rows \subseteq Keys
      /\ pc' = [pc EXCEPT ![s] = "deleting"]
      /\ UNCHANGED <<rowsAndKnowledge, call, pos, enlisted>>
    <2>1. call[s] \in Calls /\ call[s].op = "evict" /\ pc[s] = "delete"
        BY <1>1 DEF SessionOK, AtStatement, InCall, DeleteStart
    <2>2. \A e \in Chunk(s, Entries(s)) : e.key \in Keys
        BY <1>1, <2>1, EntriesListed, ChunkListed
    <2> QED
        BY <2>1, <2>2
           DEF DeleteStart, Goto, KeysOf, rowsAndKnowledge, rowVars, toldVars,
               localVars, callerVars
<1> HIDE DEF rows
<1>3. SessionOK(s)'
    BY <1>1, <1>2
       DEF SessionOK, AtStatement, AtStart, EvictsAlone, ReadsItsKeys, BeforeFetch,
           InCall, Evicting, Entries, Types, rowsAndKnowledge
<1> QED
    BY <1>1, <1>2, <1>3, QuietStep DEF Types

-----------------------------------------------------------------------------
(* Steps that write binding rows.                                          *)

(* DELETE handles a row: nobody else holds it.                             *)
LEMMA DeleteRowStep ==
    ASSUME Inv, NEW s \in Sessions, NEW k \in Keys, DeleteRow(s, k)
    PROVE  Inv'
<1>1. Types /\ Locks
    BY DEF Inv
<1>2. /\ pc[s] = "deleting" /\ k \in todo[s]
      /\ deleted' = [deleted EXCEPT ![s] = @ \cup {k}]
      /\ todo' = [todo EXCEPT ![s] = @ \ {k}]
      /\ UNCHANGED <<bindings, life, told, heard, newBindings, got, call, pc,
                     pos, enlisted>>
    BY DEF DeleteRow, rowVars, toldVars, localVars, callerVars
<1>3. \A t \in Sessions \ {s} : newBindings[t][k] = None /\ k \notin deleted[t]
    BY DEF DeleteRow, BindingWriters
<1>4. Types'
    BY <1>1, <1>2 DEF Types
<1>5. ASSUME NEW t \in Sessions PROVE SessionOK(t)'
    <2>1. SessionOK(t)
        BY DEF Inv
    <2>2. CASE t = s
        BY <1>1, <1>2, <2>1, <2>2
           DEF SessionOK, AtStatement, AtStart, EvictsAlone, ReadsItsKeys, BeforeFetch,
               InCall, Evicting, Entries, Types
    <2>3. CASE t # s
        BY <1>1, <1>2, <2>1, <2>3, OtherSession DEF Types
    <2> QED
        BY <2>2, <2>3
<1>6. Locks'
    BY <1>1, <1>2, <1>3 DEF Locks, EvictedOnce, Types
<1>7. PublicAgrees' /\ PrivateAgrees'
    BY <1>2 DEF Inv, PublicAgrees, PrivateAgrees, Public, Knows, Private
<1> QED
    BY <1>4, <1>5, <1>6, <1>7 DEF Inv

(* INSERT handles a row of a binding: if it inserts it, nobody else holds  *)
(* the row and none is committed.                                          *)
LEMMA InsertBindingStep ==
    ASSUME Inv, NEW s \in Sessions, InsertBinding(s)
    PROVE  Inv'
<1>1. Types /\ Locks /\ SessionOK(s)
    BY DEF Inv
<1>2. PICK e : e = Entries(s)[pos[s] + 1]
    OBVIOUS
<1>3. e.key \in Keys /\ e.ref \in Reference
    <2>1. call[s] \in Calls /\ call[s].op \in {"bind", "put_many"}
        BY <1>1 DEF SessionOK, AtStatement, InCall, InsertBinding
    <2>2. pos[s] + 1 \in DOMAIN Entries(s)
        BY <1>1, <2>1, EntriesListed, NextRow DEF InsertBinding
    <2> QED
        BY <2>1, <2>2, <1>2, EntriesListed
<1> DEFINE k == e.key
           r == e.ref
<1>4. /\ pc[s] = "insert_bindings" /\ pc' = pc
      /\ UNCHANGED <<bindings, life, told, heard, deleted, todo, got, call,
                     enlisted>>
      /\ pos' \in [Sessions -> Nat]
      /\ \A t \in Sessions \ {s} : pos'[t] = pos[t]
      /\ \/ newBindings' = newBindings
         \/ /\ newBindings' = [newBindings EXCEPT ![s][k] = r]
            /\ newBindings[s][k] = None /\ bindings[k] = None
            /\ \A t \in Sessions \ {s} : newBindings[t][k] = None
    BY <1>1, <1>2
       DEF InsertBinding, Advance, Seen, BindingWriters, Types, rowVars,
           toldVars, localVars, callerVars
<1>5. CASE newBindings' = newBindings
    <2>1. SessionOK(s)'
        BY <1>1, <1>4, <1>5
           DEF SessionOK, AtStatement, AtStart, EvictsAlone, ReadsItsKeys, BeforeFetch,
               InCall, Evicting, Entries
    <2> QED
        BY <1>1, <1>4, <1>5, <2>1, QuietStep
           DEF rowsAndKnowledge, Types, Locks
<1>6. CASE /\ newBindings' = [newBindings EXCEPT ![s][k] = r]
           /\ newBindings[s][k] = None /\ bindings[k] = None
           /\ \A t \in Sessions \ {s} : newBindings[t][k] = None
    <2> HIDE DEF k, r
    <2>1. k \in Keys /\ r \in Reference
        BY <1>3 DEF k, r
    <2>2. /\ newBindings' \in [Sessions -> [Keys -> Reference \cup {None}]]
          /\ newBindings'[s][k] = r
          /\ \A t \in Sessions, j \in Keys :
                t # s \/ j # k => newBindings'[t][j] = newBindings[t][j]
          /\ \A t \in Sessions \ {s} : newBindings'[t] = newBindings[t]
        BY <1>1, <1>6, <2>1 DEF Types
    <2>3. Types'
        BY <1>1, <1>4, <2>2 DEF Types
    <2>4. ASSUME NEW t \in Sessions PROVE SessionOK(t)'
        <3>1. SessionOK(t)
            BY DEF Inv
        <3>2. CASE t = s
            BY <1>1, <1>4, <3>1, <3>2
               DEF SessionOK, AtStatement, AtStart, EvictsAlone, ReadsItsKeys,
                   BeforeFetch, InCall, Evicting, Entries, Types
        <3>3. CASE t # s
            BY <1>4, <2>2, <3>1, <3>3, OtherSession DEF Types
        <3> QED
            BY <3>2, <3>3
    <2>5. Locks'
        BY <1>1, <1>4, <1>6, <2>1, <2>2, NoneAssumption
           DEF Locks, EvictedOnce
    <2>6. \A i \in Keys, n \in Nat, q \in Reference :
              Public(i, n, q)' => Public(i, n, q)
        BY <1>4, <1>6, <2>2, NoneAssumption DEF Public, Knows, Private
    <2>7. PublicAgrees'
        BY <1>1, <1>4, <2>3, <2>6, PublicStep DEF Inv, RowStep
    <2>8. ASSUME NEW t \in Sessions, NEW i \in Keys, NEW q \in Reference,
                 Knows(t, i, life[i], q), newBindings'[t][i] # None
          PROVE  q = newBindings'[t][i]
        <3>1. CASE t # s \/ i # k
            BY <2>2, <2>8, <3>1 DEF Inv, PrivateAgrees
        <3>2. CASE t = s /\ i = k
            <4>1. Public(k, life[k], q)
                BY <1>6, <2>8, <3>2 DEF Public, Private
            <4>2. bindings[k] = q
                BY <4>1, <1>1, <2>1 DEF Inv, PublicAgrees, Types
            <4> QED
                BY <4>2, <1>6, NoneAssumption
        <3> QED
            BY <3>1, <3>2
    <2>9. PrivateAgrees'
        BY <1>4, <2>8 DEF PrivateAgrees, Knows
    <2> QED
        BY <2>3, <2>4, <2>5, <2>7, <2>9 DEF Inv
<1> QED
    BY <1>4, <1>5, <1>6

-----------------------------------------------------------------------------
(* Steps that add knowledge.                                               *)

(* SELECT reads the keys of a chunk, each as the row is now or as the      *)
(* session's own transaction has bound it.                                 *)
LEMMA FetchBindingsStep ==
    ASSUME Inv, NEW s \in Sessions, FetchBindings(s)
    PROVE  Inv'
<1>1. Types /\ Locks /\ SessionOK(s)
    BY DEF Inv
<1> DEFINE chunk == KeysOf(Chunk(s, Entries(s)))
<1>2. /\ call[s] \in Calls
      /\ call[s].op \in {"bind", "put_many", "get_many"}
    BY <1>1 DEF SessionOK, AtStatement, InCall, FetchBindings
<1>3. /\ \A k \in chunk : \E i \in DOMAIN Entries(s) : Entries(s)[i].key = k
      /\ ChunkEnd(s, Entries(s)) \in Nat
    BY <1>1, <1>2, EntriesListed, ChunkListed DEF KeysOf
<1>4. /\ pc[s] = "fetch_bindings" /\ pc' = pc
      /\ UNCHANGED <<bindings, life, told, heard, newBindings, deleted, todo,
                     call, enlisted>>
      /\ pos' = [pos EXCEPT ![s] = ChunkEnd(s, Entries(s))]
      /\ got' = [got EXCEPT ![s] =
            [k \in Keys |-> IF k \in chunk
                            THEN [life |-> life[k], ref |-> Seen(s, k)]
                            ELSE got[s][k]]]
    BY DEF FetchBindings, Advance, rowVars, toldVars, txnVars, callerVars
<1> HIDE DEF chunk
<1>5. \A k \in Keys : [life |-> life[k], ref |-> Seen(s, k)] \in Read
    BY <1>1 DEF Types, Seen, Read
<1>6. /\ got' \in [Sessions -> [Keys -> Read \cup {None}]]
      /\ \A t \in Sessions \ {s} : got'[t] = got[t]
      /\ \A k \in Keys : got'[s][k] = IF k \in chunk
                                 THEN [life |-> life[k], ref |-> Seen(s, k)]
                                 ELSE got[s][k]
    BY <1>1, <1>4, <1>5 DEF Types
<1>7. Types'
    BY <1>1, <1>3, <1>4, <1>6 DEF Types
<1>8. ASSUME NEW t \in Sessions PROVE SessionOK(t)'
    <2>1. SessionOK(t)
        BY DEF Inv
    <2>2. CASE t = s
        <3>1. AtStatement(s)' /\ AtStart(s)' /\ EvictsAlone(s)'
            BY <1>1, <1>4 DEF SessionOK, AtStatement, AtStart, EvictsAlone, InCall, Evicting
        <3>2. Entries(s)' = Entries(s)
            BY <1>4 DEF Entries
        <3>3. ReadsItsKeys(s)'
            BY <1>1, <1>2, <1>3, <1>4, <1>6, <3>2
               DEF SessionOK, ReadsItsKeys, BeforeFetch
        <3> QED
            BY <2>2, <3>1, <3>3 DEF SessionOK
    <2>3. CASE t # s
        BY <1>1, <1>4, <1>6, <2>1, <2>3, OtherSession DEF Types
    <2> QED
        BY <2>2, <2>3
<1>9. Locks'
    BY <1>1, <1>4 DEF Locks, EvictedOnce
<1>10. ASSUME NEW t \in Sessions, NEW k \in Keys, NEW n \in Nat,
              NEW r \in Reference, Knows(t, k, n, r)'
       PROVE  \/ Knows(t, k, n, r)
              \/ t = s /\ n = life[k] /\ r = Seen(s, k)
    BY <1>4, <1>6, <1>10 DEF Knows
<1>11. ASSUME NEW k \in Keys, NEW n \in Nat, NEW r \in Reference,
              Public(k, n, r)'
       PROVE  Public(k, n, r) \/ (n = life'[k] /\ r = bindings'[k])
    BY <1>4, <1>10, <1>11 DEF Public, Private, Seen
<1>12. PublicAgrees'
    BY <1>1, <1>4, <1>7, <1>11, PublicStep DEF Inv, RowStep
<1>13. PrivateAgrees'
    BY <1>1, <1>4, <1>10 DEF Inv, PrivateAgrees, Seen, Types
<1> QED
    BY <1>7, <1>8, <1>9, <1>12, <1>13 DEF Inv

(* resolve tells what the row holds.                                       *)
LEMMA ResolveStep ==
    ASSUME Inv, NEW k \in Keys, Resolve(k)
    PROVE  Inv'
<1>1. Types
    BY DEF Inv
<1>2. /\ bindings[k] # None
      /\ told' = told \cup {<<k, life[k], bindings[k]>>}
      /\ UNCHANGED <<bindings, life, heard, newBindings, deleted, todo, got,
                     call, pc, pos, enlisted>>
    BY DEF Resolve, rowVars, txnVars, localVars, callerVars
<1>3. <<k, life[k], bindings[k]>> \in Pairs
    BY <1>1, <1>2 DEF Types, Pairs
<1>4. Types'
    BY <1>1, <1>2, <1>3 DEF Types
<1>5. ASSUME NEW t \in Sessions PROVE SessionOK(t)'
    BY <1>2, OtherSession DEF Inv
<1>6. Locks'
    BY <1>2 DEF Inv, Locks, EvictedOnce
<1>7. ASSUME NEW i \in Keys, NEW n \in Nat, NEW r \in Reference,
             Public(i, n, r)'
      PROVE  Public(i, n, r) \/ (n = life'[i] /\ r = bindings'[i])
    BY <1>2, <1>7 DEF Public, Knows, Private
<1>8. PublicAgrees'
    BY <1>1, <1>2, <1>4, <1>7, PublicStep DEF Inv, RowStep
<1>9. PrivateAgrees'
    BY <1>2 DEF Inv, PrivateAgrees, Knows
<1> QED
    BY <1>4, <1>5, <1>6, <1>8, <1>9 DEF Inv

(* An enlisted resolve tells the caller of its own uncommitted row.        *)
LEMMA ResolveEnlistedStep ==
    ASSUME Inv, NEW s \in Sessions, NEW k \in Keys, ResolveEnlisted(s, k)
    PROVE  Inv'
<1>1. Types /\ SessionOK(s)
    BY DEF Inv
<1> DEFINE p == <<k, life[k], newBindings[s][k]>>
<1>2. /\ pc[s] = "open" /\ newBindings[s][k] # None
      /\ heard' = [heard EXCEPT ![s].told = @ \cup {p}]
      /\ enlisted' = [enlisted EXCEPT ![s] = @ + 1]
      /\ UNCHANGED <<bindings, life, told, newBindings, deleted, todo, got,
                     call, pc, pos>>
    BY DEF ResolveEnlisted, Seen, rowVars, toldVars, txnVars, localVars
<1>3. p \in Pairs
    BY <1>1, <1>2 DEF Types, Pairs
<1>4. /\ heard' \in [Sessions -> Heard]
      /\ \A t \in Sessions \ {s} : heard'[t] = heard[t]
      /\ heard'[s].told = heard[s].told \cup {p}
    <2>1. heard \in [Sessions -> Heard] /\ heard[s] \in Heard
        BY <1>1 DEF Types
    <2>2. PICK h : h = [heard[s] EXCEPT !.told = @ \cup {p}]
        OBVIOUS
    <2>3. h \in Heard /\ h.told = heard[s].told \cup {p}
        BY <1>3, <2>1, <2>2 DEF Heard
    <2>4. heard' = [heard EXCEPT ![s] = h]
        BY <1>2, <2>2
    <2> QED
        BY <2>1, <2>3, <2>4
<1>5. /\ enlisted' \in [Sessions -> Nat]
      /\ \A t \in Sessions \ {s} : enlisted'[t] = enlisted[t]
    BY <1>1, <1>2, CountsEnlisted DEF Types
<1>6. Types'
    BY <1>1, <1>2, <1>4, <1>5 DEF Types
<1>7. ASSUME NEW t \in Sessions PROVE SessionOK(t)'
    <2>1. SessionOK(t)
        BY DEF Inv
    <2>2. CASE t = s
        BY <1>2, <2>1, <2>2
           DEF SessionOK, AtStatement, AtStart, EvictsAlone, ReadsItsKeys, BeforeFetch,
               InCall, Evicting, Entries
    <2>3. CASE t # s
        BY <1>2, <1>4, <1>5, <2>1, <2>3, OtherSession
    <2> QED
        BY <2>2, <2>3
<1>8. Locks'
    BY <1>2 DEF Inv, Locks, EvictedOnce
<1>9. ASSUME NEW t \in Sessions, NEW i \in Keys, NEW n \in Nat,
             NEW r \in Reference, Knows(t, i, n, r)'
      PROVE  \/ Knows(t, i, n, r)
             \/ t = s /\ i = k /\ n = life[k] /\ r = newBindings[s][k]
    BY <1>2, <1>4, <1>9 DEF Knows
<1>10. ASSUME NEW i \in Keys, NEW n \in Nat, NEW r \in Reference,
              Public(i, n, r)'
       PROVE  Public(i, n, r)
    BY <1>2, <1>9, <1>10 DEF Public, Private
<1>11. PublicAgrees'
    BY <1>1, <1>2, <1>6, <1>10, PublicStep DEF Inv, RowStep
<1>12. PrivateAgrees'
    BY <1>1, <1>2, <1>9 DEF Inv, PrivateAgrees, Types
<1> QED
    BY <1>6, <1>7, <1>8, <1>11, <1>12 DEF Inv

-----------------------------------------------------------------------------
(* The ends of calls and transactions.                                     *)

(* A transaction ends and leaves the rows as they were; what it answers    *)
(* was public.                                                             *)
LEMMA SessionEnds ==
    ASSUME Inv, NEW s \in Sessions, EndSession(s), UNCHANGED <<bindings, life>>,
           todo' \in [Sessions -> SUBSET Keys], todo'[s] = {},
           \A t \in Sessions \ {s} : todo'[t] = todo[t],
           told' \subseteq Pairs,
           \A k \in Keys, n \in Nat, r \in Reference :
               <<k, n, r>> \in told' => Public(k, n, r)
    PROVE  Inv'
<1>1. Types /\ Locks
    BY DEF Inv
<1>2. /\ pc' = [pc EXCEPT ![s] = "idle"]
      /\ call' = [call EXCEPT ![s] = None]
      /\ pos' = [pos EXCEPT ![s] = 0]
      /\ got' = [got EXCEPT ![s] = NoKeys]
      /\ enlisted' = [enlisted EXCEPT ![s] = 0]
      /\ heard' = [heard EXCEPT ![s] = Nothing]
      /\ newBindings' = [newBindings EXCEPT ![s] = NoKeys]
      /\ deleted' = [deleted EXCEPT ![s] = {}]
    BY DEF EndSession, EndCall
<1>3. NoKeys \in [Keys -> Read \cup {None}] /\ Nothing \in Heard
      /\ NoKeys \in [Keys -> Reference \cup {None}]
    BY DEF NoKeys, Nothing, Heard
<1>4. Types'
    BY <1>1, <1>2, <1>3 DEF Types
<1>5. ASSUME NEW t \in Sessions PROVE SessionOK(t)'
    <2>1. SessionOK(t)
        BY DEF Inv
    <2>2. CASE t = s
        BY <1>1, <1>2, <2>2
           DEF SessionOK, AtStatement, AtStart, EvictsAlone, ReadsItsKeys, BeforeFetch,
               InCall, Evicting, NoKeys, Types
    <2>3. CASE t # s
        BY <1>1, <1>2, <2>1, <2>3, OtherSession DEF Types
    <2> QED
        BY <2>2, <2>3
<1>6. /\ \A k \in Keys : newBindings'[s][k] = None
      /\ deleted'[s] = {}
      /\ \A t \in Sessions \ {s} : newBindings'[t] = newBindings[t]
                                   /\ deleted'[t] = deleted[t]
    BY <1>1, <1>2 DEF Types, NoKeys
<1>7. Locks'
    BY <1>1, <1>6 DEF Locks, EvictedOnce
<1>8. \A t \in Sessions, k \in Keys, n \in Nat, r \in Reference :
          Knows(t, k, n, r)' => Knows(t, k, n, r) /\ t # s
    BY <1>1, <1>2 DEF Knows, Types, NoKeys, Nothing
<1>9. ASSUME NEW k \in Keys, NEW n \in Nat, NEW r \in Reference,
             Public(k, n, r)'
      PROVE  Public(k, n, r)
    BY <1>6, <1>8, <1>9 DEF Public, Private
<1>10. PublicAgrees'
    BY <1>1, <1>4, <1>9, PublicStep DEF Inv, RowStep
<1>11. PrivateAgrees'
    BY <1>1, <1>6, <1>8 DEF Inv, PrivateAgrees, Types
<1> QED
    BY <1>4, <1>5, <1>7, <1>10, <1>11 DEF Inv

(* An enlisted call ends and leaves the rows and the transaction as they   *)
(* were; the caller hears no more than the call knew.                      *)
LEMMA CallEnds ==
    ASSUME Inv, NEW s \in Sessions, EndCall(s, "open"), InCall(s),
           ~Evicting(s), pc[s] # "deleting",
           UNCHANGED <<bindings, life, newBindings, deleted, todo, enlisted>>,
           told' \subseteq Pairs,
           \A k \in Keys, n \in Nat, r \in Reference :
               <<k, n, r>> \in told' => Public(k, n, r),
           heard' \in [Sessions -> Heard],
           \A t \in Sessions \ {s} : heard'[t] = heard[t],
           \A k \in Keys, n \in Nat, r \in Reference :
               <<k, n, r>> \in heard'[s].told => Knows(s, k, n, r)
    PROVE  Inv'
<1>1. Types /\ Locks
    BY DEF Inv
<1>2. /\ pc' = [pc EXCEPT ![s] = "open"]
      /\ call' = [call EXCEPT ![s] = None]
      /\ pos' = [pos EXCEPT ![s] = 0]
      /\ got' = [got EXCEPT ![s] = NoKeys]
    BY DEF EndCall
<1>3. NoKeys \in [Keys -> Read \cup {None}]
    BY DEF NoKeys
<1>4. Types'
    BY <1>1, <1>2, <1>3 DEF Types
<1>5. ASSUME NEW t \in Sessions PROVE SessionOK(t)'
    <2>1. SessionOK(t)
        BY DEF Inv
    <2>2. CASE t = s
        BY <1>1, <1>2, <2>1, <2>2
           DEF SessionOK, AtStatement, AtStart, EvictsAlone, ReadsItsKeys, BeforeFetch,
               InCall, Evicting, NoKeys, Types
    <2>3. CASE t # s
        BY <1>1, <1>2, <2>1, <2>3, OtherSession DEF Types
    <2> QED
        BY <2>2, <2>3
<1>6. Locks'
    BY <1>1 DEF Locks, EvictedOnce
<1>7. ASSUME NEW t \in Sessions, NEW k \in Keys, NEW n \in Nat,
             NEW r \in Reference, Knows(t, k, n, r)'
      PROVE  Knows(t, k, n, r)
    <2>1. CASE t = s
        <3>1. got'[s][k] = None
            BY <1>1, <1>2 DEF Types, NoKeys
        <3> QED
            BY <1>7, <2>1, <3>1 DEF Knows
    <2>2. CASE t # s
        BY <1>1, <1>2, <1>7, <2>2 DEF Knows, Types
    <2> QED
        BY <2>1, <2>2
<1>8. ASSUME NEW k \in Keys, NEW n \in Nat, NEW r \in Reference,
             Public(k, n, r)'
      PROVE  Public(k, n, r)
    BY <1>7, <1>8 DEF Public, Private
<1>9. PublicAgrees'
    BY <1>1, <1>4, <1>8, PublicStep DEF Inv, RowStep
<1>10. PrivateAgrees'
    BY <1>1, <1>7 DEF Inv, PrivateAgrees, Types
<1> QED
    BY <1>4, <1>5, <1>6, <1>9, <1>10 DEF Inv

(* What a session has read, as an answer.                                  *)
LEMMA AnswersAreKnown ==
    ASSUME Types, NEW s \in Sessions, NEW p \in ToldBy(s), p[3] # None
    PROVE  \E k \in Keys, n \in Nat, r \in Reference :
               p = <<k, n, r>> /\ Knows(s, k, n, r)
<1>1. PICK k \in Keys : /\ got[s][k] # None
                        /\ p = <<k, got[s][k].life, got[s][k].ref>>
    BY DEF ToldBy
<1>2. got[s][k] \in Read
    BY <1>1 DEF Types
<1>3. got[s][k].life \in Nat /\ got[s][k].ref \in Reference
    BY <1>1, <1>2 DEF Read
<1> QED
    BY <1>1, <1>3 DEF Knows

(* A get_many answers with public knowledge, or not at all.                *)
LEMMA RepliesPublic ==
    ASSUME Types, NEW s \in Sessions, Replies(s)
    PROVE  /\ told' \subseteq Pairs
           /\ \A k \in Keys, n \in Nat, r \in Reference :
                  <<k, n, r>> \in told' => Public(k, n, r)
<1>1. ASSUME NEW p \in told', p \notin told
      PROVE  \E k \in Keys, n \in Nat, r \in Reference :
                 p = <<k, n, r>> /\ Public(k, n, r)
    <2>1. p \in ToldBy(s) /\ p[3] # None /\ newBindings[s][p[1]] = None
        BY <1>1 DEF Replies
    <2>2. PICK k \in Keys, n \in Nat, r \in Reference :
              p = <<k, n, r>> /\ Knows(s, k, n, r)
        BY <2>1, AnswersAreKnown
    <2> QED
        BY <2>1, <2>2 DEF Public, Private
<1>2. told' \subseteq Pairs
    BY <1>1 DEF Types, Pairs
<1>3. ASSUME NEW k \in Keys, NEW n \in Nat, NEW r \in Reference,
             <<k, n, r>> \in told'
      PROVE  Public(k, n, r)
    <2>1. CASE <<k, n, r>> \in told
        BY <2>1 DEF Public
    <2>2. CASE <<k, n, r>> \notin told
        BY <1>1, <1>3, <2>2
    <2> QED
        BY <2>1, <2>2
<1> QED
    BY <1>2, <1>3

(* A call that is about to commit has read bound keys only.                *)
LEMMA CommitAnswers ==
    ASSUME Types, NEW s \in Sessions, SessionOK(s), pc[s] = "commit",
           NEW p \in ToldBy(s)
    PROVE  \E k \in Keys, n \in Nat, r \in Reference :
               p = <<k, n, r>> /\ Knows(s, k, n, r)
<1>1. p[3] # None
    BY DEF ToldBy, SessionOK, ReadsItsKeys
<1> QED
    BY <1>1, AnswersAreKnown

(* COMMIT: the rows the session holds change, and what it knew becomes     *)
(* public.                                                                 *)
LEMMA CommitStep ==
    ASSUME Inv, NEW s \in Sessions, NEW answer, CommitWith(s, answer),
           pc[s] # "deleting",
           \A p \in answer.told :
               \E k \in Keys, n \in Nat, r \in Reference :
                   p = <<k, n, r>> /\ Knows(s, k, n, r)
    PROVE  Inv'
<1>1. Types /\ Locks /\ SessionOK(s)
    BY DEF Inv
<1>2. /\ pc' = [pc EXCEPT ![s] = "idle"]
      /\ call' = [call EXCEPT ![s] = None]
      /\ pos' = [pos EXCEPT ![s] = 0]
      /\ got' = [got EXCEPT ![s] = NoKeys]
      /\ enlisted' = [enlisted EXCEPT ![s] = 0]
      /\ heard' = [heard EXCEPT ![s] = Nothing]
      /\ newBindings' = [newBindings EXCEPT ![s] = NoKeys]
      /\ deleted' = [deleted EXCEPT ![s] = {}]
    BY DEF CommitWith, EndSession, EndCall
<1>3. /\ bindings' = [k \in Keys |->
            IF k \in deleted[s] THEN None
            ELSE IF newBindings[s][k] # None THEN newBindings[s][k]
            ELSE bindings[k]]
      /\ life' = [k \in Keys |-> life[k] + IF k \in deleted[s] THEN 1 ELSE 0]
      /\ told' = told \cup answer.told
      /\ todo' = [t \in Sessions |-> todo[t] \ deleted[s]]
    BY DEF CommitWith
<1>4. \A k \in Keys :
        /\ k \in deleted[s] => life'[k] = life[k] + 1 /\ bindings'[k] = None
        /\ k \notin deleted[s] => life'[k] = life[k]
        /\ k \notin deleted[s] /\ newBindings[s][k] # None =>
              bindings'[k] = newBindings[s][k]
        /\ k \notin deleted[s] /\ newBindings[s][k] = None =>
              bindings'[k] = bindings[k]
    BY <1>1, <1>3 DEF Types
<1>5. \A k \in Keys : newBindings[s][k] # None => k \notin deleted[s]
    BY <1>1 DEF Locks, EvictedOnce
<1>6. Types'
    <2>1. NoKeys \in [Keys -> Read \cup {None}] /\ Nothing \in Heard
          /\ NoKeys \in [Keys -> Reference \cup {None}]
        BY DEF NoKeys, Nothing, Heard
    <2>2. bindings' \in [Keys -> Reference \cup {None}]
        BY <1>1, <1>3 DEF Types
    <2>3. life' \in [Keys -> Nat]
        BY <1>1, <1>3 DEF Types
    <2>4. told' \subseteq Pairs
        BY <1>1, <1>3 DEF Types, Pairs
    <2>5. todo' \in [Sessions -> SUBSET Keys]
        BY <1>1, <1>3 DEF Types
    <2> QED
        BY <1>1, <1>2, <2>1, <2>2, <2>3, <2>4, <2>5 DEF Types
<1>7. todo'[s] = {} /\ \A t \in Sessions : todo'[t] \subseteq todo[t]
    BY <1>1, <1>3 DEF SessionOK, EvictsAlone
<1>8. ASSUME NEW t \in Sessions PROVE SessionOK(t)'
    <2>1. SessionOK(t)
        BY DEF Inv
    <2>2. CASE t = s
        BY <1>1, <1>2, <1>7, <2>2
           DEF SessionOK, AtStatement, AtStart, EvictsAlone, ReadsItsKeys, BeforeFetch,
               InCall, Evicting, NoKeys, Types
    <2>3. CASE t # s
        BY <1>1, <1>2, <1>7, <2>1, <2>3, OtherSession DEF Types
    <2> QED
        BY <2>2, <2>3
<1>9. /\ \A k \in Keys : newBindings'[s][k] = None
      /\ deleted'[s] = {}
      /\ \A t \in Sessions \ {s} : newBindings'[t] = newBindings[t]
                                   /\ deleted'[t] = deleted[t]
    BY <1>1, <1>2 DEF Types, NoKeys
<1>10. Locks'
    <2>1. ASSUME NEW t \in Sessions, NEW k \in Keys, newBindings'[t][k] # None
          PROVE  /\ bindings'[k] = None
                 /\ \A u \in Sessions \ {t} : newBindings'[u][k] = None
        BY <1>1, <1>4, <1>9, <2>1 DEF Locks
    <2>2. ASSUME NEW t \in Sessions, NEW k \in todo'[t]
          PROVE  bindings'[k] # None
        <3>1. k \in Keys /\ k \in todo[t] /\ k \notin deleted[s]
            BY <1>1, <1>3 DEF Types
        <3>2. bindings[k] # None
            BY <1>1, <3>1 DEF Locks
        <3> QED
            BY <1>4, <3>1, <3>2
    <2>3. ASSUME NEW t \in Sessions, NEW k \in deleted'[t]
          PROVE  /\ bindings'[k] # None
                 /\ \A u \in Sessions \ {t} : k \notin deleted'[u]
        <3>1. t # s /\ k \in deleted[t] /\ k \in Keys
            BY <1>1, <1>9 DEF Types
        <3>2. bindings[k] # None /\ \A u \in Sessions \ {t} : k \notin deleted[u]
            BY <1>1, <3>1 DEF Locks, EvictedOnce
        <3> QED
            BY <1>4, <1>9, <3>1, <3>2
    <2> QED
        BY <2>1, <2>2, <2>3 DEF Locks, EvictedOnce
<1>11. \A t \in Sessions, k \in Keys, n \in Nat, r \in Reference :
           Knows(t, k, n, r)' => Knows(t, k, n, r) /\ t # s
    BY <1>1, <1>2 DEF Knows, Types, NoKeys, Nothing
<1>12. ASSUME NEW k \in Keys, NEW n \in Nat, NEW r \in Reference,
              Knows(s, k, n, r)
       PROVE  Public(k, n, r) \/ (n = life'[k] /\ r = bindings'[k])
    <2>1. CASE ~Private(s, k, n)
        BY <1>12, <2>1 DEF Public
    <2>2. CASE Private(s, k, n)
        <3>1. n = life[k] /\ newBindings[s][k] # None
            BY <2>2 DEF Private
        <3>2. r = newBindings[s][k]
            BY <1>12, <3>1 DEF Inv, PrivateAgrees
        <3> QED
            BY <1>4, <1>5, <3>1, <3>2
    <2> QED
        BY <2>1, <2>2
<1>13. ASSUME NEW k \in Keys, NEW n \in Nat, NEW r \in Reference,
              NEW t \in Sessions \ {s}, Knows(t, k, n, r), ~Private(t, k, n)'
       PROVE  Public(k, n, r)
    <2>1. CASE newBindings[t][k] = None
        BY <1>13, <2>1 DEF Public, Private
    <2>2. CASE newBindings[t][k] # None
        <3>1. k \notin deleted[s]
            BY <1>1, <2>2 DEF Locks, EvictedOnce
        <3>2. ~Private(t, k, n)
            BY <1>4, <1>9, <1>13, <3>1 DEF Private
        <3> QED
            BY <1>13, <3>2 DEF Public
    <2> QED
        BY <2>1, <2>2
<1>14. ASSUME NEW k \in Keys, NEW n \in Nat, NEW r \in Reference,
              Public(k, n, r)'
       PROVE  Public(k, n, r) \/ (n = life'[k] /\ r = bindings'[k])
    <2>1. CASE <<k, n, r>> \in told
        BY <2>1 DEF Public
    <2>2. CASE <<k, n, r>> \in answer.told
        BY <1>12, <2>2
    <2>3. CASE \E t \in Sessions : Knows(t, k, n, r)' /\ ~Private(t, k, n)'
        BY <1>11, <1>13, <2>3
    <2> QED
        BY <1>3, <1>14, <2>1, <2>2, <2>3 DEF Public
<1>15. \A k \in Keys : RowStep(k)
    BY <1>1, <1>4 DEF RowStep, Locks
<1>16. PublicAgrees'
    BY <1>1, <1>6, <1>14, <1>15, PublicStep DEF Inv
<1>17. ASSUME NEW t \in Sessions, NEW k \in Keys, NEW r \in Reference,
              NEW n \in Nat, n = life'[k],
              Knows(t, k, n, r)', newBindings'[t][k] # None
       PROVE  r = newBindings'[t][k]
    <2>1. t # s /\ Knows(t, k, n, r)
        BY <1>11, <1>17
    <2>2. newBindings[t][k] # None /\ newBindings'[t] = newBindings[t]
        BY <1>9, <1>17, <2>1
    <2>3. k \notin deleted[s]
        BY <1>1, <2>2 DEF Locks, EvictedOnce
    <2>4. n = life[k]
        BY <1>4, <1>17, <2>3
    <2> QED
        BY <2>1, <2>2, <2>4 DEF Inv, PrivateAgrees
<1>18. PrivateAgrees'
    <2>1. \A k \in Keys : life'[k] \in Nat
        BY <1>6 DEF Types
    <2>2. \A t \in Sessions, k \in Keys, r \in Reference, n \in Nat :
              n = life'[k] /\ Knows(t, k, n, r)' /\ newBindings'[t][k] # None
                  => r = newBindings'[t][k]
        BY <1>17
    <2> QED
        BY <2>1, <2>2 DEF PrivateAgrees, Knows
<1> QED
    BY <1>6, <1>8, <1>10, <1>16, <1>18 DEF Inv

-----------------------------------------------------------------------------
(* The actions that end a call or a transaction.                           *)
EndAction(s) ==
    \/ Commit(s) \/ Reply(s) \/ Rollback(s)
    \/ EnlistedReturns(s) \/ EnlistedReplies(s) \/ EnlistedRaises(s)
    \/ CallerCommits(s) \/ CallerRollsBack(s)
    \/ DeadlockVictim(s) \/ Disconnect(s)

(* The end of a transaction or of an enlisted call preserves Inv.          *)
LEMMA EndActions ==
    ASSUME Inv, NEW s \in Sessions, EndAction(s)
    PROVE  Inv'
<1>1. Types /\ SessionOK(s)
    BY DEF Inv
<1>2. /\ told \subseteq Pairs
      /\ \A k \in Keys, n \in Nat, r \in Reference :
             <<k, n, r>> \in told => Public(k, n, r)
    BY <1>1 DEF Types, Public
<1>3. pc[s] # "deleting" => todo[s] = {}
    BY <1>1 DEF SessionOK, EvictsAlone
<1>4. CASE Commit(s)
    <2>1. /\ CommitWith(s, Answer(s)) /\ pc[s] = "commit"
          /\ Answer(s).told = ToldBy(s)
        BY <1>4 DEF Commit, Answer
    <2>2. \A p \in Answer(s).told :
              \E k \in Keys, n \in Nat, r \in Reference :
                  p = <<k, n, r>> /\ Knows(s, k, n, r)
        BY <1>1, <2>1, CommitAnswers
    <2> QED
        BY <2>1, <2>2, CommitStep
<1>5. CASE CallerCommits(s)
    <2>1. CommitWith(s, heard[s]) /\ pc[s] = "open"
        BY <1>5 DEF CallerCommits
    <2>2. ASSUME NEW p \in heard[s].told
          PROVE  \E k \in Keys, n \in Nat, r \in Reference :
                     p = <<k, n, r>> /\ Knows(s, k, n, r)
        <3>1. p \in Pairs
            BY <1>1 DEF Types, Heard
        <3> QED
            BY <3>1, NoneAssumption DEF Pairs, Knows
    <2> QED
        BY <2>1, <2>2, CommitStep
<1>6. CASE Reply(s)
    <2>1. /\ pc[s] = "reply" /\ Replies(s) /\ EndSession(s)
          /\ UNCHANGED <<bindings, life, todo>>
        BY <1>6 DEF Reply, rowVars
    <2> QED
        BY <1>1, <1>3, <2>1, RepliesPublic, SessionEnds DEF Types
<1>7. CASE Rollback(s) \/ CallerRollsBack(s)
    <2>1. /\ pc[s] # "deleting" /\ EndSession(s)
          /\ UNCHANGED <<bindings, life, todo, told>>
        BY <1>7 DEF Rollback, CallerRollsBack, rowVars, toldVars
    <2> QED
        BY <1>1, <1>2, <1>3, <2>1, SessionEnds DEF Types
<1>8. CASE DeadlockVictim(s) \/ Disconnect(s)
    <2>1. /\ EndSession(s)
          /\ todo' = [todo EXCEPT ![s] = {}]
          /\ UNCHANGED <<bindings, life, told>>
        BY <1>8 DEF DeadlockVictim, Disconnect, Lose, rowVars, toldVars
    <2>2. /\ todo' \in [Sessions -> SUBSET Keys] /\ todo'[s] = {}
          /\ \A t \in Sessions \ {s} : todo'[t] = todo[t]
        BY <1>1, <2>1 DEF Types
    <2> QED
        BY <1>2, <2>1, <2>2, SessionEnds
<1>9. InCall(s) /\ enlisted[s] > 0 => ~Evicting(s) /\ pc[s] # "deleting"
    BY <1>1 DEF SessionOK, AtStatement, EvictsAlone, Evicting
<1>10. /\ heard \in [Sessions -> Heard]
       /\ \A k \in Keys, n \in Nat, r \in Reference :
              <<k, n, r>> \in heard[s].told => Knows(s, k, n, r)
    BY <1>1, NoneAssumption DEF Types, Knows
<1>11. CASE EnlistedReturns(s)
    <2>1. /\ pc[s] = "commit" /\ enlisted[s] > 0 /\ EndCall(s, "open")
          /\ UNCHANGED <<bindings, life, newBindings, deleted, todo, enlisted,
                         told>>
          /\ heard' = [heard EXCEPT ![s] =
                [told |-> @.told \cup Answer(s).told,
                 stored |-> @.stored \cup Answer(s).stored]]
        BY <1>11 DEF EnlistedReturns, rowVars, toldVars, txnVars
    <2>2. InCall(s)
        BY <2>1 DEF InCall
    <2>3. Answer(s).told = ToldBy(s)
        BY DEF Answer
    <2>4. \A p \in Answer(s).told :
              \E k \in Keys, n \in Nat, r \in Reference :
                  p = <<k, n, r>> /\ Knows(s, k, n, r)
        BY <1>1, <2>1, <2>3, CommitAnswers
    <2>5. Answer(s).stored \subseteq Reference
        <3>1. CASE call[s].op \in {"put", "put_many"}
            <4>1. ObjectRows(s) =
                      [i \in DOMAIN Entries(s) |-> Entries(s)[i].ref]
                BY <3>1 DEF ObjectRows
            <4>2. \A i \in DOMAIN Entries(s) : Entries(s)[i].ref \in Reference
                BY <1>1, <2>2, <3>1, EntriesListed DEF SessionOK, AtStatement
            <4> QED
                BY <4>1, <4>2 DEF Answer
        <3>2. CASE call[s].op \notin {"put", "put_many"}
            BY <3>2 DEF Answer
        <3> QED
            BY <3>1, <3>2
    <2>6. heard[s] \in Heard /\ Answer(s).told \subseteq Pairs
        BY <1>10, <2>4 DEF Pairs
    <2>7. /\ heard' \in [Sessions -> Heard]
          /\ \A t \in Sessions \ {s} : heard'[t] = heard[t]
          /\ heard'[s].told = heard[s].told \cup Answer(s).told
        BY <1>10, <2>1, <2>5, <2>6 DEF Heard
    <2>8. \A k \in Keys, n \in Nat, r \in Reference :
              <<k, n, r>> \in heard'[s].told => Knows(s, k, n, r)
        BY <1>10, <2>4, <2>7
    <2> QED
        BY <1>2, <1>9, <2>1, <2>2, <2>7, <2>8, CallEnds
<1>12. CASE EnlistedReplies(s)
    <2>1. /\ pc[s] = "reply" /\ enlisted[s] > 0 /\ EndCall(s, "open")
          /\ Replies(s)
          /\ UNCHANGED <<bindings, life, newBindings, deleted, todo, enlisted,
                         heard>>
        BY <1>12 DEF EnlistedReplies, rowVars, txnVars, callerVars
    <2>2. InCall(s)
        BY <2>1 DEF InCall
    <2> QED
        BY <1>1, <1>9, <1>10, <2>1, <2>2, RepliesPublic, CallEnds
<1>13. CASE EnlistedRaises(s)
    <2>1. /\ InCall(s) /\ enlisted[s] > 0 /\ EndCall(s, "open")
          /\ UNCHANGED <<bindings, life, newBindings, deleted, todo, enlisted,
                         told, heard>>
        BY <1>13 DEF EnlistedRaises, InCall, rowVars, toldVars, txnVars,
                     callerVars
    <2> QED
        BY <1>2, <1>9, <1>10, <2>1, CallEnds
<1> QED
    BY <1>4, <1>5, <1>6, <1>7, <1>8, <1>11, <1>12, <1>13 DEF EndAction

(* Everything else leaves what the invariant is about alone.               *)
LEMMA UnchangedInv ==
    ASSUME Inv, UNCHANGED <<rowsAndKnowledge, pc, call, pos, todo, enlisted>>
    PROVE  Inv'
<1> USE DEF rowsAndKnowledge
<1>1. Types' /\ Locks'
    BY DEF Inv, Types, Locks, EvictedOnce
<1>2. \A t \in Sessions : SessionOK(t)'
    BY OtherSession DEF Inv
<1>3. PublicAgrees' /\ PrivateAgrees'
    BY DEF Inv, PublicAgrees, PrivateAgrees, Public, Knows, Private
<1> QED
    BY <1>1, <1>2, <1>3 DEF Inv

(* The invariant is inductive.                                             *)
LEMMA NextInv ==
    ASSUME Inv, [Next]_vars
    PROVE  Inv'
<1>1. ASSUME NEW s \in Sessions, Caller(s) PROVE Inv'
    BY <1>1, BeginStep, ResolveEnlistedStep, QuietActions, EndActions
       DEF Caller, QuietAction, EndAction
<1>2. ASSUME NEW s \in Sessions, Statement(s) PROVE Inv'
    BY <1>2, QuietActions, InsertBindingStep, FetchBindingsStep,
       DeleteStartStep, DeleteRowStep, EndActions
       DEF Statement, QuietAction, EndAction
<1>3. ASSUME NEW s \in Sessions, DeadlockVictim(s) \/ Disconnect(s)
      PROVE  Inv'
    BY <1>3, EndActions DEF EndAction
<1>4. ASSUME NEW k \in Keys, Resolve(k) PROVE Inv'
    BY <1>4, ResolveStep
<1>5. ASSUME NEW ref \in Reference, Get(ref) PROVE Inv'
    BY <1>5, UnchangedInv
       DEF Get, rowsAndKnowledge, rowVars, txnVars, localVars, callerVars
<1>6. ASSUME NEW ref \in Reference, NEW bad \in Damaged, Damage(ref, bad)
      PROVE  Inv'
    BY <1>6, UnchangedInv
       DEF Damage, rowsAndKnowledge, toldVars, txnVars, localVars, callerVars
<1>7. CASE UNCHANGED vars
    BY <1>7, UnchangedInv
       DEF vars, rowsAndKnowledge, rowVars, toldVars, txnVars, localVars,
           callerVars
<1> QED
    BY <1>1, <1>2, <1>3, <1>4, <1>5, <1>6, <1>7 DEF Next

(***************************************************************************)
(* The inductive invariant holds in every reachable state.                 *)
(***************************************************************************)
THEOREM InvHolds == SafeSpec => []Inv
<1>1. Init => Inv
    BY InitInv
<1>2. Inv /\ [Next]_vars => Inv'
    BY NextInv
<1> QED
    BY <1>1, <1>2, PTL DEF SafeSpec

(***************************************************************************)
(* Of several evictions of a key that run concurrently (delete_bindings),  *)
(* one holds the row until it ends, and the row is there to be deleted.    *)
(***************************************************************************)
THEOREM EvictOnce == SafeSpec => []EvictedOnce
<1>1. Inv => EvictedOnce
    BY DEF Inv, Locks
<1> QED
    BY <1>1, InvHolds, PTL

(***************************************************************************)
(* First writer wins: bind, put_many, get_many and resolve, awaited or in  *)
(* a caller's transaction, and concurrent evictions included, tell every   *)
(* caller the same reference of a key within one life of it.               *)
(***************************************************************************)
THEOREM FirstWriterWins == SafeSpec => []OneWinnerPerLife
<1>1. ASSUME Inv PROVE OneWinnerPerLife
    <2>1. ASSUME NEW p \in told
          PROVE  \E k \in Keys, n \in Nat, r \in Reference :
                     p = <<k, n, r>> /\ Public(k, n, r)
        <3>1. p \in Pairs
            BY <1>1 DEF Inv, Types
        <3>2. PICK k \in Keys, n \in Nat, r \in Reference : p = <<k, n, r>>
            BY <3>1 DEF Pairs
        <3> QED
            BY <3>2 DEF Public
    <2>2. ASSUME NEW p \in told, NEW q \in told, p[1] = q[1], p[2] = q[2]
          PROVE  p[3] = q[3]
        <3>1. PICK k \in Keys, n \in Nat, r \in Reference :
                  p = <<k, n, r>> /\ Public(k, n, r)
            BY <2>1
        <3>2. PICK r2 \in Reference : q = <<k, n, r2>> /\ Public(k, n, r2)
            BY <2>1, <2>2, <3>1
        <3> QED
            BY <1>1, <3>1, <3>2 DEF Inv, PublicAgrees
    <2>3. ASSUME NEW p \in told, p[2] = life[p[1]]
          PROVE  bindings[p[1]] = p[3]
        <3>1. PICK k \in Keys, n \in Nat, r \in Reference :
                  p = <<k, n, r>> /\ Public(k, n, r)
            BY <2>1
        <3> QED
            BY <1>1, <2>3, <3>1 DEF Inv, PublicAgrees
    <2> QED
        BY <2>2, <2>3 DEF OneWinnerPerLife
<1> QED
    BY <1>1, InvHolds, PTL

-----------------------------------------------------------------------------
(***************************************************************************)
(* Objects are never deleted.  So what a session wrote, or found stored,   *)
(* or found bound, it finds again when it reads the objects; that a bound  *)
(* reference has an object takes callers that bind what they have stored.  *)
(***************************************************************************)
There(s, r) ==
    r \in Reference /\ (r \in newObjects[s] \/ objects[r] # None)

ObjectTypes ==
    /\ objects \in [Reference -> Texts \cup {None}]
    /\ newObjects \in [Sessions -> SUBSET Reference]
    /\ text \in [Sessions -> [Reference -> Texts \cup {None}]]

Written(s) ==
    /\ pc[s] = "insert_objects" =>
        \A i \in DOMAIN Entries(s) : i <= pos[s] => There(s, Entries(s)[i].ref)
    /\ /\ InCall(s) /\ pc[s] # "insert_objects"
       /\ \/ call[s].op \in {"put", "put_many"}
          \/ call[s].op = "bind" /\ BindStoredOnly
       => \A i \in DOMAIN Entries(s) : There(s, Entries(s)[i].ref)
    /\ \A r \in heard[s].stored : There(s, r)

Bound(s) ==
    BindStoredOnly =>
        /\ \A k \in Keys : newBindings[s][k] # None =>
                There(s, newBindings[s][k])
        /\ \A k \in Hits(s) : There(s, got[s][k].ref)

Fetched(s) ==
    /\ pc[s] = "fetch_objects" /\ (call[s].op # "get_many" \/ BindStoredOnly) =>
        \A i \in DOMAIN ObjectRows(s) :
            i <= pos[s] => text[s][ObjectRows(s)[i]] # None
    /\ pc[s] = "reply" /\ BindStoredOnly =>
        \A k \in Hits(s) : text[s][got[s][k].ref] # None

RowsThere ==
    /\ \A r \in stored : r \in Reference /\ objects[r] # None
    /\ BindStoredOnly =>
        \A k \in Keys : bindings[k] # None => objects[bindings[k]] # None

ObjectInv ==
    /\ ObjectTypes
    /\ \A s \in Sessions : Written(s) /\ Bound(s) /\ Fetched(s)
    /\ RowsThere

(***************************************************************************)
(* Without evictions a key that a session has bound, or found bound, stays *)
(* bound until it reads it.                                                *)
(***************************************************************************)
NoEvictions == \A c \in Calls : c.op # "evict"

BindsKeys(s) == call[s].op \in {"bind", "put_many"}

StaysBound(s) ==
    /\ pc[s] = "insert_bindings" =>
        \A i \in DOMAIN Entries(s) :
            i <= pos[s] => Seen(s, Entries(s)[i].key) # None
    /\ pc[s] = "fetch_bindings" /\ BindsKeys(s) =>
        \A i \in DOMAIN Entries(s) :
            /\ Seen(s, Entries(s)[i].key) # None
            /\ i <= pos[s] => got[s][Entries(s)[i].key] # None
                              /\ got[s][Entries(s)[i].key].ref # None
    /\ pc[s] # "assert"

(***************************************************************************)
(* Evictions commit as a whole: what a call read in one statement is of    *)
(* one moment.                                                             *)
(***************************************************************************)
OneStatementReads ==
    \A c \in Calls : c.op # "evict" => Len(c.entries) <= ChunkSize

ReadsAtOnce(s) ==
    pc[s] = "fetch_bindings" =>
        \/ pos[s] = 0 /\ got[s] = NoKeys
        \/ pos[s] = Len(Entries(s))

Past ==
    /\ \A batch \in evicted : \A p \in batch :
            \E k \in Keys, n \in Nat : p = <<k, n>> /\ n < life[k]
    /\ \A s \in Sessions, k \in Keys : got[s][k] # None =>
            got[s][k].life <= life[k]

-----------------------------------------------------------------------------
(* What a session keeps for itself.                                        *)
SameLocal(t) ==
    /\ pc'[t] = pc[t] /\ call'[t] = call[t] /\ pos'[t] = pos[t]
    /\ got'[t] = got[t] /\ text'[t] = text[t] /\ heard'[t] = heard[t]
    /\ newObjects'[t] = newObjects[t] /\ newBindings'[t] = newBindings[t]

SessionStep(s) ==
    Caller(s) \/ Statement(s) \/ DeadlockVictim(s) \/ Disconnect(s)

(* EndCall and EndSession concern one session.                             *)
LEMMA EndsOwn ==
    ASSUME Types, ObjectTypes, NEW s \in Sessions, NEW t \in Sessions \ {s},
           \/ EndSession(s)
           \/ /\ EndCall(s, "open") /\ UNCHANGED <<newObjects, newBindings>>
              /\ heard'[t] = heard[t]
    PROVE  SameLocal(t)
BY DEF EndSession, EndCall, SameLocal, Types, ObjectTypes

(* A step of one session leaves what others keep alone.                    *)
LEMMA OnlyOwn ==
    ASSUME Types, ObjectTypes, NEW s \in Sessions, SessionStep(s),
           NEW t \in Sessions \ {s}
    PROVE  SameLocal(t)
<1> USE DEF SameLocal
<1>1. CASE \E c \in Calls : BeginAwaited(s, c) \/ BeginEnlisted(s, c)
    BY <1>1 DEF BeginAwaited, BeginEnlisted, Begin, Goto, txnVars, localVars,
                Types
<1>2. CASE \E k \in Keys : ResolveEnlisted(s, k)
    BY <1>2 DEF ResolveEnlisted, txnVars, localVars, Types
<1>3. CASE \E ref \in Reference : GetEnlisted(s, ref)
    BY <1>3 DEF GetEnlisted, txnVars, localVars
<1>4. CASE InsertObject(s)
    BY <1>4 DEF InsertObject, Advance, localVars, callerVars, Types, ObjectTypes
<1>5. CASE \/ ObjectsInserted(s) \/ ObjectsFetched(s) \/ BindingsInserted(s)
           \/ BindingsFetched(s)
    BY <1>5 DEF ObjectsInserted, ObjectsFetched, BindingsInserted,
                BindingsFetched, GotoList, Goto, txnVars, localVars, callerVars,
                Types
<1>6. CASE FetchObjects(s)
    BY <1>6 DEF FetchObjects, Advance, txnVars, callerVars, Types, ObjectTypes
<1>7. CASE InsertBinding(s)
    BY <1>7 DEF InsertBinding, Advance, localVars, callerVars, Types
<1>8. CASE FetchBindings(s)
    BY <1>8 DEF FetchBindings, Advance, txnVars, callerVars, Types
<1>9. CASE DeleteStart(s) \/ DeleteEnd(s) \/ \E k \in Keys : DeleteRow(s, k)
    BY <1>9 DEF DeleteStart, DeleteEnd, DeleteRow, Goto, txnVars, localVars,
                callerVars, Types
<1>10. CASE Commit(s) \/ CallerCommits(s)
    BY <1>10, EndsOwn DEF Commit, CallerCommits, CommitWith
<1>11. CASE \/ Reply(s) \/ Rollback(s) \/ CallerRollsBack(s)
            \/ DeadlockVictim(s) \/ Disconnect(s)
    BY <1>11, EndsOwn
       DEF Reply, Rollback, CallerRollsBack, DeadlockVictim, Disconnect, Lose
<1>12. CASE EnlistedReturns(s)
    <2>1. heard'[t] = heard[t]
        BY <1>12 DEF EnlistedReturns, Types
    <2> QED
        BY <1>12, <2>1, EndsOwn DEF EnlistedReturns, txnVars
<1>13. CASE EnlistedReplies(s) \/ EnlistedRaises(s)
    BY <1>13, EndsOwn DEF EnlistedReplies, EnlistedRaises, txnVars, callerVars
<1> QED
    BY <1>1, <1>2, <1>3, <1>4, <1>5, <1>6, <1>7, <1>8, <1>9, <1>10, <1>11,
       <1>12, <1>13 DEF SessionStep, Caller, Statement

(* Only COMMIT and damage write the rows.                                  *)
LEMMA RowsWritten ==
    ASSUME NEW s \in Sessions, SessionStep(s), ~Commit(s), ~CallerCommits(s)
    PROVE  UNCHANGED <<objects, bindings, life, stored, evicted>>
BY DEF SessionStep, Caller, Statement, BeginAwaited, BeginEnlisted, Begin,
       ResolveEnlisted, GetEnlisted, InsertObject, ObjectsInserted,
       FetchObjects, ObjectsFetched, InsertBinding, BindingsInserted,
       FetchBindings, BindingsFetched, DeleteStart, DeleteRow, DeleteEnd,
       Reply, Rollback, CallerRollsBack, EnlistedReturns, EnlistedReplies,
       EnlistedRaises, DeadlockVictim, Disconnect, Lose, rowVars, toldVars

-----------------------------------------------------------------------------
(* Objects stay.                                                           *)
ObjectsStay == \A r \in Reference : objects[r] # None => objects'[r] # None

(* An object a session can see stays visible to it.                        *)
LEMMA ThereStays ==
    ASSUME ObjectsStay, NEW s \in Sessions, newObjects[s] \subseteq newObjects'[s]
    PROVE  \A r : There(s, r) => There(s, r)'
BY DEF ObjectsStay, There

(* What another session does leaves what a session has written, read and   *)
(* bound where it is.                                                      *)
LEMMA OtherObjects ==
    ASSUME ObjectsStay, NEW t \in Sessions, SameLocal(t),
           Written(t), Bound(t), Fetched(t)
    PROVE  Written(t)' /\ Bound(t)' /\ Fetched(t)'
<1>1. \A r : There(t, r) => There(t, r)'
    BY ThereStays DEF SameLocal
<1>2. Entries(t)' = Entries(t) /\ Hits(t)' = Hits(t) /\ ObjectRows(t)' = ObjectRows(t)
    BY DEF SameLocal, Entries, Hits, ObjectRows
<1> HIDE DEF Entries, Hits, ObjectRows
<1>3. Written(t)'
    BY <1>1, <1>2 DEF Written, SameLocal, InCall
<1>4. Bound(t)'
    BY <1>1, <1>2 DEF Bound, SameLocal
<1>5. Fetched(t)'
    BY <1>2 DEF Fetched, SameLocal
<1> QED
    BY <1>3, <1>4, <1>5

(* The frame of a session's step that leaves the rows alone.               *)
LEMMA ObjectFrame ==
    ASSUME Inv, ObjectInv, NEW s \in Sessions, SessionStep(s),
           UNCHANGED <<objects, bindings, stored>>,
           ObjectTypes', Written(s)', Bound(s)', Fetched(s)'
    PROVE  ObjectInv'
<1>1. ObjectsStay
    BY DEF ObjectsStay
<1>2. ASSUME NEW t \in Sessions PROVE Written(t)' /\ Bound(t)' /\ Fetched(t)'
    <2>1. CASE t # s
        BY <1>1, <2>1, OnlyOwn, OtherObjects DEF Inv, ObjectInv
    <2> QED
        BY <2>1
<1>3. RowsThere'
    BY DEF ObjectInv, RowsThere
<1> QED
    BY <1>2, <1>3 DEF ObjectInv

(* A session that goes back to its caller keeps no call, and what its      *)
(* caller heard as stored is there.                                        *)
LEMMA IdleObjects ==
    ASSUME Types', NEW s \in Sessions, pc'[s] \in {"idle", "open"},
           \A k \in Keys : got'[s][k] = None,
           \A r \in heard'[s].stored : There(s, r)',
           \A k \in Keys, r \in Reference :
               r = newBindings'[s][k] /\ BindStoredOnly => There(s, r)'
    PROVE  Written(s)' /\ Bound(s)' /\ Fetched(s)'
<1>1. Written(s)'
    BY DEF Written, InCall
<1>2. Bound(s)'
    <2>1. ASSUME BindStoredOnly, NEW k \in Keys, NEW r, r = newBindings'[s][k],
                 r # None
          PROVE  There(s, r)'
        BY <2>1 DEF Types
    <2> QED
        BY <2>1 DEF Bound, Hits, There
<1>3. Fetched(s)'
    BY DEF Fetched
<1> QED
    BY <1>1, <1>2, <1>3

(* ObjectInv holds before the first call.                                  *)
LEMMA InitObjects ==
    ASSUME Init PROVE ObjectInv
<1> USE DEF Init
<1>1. ObjectTypes
    BY DEF ObjectTypes, NoTexts
<1>2. ASSUME NEW s \in Sessions PROVE Written(s) /\ Bound(s) /\ Fetched(s)
    BY DEF Written, Bound, Fetched, InCall, Hits, NoKeys, Nothing
<1>3. RowsThere
    BY DEF RowsThere, NoKeys
<1> QED
    BY <1>1, <1>2, <1>3 DEF ObjectInv

(* A call begins; a bind's reference is one its caller knows as stored.    *)
LEMMA BeginObjects ==
    ASSUME Inv, ObjectInv, NEW s \in Sessions, NEW c \in Calls,
           BeginAwaited(s, c) \/ BeginEnlisted(s, c)
    PROVE  ObjectInv'
<1>1. Types /\ SessionOK(s) /\ ObjectTypes
    BY DEF Inv, ObjectInv
<1>2. /\ pc[s] \in {"idle", "open"}
      /\ call' = [call EXCEPT ![s] = c]
      /\ pc' = [pc EXCEPT ![s] = FirstStatement(c.op)]
      /\ UNCHANGED <<objects, bindings, stored, pos, newObjects, newBindings,
                     got, text, heard>>
      /\ c.op = "bind" /\ BindStoredOnly =>
             c.entries[1].ref \in stored \cup heard[s].stored
    BY DEF BeginAwaited, BeginEnlisted, Begin, Goto,
           rowVars, toldVars, txnVars, localVars
<1>3. SessionStep(s)
    BY DEF SessionStep, Caller
<1>4. got[s] = NoKeys
    BY <1>1, <1>2 DEF SessionOK, ReadsItsKeys, BeforeFetch
<1>5. ObjectTypes'
    BY <1>1, <1>2 DEF ObjectTypes
<1>6. \A r : There(s, r)' <=> There(s, r)
    BY <1>2 DEF There
<1>7. call'[s] = c /\ pc'[s] = FirstStatement(c.op) /\ c.op \in Ops
    BY <1>1, <1>2, BackendAssumption DEF Types, Call
<1>8. Bound(s)'
    <2>1. Hits(s)' = Hits(s)
        BY <1>2 DEF Hits
    <2> QED
        BY <1>2, <1>6, <2>1 DEF ObjectInv, Bound
<1>9. Fetched(s)'
    BY <1>7 DEF Fetched, FirstStatement
<1>10. Written(s)'
    <2>1. \A r \in heard'[s].stored : There(s, r)'
        BY <1>2, <1>6 DEF ObjectInv, Written
    <2>2. CASE c.op \in {"put", "put_many"}
        <3>1. pc'[s] = "insert_objects" /\ InCall(s)'
            BY <1>7, <2>2 DEF FirstStatement, InCall
        <3>2. Entries(s)' = c.entries /\ c.entries \in Seq(Entry)
            BY <1>7, BackendAssumption DEF Entries, Call
        <3>3. pos'[s] = 0
            BY <1>1, <1>2 DEF SessionOK, AtStart
        <3>4. \A i \in DOMAIN c.entries : ~(i <= 0)
            BY <3>2
        <3> QED
            BY <2>1, <3>1, <3>2, <3>3, <3>4 DEF Written
    <2>3. CASE c.op = "bind" /\ BindStoredOnly
        <3>1. Entries(s)' = c.entries /\ c.entries \in Seq(Entry)
              /\ Len(c.entries) = 1
            BY <1>7, <2>3, BackendAssumption, EntriesAssumption DEF Entries, Call
        <3>2. \A i \in DOMAIN c.entries : i = 1
            BY <3>1
        <3>3. c.entries[1].ref \in Reference
            BY <2>3, <3>1, EntriesAssumption
        <3>4. There(s, c.entries[1].ref)
            BY <1>2, <2>3, <3>3 DEF ObjectInv, RowsThere, Written, There
        <3>5. pc'[s] # "insert_objects"
            BY <1>7, <2>3 DEF FirstStatement
        <3> QED
            BY <1>6, <2>1, <2>3, <3>1, <3>2, <3>4, <3>5 DEF Written
    <2>4. CASE c.op \notin {"put", "put_many"} /\ ~(c.op = "bind" /\ BindStoredOnly)
        BY <1>7, <2>1, <2>4 DEF Written, FirstStatement
    <2> QED
        BY <2>2, <2>3, <2>4
<1> QED
    BY <1>2, <1>3, <1>5, <1>8, <1>9, <1>10, ObjectFrame

(* INSERT handles a row of an object: it is there afterwards.              *)
LEMMA InsertObjectObjects ==
    ASSUME Inv, ObjectInv, NEW s \in Sessions, InsertObject(s)
    PROVE  ObjectInv'
<1>1. Types /\ SessionOK(s) /\ ObjectTypes
    BY DEF Inv, ObjectInv
<1>2. PICK r : r = ObjectRows(s)[pos[s] + 1]
    OBVIOUS
<1>3. /\ pc[s] = "insert_objects" /\ pos[s] < Len(ObjectRows(s))
      /\ newObjects' = IF objects[r] = None
                       THEN [newObjects EXCEPT ![s] = @ \cup {r}] ELSE newObjects
      /\ pos' = [pos EXCEPT ![s] = pos[s] + 1] /\ pc' = pc
      /\ UNCHANGED <<objects, bindings, stored, call, newBindings, got, text,
                     heard>>
    BY <1>2 DEF InsertObject, Advance, rowVars, toldVars, localVars, callerVars
<1>4. call[s] \in Calls /\ call[s].op \in {"put", "put_many"}
    BY <1>1, <1>3 DEF SessionOK, AtStatement, InCall
<1>5. /\ ObjectRows(s) \in Seq(Reference)
      /\ DOMAIN ObjectRows(s) = DOMAIN Entries(s)
      /\ \A i \in DOMAIN Entries(s) : ObjectRows(s)[i] = Entries(s)[i].ref
    BY <1>1, <1>3, <1>4, RowsListed
<1>6. pos[s] + 1 \in DOMAIN Entries(s) /\ r = Entries(s)[pos[s] + 1].ref
    BY <1>1, <1>2, <1>3, <1>5, NextRow
<1>7. r \in Reference
    BY <1>2, <1>5, <1>6
<1>8. ObjectTypes' /\ newObjects[s] \subseteq newObjects'[s] /\ There(s, r)'
    BY <1>1, <1>3, <1>7 DEF ObjectTypes, There
<1>9. \A q : There(s, q) => There(s, q)'
    BY <1>3, <1>8, ThereStays DEF ObjectsStay
<1>10. Entries(s)' = Entries(s) /\ Hits(s)' = Hits(s)
    BY <1>3 DEF Entries, Hits
<1>11. pos[s] \in Nat /\ pos'[s] = pos[s] + 1
    BY <1>1, <1>3 DEF Types
<1>12. ASSUME NEW i \in DOMAIN Entries(s), i <= pos'[s],
              NEW q, q = Entries(s)[i].ref
       PROVE  There(s, q)'
    <2>1. i \in Nat
        BY <1>4, EntriesListed
    <2>2. CASE i <= pos[s]
        BY <1>3, <1>9, <1>12, <2>2 DEF ObjectInv, Written
    <2>3. CASE i = pos[s] + 1
        BY <1>6, <1>8, <1>12, <2>3
    <2> QED
        BY <1>11, <1>12, <2>1, <2>2, <2>3
<1>13. Written(s)'
    BY <1>3, <1>9, <1>10, <1>12 DEF ObjectInv, Written
<1>14. Bound(s)'
    BY <1>3, <1>9, <1>10 DEF ObjectInv, Bound
<1>15. Fetched(s)'
    BY <1>3 DEF Fetched
<1>16. SessionStep(s)
    BY DEF SessionStep, Statement
<1> QED
    BY <1>3, <1>8, <1>13, <1>14, <1>15, <1>16, ObjectFrame

(* A session that only moves on: what was there still is, and it is left   *)
(* to show that it has reached its next statement with it.                 *)
LEMMA MovesOn ==
    ASSUME Inv, ObjectInv, NEW s \in Sessions, SessionStep(s),
           UNCHANGED <<objects, bindings, stored, call, newObjects,
                       newBindings, got, text>>,
           heard'[s].stored = heard[s].stored, pc[s] # "idle", pc[s] # "open",
           pc'[s] # "insert_objects", Fetched(s)',
           pc[s] = "insert_objects" =>
               \A i \in DOMAIN Entries(s) : i <= pos[s]
    PROVE  ObjectInv'
<1>1. ObjectTypes'
    BY DEF ObjectInv, ObjectTypes
<1>2. \A q : There(s, q)' <=> There(s, q)
    BY DEF There
<1>3. Entries(s)' = Entries(s) /\ Hits(s)' = Hits(s)
    BY DEF Entries, Hits
<1>4. Written(s)'
    <2>1. \A r \in heard'[s].stored : There(s, r)'
        BY <1>2 DEF ObjectInv, Written
    <2>2. ASSUME \/ call[s].op \in {"put", "put_many"}
                 \/ call[s].op = "bind" /\ BindStoredOnly,
                 NEW i \in DOMAIN Entries(s)
          PROVE  There(s, Entries(s)[i].ref)
        BY <2>2 DEF ObjectInv, Written, InCall
    <2> QED
        BY <1>2, <1>3, <2>1, <2>2 DEF Written
<1>5. Bound(s)'
    BY <1>2, <1>3 DEF ObjectInv, Bound
<1> QED
    BY <1>1, <1>4, <1>5, ObjectFrame

(* The references a call fetches are there.                                *)
LEMMA FetchesWhatIsThere ==
    ASSUME Inv, ObjectInv, NEW s \in Sessions, pc[s] = "fetch_objects",
           call[s].op # "get_many" \/ BindStoredOnly,
           NEW i \in DOMAIN ObjectRows(s)
    PROVE  There(s, ObjectRows(s)[i])
<1>1. Types /\ SessionOK(s)
    BY DEF Inv
<1>2. CASE call[s].op = "get_many"
    <2>1. PICK k \in Hits(s) : ObjectRows(s)[i] = got[s][k].ref
        BY <1>1, <1>2, RowsListed
    <2> QED
        BY <1>2, <2>1 DEF ObjectInv, Bound
<1>3. CASE call[s].op # "get_many"
    <2>1. InCall(s) /\ call[s].op \in {"put", "put_many"}
        BY <1>1, <1>3 DEF SessionOK, AtStatement, InCall
    <2>2. i \in DOMAIN Entries(s) /\ ObjectRows(s)[i] = Entries(s)[i].ref
        BY <1>1, <1>3, RowsListed
    <2> QED
        BY <2>1, <2>2 DEF ObjectInv, Written
<1> QED
    BY <1>2, <1>3

(* SELECT reads the objects of a chunk.                                    *)
LEMMA FetchObjectsObjects ==
    ASSUME Inv, ObjectInv, NEW s \in Sessions, FetchObjects(s)
    PROVE  ObjectInv'
<1>1. Types /\ SessionOK(s) /\ ObjectTypes
    BY DEF Inv, ObjectInv
<1> DEFINE rows == ObjectRows(s)
           chunk == Chunk(s, rows)
<1>2. /\ pc[s] = "fetch_objects" /\ pc' = pc
      /\ text' = [text EXCEPT ![s] =
            [r \in Reference |->
                IF r \notin chunk THEN text[s][r]
                ELSE IF r \in newObjects[s] THEN r.hash ELSE objects[r]]]
      /\ pos' = [pos EXCEPT ![s] = ChunkEnd(s, rows)]
      /\ UNCHANGED <<objects, bindings, stored, call, newObjects, newBindings,
                     got, heard>>
    BY DEF FetchObjects, Advance, rowVars, toldVars, txnVars, callerVars
<1>3. rows \in Seq(Reference)
    BY <1>1, <1>2, RowsListed
<1>4. rows' = rows
    BY <1>2 DEF ObjectRows, Entries, Hits
<1>5. \A i \in DOMAIN rows :
          i <= ChunkEnd(s, rows) /\ ~(i <= pos[s]) => rows[i] \in chunk
    BY <1>1, <1>3, ChunkListed
<1> HIDE DEF rows, chunk
<1>6. \A r \in Reference : r.hash \in Texts
    BY DEF Reference, Texts
<1>7. /\ text' \in [Sessions -> [Reference -> Texts \cup {None}]]
      /\ \A r \in Reference : text'[s][r] =
            IF r \notin chunk THEN text[s][r]
            ELSE IF r \in newObjects[s] THEN r.hash ELSE objects[r]
    BY <1>1, <1>2, <1>6 DEF ObjectTypes
<1>8. ObjectTypes'
    BY <1>1, <1>2, <1>7 DEF ObjectTypes
<1>9. ASSUME call[s].op # "get_many" \/ BindStoredOnly,
             NEW i \in DOMAIN rows, i <= ChunkEnd(s, rows)
      PROVE  text'[s][rows[i]] # None
    <2>1. There(s, rows[i])
        BY <1>2, <1>9, FetchesWhatIsThere DEF rows
    <2>2. rows[i] \in Reference
        BY <2>1 DEF There
    <2>3. CASE rows[i] \in chunk
        BY <1>6, <1>7, <2>1, <2>2, <2>3, NoneAssumption DEF There
    <2>4. CASE rows[i] \notin chunk
        <3>1. i <= pos[s]
            BY <1>5, <1>9, <2>4
        <3>2. text[s][rows[i]] # None
            BY <1>2, <1>9, <3>1 DEF ObjectInv, Fetched, rows
        <3> QED
            BY <1>7, <2>2, <2>4, <3>2
    <2> QED
        BY <2>3, <2>4
<1>10. Fetched(s)'
    <2>1. pos'[s] = ChunkEnd(s, rows)
        BY <1>1, <1>2 DEF Types
    <2> QED
        BY <1>2, <1>4, <1>9, <2>1 DEF Fetched, rows
<1>11. \A q : There(s, q)' <=> There(s, q)
    BY <1>2 DEF There
<1>12. Entries(s)' = Entries(s) /\ Hits(s)' = Hits(s)
    BY <1>2 DEF Entries, Hits
<1>13. Written(s)' /\ Bound(s)'
    BY <1>2, <1>11, <1>12 DEF ObjectInv, Written, Bound, InCall
<1>14. SessionStep(s)
    BY DEF SessionStep, Statement
<1> QED
    BY <1>2, <1>8, <1>10, <1>13, <1>14, ObjectFrame

(* The end of INSERT INTO objects.                                         *)
LEMMA ObjectsInsertedObjects ==
    ASSUME Inv, ObjectInv, NEW s \in Sessions, ObjectsInserted(s)
    PROVE  ObjectInv'
<1>1. Types /\ SessionOK(s)
    BY DEF Inv
<1>2. /\ pc[s] = "insert_objects" /\ pos[s] = Len(ObjectRows(s))
      /\ pc'[s] \in {"commit", "fetch_objects"}
      /\ pos'[s] = 0
      /\ UNCHANGED <<objects, bindings, stored, call, newObjects, newBindings,
                     got, text, heard>>
    BY <1>1 DEF ObjectsInserted, GotoList, Goto, rowVars, toldVars, txnVars,
           localVars, callerVars, Types
<1>3. call[s] \in Calls /\ call[s].op \in {"put", "put_many"}
    BY <1>1, <1>2 DEF SessionOK, AtStatement, InCall
<1>4. /\ ObjectRows(s) \in Seq(Reference)
      /\ DOMAIN ObjectRows(s) = DOMAIN Entries(s)
    BY <1>1, <1>2, <1>3, RowsListed
<1>5. \A i \in DOMAIN ObjectRows(s) : i <= pos[s] /\ ~(i <= 0)
    BY <1>2, <1>4
<1>6. ObjectRows(s)' = ObjectRows(s)
    BY <1>2 DEF ObjectRows, Entries, Hits
<1>7. Fetched(s)'
    BY <1>2, <1>5, <1>6 DEF Fetched
<1>8. SessionStep(s)
    BY DEF SessionStep, Statement
<1> QED
    BY <1>2, <1>4, <1>5, <1>7, <1>8, MovesOn

(* The objects are read: every one that must be there has been found.      *)
LEMMA AllFetched ==
    ASSUME Inv, ObjectInv, NEW s \in Sessions, ObjectsFetched(s),
           call[s].op # "get_many" \/ BindStoredOnly,
           NEW i \in DOMAIN ObjectRows(s)
    PROVE  text[s][ObjectRows(s)[i]] # None
<1>1. Types /\ SessionOK(s)
    BY DEF Inv
<1>2. pc[s] = "fetch_objects" /\ pos[s] = Len(ObjectRows(s))
    BY DEF ObjectsFetched
<1>3. ObjectRows(s) \in Seq(Reference)
    BY <1>1, <1>2, RowsListed
<1>4. i <= pos[s]
    BY <1>2, <1>3
<1> QED
    BY <1>2, <1>4 DEF ObjectInv, Fetched

(* The other steps from one statement to the next.                         *)
LEMMA MovingObjects ==
    ASSUME Inv, ObjectInv, NEW s \in Sessions,
           \/ ObjectsFetched(s) \/ BindingsInserted(s) \/ BindingsFetched(s)
           \/ DeleteStart(s) \/ DeleteEnd(s) \/ \E k \in Keys : DeleteRow(s, k)
    PROVE  ObjectInv'
<1>1. Types /\ SessionOK(s)
    BY DEF Inv
<1>2. UNCHANGED <<objects, bindings, stored, call, newObjects, newBindings,
                  got, text, heard>>
    BY DEF ObjectsFetched, BindingsInserted, BindingsFetched, DeleteStart,
           DeleteEnd, DeleteRow, rowVars, toldVars, txnVars, localVars,
           callerVars
<1>3. SessionStep(s)
    BY DEF SessionStep, Statement
<1>4. Hits(s)' = Hits(s)
    BY <1>2 DEF Hits
<1>5. CASE ObjectsFetched(s)
    <2>1. /\ pc[s] = "fetch_objects"
          /\ pc'[s] \in {"reply", "assert", "conflict", "commit",
                         "insert_bindings"}
          /\ pc'[s] = "reply" => call[s].op = "get_many"
        BY <1>1, <1>5 DEF ObjectsFetched, GotoList, Goto, Types
    <2>2. ASSUME pc'[s] = "reply", BindStoredOnly, NEW k \in Hits(s)
          PROVE  text[s][got[s][k].ref] # None
        <3>1. PICK i \in DOMAIN ObjectRows(s) : ObjectRows(s)[i] = got[s][k].ref
            BY <1>1, <2>1, <2>2, RowsListed
        <3> QED
            BY <1>5, <2>2, <3>1, AllFetched
    <2>3. Fetched(s)'
        BY <1>2, <1>4, <2>1, <2>2 DEF Fetched
    <2> QED
        BY <1>2, <1>3, <2>1, <2>3, MovesOn
<1>6. CASE BindingsFetched(s)
    <2>1. /\ pc[s] = "fetch_bindings" /\ pos'[s] = 0
          /\ pc'[s] \in {"fetch_objects", "assert", "commit"}
          /\ pc'[s] = "fetch_objects" => call[s].op = "get_many"
        BY <1>1, <1>6 DEF BindingsFetched, GotoList, Goto, Types
    <2>2. ASSUME pc'[s] = "fetch_objects"
          PROVE  \A i \in DOMAIN ObjectRows(s)' : ~(i <= 0)
        <3>1. ObjectRows(s) \in Seq(Reference)
            BY <1>1, <2>1, <2>2, RowsListed
        <3>2. ObjectRows(s)' = ObjectRows(s)
            BY <1>2, <1>4 DEF ObjectRows, Entries
        <3> QED
            BY <3>1, <3>2
    <2>3. Fetched(s)'
        BY <2>1, <2>2 DEF Fetched
    <2> QED
        BY <1>2, <1>3, <2>1, <2>3, MovesOn
<1>7. CASE \/ BindingsInserted(s) \/ DeleteStart(s) \/ DeleteEnd(s)
           \/ \E k \in Keys : DeleteRow(s, k)
    <2>1. /\ pc[s] \in {"insert_bindings", "delete", "deleting"}
          /\ pc'[s] \in {"fetch_bindings", "delete", "deleting", "commit"}
        BY <1>1, <1>7 DEF BindingsInserted, DeleteStart, DeleteEnd, DeleteRow,
               GotoList, Goto, Types
    <2>2. Fetched(s)'
        BY <2>1 DEF Fetched
    <2> QED
        BY <1>2, <1>3, <2>1, <2>2, MovesOn
<1> QED
    BY <1>5, <1>6, <1>7

(* A binding is inserted with a reference that is there.                   *)
LEMMA InsertBindingObjects ==
    ASSUME Inv, ObjectInv, NEW s \in Sessions, InsertBinding(s)
    PROVE  ObjectInv'
<1>1. Types /\ SessionOK(s) /\ ObjectTypes
    BY DEF Inv, ObjectInv
<1>2. PICK e : e = Entries(s)[pos[s] + 1]
    OBVIOUS
<1>3. /\ pc[s] = "insert_bindings" /\ pc' = pc
      /\ pos[s] < Len(Entries(s))
      /\ UNCHANGED <<objects, bindings, stored, call, newObjects, got, text,
                     heard>>
      /\ \/ newBindings' = newBindings
         \/ newBindings' = [newBindings EXCEPT ![s][e.key] = e.ref]
    BY <1>2 DEF InsertBinding, Advance, rowVars, toldVars, localVars, callerVars
<1>4. call[s] \in Calls /\ call[s].op \in {"bind", "put_many"} /\ InCall(s)
    BY <1>1, <1>3 DEF SessionOK, AtStatement, InCall
<1>5. pos[s] + 1 \in DOMAIN Entries(s) /\ e.key \in Keys
    BY <1>1, <1>2, <1>3, <1>4, EntriesListed, NextRow
<1>6. BindStoredOnly => There(s, e.ref)
    BY <1>2, <1>3, <1>4, <1>5 DEF ObjectInv, Written
<1>7. \A q : There(s, q)' <=> There(s, q)
    BY <1>3 DEF There
<1>8. Entries(s)' = Entries(s) /\ Hits(s)' = Hits(s)
    BY <1>3 DEF Entries, Hits
<1>9. ObjectTypes' /\ Written(s)' /\ Fetched(s)'
    BY <1>1, <1>3, <1>7, <1>8 DEF ObjectInv, ObjectTypes, Written, Fetched, InCall
<1>10. \A k \in Keys :
           newBindings'[s][k] \in {newBindings[s][k], e.ref}
    BY <1>1, <1>3, <1>5 DEF Types
<1>11. Bound(s)'
    BY <1>3, <1>6, <1>7, <1>8, <1>10 DEF ObjectInv, Bound
<1>12. SessionStep(s)
    BY DEF SessionStep, Statement
<1> QED
    BY <1>3, <1>9, <1>11, <1>12, ObjectFrame

(* A binding is read: the object of its reference is there.                *)
LEMMA FetchBindingsObjects ==
    ASSUME Inv, ObjectInv, NEW s \in Sessions, FetchBindings(s)
    PROVE  ObjectInv'
<1>1. Types /\ SessionOK(s) /\ ObjectTypes
    BY DEF Inv, ObjectInv
<1>2. /\ pc[s] = "fetch_bindings" /\ pc' = pc
      /\ UNCHANGED <<objects, bindings, stored, call, newObjects, newBindings,
                     text, heard>>
    BY DEF FetchBindings, Advance, rowVars, toldVars, txnVars, callerVars
<1>3. ASSUME NEW k \in Keys
      PROVE  \/ got'[s][k] = got[s][k]
             \/ got'[s][k] = [life |-> life[k], ref |-> Seen(s, k)]
    BY <1>1 DEF FetchBindings, Types
<1>4. \A q : There(s, q)' <=> There(s, q)
    BY <1>2 DEF There
<1>5. ASSUME BindStoredOnly, NEW k \in Keys, Seen(s, k) # None
      PROVE  There(s, Seen(s, k))
    BY <1>1, <1>5 DEF ObjectInv, Bound, RowsThere, Seen, There, Types
<1>6. ASSUME BindStoredOnly, NEW k \in Keys, got'[s][k] # None,
             NEW q, q = got'[s][k].ref, q # None
      PROVE  There(s, q)
    <2>1. CASE got'[s][k] = got[s][k]
        BY <1>6, <2>1 DEF ObjectInv, Bound, Hits
    <2>2. CASE got'[s][k] = [life |-> life[k], ref |-> Seen(s, k)]
        BY <1>5, <1>6, <2>2
    <2> QED
        BY <1>3, <2>1, <2>2
<1>7. Bound(s)'
    <2>1. \A k \in Keys : newBindings'[s][k] = newBindings[s][k]
        BY <1>2
    <2> QED
        BY <1>4, <1>6, <2>1 DEF ObjectInv, Bound, Hits
<1>8. Entries(s)' = Entries(s)
    BY <1>2 DEF Entries
<1>9. ObjectTypes' /\ Written(s)' /\ Fetched(s)'
    BY <1>1, <1>2, <1>4, <1>8 DEF ObjectInv, ObjectTypes, Written, Fetched, InCall
<1>10. SessionStep(s)
    BY DEF SessionStep, Statement
<1> QED
    BY <1>2, <1>7, <1>9, <1>10, ObjectFrame

(* Ends of calls and transactions that write no rows.                      *)
LEMMA EndObjects ==
    ASSUME Inv, ObjectInv, Inv', NEW s \in Sessions, EndAction(s),
           ~Commit(s), ~CallerCommits(s)
    PROVE  ObjectInv'
<1>1. Types /\ SessionOK(s) /\ ObjectTypes /\ Types'
    BY DEF Inv, ObjectInv
<1>2. SessionStep(s)
    BY DEF SessionStep, EndAction, Statement, Caller
<1>3. UNCHANGED <<objects, bindings, stored>>
    BY <1>2, RowsWritten
<1>4. NoTexts \in [Reference -> Texts \cup {None}]
    BY DEF NoTexts
<1>5. CASE EndSession(s)
    <2>1. /\ pc' = [pc EXCEPT ![s] = "idle"] /\ got' = [got EXCEPT ![s] = NoKeys]
          /\ text' = [text EXCEPT ![s] = NoTexts]
          /\ newObjects' = [newObjects EXCEPT ![s] = {}]
          /\ newBindings' = [newBindings EXCEPT ![s] = NoKeys]
          /\ heard' = [heard EXCEPT ![s] = Nothing]
        BY <1>5 DEF EndSession, EndCall
    <2>2. ObjectTypes'
        BY <1>1, <1>3, <1>4, <2>1 DEF ObjectTypes
    <2>3. /\ pc'[s] = "idle" /\ heard'[s].stored = {}
          /\ \A k \in Keys : got'[s][k] = None /\ newBindings'[s][k] = None
        BY <1>1, <2>1 DEF Types, NoKeys, Nothing
    <2>4. Written(s)' /\ Bound(s)' /\ Fetched(s)'
        BY <1>1, <2>3, NoneAssumption, IdleObjects
    <2> QED
        BY <1>2, <1>3, <2>2, <2>4, ObjectFrame
<1>6. CASE EndCall(s, "open") /\ UNCHANGED <<newObjects, newBindings>>
    <2>1. /\ pc' = [pc EXCEPT ![s] = "open"] /\ got' = [got EXCEPT ![s] = NoKeys]
          /\ text' = [text EXCEPT ![s] = NoTexts]
        BY <1>6 DEF EndCall
    <2>2. ObjectTypes'
        BY <1>1, <1>3, <1>4, <1>6, <2>1 DEF ObjectTypes
    <2>3. pc'[s] = "open" /\ \A k \in Keys : got'[s][k] = None
        BY <1>1, <2>1 DEF Types, NoKeys
    <2>4. \A q : There(s, q)' <=> There(s, q)
        BY <1>3, <1>6 DEF There
    <2>5. \A r \in heard'[s].stored : There(s, r)
        <3>1. \A r \in heard[s].stored : There(s, r)
            BY DEF ObjectInv, Written
        <3>2. CASE EnlistedReturns(s)
            <4>1. /\ pc[s] = "commit"
                  /\ heard'[s].stored = heard[s].stored \cup Answer(s).stored
                BY <1>1, <3>2 DEF EnlistedReturns, Types
            <4>2. ASSUME NEW r \in Answer(s).stored PROVE There(s, r)
                <5>1. call[s].op \in {"put", "put_many"}
                    BY DEF Answer
                <5>2. PICK i \in DOMAIN ObjectRows(s) : r = ObjectRows(s)[i]
                    BY <5>1 DEF Answer
                <5>3. i \in DOMAIN Entries(s) /\ r = Entries(s)[i].ref
                    BY <5>1, <5>2 DEF ObjectRows
                <5> QED
                    BY <4>1, <5>1, <5>3 DEF ObjectInv, Written, InCall
            <4> QED
                BY <3>1, <4>1, <4>2
        <3>3. CASE ~EnlistedReturns(s)
            <4>1. CASE heard' = heard
                BY <3>1, <4>1
            <4>2. CASE EndSession(s)
                BY <1>1, <4>2 DEF EndSession, Nothing, Types
            <4> QED
                BY <3>3, <4>1, <4>2
                   DEF EndAction, EnlistedReplies, EnlistedRaises, Reply,
                       Rollback, CallerRollsBack, DeadlockVictim, Disconnect,
                       Lose, callerVars
        <3> QED
            BY <3>2, <3>3
    <2>6. ASSUME NEW k \in Keys, NEW r \in Reference, r = newBindings[s][k],
                 BindStoredOnly
          PROVE  There(s, r)
        BY <2>6, NoneAssumption DEF ObjectInv, Bound
    <2>7. Written(s)' /\ Bound(s)' /\ Fetched(s)'
        BY <1>1, <1>6, <2>3, <2>4, <2>5, <2>6, IdleObjects
    <2> QED
        BY <1>2, <1>3, <2>2, <2>7, ObjectFrame
<1> QED
    BY <1>5, <1>6
       DEF EndAction, EnlistedReturns, EnlistedReplies, EnlistedRaises, Reply,
           Rollback, CallerRollsBack, DeadlockVictim, Disconnect, Lose, txnVars

(* COMMIT: what the session had is there for everybody.                    *)
LEMMA CommitObjects ==
    ASSUME Inv, ObjectInv, Inv', NEW s \in Sessions, NEW answer,
           CommitWith(s, answer), Commit(s) \/ CallerCommits(s),
           \A r \in answer.stored : There(s, r)
    PROVE  ObjectInv'
<1>1. Types /\ SessionOK(s) /\ ObjectTypes /\ Types'
    BY DEF Inv, ObjectInv
<1>2. SessionStep(s)
    BY DEF SessionStep, Statement, Caller
<1>3. /\ pc' = [pc EXCEPT ![s] = "idle"] /\ got' = [got EXCEPT ![s] = NoKeys]
      /\ text' = [text EXCEPT ![s] = NoTexts]
      /\ newObjects' = [newObjects EXCEPT ![s] = {}]
      /\ newBindings' = [newBindings EXCEPT ![s] = NoKeys]
      /\ heard' = [heard EXCEPT ![s] = Nothing]
    BY DEF CommitWith, EndSession, EndCall
<1>4. \A r \in Reference : r.hash \in Texts
    BY DEF Reference, Texts
<1>5. /\ objects' = [r \in Reference |->
            IF r \in newObjects[s] THEN r.hash ELSE objects[r]]
      /\ bindings' = [k \in Keys |->
            IF k \in deleted[s] THEN None
            ELSE IF newBindings[s][k] # None THEN newBindings[s][k]
            ELSE bindings[k]]
      /\ stored' = stored \cup answer.stored
    BY DEF CommitWith
<1>6. \A r : There(s, r) => r \in Reference /\ objects'[r] # None
    BY <1>4, <1>5, NoneAssumption DEF There
<1>7. ObjectsStay
    BY <1>6 DEF ObjectsStay, There
<1>8. ObjectTypes'
    <2>1. objects' \in [Reference -> Texts \cup {None}]
        BY <1>1, <1>4, <1>5 DEF ObjectTypes
    <2> QED
        BY <1>1, <1>3, <2>1 DEF ObjectTypes, NoTexts
<1>9. /\ pc'[s] = "idle" /\ heard'[s].stored = {}
      /\ \A k \in Keys : got'[s][k] = None /\ newBindings'[s][k] = None
    BY <1>1, <1>3 DEF Types, NoKeys, Nothing
<1>10. Written(s)' /\ Bound(s)' /\ Fetched(s)'
    BY <1>1, <1>9, NoneAssumption, IdleObjects
<1>11. ASSUME NEW t \in Sessions PROVE Written(t)' /\ Bound(t)' /\ Fetched(t)'
    <2>1. CASE t # s
        BY <1>1, <1>2, <1>7, <2>1, OnlyOwn, OtherObjects DEF ObjectInv
    <2> QED
        BY <1>10, <2>1
<1>12. ASSUME BindStoredOnly, NEW k \in Keys, bindings'[k] # None
       PROVE  objects'[bindings'[k]] # None
    <2>1. CASE newBindings[s][k] # None
        BY <1>5, <1>6, <1>12, <2>1 DEF ObjectInv, Bound
    <2>2. CASE newBindings[s][k] = None
        <3>1. bindings'[k] = bindings[k]
            BY <1>5, <1>12, <2>2
        <3> QED
            BY <1>1, <1>7, <1>12, <3>1 DEF ObjectInv, RowsThere, ObjectsStay, Types
    <2> QED
        BY <2>1, <2>2
<1>13. ASSUME NEW r \in stored' PROVE r \in Reference /\ objects'[r] # None
    BY <1>5, <1>6, <1>7 DEF ObjectInv, RowsThere, ObjectsStay
<1>14. RowsThere'
    BY <1>12, <1>13 DEF RowsThere
<1> QED
    BY <1>8, <1>11, <1>14 DEF ObjectInv

(* The answers of both kinds of commit name objects that are there.        *)
LEMMA CommitsObjects ==
    ASSUME Inv, ObjectInv, Inv', NEW s \in Sessions,
           Commit(s) \/ CallerCommits(s)
    PROVE  ObjectInv'
<1>1. CASE Commit(s)
    <2>1. pc[s] = "commit" /\ CommitWith(s, Answer(s))
        BY <1>1 DEF Commit
    <2>2. ASSUME NEW r \in Answer(s).stored PROVE There(s, r)
        <3>1. call[s].op \in {"put", "put_many"}
            BY DEF Answer
        <3>2. PICK i \in DOMAIN ObjectRows(s) : r = ObjectRows(s)[i]
            BY <3>1 DEF Answer
        <3>3. i \in DOMAIN Entries(s) /\ r = Entries(s)[i].ref
            BY <3>1, <3>2 DEF ObjectRows
        <3> QED
            BY <2>1, <3>1, <3>3 DEF ObjectInv, Written, InCall
    <2> QED
        BY <1>1, <2>1, <2>2, CommitObjects
<1>2. CASE CallerCommits(s)
    <2>1. CommitWith(s, heard[s])
        BY <1>2 DEF CallerCommits
    <2>2. \A r \in heard[s].stored : There(s, r)
        BY DEF ObjectInv, Written
    <2> QED
        BY <1>2, <2>1, <2>2, CommitObjects
<1> QED
    BY <1>1, <1>2

(* Calls a caller makes in its own transaction that read only.             *)
LEMMA EnlistedReadObjects ==
    ASSUME Inv, ObjectInv, NEW s \in Sessions,
           \/ \E k \in Keys : ResolveEnlisted(s, k)
           \/ \E ref \in Reference : GetEnlisted(s, ref)
    PROVE  ObjectInv'
<1>1. Types /\ ObjectTypes
    BY DEF Inv, ObjectInv
<1>2. /\ pc[s] = "open" /\ pc' = pc
      /\ UNCHANGED <<objects, bindings, stored, call, newObjects, newBindings,
                     got, text>>
    BY DEF ResolveEnlisted, GetEnlisted, rowVars, toldVars, txnVars, localVars
<1>3. heard'[s].stored = heard[s].stored
    BY <1>1 DEF ResolveEnlisted, GetEnlisted, Types, Heard
<1>4. \A q : There(s, q)' <=> There(s, q)
    BY <1>2 DEF There
<1>5. ObjectTypes'
    BY <1>1, <1>2 DEF ObjectTypes
<1>6. Written(s)' /\ Fetched(s)'
    BY <1>2, <1>3, <1>4 DEF ObjectInv, Written, Fetched, InCall
<1>7. Bound(s)'
    BY <1>2, <1>4 DEF ObjectInv, Bound, Hits
<1>8. SessionStep(s)
    BY DEF SessionStep, Caller
<1> QED
    BY <1>2, <1>5, <1>6, <1>7, <1>8, ObjectFrame

(* Steps that concern no session.                                          *)
LEMMA OutsideObjects ==
    ASSUME Inv, ObjectInv, ObjectTypes', ObjectsStay,
           UNCHANGED <<bindings, stored>>,
           UNCHANGED <<pc, call, pos, got, text, heard, newObjects, newBindings>>
    PROVE  ObjectInv'
<1>1. \A t \in Sessions : Written(t)' /\ Bound(t)' /\ Fetched(t)'
    BY OtherObjects DEF ObjectInv, SameLocal
<1>2. RowsThere'
    BY DEF ObjectInv, RowsThere, ObjectsStay, Inv, Types
<1> QED
    BY <1>1, <1>2 DEF ObjectInv

(* Every step preserves ObjectInv.                                         *)
LEMMA NextObjects ==
    ASSUME Inv, ObjectInv, [Next]_vars
    PROVE  ObjectInv'
<1>1. Inv'
    BY NextInv
<1>2. ASSUME NEW s \in Sessions, SessionStep(s) PROVE ObjectInv'
    <2>1. CASE Caller(s)
        BY <1>1, <2>1, BeginObjects, EnlistedReadObjects, CommitsObjects,
           EndObjects DEF Caller, EndAction
    <2>2. CASE Statement(s)
        BY <1>1, <2>2, InsertObjectObjects, ObjectsInsertedObjects,
           FetchObjectsObjects, MovingObjects, InsertBindingObjects,
           FetchBindingsObjects, CommitsObjects, EndObjects
           DEF Statement, EndAction
    <2>3. CASE DeadlockVictim(s) \/ Disconnect(s)
        BY <1>1, <2>3, CommitsObjects, EndObjects DEF EndAction
    <2> QED
        BY <1>2, <2>1, <2>2, <2>3 DEF SessionStep
<1>3. CASE \/ \E k \in Keys : Resolve(k)
           \/ \E ref \in Reference : Get(ref)
           \/ UNCHANGED vars
    <2>1. UNCHANGED <<objects, bindings, stored, pc, call, pos, got, text, heard,
                      newObjects, newBindings>>
        BY <1>3 DEF Resolve, Get, vars, rowVars, toldVars, txnVars, localVars,
                    callerVars
    <2>2. ObjectTypes' /\ ObjectsStay
        BY <2>1 DEF ObjectInv, ObjectTypes, ObjectsStay
    <2> QED
        BY <2>1, <2>2, OutsideObjects
<1>4. ASSUME NEW ref \in Reference, NEW bad \in Damaged, Damage(ref, bad)
      PROVE  ObjectInv'
    <2>1. /\ objects' = [objects EXCEPT ![ref] = bad]
          /\ UNCHANGED <<bindings, stored, pc, call, pos, got, text, heard,
                         newObjects, newBindings>>
        BY <1>4 DEF Damage, toldVars, txnVars, localVars, callerVars
    <2>2. ObjectTypes' /\ ObjectsStay
        BY <2>1, NoneAssumption DEF ObjectInv, ObjectTypes, ObjectsStay, Texts
    <2> QED
        BY <2>1, <2>2, OutsideObjects
<1> QED
    BY <1>2, <1>3, <1>4 DEF Next, SessionStep

(* Both invariants together.                                               *)
LEMMA ObjectsHold == SafeSpec => [](Inv /\ ObjectInv)
<1>1. Init => Inv /\ ObjectInv
    BY InitInv, InitObjects
<1>2. Inv /\ ObjectInv /\ [Next]_vars => (Inv /\ ObjectInv)'
    BY NextInv, NextObjects
<1> QED
    BY <1>1, <1>2, PTL DEF SafeSpec

(***************************************************************************)
(* A get_many (_get_bound_objects_on_connection) that found a key bound    *)
(* finds the object, however many statements and commits lie between its   *)
(* two reads, if callers bind only references that put reported.           *)
(***************************************************************************)
THEOREM BoundObjectsAreFound ==
    ASSUME BindStoredOnly PROVE SafeSpec => []NoDanglingRead
<1>1. ObjectInv => NoDanglingRead
    BY DEF ObjectInv, Fetched, NoDanglingRead
<1> QED
    BY <1>1, ObjectsHold, PTL

-----------------------------------------------------------------------------
(* Without evictions nothing is ever deleted, and a binding stays.         *)
LEMMA NothingDeleted ==
    ASSUME NoEvictions, Inv, [Next]_vars
    PROVE  /\ \A s \in Sessions : deleted[s] = {}
           /\ \A k \in Keys : bindings[k] # None => bindings'[k] = bindings[k]
<1>1. \A s \in Sessions : deleted[s] = {} /\ Types
    BY DEF NoEvictions, Inv, SessionOK, AtStatement, EvictsAlone, Evicting
<1>2. ASSUME NEW s \in Sessions, SessionStep(s), NEW k \in Keys,
             bindings[k] # None
      PROVE  bindings'[k] = bindings[k]
    <2>1. CASE Commit(s) \/ CallerCommits(s)
        <3>1. bindings' = [j \in Keys |->
                  IF j \in deleted[s] THEN None
                  ELSE IF newBindings[s][j] # None THEN newBindings[s][j]
                  ELSE bindings[j]]
            BY <2>1 DEF Commit, CallerCommits, CommitWith
        <3>2. newBindings[s][k] = None
            BY <1>2 DEF Inv, Locks
        <3> QED
            BY <1>1, <3>1, <3>2
    <2>2. CASE ~Commit(s) /\ ~CallerCommits(s)
        BY <1>2, <2>2, RowsWritten
    <2> QED
        BY <2>1, <2>2
<1>3. ASSUME ~\E s \in Sessions : SessionStep(s)
      PROVE  bindings' = bindings
    BY <1>3 DEF Next, SessionStep, Resolve, Get, Damage, vars, rowVars
<1> QED
    BY <1>1, <1>2, <1>3

(* Before the first call no session has seen a binding.                    *)
LEMMA InitStaysBound ==
    ASSUME Init PROVE \A s \in Sessions : StaysBound(s)
BY DEF Init, StaysBound

(* A key stays seen while another session takes a step.                    *)
LEMMA OtherStaysBound ==
    ASSUME NEW t \in Sessions, SameLocal(t), StaysBound(t), Types,
           call[t] \in Calls \/ pc[t] \in {"idle", "open"},
           \A k \in Keys : bindings[k] # None => bindings'[k] = bindings[k],
           AtStatement(t)
    PROVE  StaysBound(t)'
<1>1. Entries(t)' = Entries(t) /\ BindsKeys(t)' = BindsKeys(t)
    BY DEF SameLocal, Entries, BindsKeys
<1>2. \A k \in Keys : Seen(t, k) # None => Seen(t, k)' # None
    BY DEF SameLocal, Seen
<1>3. pc[t] = "insert_bindings" \/ (pc[t] = "fetch_bindings" /\ BindsKeys(t)) =>
          \A i \in DOMAIN Entries(t) : Entries(t)[i].key \in Keys
    BY EntriesListed DEF AtStatement, BindsKeys
<1>4. ASSUME NEW i \in DOMAIN Entries(t), NEW k \in Keys, k = Entries(t)[i].key,
             Seen(t, k) # None
      PROVE  Seen(t, Entries(t)[i].key)' # None
    BY <1>1, <1>2, <1>4 DEF Seen
<1> QED
    BY <1>1, <1>3, <1>4 DEF StaysBound, SameLocal

(* A session's own step.                                                   *)
LEMMA OwnStaysBound ==
    ASSUME NoEvictions, Inv, ObjectInv, Inv', NEW s \in Sessions,
           SessionStep(s), StaysBound(s)
    PROVE  StaysBound(s)'
<1>1. Types /\ SessionOK(s)
    BY DEF Inv
<1>2. CASE InsertBinding(s)
    <2>1. PICK k : k = Entries(s)[pos[s] + 1].key
        OBVIOUS
    <2>2. /\ pc[s] = "insert_bindings" /\ pc' = pc
          /\ pos[s] < Len(Entries(s))
          /\ pos' = [pos EXCEPT ![s] = pos[s] + 1]
          /\ newBindings' = IF Seen(s, k) = None
                            THEN [newBindings EXCEPT ![s][k] =
                                     Entries(s)[pos[s] + 1].ref]
                            ELSE newBindings
          /\ UNCHANGED <<bindings, call>>
        BY <1>2, <2>1 DEF InsertBinding, Advance, rowVars
    <2>3. call[s] \in Calls /\ call[s].op \in {"bind", "put_many"}
        BY <1>1, <2>2 DEF SessionOK, AtStatement, InCall
    <2>4. pos[s] + 1 \in DOMAIN Entries(s) /\ k \in Keys
          /\ Entries(s)[pos[s] + 1].ref \in Reference
        BY <1>1, <2>1, <2>2, <2>3, EntriesListed, NextRow
    <2>5. \A j \in Keys : newBindings[s][j] # None => newBindings'[s][j] # None
        BY <1>1, <2>2, <2>4, NoneAssumption DEF Types
    <2>6. \A j \in Keys : Seen(s, j) # None => Seen(s, j)' # None
        BY <2>2, <2>5 DEF Seen
    <2>7. Seen(s, k)' # None
        BY <1>1, <2>2, <2>4, <2>6, NoneAssumption DEF Types, Seen
    <2>8. Entries(s)' = Entries(s) /\ pos'[s] = pos[s] + 1 /\ pos[s] \in Nat
        BY <1>1, <2>2 DEF Entries, Types
    <2>9. ASSUME NEW i \in DOMAIN Entries(s), i <= pos'[s],
                 NEW j, j = Entries(s)[i].key
          PROVE  Seen(s, j)' # None
        <3>1. i \in Nat /\ j \in Keys
            BY <2>3, <2>9, EntriesListed
        <3>2. CASE i <= pos[s]
            BY <2>2, <2>6, <2>9, <3>1, <3>2 DEF StaysBound
        <3>3. CASE i = pos[s] + 1
            BY <2>1, <2>7, <2>9, <3>3
        <3> QED
            BY <2>8, <2>9, <3>1, <3>2, <3>3
    <2> QED
        BY <2>2, <2>8, <2>9 DEF StaysBound
<1>3. CASE FetchBindings(s)
    <2>1. /\ pc[s] = "fetch_bindings" /\ pc' = pc
          /\ pos' = [pos EXCEPT ![s] = ChunkEnd(s, Entries(s))]
          /\ UNCHANGED <<bindings, call, newBindings>>
        BY <1>3 DEF FetchBindings, Advance, rowVars, txnVars
    <2>2. \A k \in Keys :
              got'[s][k] = IF k \in KeysOf(Chunk(s, Entries(s)))
                           THEN [life |-> life[k], ref |-> Seen(s, k)]
                           ELSE got[s][k]
        BY <1>1, <1>3 DEF FetchBindings, Types
    <2>3. Entries(s)' = Entries(s) /\ pos'[s] = ChunkEnd(s, Entries(s))
        BY <1>1, <2>1 DEF Entries, Types
    <2>4. \A k : Seen(s, k)' = Seen(s, k)
        BY <2>1 DEF Seen
    <2>5. CASE BindsKeys(s)
        <3>1. call[s] \in Calls /\ Entries(s) \in Seq(Entry)
              /\ \A i \in DOMAIN Entries(s) : Entries(s)[i].key \in Keys
            BY <1>1, <2>1, <2>5, EntriesListed
               DEF SessionOK, AtStatement, InCall, BindsKeys
        <3>2. ASSUME NEW i \in DOMAIN Entries(s), i <= pos'[s],
                     NEW k, k = Entries(s)[i].key
              PROVE  got'[s][k] # None /\ got'[s][k].ref # None
            <4>1. Seen(s, k) # None /\ k \in Keys
                BY <2>1, <2>5, <3>1, <3>2 DEF StaysBound
            <4>2. Seen(s, k) \in Reference \cup {None} /\ life[k] \in Nat
                BY <1>1, <4>1 DEF Seen, Types
            <4>3. [life |-> life[k], ref |-> Seen(s, k)] # None
                BY <4>2, NoneAssumption DEF Read
            <4>4. CASE k \in KeysOf(Chunk(s, Entries(s)))
                <5>1. got'[s][k] = [life |-> life[k], ref |-> Seen(s, k)]
                    BY <2>2, <4>1, <4>4
                <5>2. got'[s][k].ref = Seen(s, k)
                    BY <5>1
                <5> QED
                    BY <4>1, <4>3, <5>1, <5>2
            <4>5. CASE k \notin KeysOf(Chunk(s, Entries(s)))
                <5>1. Entries(s)[i] \notin Chunk(s, Entries(s))
                    BY <3>2, <4>5 DEF KeysOf
                <5>2. i <= pos[s]
                    BY <1>1, <2>3, <3>1, <3>2, <5>1, ChunkListed
                <5>3. got[s][k] # None /\ got[s][k].ref # None
                    BY <2>1, <2>5, <3>2, <5>2 DEF StaysBound
                <5> QED
                    BY <2>2, <4>1, <4>5, <5>3
            <4> QED
                BY <4>4, <4>5
        <3>3. \A i \in DOMAIN Entries(s) : Seen(s, Entries(s)[i].key)' # None
            BY <2>1, <2>3, <2>4, <2>5 DEF StaysBound
        <3> QED
            BY <2>1, <2>3, <3>2, <3>3 DEF StaysBound
    <2>6. CASE ~BindsKeys(s)
        BY <2>1, <2>6 DEF StaysBound, BindsKeys
    <2> QED
        BY <2>5, <2>6
<1>4. CASE BindingsInserted(s)
    <2>1. /\ pc[s] = "insert_bindings" /\ pc'[s] = "fetch_bindings"
          /\ pos[s] = Len(Entries(s)) /\ pos'[s] = 0
          /\ UNCHANGED <<bindings, call, newBindings>>
        BY <1>1, <1>4 DEF BindingsInserted, GotoList, Goto, rowVars, txnVars, Types
    <2>2. call[s] \in Calls
        BY <1>1, <2>1 DEF SessionOK, AtStatement, InCall
    <2>3. \A i \in DOMAIN Entries(s) : i <= pos[s] /\ ~(i <= 0)
        BY <2>1, <2>2, EntriesListed
    <2>4. Entries(s)' = Entries(s) /\ \A k : Seen(s, k)' = Seen(s, k)
        BY <2>1 DEF Entries, Seen
    <2> QED
        BY <2>1, <2>3, <2>4 DEF StaysBound
<1>5. CASE BindingsFetched(s)
    <2>1. /\ pc[s] = "fetch_bindings" /\ pos[s] = Len(Entries(s))
          /\ pc'[s] = IF call[s].op = "get_many" THEN "fetch_objects"
                      ELSE IF \E i \in DOMAIN Entries(s) :
                                 got[s][Entries(s)[i].key].ref = None
                           THEN "assert" ELSE "commit"
        BY <1>1, <1>5 DEF BindingsFetched, GotoList, Goto, Types
    <2>2. CASE call[s].op = "get_many"
        BY <2>1, <2>2 DEF StaysBound
    <2>3. CASE call[s].op # "get_many"
        <3>1. BindsKeys(s) /\ call[s] \in Calls
            BY <1>1, <2>1, <2>3 DEF SessionOK, AtStatement, InCall, BindsKeys
        <3>2. \A i \in DOMAIN Entries(s) : i <= pos[s]
            BY <2>1, <3>1, EntriesListed
        <3> QED
            BY <2>1, <3>1, <3>2 DEF StaysBound
    <2> QED
        BY <2>2, <2>3
<1>6. CASE ObjectsFetched(s)
    <2>1. /\ pc'[s] \in {"reply", "assert", "conflict", "commit",
                         "insert_bindings"}
          /\ pc'[s] = "assert" =>
                /\ call[s].op # "get_many"
                /\ \E i \in DOMAIN ObjectRows(s) : text[s][ObjectRows(s)[i]] = None
          /\ pos'[s] = 0
          /\ UNCHANGED call
          /\ pc'[s] = "insert_bindings" => call[s].op # "get_many"
          /\ pc[s] = "fetch_objects"
        BY <1>1, <1>6 DEF ObjectsFetched, GotoList, Goto, Types
    <2>2. pc'[s] # "assert"
        BY <1>6, <2>1, AllFetched
    <2>3. call[s] \in Calls
        BY <1>1, <2>1 DEF SessionOK, AtStatement, InCall
    <2>4. Entries(s)' = Entries(s) /\ \A i \in DOMAIN Entries(s) : ~(i <= 0)
        BY <2>1, <2>3, EntriesListed DEF Entries
    <2> QED
        BY <2>1, <2>2, <2>4 DEF StaysBound
<1>7. CASE \E c \in Calls : BeginAwaited(s, c) \/ BeginEnlisted(s, c)
    <2>1. PICK c \in Calls : BeginAwaited(s, c) \/ BeginEnlisted(s, c)
        BY <1>7
    <2>2. /\ pc[s] \in {"idle", "open"} /\ UNCHANGED pos
          /\ call'[s] = c /\ pc'[s] = FirstStatement(c.op)
        BY <1>1, <2>1 DEF BeginAwaited, BeginEnlisted, Begin, Goto, Types
    <2>3. pos'[s] = 0
        BY <1>1, <2>2 DEF SessionOK, AtStart
    <2>4. Entries(s)' = c.entries /\ \A i \in DOMAIN c.entries : ~(i <= 0)
        BY <2>2, BackendAssumption DEF Entries, Call
    <2>5. pc'[s] = "fetch_bindings" => ~BindsKeys(s)'
        BY <2>2 DEF FirstStatement, BindsKeys
    <2> QED
        BY <2>2, <2>3, <2>4, <2>5 DEF StaysBound, FirstStatement
<1>8. CASE \/ InsertObject(s) \/ ObjectsInserted(s) \/ FetchObjects(s)
           \/ DeleteStart(s) \/ DeleteEnd(s)
           \/ \E k \in Keys : DeleteRow(s, k) \/ ResolveEnlisted(s, k)
           \/ \E ref \in Reference : GetEnlisted(s, ref)
           \/ EndAction(s)
    <2>1. pc'[s] \notin {"insert_bindings", "fetch_bindings", "assert"}
        BY <1>1, <1>8
           DEF InsertObject, ObjectsInserted, FetchObjects, DeleteStart,
               DeleteEnd, DeleteRow, ResolveEnlisted, GetEnlisted, EndAction,
               Commit, Reply, Rollback, EnlistedReturns, EnlistedReplies,
               EnlistedRaises, CallerCommits, CallerRollsBack, DeadlockVictim,
               Disconnect, Lose, CommitWith, EndSession, EndCall, Goto,
               GotoList, Advance, Types
    <2> QED
        BY <2>1 DEF StaysBound
<1> QED
    BY <1>2, <1>3, <1>4, <1>5, <1>6, <1>7, <1>8
       DEF SessionStep, Caller, Statement, EndAction

(* Without evictions, a binding a call has seen stays: every step.         *)
LEMMA NextStaysBound ==
    ASSUME NoEvictions, Inv, ObjectInv, \A s \in Sessions : StaysBound(s),
           [Next]_vars
    PROVE  \A s \in Sessions : StaysBound(s)'
<1> SUFFICES ASSUME NEW t \in Sessions PROVE StaysBound(t)'
    OBVIOUS
<1>1. Inv' /\ Types /\ ObjectTypes /\ AtStatement(t)
    BY NextInv DEF Inv, ObjectInv, SessionOK
<1>2. call[t] \in Calls \/ pc[t] \in {"idle", "open"}
    BY <1>1 DEF AtStatement, InCall
<1>3. CASE SameLocal(t)
    BY <1>1, <1>2, <1>3, NothingDeleted, OtherStaysBound
<1>4. CASE ~SameLocal(t)
    <2>1. SessionStep(t)
        <3>1. CASE \E s \in Sessions : SessionStep(s)
            BY <1>1, <1>4, <3>1, OnlyOwn
        <3>2. CASE ~\E s \in Sessions : SessionStep(s)
            BY <1>4, <3>2
               DEF Next, SessionStep, Resolve, Get, Damage, vars, txnVars,
                   localVars, callerVars, SameLocal
        <3> QED
            BY <3>1, <3>2
    <2> QED
        BY <1>1, <2>1, OwnStaysBound
<1> QED
    BY <1>3, <1>4

(***************************************************************************)
(* As long as nothing is evicted, the assertions of put, bind and put_many *)
(* ("assert row is not None") hold, whatever other sessions do, in the     *)
(* batch's own transaction or a caller's, and for any split into chunks.   *)
(* (With evictions they do not: MCPostgresBackendAssert.)                  *)
(***************************************************************************)
THEOREM AssertionsWithoutEvictions ==
    ASSUME NoEvictions PROVE SafeSpec => []AssertionsHold
<1> DEFINE J == Inv /\ ObjectInv /\ \A s \in Sessions : StaysBound(s)
<1>1. Init => J
    BY InitInv, InitObjects, InitStaysBound
<1>2. J /\ [Next]_vars => J'
    BY NextInv, NextObjects, NextStaysBound
<1>3. J => AssertionsHold
    BY DEF StaysBound, AssertionsHold
<1> QED
    BY <1>1, <1>2, <1>3, PTL DEF SafeSpec

-----------------------------------------------------------------------------
(* Evictions, and what is read of them.                                    *)
EvictInv ==
    /\ Past
    /\ NoPartialEviction
    /\ \A s \in Sessions : ReadsAtOnce(s)

(* EvictInv holds before the first call.                                   *)
LEMMA InitEvict ==
    ASSUME Init PROVE EvictInv
<1> USE DEF Init
<1>1. Past
    BY DEF Past, NoKeys
<1>2. NoPartialEviction
    BY DEF NoPartialEviction
<1>3. \A s \in Sessions : ReadsAtOnce(s)
    BY DEF ReadsAtOnce
<1> QED
    BY <1>1, <1>2, <1>3 DEF EvictInv

(* Where a step leaves a session that reads bindings.                      *)
LEMMA OwnReadsAtOnce ==
    ASSUME OneStatementReads, Inv, NEW s \in Sessions, SessionStep(s),
           ReadsAtOnce(s)
    PROVE  ReadsAtOnce(s)'
<1>1. Types /\ SessionOK(s)
    BY DEF Inv
<1>2. CASE FetchBindings(s)
    <2>1. /\ pc[s] = "fetch_bindings" /\ pos[s] < Len(Entries(s))
          /\ pos' = [pos EXCEPT ![s] = ChunkEnd(s, Entries(s))]
          /\ UNCHANGED call
        BY <1>2 DEF FetchBindings, Advance
    <2>2. /\ call[s] \in Calls /\ call[s].op # "evict"
        BY <1>1, <2>1 DEF SessionOK, AtStatement, InCall
    <2>3. Entries(s) \in Seq(Entry) /\ Len(Entries(s)) <= ChunkSize
        BY <2>2, EntriesListed DEF OneStatementReads, Entries
    <2>4. pos[s] = 0
        BY <1>1, <2>1, <2>3 DEF ReadsAtOnce
    <2>5. ChunkEnd(s, Entries(s)) = Len(Entries(s))
        BY <2>3, <2>4, BackendAssumption DEF ChunkEnd
    <2>6. pos'[s] = Len(Entries(s)) /\ Entries(s)' = Entries(s)
        BY <1>1, <2>1, <2>5 DEF Types, Entries
    <2> QED
        BY <2>6 DEF ReadsAtOnce
<1>3. CASE BindingsInserted(s)
    <2>1. got[s] = NoKeys /\ pos'[s] = 0 /\ UNCHANGED got
        BY <1>1, <1>3 DEF BindingsInserted, GotoList, SessionOK, ReadsItsKeys,
               BeforeFetch, Types, localVars
    <2> QED
        BY <2>1 DEF ReadsAtOnce, NoKeys
<1>4. CASE \E c \in Calls : BeginAwaited(s, c) \/ BeginEnlisted(s, c)
    <2>1. pc[s] \in {"idle", "open"} /\ UNCHANGED <<pos, got>>
        BY <1>4 DEF BeginAwaited, BeginEnlisted, Begin, localVars
    <2>2. pos[s] = 0 /\ got[s] = NoKeys
        BY <1>1, <2>1 DEF SessionOK, AtStart, ReadsItsKeys, BeforeFetch
    <2> QED
        BY <2>1, <2>2 DEF ReadsAtOnce, NoKeys
<1>5. CASE ~FetchBindings(s) /\ ~BindingsInserted(s)
           /\ ~\E c \in Calls : BeginAwaited(s, c) \/ BeginEnlisted(s, c)
    <2>1. pc'[s] # "fetch_bindings"
        BY <1>1, <1>5
           DEF SessionStep, Caller, Statement, InsertObject, ObjectsInserted,
               FetchObjects, ObjectsFetched, InsertBinding, BindingsFetched,
               DeleteStart, DeleteEnd, DeleteRow, ResolveEnlisted, GetEnlisted,
               Commit, Reply, Rollback, EnlistedReturns, EnlistedReplies,
               EnlistedRaises, CallerCommits, CallerRollsBack, DeadlockVictim,
               Disconnect, Lose, CommitWith, EndSession, EndCall, Goto,
               GotoList, Advance, Types
    <2> QED
        BY <2>1 DEF ReadsAtOnce
<1> QED
    BY <1>2, <1>3, <1>4, <1>5

(* A lookup of one statement takes its bindings from one snapshot.         *)
LEMMA NextReadsAtOnce ==
    ASSUME OneStatementReads, Inv, ObjectInv, [Next]_vars,
           NEW t \in Sessions, ReadsAtOnce(t)
    PROVE  ReadsAtOnce(t)'
<1>1. Types /\ ObjectTypes
    BY DEF Inv, ObjectInv
<1>2. CASE SameLocal(t)
    BY <1>2 DEF SameLocal, ReadsAtOnce, Entries, NoKeys
<1>3. CASE ~SameLocal(t)
    <2>1. CASE \E s \in Sessions : SessionStep(s)
        <3>1. SessionStep(t)
            BY <1>1, <1>3, <2>1, OnlyOwn
        <3> QED
            BY <3>1, OwnReadsAtOnce
    <2>2. CASE ~\E s \in Sessions : SessionStep(s)
        BY <1>3, <2>2
           DEF Next, SessionStep, Resolve, Get, Damage, vars, txnVars,
               localVars, callerVars, SameLocal
    <2> QED
        BY <2>1, <2>2
<1> QED
    BY <1>2, <1>3

(* Steps that neither evict nor read: each read stays or is forgotten.     *)
LEMMA NoNewReads ==
    ASSUME EvictInv, Types, UNCHANGED <<life, evicted>>,
           \A s \in Sessions, k \in Keys : got'[s][k] \in {got[s][k], None}
    PROVE  Past' /\ NoPartialEviction'
<1>1. Past'
    BY DEF EvictInv, Past
<1>2. ASSUME NEW s \in Sessions, NEW batch \in evicted,
             NEW p \in batch, NEW q \in batch,
             got'[s][p[1]] # None, got'[s][q[1]] # None
      PROVE  got'[s][p[1]].life <= p[2] <=> got'[s][q[1]].life <= q[2]
    <2>1. p[1] \in Keys /\ q[1] \in Keys
        BY DEF EvictInv, Past
    <2>2. got'[s][p[1]] = got[s][p[1]] /\ got'[s][q[1]] = got[s][q[1]]
        BY <1>2, <2>1
    <2> QED
        BY <1>2, <2>2 DEF EvictInv, NoPartialEviction
<1> QED
    BY <1>1, <1>2 DEF NoPartialEviction

(* A read sees all evictions that have committed.                          *)
LEMMA FetchSeesAll ==
    ASSUME OneStatementReads, Inv, EvictInv, NEW s \in Sessions,
           FetchBindings(s)
    PROVE  Past' /\ NoPartialEviction'
<1>1. Types /\ SessionOK(s)
    BY DEF Inv
<1>2. /\ pc[s] = "fetch_bindings" /\ pos[s] < Len(Entries(s))
      /\ UNCHANGED <<life, evicted>>
    BY DEF FetchBindings, rowVars, toldVars
<1>3. call[s] \in Calls
    BY <1>1, <1>2 DEF SessionOK, AtStatement, InCall
<1>4. got[s] = NoKeys
    <2>1. Len(Entries(s)) \in Nat /\ pos[s] # Len(Entries(s))
        BY <1>2, <1>3, EntriesListed
    <2> QED
        BY <1>2, <2>1 DEF EvictInv, ReadsAtOnce
<1>5. ASSUME NEW k \in Keys
      PROVE  \/ got'[s][k] = None
             \/ got'[s][k] = [life |-> life[k], ref |-> Seen(s, k)]
    BY <1>1, <1>4 DEF FetchBindings, Types, NoKeys
<1>6. ASSUME NEW k \in Keys, got'[s][k] # None
      PROVE  got'[s][k].life = life[k]
    <2>1. got'[s][k] = [life |-> life[k], ref |-> Seen(s, k)]
        BY <1>5, <1>6
    <2> QED
        BY <2>1
<1>7. \A t \in Sessions \ {s} : got'[t] = got[t]
    BY <1>1 DEF FetchBindings, Types
<1>8. ASSUME NEW t \in Sessions, NEW k \in Keys, got'[t][k] # None
      PROVE  got'[t][k].life <= life[k]
    <2>1. life[k] \in Nat
        BY <1>1 DEF Types
    <2>2. CASE t = s
        BY <1>6, <1>8, <2>1, <2>2
    <2>3. CASE t # s
        BY <1>7, <1>8, <2>3 DEF EvictInv, Past
    <2> QED
        BY <2>2, <2>3
<1>9. Past'
    BY <1>2, <1>8 DEF EvictInv, Past
<1>10. ASSUME NEW batch \in evicted, NEW p \in batch, got'[s][p[1]] # None
       PROVE  ~(got'[s][p[1]].life <= p[2])
    <2>1. PICK k \in Keys, n \in Nat : p = <<k, n>> /\ n < life[k]
        BY DEF EvictInv, Past
    <2>2. life[k] \in Nat /\ got'[s][k].life = life[k]
        BY <1>1, <1>6, <1>10, <2>1 DEF Types
    <2> QED
        BY <2>1, <2>2
<1>11. NoPartialEviction'
    BY <1>2, <1>7, <1>10 DEF EvictInv, NoPartialEviction
<1> QED
    BY <1>9, <1>11

(* A COMMIT ends a life of every key of its batch at once: whoever has     *)
(* read any of them has read them before.                                  *)
LEMMA CommitEvicts ==
    ASSUME Inv, ObjectInv, EvictInv, NEW s \in Sessions,
           Commit(s) \/ CallerCommits(s)
    PROVE  Past' /\ NoPartialEviction'
<1>1. Types /\ ObjectTypes /\ SessionStep(s)
    BY DEF Inv, ObjectInv, SessionStep, Statement, Caller
<1> DEFINE new == {<<k, life[k]>> : k \in deleted[s]}
<1>2. /\ life' = [k \in Keys |-> life[k] + IF k \in deleted[s] THEN 1 ELSE 0]
      /\ evicted' = evicted \cup ({new} \ {{}})
      /\ got' = [got EXCEPT ![s] = NoKeys]
    BY DEF Commit, CallerCommits, CommitWith, EndSession, EndCall
<1>3. \A k \in Keys : /\ life[k] \in Nat /\ life'[k] \in Nat
                      /\ life[k] <= life'[k]
                      /\ k \in deleted[s] => life[k] < life'[k]
    BY <1>1, <1>2 DEF Types
<1>4. /\ \A k \in Keys : got'[s][k] = None
      /\ \A t \in Sessions \ {s} : got'[t] = got[t]
    BY <1>1, <1>2 DEF Types, NoKeys
<1>5. ASSUME NEW p \in new
      PROVE  \E k \in Keys : p = <<k, life[k]>> /\ k \in deleted[s]
    BY <1>1 DEF Types
<1> HIDE DEF new
<1>6. ASSUME NEW batch \in evicted', NEW p \in batch
      PROVE  \E k \in Keys, n \in Nat : p = <<k, n>> /\ n < life'[k]
    <2>1. CASE batch \in evicted
        <3>1. PICK k \in Keys, n \in Nat : p = <<k, n>> /\ n < life[k]
            BY <2>1 DEF EvictInv, Past
        <3>2. n < life'[k]
            BY <1>3, <3>1
        <3> QED
            BY <3>1, <3>2
    <2>2. CASE batch = new
        BY <1>3, <1>5, <2>2
    <2> QED
        BY <1>2, <2>1, <2>2
<1>7. ASSUME NEW t \in Sessions, NEW k \in Keys, got'[t][k] # None
      PROVE  /\ t # s /\ got'[t] = got[t] /\ got[t][k].life \in Nat
             /\ got[t][k].life <= life[k]
    BY <1>1, <1>4, <1>7 DEF EvictInv, Past, Types, Read
<1>8. Past'
    BY <1>3, <1>6, <1>7 DEF Past
<1>9. ASSUME NEW t \in Sessions, NEW batch \in evicted',
             NEW p \in batch, NEW q \in batch,
             got'[t][p[1]] # None, got'[t][q[1]] # None
      PROVE  got'[t][p[1]].life <= p[2] <=> got'[t][q[1]].life <= q[2]
    <2>1. p[1] \in Keys /\ q[1] \in Keys
        BY <1>6
    <2>2. t # s /\ got'[t] = got[t]
        BY <1>7, <1>9, <2>1
    <2>3. CASE batch \in evicted
        BY <1>9, <2>2, <2>3 DEF EvictInv, NoPartialEviction
    <2>4. CASE batch = new
        <3>1. p[2] = life[p[1]] /\ q[2] = life[q[1]]
            BY <1>5, <2>4
        <3> QED
            BY <1>7, <1>9, <2>1, <2>2, <3>1
    <2> QED
        BY <1>2, <2>3, <2>4
<1> QED
    BY <1>8, <1>9 DEF NoPartialEviction

(* Every step preserves EvictInv.                                          *)
LEMMA NextEvict ==
    ASSUME OneStatementReads, Inv, ObjectInv, EvictInv, [Next]_vars
    PROVE  EvictInv'
<1>1. Types /\ ObjectTypes
    BY DEF Inv, ObjectInv
<1>2. \A t \in Sessions : ReadsAtOnce(t)'
    BY NextReadsAtOnce DEF EvictInv
<1>3. ASSUME NEW s \in Sessions, SessionStep(s)
      PROVE  Past' /\ NoPartialEviction'
    <2>1. CASE FetchBindings(s)
        BY <2>1, FetchSeesAll
    <2>2. CASE Commit(s) \/ CallerCommits(s)
        BY <2>2, CommitEvicts
    <2>3. CASE ~FetchBindings(s) /\ ~Commit(s) /\ ~CallerCommits(s)
        <3>1. UNCHANGED <<life, evicted>>
            BY <1>3, <2>3, RowsWritten
        <3>2. got' = got \/ got' = [got EXCEPT ![s] = NoKeys]
            BY <1>3, <2>3
               DEF SessionStep, Caller, Statement, BeginAwaited, BeginEnlisted,
                   Begin, InsertObject, ObjectsInserted, FetchObjects,
                   ObjectsFetched, InsertBinding, BindingsInserted,
                   BindingsFetched, DeleteStart, DeleteEnd, DeleteRow,
                   ResolveEnlisted, GetEnlisted, Reply, Rollback,
                   EnlistedReturns, EnlistedReplies, EnlistedRaises,
                   CallerRollsBack, DeadlockVictim, Disconnect, Lose,
                   EndSession, EndCall, localVars
        <3>3. \A t \in Sessions, k \in Keys : got'[t][k] \in {got[t][k], None}
            <4>1. CASE got' = got
                BY <4>1
            <4>2. CASE got' = [got EXCEPT ![s] = NoKeys]
                BY <1>1, <4>2 DEF Types, NoKeys
            <4> QED
                BY <3>2, <4>1, <4>2
        <3> QED
            BY <1>1, <3>1, <3>3, NoNewReads
    <2> QED
        BY <2>1, <2>2, <2>3
<1>4. ASSUME ~\E s \in Sessions : SessionStep(s)
      PROVE  Past' /\ NoPartialEviction'
    <2>1. UNCHANGED <<life, evicted, got>>
        BY <1>4 DEF Next, SessionStep, Resolve, Get, Damage, vars, rowVars,
               toldVars, localVars
    <2> QED
        BY <1>1, <2>1, NoNewReads
<1> QED
    BY <1>2, <1>3, <1>4 DEF EvictInv

(***************************************************************************)
(* delete_bindings' promise that "a batch commits atomically across every  *)
(* chunk it is split into, so no caller observes a partially evicted       *)
(* batch": for any batches of evictions and any chunk size, a call whose   *)
(* own keys fit one statement has read all its keys before an eviction or  *)
(* all after it.                                                           *)
(***************************************************************************)
THEOREM EvictionsAreAtomic ==
    ASSUME OneStatementReads PROVE SafeSpec => []NoPartialEviction
<1> DEFINE J == Inv /\ ObjectInv /\ EvictInv
<1>1. Init => J
    BY InitInv, InitObjects, InitEvict
<1>2. J /\ [Next]_vars => J'
    BY NextInv, NextObjects, NextEvict
<1>3. J => NoPartialEviction
    BY DEF EvictInv
<1> QED
    BY <1>1, <1>2, <1>3, PTL DEF SafeSpec

-----------------------------------------------------------------------------
(***************************************************************************)
(* The refinement.  It is of ObjectStore's single operations, so it is     *)
(* about transactions of one call each.  Texts are not damaged, nothing is *)
(* evicted, and a put_many names a key once, as the mapping that           *)
(* ObjectStore.put_many is given does.                                     *)
(***************************************************************************)
OneCallEach ==
    /\ NoEvictions
    /\ Damaged = {}
    /\ MaxEnlisted <= 1
    /\ \A c \in Calls : c.op = "put_many" =>
         \A i, j \in DOMAIN c.entries :
             c.entries[i].key = c.entries[j].key => i = j

Batches == UNION {[ks -> Reference] : ks \in SUBSET Keys}

(* The objects that one operation stores and the keys that it binds.       *)
OneOperation(refs, f) ==
    \/ refs = {f[k] : k \in DOMAIN f}
    \/ DOMAIN f = {} /\ \E r \in Reference : refs = {r}
    \/ refs = {} /\ \E k \in Keys : DOMAIN f = {k}

(* A transaction has written what the operation would write, up to what    *)
(* was there already, and its caller will know what it would answer.       *)
WroteAndTells(s, answer, refs, f) ==
    /\ newObjects[s] \subseteq refs
    /\ \A r \in refs : There(s, r)
    /\ \A k \in Keys : newBindings[s][k] # None =>
         k \in DOMAIN f /\ newBindings[s][k] = f[k]
    /\ \A k \in DOMAIN f : Seen(s, k) # None
    /\ answer.stored = refs
    /\ answer.told = {<<k, life[k], Seen(s, k)>> : k \in DOMAIN f}

AmountsToOne(s, answer) ==
    \E refs \in SUBSET Reference, f \in Batches :
        OneOperation(refs, f) /\ WroteAndTells(s, answer, refs, f)

(* A call writes rows it was given, and nobody else writes in its          *)
(* transaction.                                                            *)
WritesOwnRows(s) ==
    /\ \A r \in newObjects[s] :
         /\ call[s].op \in {"put", "put_many"}
         /\ \E i \in DOMAIN Entries(s) : Entries(s)[i].ref = r
    /\ \A k \in Keys : newBindings[s][k] # None =>
         /\ BindsKeys(s)
         /\ \E i \in DOMAIN Entries(s) :
              Entries(s)[i].key = k /\ Entries(s)[i].ref = newBindings[s][k]

OneCall(s) ==
    /\ enlisted[s] <= 1
    /\ pc[s] = "open" => enlisted[s] = 1 /\ AmountsToOne(s, heard[s])
    /\ pc[s] = "idle" => newObjects[s] = {}
    /\ InCall(s) => heard[s] = Nothing /\ WritesOwnRows(s)
    /\ pc[s] = "commit" =>
         /\ call[s].op \in {"put", "bind", "put_many"}
         /\ BindsKeys(s) =>
              \A i \in DOMAIN Entries(s) : got[s][Entries(s)[i].key] # None
    /\ pc[s] # "conflict"

(* Texts are what was stored, and what was read is there.                  *)
TextsKept ==
    /\ \A r \in Reference : objects[r] \in {None, r.hash}
    /\ \A s \in Sessions, r \in Reference :
         text[s][r] # None => text[s][r] = r.hash /\ There(s, r)

StoreInv ==
    /\ Inv
    /\ ObjectInv
    /\ \A s \in Sessions : StaysBound(s)
    /\ \A k \in Keys : life[k] = 0
    /\ TextsKept
    /\ \A s \in Sessions : OneCall(s)

(* What a transaction amounts to does not change while others take steps.  *)
LEMMA AmountsStays ==
    ASSUME NEW s \in Sessions, NEW a, AmountsToOne(s, a),
           newObjects'[s] = newObjects[s], newBindings'[s] = newBindings[s],
           ObjectsStay, UNCHANGED life,
           \A k \in Keys : bindings[k] # None => bindings'[k] = bindings[k]
    PROVE  AmountsToOne(s, a)'
<1>1. PICK refs \in SUBSET Reference, f \in Batches :
          OneOperation(refs, f) /\ WroteAndTells(s, a, refs, f)
    BY DEF AmountsToOne
<1>2. DOMAIN f \subseteq Keys
    BY DEF Batches
<1>3. \A r : There(s, r) => There(s, r)'
    BY ThereStays
<1>4. ASSUME NEW k \in DOMAIN f
      PROVE  Seen(s, k)' = Seen(s, k) /\ Seen(s, k) # None
    BY <1>1, <1>2 DEF WroteAndTells, Seen
<1>5. {<<k, life'[k], Seen(s, k)'>> : k \in DOMAIN f}
        = {<<k, life[k], Seen(s, k)>> : k \in DOMAIN f}
    BY <1>4
<1>6. /\ newObjects'[s] \subseteq refs
      /\ \A r \in refs : There(s, r)'
      /\ \A k \in Keys : newBindings'[s][k] # None =>
           k \in DOMAIN f /\ newBindings'[s][k] = f[k]
      /\ \A k \in DOMAIN f : Seen(s, k)' # None
      /\ a.stored = refs
      /\ a.told = {<<k, life'[k], Seen(s, k)'>> : k \in DOMAIN f}
    BY <1>1, <1>3, <1>4, <1>5 DEF WroteAndTells
<1>7. WroteAndTells(s, a, refs, f)'
    BY <1>6 DEF WroteAndTells
<1> QED
    BY <1>1, <1>7 DEF AmountsToOne

(* What a call has read of a bound key is what it sees.                    *)
LEMMA GotIsSeen ==
    ASSUME StoreInv, NEW s \in Sessions, NEW k \in Keys,
           got[s][k] # None, got[s][k].ref # None
    PROVE  /\ got[s][k].life = life[k] /\ got[s][k].ref = Seen(s, k)
           /\ got[s][k].ref \in Reference
           /\ newBindings[s][k] = None => bindings[k] = got[s][k].ref
<1>1. PICK n, r : n = got[s][k].life /\ r = got[s][k].ref
    OBVIOUS
<1>2. n \in Nat /\ r \in Reference /\ life[k] = 0 /\ Knows(s, k, n, r)
    BY <1>1 DEF StoreInv, Inv, Types, Read, Knows
<1>3. ASSUME ~Private(s, k, n)
      PROVE  n = 0 /\ bindings[k] = r
    <2>1. Public(k, n, r)
        BY <1>2, <1>3 DEF Public
    <2>2. n <= life[k] /\ (n = life[k] => bindings[k] = r)
        BY <1>2, <2>1 DEF StoreInv, Inv, PublicAgrees
    <2> QED
        BY <1>2, <2>2
<1>4. n = 0
    BY <1>2, <1>3 DEF Private
<1>5. CASE newBindings[s][k] = None
    BY <1>1, <1>2, <1>3, <1>4, <1>5 DEF Private, Seen
<1>6. CASE newBindings[s][k] # None
    <2>1. r = newBindings[s][k]
        BY <1>2, <1>4, <1>6 DEF StoreInv, Inv, PrivateAgrees
    <2> QED
        BY <1>1, <1>2, <1>4, <1>6, <2>1 DEF Seen
<1> QED
    BY <1>5, <1>6

(* A key is one entry's, in a bind or a put_many.                          *)
LEMMA EntryOfKey ==
    ASSUME OneCallEach, NEW s \in Sessions, call[s] \in Calls, BindsKeys(s)
    PROVE  \A i, j \in DOMAIN Entries(s) :
               Entries(s)[i].key = Entries(s)[j].key => i = j
<1>1. CASE call[s].op = "put_many"
    BY <1>1 DEF OneCallEach, Entries
<1>2. CASE call[s].op = "bind"
    <2>1. Len(Entries(s)) = 1 /\ Entries(s) \in Seq(Entry)
        BY <1>2, EntriesAssumption, EntriesListed DEF Entries
    <2> QED
        BY <2>1
<1> QED
    BY <1>1, <1>2 DEF BindsKeys

(* What a call that binds answers for its keys.                            *)
LEMMA ToldByIsSeen ==
    ASSUME StoreInv, NEW s \in Sessions, pc[s] = "commit", BindsKeys(s),
           NEW ks, ks = {Entries(s)[i].key : i \in DOMAIN Entries(s)}
    PROVE  /\ ks \subseteq Keys
           /\ \A k \in ks : Seen(s, k) # None
           /\ ToldBy(s) = {<<k, life[k], Seen(s, k)>> : k \in ks}
<1>1. call[s] \in Calls /\ ReadsItsKeys(s) /\ Types
    BY DEF StoreInv, Inv, SessionOK, AtStatement, InCall
<1>2. ks \subseteq Keys
    BY <1>1, EntriesListed DEF BindsKeys
<1>3. \A k \in Keys : got[s][k] # None <=> k \in ks
    BY <1>1 DEF ReadsItsKeys, StoreInv, OneCall
<1>4. ASSUME NEW k \in ks
      PROVE  /\ got[s][k].life = life[k] /\ got[s][k].ref = Seen(s, k)
             /\ Seen(s, k) # None
    <2>1. k \in Keys /\ got[s][k] # None /\ got[s][k].ref # None
        BY <1>1, <1>2, <1>3 DEF ReadsItsKeys
    <2> QED
        BY <2>1, GotIsSeen
<1>5. {j \in Keys : got[s][j] # None} = ks
    BY <1>2, <1>3
<1>6. ToldBy(s) = {<<k, got[s][k].life, got[s][k].ref>> : k \in ks}
    BY <1>5 DEF ToldBy
<1>7. ToldBy(s) = {<<k, life[k], Seen(s, k)>> : k \in ks}
    BY <1>4, <1>6
<1> QED
    BY <1>2, <1>4, <1>7

(* A put, bind or put_many that is about to commit amounts to one.         *)
LEMMA AnswerAmounts ==
    ASSUME OneCallEach, StoreInv, NEW s \in Sessions, pc[s] = "commit"
    PROVE  AmountsToOne(s, Answer(s))
<1>1. /\ call[s] \in Calls /\ call[s].op \in {"put", "bind", "put_many"}
      /\ WritesOwnRows(s) /\ ReadsItsKeys(s) /\ Written(s) /\ Types
    BY DEF StoreInv, Inv, SessionOK, AtStatement, InCall, OneCall, ObjectInv
<1>2. PICK refs : refs = {Entries(s)[i].ref : i \in DOMAIN Entries(s)}
    OBVIOUS
<1>3. /\ \A i \in DOMAIN Entries(s) : Entries(s)[i].ref \in Reference
      /\ Entries(s) \in Seq(Entry)
      /\ refs \in SUBSET Reference
    BY <1>1, <1>2, EntriesListed
<1>4. call[s].op \in {"put", "put_many"} =>
          {ObjectRows(s)[i] : i \in DOMAIN ObjectRows(s)} = refs
    BY <1>2 DEF ObjectRows
<1>5. call[s].op \in {"put", "put_many"} =>
          newObjects[s] \subseteq refs /\ \A r \in refs : There(s, r)
    BY <1>1, <1>2 DEF WritesOwnRows, Written, InCall
<1>6. CASE call[s].op = "put"
    <2>1. PICK f : f = [k \in {} |-> None]
        OBVIOUS
    <2>2. f \in Batches /\ DOMAIN f = {}
        BY <2>1 DEF Batches
    <2>3. \E r \in Reference : refs = {r}
        <3>1. Len(Entries(s)) = 1
            BY <1>1, <1>6, EntriesAssumption DEF Entries
        <3>2. DOMAIN Entries(s) = {1}
            BY <1>3, <3>1
        <3> QED
            BY <1>2, <1>3, <3>2
    <2>4. \A k \in Keys : newBindings[s][k] = None
        BY <1>1, <1>6 DEF WritesOwnRows, BindsKeys
    <2>5. ToldBy(s) = {}
        BY <1>1, <1>6 DEF ReadsItsKeys, BeforeFetch, ToldBy, NoKeys
    <2>6. Answer(s).told = {} /\ Answer(s).stored = refs
        BY <1>4, <1>6, <2>5 DEF Answer
    <2>7. WroteAndTells(s, Answer(s), refs, f)
        BY <1>5, <1>6, <2>2, <2>4, <2>6 DEF WroteAndTells
    <2> QED
        BY <1>3, <2>2, <2>3, <2>7 DEF AmountsToOne, OneOperation
<1>7. CASE BindsKeys(s)
    <2>1. PICK ks : ks = {Entries(s)[i].key : i \in DOMAIN Entries(s)}
        OBVIOUS
    <2>2. /\ ks \subseteq Keys /\ \A k \in ks : Seen(s, k) # None
          /\ ToldBy(s) = {<<k, life[k], Seen(s, k)>> : k \in ks}
        BY <1>7, <2>1, ToldByIsSeen
    <2>3. PICK at : /\ at \in [ks -> DOMAIN Entries(s)]
                    /\ \A k \in ks : Entries(s)[at[k]].key = k
        <3> DEFINE at ==
              [k \in ks |-> CHOOSE i \in DOMAIN Entries(s) :
                                Entries(s)[i].key = k]
        <3>1. \A k \in ks : \E i \in DOMAIN Entries(s) : Entries(s)[i].key = k
            BY <2>1
        <3>2. at \in [ks -> DOMAIN Entries(s)]
              /\ \A k \in ks : Entries(s)[at[k]].key = k
            BY <3>1
        <3> QED
            BY <3>2
    <2>4. \A i \in DOMAIN Entries(s) : at[Entries(s)[i].key] = i
        BY <1>1, <1>7, <2>1, <2>3, EntryOfKey
    <2>5. PICK f : f = [k \in ks |-> Entries(s)[at[k]].ref]
        OBVIOUS
    <2>6. f \in [ks -> Reference] /\ DOMAIN f = ks
        BY <1>3, <2>3, <2>5
    <2>7. f \in Batches
        BY <2>2, <2>6 DEF Batches
    <2>8. ASSUME NEW k \in Keys, newBindings[s][k] # None
          PROVE  k \in DOMAIN f /\ newBindings[s][k] = f[k]
        <3>1. PICK i \in DOMAIN Entries(s) :
                  /\ Entries(s)[i].key = k
                  /\ Entries(s)[i].ref = newBindings[s][k]
            BY <1>1, <2>8 DEF WritesOwnRows
        <3>2. k \in ks /\ at[k] = i
            BY <2>1, <2>4, <3>1
        <3> QED
            BY <2>5, <2>6, <3>1, <3>2
    <2>9. Answer(s).told = {<<k, life[k], Seen(s, k)>> : k \in DOMAIN f}
        BY <2>2, <2>6 DEF Answer
    <2>10. CASE call[s].op = "put_many"
        <3>1. Answer(s).stored = refs
            BY <1>4, <2>10 DEF Answer
        <3>2. refs = {f[k] : k \in DOMAIN f}
            <4>1. ASSUME NEW i \in DOMAIN Entries(s)
                  PROVE  /\ Entries(s)[i].key \in DOMAIN f
                         /\ f[Entries(s)[i].key] = Entries(s)[i].ref
                BY <2>1, <2>4, <2>5, <2>6
            <4>2. ASSUME NEW k \in DOMAIN f
                  PROVE  f[k] \in refs
                BY <1>2, <2>3, <2>5, <2>6
            <4> QED
                BY <1>2, <4>1, <4>2
        <3>3. WroteAndTells(s, Answer(s), refs, f)
            BY <1>5, <2>2, <2>6, <2>8, <2>9, <2>10, <3>1 DEF WroteAndTells
        <3> QED
            BY <1>3, <2>7, <3>2, <3>3 DEF AmountsToOne, OneOperation
    <2>11. CASE call[s].op = "bind"
        <3>1. Answer(s).stored = {}
            BY <2>11 DEF Answer
        <3>2. newObjects[s] = {}
            BY <1>1, <2>11 DEF WritesOwnRows
        <3>3. \E k \in Keys : DOMAIN f = {k}
            <4>1. Len(Entries(s)) = 1
                BY <1>1, <2>11, EntriesAssumption DEF Entries
            <4>2. DOMAIN Entries(s) = {1}
                BY <1>3, <4>1
            <4>3. ks = {Entries(s)[1].key}
                BY <2>1, <4>2
            <4> QED
                BY <2>2, <2>6, <4>3
        <3>4. WroteAndTells(s, Answer(s), {}, f)
            BY <2>2, <2>6, <2>8, <2>9, <3>1, <3>2 DEF WroteAndTells
        <3>5. OneOperation({}, f)
            BY <3>3 DEF OneOperation
        <3> QED
            BY <2>7, <3>4, <3>5 DEF AmountsToOne
    <2> QED
        BY <1>7, <2>10, <2>11 DEF BindsKeys
<1> QED
    BY <1>1, <1>6, <1>7 DEF BindsKeys

(* A call begins a transaction.                                            *)
LEMMA BeginOneCall ==
    ASSUME OneCallEach, StoreInv, NEW s \in Sessions, NEW c \in Calls,
           BeginAwaited(s, c) \/ BeginEnlisted(s, c)
    PROVE  OneCall(s)'
<1>1. Types /\ SessionOK(s) /\ OneCall(s) /\ MaxEnlisted \in Nat
      /\ MaxEnlisted <= 1
    BY BackendAssumption DEF StoreInv, Inv, OneCallEach
<1>2. /\ pc[s] \in {"idle", "open"}
      /\ pc[s] = "open" => enlisted[s] < MaxEnlisted
      /\ enlisted' \in {enlisted, [enlisted EXCEPT ![s] = @ + 1]}
      /\ pc'[s] = FirstStatement(c.op)
      /\ UNCHANGED <<newObjects, newBindings, heard>>
    BY <1>1 DEF BeginAwaited, BeginEnlisted, Begin, Goto, txnVars, Types
<1>3. pc[s] = "idle" /\ enlisted[s] \in Nat
    BY <1>1, <1>2 DEF OneCall, Types
<1>4. /\ newObjects'[s] = {} /\ newBindings'[s] = NoKeys
      /\ heard'[s] = Nothing /\ enlisted[s] = 0
    BY <1>1, <1>2, <1>3 DEF OneCall, SessionOK, EvictsAlone
<1>5. enlisted'[s] <= 1
    BY <1>1, <1>2, <1>4 DEF Types
<1>6. WritesOwnRows(s)'
    BY <1>4 DEF WritesOwnRows, NoKeys
<1>7. pc'[s] \in {"insert_objects", "insert_bindings", "delete",
                  "fetch_bindings"}
    BY <1>2 DEF FirstStatement
<1> QED
    BY <1>4, <1>5, <1>6, <1>7 DEF OneCall

(* A step within a call that writes no rows.                               *)
LEMMA MovesOneCall ==
    ASSUME StoreInv, NEW s \in Sessions, InCall(s), InCall(s)',
           enlisted'[s] = enlisted[s], heard'[s] = heard[s],
           call'[s] = call[s], newObjects'[s] = newObjects[s],
           newBindings'[s] = newBindings[s],
           pc'[s] # "conflict",
           pc'[s] = "commit" =>
               /\ call[s].op \in {"put", "bind", "put_many"}
               /\ BindsKeys(s) =>
                    \A i \in DOMAIN Entries(s) :
                        got'[s][Entries(s)[i].key] # None
    PROVE  OneCall(s)'
<1>1. OneCall(s) /\ WritesOwnRows(s)
    BY DEF StoreInv, OneCall
<1>2. Entries(s)' = Entries(s) /\ BindsKeys(s)' = BindsKeys(s)
    BY DEF Entries, BindsKeys
<1>3. WritesOwnRows(s)'
    BY <1>1, <1>2 DEF WritesOwnRows
<1> QED
    BY <1>1, <1>2, <1>3 DEF OneCall, InCall

(* INSERT writes a row the call was given.                                 *)
LEMMA InsertOneCall ==
    ASSUME StoreInv, NEW s \in Sessions, InsertObject(s) \/ InsertBinding(s)
    PROVE  OneCall(s)'
<1>1. Types /\ ObjectTypes /\ SessionOK(s) /\ OneCall(s)
    BY DEF StoreInv, Inv, ObjectInv
<1>2. /\ pc[s] \in {"insert_objects", "insert_bindings"} /\ UNCHANGED pc
      /\ UNCHANGED <<call, enlisted, heard, objects, bindings>>
    BY DEF InsertObject, InsertBinding, Advance, callerVars, rowVars
<1>3. call[s] \in Calls /\ WritesOwnRows(s) /\ pos[s] \in Nat
    BY <1>1, <1>2 DEF SessionOK, AtStatement, InCall, OneCall, Types
<1>4. Entries(s)' = Entries(s) /\ BindsKeys(s)' = BindsKeys(s)
    BY <1>2 DEF Entries, BindsKeys
<1>5. CASE InsertObject(s)
    <2>1. PICK r : r = ObjectRows(s)[pos[s] + 1]
        OBVIOUS
    <2>2. /\ pc[s] = "insert_objects" /\ pos[s] < Len(ObjectRows(s))
          /\ newObjects' = IF objects[r] = None
                    THEN [newObjects EXCEPT ![s] = @ \cup {r}] ELSE newObjects
          /\ UNCHANGED newBindings
        BY <1>5, <2>1 DEF InsertObject
    <2>3. call[s].op \in {"put", "put_many"}
        BY <1>1, <2>2 DEF SessionOK, AtStatement
    <2>4. pos[s] + 1 \in DOMAIN Entries(s) /\ r = Entries(s)[pos[s] + 1].ref
        <3>1. /\ Len(ObjectRows(s)) = Len(Entries(s))
              /\ Entries(s) \in Seq(Entry)
              /\ ObjectRows(s) = [i \in DOMAIN Entries(s) |-> Entries(s)[i].ref]
            BY <1>3, <2>3, EntriesListed DEF ObjectRows
        <3> QED
            BY <1>3, <2>1, <2>2, <3>1
    <2>5. newObjects'[s] \subseteq newObjects[s] \cup {r}
        BY <1>1, <2>2 DEF ObjectTypes
    <2>6. WritesOwnRows(s)'
        BY <1>2, <1>3, <1>4, <2>2, <2>3, <2>4, <2>5 DEF WritesOwnRows
    <2> QED
        BY <1>1, <1>2, <2>6 DEF OneCall, InCall
<1>6. CASE InsertBinding(s)
    <2>1. PICK e : e = Entries(s)[pos[s] + 1]
        OBVIOUS
    <2>2. /\ pc[s] = "insert_bindings" /\ pos[s] < Len(Entries(s))
          /\ newBindings' = IF Seen(s, e.key) = None
                      THEN [newBindings EXCEPT ![s][e.key] = e.ref]
                      ELSE newBindings
          /\ UNCHANGED newObjects
        BY <1>6, <2>1 DEF InsertBinding
    <2>3. BindsKeys(s)
        BY <1>1, <2>2 DEF SessionOK, AtStatement, BindsKeys
    <2>4. pos[s] + 1 \in DOMAIN Entries(s)
        BY <1>3, <2>2, EntriesListed
    <2>5. \A k \in Keys : \/ newBindings'[s][k] = newBindings[s][k]
                          \/ k = e.key /\ newBindings'[s][k] = e.ref
        BY <1>1, <2>2 DEF Types
    <2>6. WritesOwnRows(s)'
        BY <1>2, <1>3, <1>4, <2>1, <2>2, <2>3, <2>4, <2>5 DEF WritesOwnRows
    <2> QED
        BY <1>1, <1>2, <2>6 DEF OneCall, InCall
<1> QED
    BY <1>5, <1>6

(* A call goes from one statement to the next.                             *)
LEMMA StatementOneCall ==
    ASSUME OneCallEach, StoreInv, NEW s \in Sessions,
           \/ ObjectsInserted(s) \/ FetchObjects(s) \/ ObjectsFetched(s)
           \/ BindingsInserted(s) \/ FetchBindings(s) \/ BindingsFetched(s)
    PROVE  OneCall(s)'
<1>1. Types /\ ObjectTypes /\ SessionOK(s) /\ StaysBound(s) /\ TextsKept
    BY DEF StoreInv, Inv, ObjectInv
<1>2. /\ UNCHANGED <<call, newObjects, newBindings, enlisted, heard>>
      /\ pc[s] \in {"insert_objects", "fetch_objects", "insert_bindings",
                    "fetch_bindings"}
    BY DEF ObjectsInserted, FetchObjects, ObjectsFetched, BindingsInserted,
           FetchBindings, BindingsFetched, txnVars, callerVars
<1>3. InCall(s) /\ call[s] \in Calls
    BY <1>1, <1>2 DEF SessionOK, AtStatement, InCall
<1>4. ASSUME InCall(s)', pc'[s] # "conflict",
             pc'[s] = "commit" =>
                 /\ call[s].op \in {"put", "bind", "put_many"}
                 /\ BindsKeys(s) =>
                      \A i \in DOMAIN Entries(s) :
                          got'[s][Entries(s)[i].key] # None
      PROVE  OneCall(s)'
    BY <1>2, <1>3, <1>4, MovesOneCall
<1>5. CASE ObjectsInserted(s)
    <2>1. \/ pc'[s] = "commit" /\ call[s].op = "put"
          \/ pc'[s] = "fetch_objects"
        BY <1>1, <1>5 DEF ObjectsInserted, GotoList, Goto, Types
    <2> QED
        BY <1>4, <2>1 DEF InCall, BindsKeys
<1>6. CASE FetchObjects(s) \/ FetchBindings(s)
    <2>1. pc'[s] = pc[s] /\ pc[s] \in {"fetch_objects", "fetch_bindings"}
        BY <1>6 DEF FetchObjects, FetchBindings, Advance
    <2> QED
        BY <1>4, <2>1 DEF InCall
<1>7. CASE ObjectsFetched(s)
    <2>1. /\ pc[s] = "fetch_objects"
          /\ pc'[s] \in {"reply", "assert", "conflict", "commit",
                         "insert_bindings"}
          /\ pc'[s] = "commit" => call[s].op = "put"
          /\ pc'[s] = "conflict" =>
                /\ call[s].op # "get_many"
                /\ \E i \in DOMAIN ObjectRows(s) :
                      text[s][ObjectRows(s)[i]] # ObjectRows(s)[i].hash
        BY <1>1, <1>7 DEF ObjectsFetched, GotoList, Goto, Types
    <2>2. ASSUME pc'[s] = "conflict" PROVE FALSE
        <3>1. PICK i \in DOMAIN ObjectRows(s) :
                  text[s][ObjectRows(s)[i]] # ObjectRows(s)[i].hash
            BY <2>1, <2>2
        <3>2. text[s][ObjectRows(s)[i]] # None
            BY <1>7, <2>1, <2>2, <3>1, AllFetched DEF StoreInv
        <3>3. ObjectRows(s)[i] \in Reference
            BY <1>1, <2>1, <3>1, RowsListed
        <3> QED
            BY <1>1, <3>1, <3>2, <3>3 DEF TextsKept
    <2> QED
        BY <1>4, <2>1, <2>2 DEF InCall, BindsKeys
<1>8. CASE BindingsInserted(s)
    <2>1. pc'[s] = "fetch_bindings"
        BY <1>1, <1>8 DEF BindingsInserted, GotoList, Goto, Types
    <2> QED
        BY <1>4, <2>1 DEF InCall
<1>9. CASE BindingsFetched(s)
    <2>1. /\ pc[s] = "fetch_bindings" /\ pos[s] = Len(Entries(s))
          /\ pc'[s] \in {"fetch_objects", "assert", "commit"}
          /\ pc'[s] = "commit" => call[s].op # "get_many"
          /\ UNCHANGED got
        BY <1>1, <1>9 DEF BindingsFetched, GotoList, Goto, Types, localVars
    <2>2. ASSUME pc'[s] = "commit"
          PROVE  /\ call[s].op \in {"put", "bind", "put_many"}
                 /\ \A i \in DOMAIN Entries(s) :
                        got[s][Entries(s)[i].key] # None
        <3>1. BindsKeys(s)
            BY <1>1, <2>1, <2>2 DEF SessionOK, AtStatement, BindsKeys
        <3>2. \A i \in DOMAIN Entries(s) : i <= pos[s]
            BY <1>3, <2>1, EntriesListed
        <3> QED
            BY <1>1, <2>1, <3>1, <3>2 DEF StaysBound, BindsKeys
    <2> QED
        BY <1>4, <2>1, <2>2 DEF InCall
<1> QED
    BY <1>5, <1>6, <1>7, <1>8, <1>9

(* A transaction ends.                                                     *)
LEMMA EndOneCall ==
    ASSUME StoreInv, NEW s \in Sessions, EndSession(s)
    PROVE  OneCall(s)'
<1>1. pc'[s] = "idle" /\ newObjects'[s] = {} /\ enlisted'[s] = 0
    BY DEF StoreInv, Inv, Types, ObjectInv, ObjectTypes, EndSession, EndCall
<1> QED
    BY <1>1 DEF OneCall, InCall

(* An enlisted call that has written amounts to one operation.             *)
LEMMA ReturnsOneCall ==
    ASSUME OneCallEach, StoreInv, NEW s \in Sessions, EnlistedReturns(s)
    PROVE  OneCall(s)'
<1>1. Types /\ OneCall(s) /\ pc[s] = "commit" /\ enlisted[s] > 0
    BY DEF StoreInv, Inv, EnlistedReturns
<1>2. /\ pc'[s] = "open"
      /\ UNCHANGED <<objects, bindings, life, newObjects, newBindings,
                     enlisted>>
    BY <1>1 DEF EnlistedReturns, EndCall, rowVars, txnVars, Types
<1>3. enlisted'[s] = 1
    BY <1>1, <1>2 DEF OneCall, Types
<1>4. PICK told1, stored1 : told1 = Answer(s).told /\ stored1 = Answer(s).stored
    OBVIOUS
<1>5. Answer(s) = [told |-> told1, stored |-> stored1]
    BY <1>4 DEF Answer
<1>6. heard[s] = Nothing
    BY <1>1 DEF OneCall, InCall
<1>7. heard'[s] = [told |-> heard[s].told \cup told1,
                   stored |-> heard[s].stored \cup stored1]
    BY <1>1, <1>4 DEF EnlistedReturns, Types
<1>8. heard[s].told = {} /\ heard[s].stored = {}
    BY <1>6 DEF Nothing
<1>9. heard'[s] = Answer(s)
    BY <1>5, <1>7, <1>8
<1>10. PICK a : a = Answer(s)
    OBVIOUS
<1>11. AmountsToOne(s, a)
    BY <1>1, <1>10, AnswerAmounts
<1>12. ObjectsStay
    BY <1>2 DEF ObjectsStay
<1>13. AmountsToOne(s, a)'
    BY <1>2, <1>11, <1>12, AmountsStays
<1>14. a = heard'[s]
    BY <1>9, <1>10
<1>15. AmountsToOne(s, heard[s])'
    BY <1>13, <1>14 DEF AmountsToOne, WroteAndTells
<1> QED
    BY <1>2, <1>3, <1>15 DEF OneCall, InCall

(* An enlisted get_many leaves nothing to commit.                          *)
LEMMA RepliesOneCall ==
    ASSUME StoreInv, NEW s \in Sessions, EnlistedReplies(s)
    PROVE  OneCall(s)'
<1>1. /\ Types /\ OneCall(s) /\ SessionOK(s) /\ pc[s] = "reply"
      /\ enlisted[s] > 0
    BY DEF StoreInv, Inv, EnlistedReplies
<1>2. /\ pc'[s] = "open" /\ heard'[s] = heard[s]
      /\ UNCHANGED <<newObjects, newBindings, enlisted>>
    BY <1>1 DEF EnlistedReplies, EndCall, callerVars, txnVars, Types
<1>3. enlisted'[s] = 1
    BY <1>1, <1>2 DEF OneCall, Types
<1>4. heard[s] = Nothing /\ WritesOwnRows(s) /\ call[s].op = "get_many"
    BY <1>1 DEF OneCall, InCall, SessionOK, AtStatement
<1>5. newObjects'[s] = {} /\ \A k \in Keys : newBindings'[s][k] = None
    BY <1>2, <1>4 DEF WritesOwnRows, BindsKeys
<1>6. PICK f : f = [k \in {} |-> None]
    OBVIOUS
<1>7. f \in Batches /\ DOMAIN f = {}
    BY <1>6, ZenonT(60) DEF Batches
<1>8. heard'[s].told = {} /\ heard'[s].stored = {}
    BY <1>2, <1>4 DEF Nothing
<1>9. WroteAndTells(s, heard[s], {}, f)'
    BY <1>5, <1>7, <1>8 DEF WroteAndTells
<1>10. OneOperation({}, f)
    BY <1>7 DEF OneOperation
<1>11. AmountsToOne(s, heard[s])'
    BY <1>7, <1>9, <1>10 DEF AmountsToOne
<1> QED
    BY <1>2, <1>3, <1>11 DEF OneCall, InCall

(* A session's own step.                                                   *)
LEMMA OwnOneCall ==
    ASSUME OneCallEach, StoreInv, NEW s \in Sessions, SessionStep(s)
    PROVE  OneCall(s)'
<1>1. Types /\ SessionOK(s) /\ OneCall(s) /\ StaysBound(s)
      /\ MaxEnlisted \in Nat /\ MaxEnlisted <= 1
    BY BackendAssumption DEF StoreInv, Inv, OneCallEach
<1>2. CASE \E c \in Calls : BeginAwaited(s, c) \/ BeginEnlisted(s, c)
    BY <1>2, BeginOneCall
<1>3. CASE \/ \E k \in Keys : ResolveEnlisted(s, k)
           \/ \E ref \in Reference : GetEnlisted(s, ref)
    <2>1. pc[s] = "open" /\ enlisted[s] < MaxEnlisted
        BY <1>3 DEF ResolveEnlisted, GetEnlisted
    <2> QED
        BY <1>1, <2>1 DEF OneCall
<1>4. CASE InsertObject(s) \/ InsertBinding(s)
    BY <1>4, InsertOneCall
<1>5. CASE \/ ObjectsInserted(s) \/ FetchObjects(s) \/ ObjectsFetched(s)
           \/ BindingsInserted(s) \/ FetchBindings(s) \/ BindingsFetched(s)
    BY <1>5, StatementOneCall
<1>6. CASE DeleteStart(s) \/ DeleteEnd(s) \/ \E k \in Keys : DeleteRow(s, k)
    <2>1. pc[s] \in {"delete", "deleting"}
        BY <1>6 DEF DeleteStart, DeleteEnd, DeleteRow
    <2> QED
        BY <1>1, <2>1
           DEF SessionOK, AtStatement, InCall, OneCallEach, NoEvictions
<1>7. CASE \/ Commit(s) \/ CallerCommits(s) \/ Reply(s) \/ Rollback(s)
           \/ CallerRollsBack(s) \/ DeadlockVictim(s) \/ Disconnect(s)
    <2>1. EndSession(s)
        BY <1>7 DEF Commit, CallerCommits, CommitWith, Reply, Rollback,
                    CallerRollsBack, DeadlockVictim, Disconnect, Lose
    <2> QED
        BY <2>1, EndOneCall
<1>8. CASE EnlistedReturns(s)
    BY <1>8, ReturnsOneCall
<1>9. CASE EnlistedReplies(s)
    BY <1>9, RepliesOneCall
<1>10. CASE EnlistedRaises(s)
    BY <1>1, <1>10 DEF EnlistedRaises, OneCall, StaysBound
<1> QED
    BY <1>2, <1>3, <1>4, <1>5, <1>6, <1>7, <1>8, <1>9, <1>10
       DEF SessionStep, Caller, Statement

(* A session's step leaves the others' count of enlisted calls alone.      *)
LEMMA OnlyOwnCount ==
    ASSUME Types, NEW s \in Sessions, SessionStep(s), NEW t \in Sessions \ {s}
    PROVE  enlisted'[t] = enlisted[t]
<1>1. CASE \/ \E c \in Calls : BeginAwaited(s, c) \/ BeginEnlisted(s, c)
           \/ \E k \in Keys : ResolveEnlisted(s, k)
           \/ \E ref \in Reference : GetEnlisted(s, ref)
    BY <1>1 DEF BeginAwaited, BeginEnlisted, ResolveEnlisted, GetEnlisted, Types
<1>2. CASE \/ InsertObject(s) \/ ObjectsInserted(s) \/ FetchObjects(s)
           \/ ObjectsFetched(s) \/ InsertBinding(s) \/ BindingsInserted(s)
           \/ FetchBindings(s) \/ BindingsFetched(s) \/ DeleteStart(s)
           \/ DeleteEnd(s) \/ \E k \in Keys : DeleteRow(s, k)
    BY <1>2 DEF InsertObject, ObjectsInserted, FetchObjects, ObjectsFetched,
                InsertBinding, BindingsInserted, FetchBindings,
                BindingsFetched, DeleteStart, DeleteEnd, DeleteRow, callerVars
<1>3. CASE \/ Commit(s) \/ CallerCommits(s) \/ Reply(s) \/ Rollback(s)
           \/ CallerRollsBack(s) \/ DeadlockVictim(s) \/ Disconnect(s)
    BY <1>3 DEF Commit, CallerCommits, CommitWith, Reply, Rollback,
                CallerRollsBack, DeadlockVictim, Disconnect, Lose, EndSession,
                Types
<1>4. CASE EnlistedReturns(s) \/ EnlistedReplies(s) \/ EnlistedRaises(s)
    BY <1>4 DEF EnlistedReturns, EnlistedReplies, EnlistedRaises, callerVars
<1> QED
    BY <1>1, <1>2, <1>3, <1>4 DEF SessionStep, Caller, Statement

(* What another session does.                                              *)
LEMMA OtherOneCall ==
    ASSUME NEW t \in Sessions, OneCall(t), SameLocal(t),
           enlisted'[t] = enlisted[t], ObjectsStay, UNCHANGED life,
           \A k \in Keys : bindings[k] # None => bindings'[k] = bindings[k]
    PROVE  OneCall(t)'
<1>1. PICK a : a = heard[t]
    OBVIOUS
<1>2. Entries(t)' = Entries(t) /\ BindsKeys(t)' = BindsKeys(t)
    BY DEF SameLocal, Entries, BindsKeys
<1>3. ASSUME pc[t] = "open" PROVE AmountsToOne(t, heard[t])'
    <2>1. AmountsToOne(t, a)
        BY <1>1, <1>3 DEF OneCall
    <2>2. AmountsToOne(t, a)'
        BY <2>1, AmountsStays DEF SameLocal
    <2>3. a = heard'[t]
        BY <1>1 DEF SameLocal
    <2> QED
        BY <2>2, <2>3 DEF AmountsToOne, WroteAndTells
<1>4. ASSUME WritesOwnRows(t) PROVE WritesOwnRows(t)'
    BY <1>2, <1>4 DEF WritesOwnRows, SameLocal
<1> QED
    BY <1>2, <1>3, <1>4 DEF OneCall, SameLocal, InCall

(* Without evictions and damage, rows keep their texts, keys their lives.  *)
LEMMA RowsKept ==
    ASSUME OneCallEach, StoreInv, [Next]_vars
    PROVE  /\ ObjectsStay /\ UNCHANGED life
           /\ \A k \in Keys : bindings[k] # None => bindings'[k] = bindings[k]
           /\ \A r \in Reference : objects'[r] \in {None, r.hash}
<1>1. Types /\ ObjectTypes /\ TextsKept
    BY DEF StoreInv, Inv, ObjectInv
<1>2. /\ \A s \in Sessions : deleted[s] = {}
      /\ \A k \in Keys : bindings[k] # None => bindings'[k] = bindings[k]
    BY NothingDeleted DEF OneCallEach, StoreInv
<1>3. ASSUME UNCHANGED <<objects, life>>
      PROVE  /\ ObjectsStay /\ UNCHANGED life
             /\ \A r \in Reference : objects'[r] \in {None, r.hash}
    BY <1>1, <1>3 DEF TextsKept, ObjectsStay
<1>4. ASSUME NEW s \in Sessions, NEW a, CommitWith(s, a)
      PROVE  /\ ObjectsStay /\ UNCHANGED life
             /\ \A r \in Reference : objects'[r] \in {None, r.hash}
    <2>1. /\ objects' = [r \in Reference |->
                IF r \in newObjects[s] THEN r.hash ELSE objects[r]]
          /\ life' = [k \in Keys |->
                life[k] + IF k \in deleted[s] THEN 1 ELSE 0]
        BY <1>4 DEF CommitWith
    <2>2. UNCHANGED life
        BY <1>1, <1>2, <2>1 DEF Types
    <2>3. \A r \in Reference : r.hash # None
        BY NoneAssumption DEF Reference, Texts
    <2>4. ObjectsStay
        BY <2>1, <2>3 DEF ObjectsStay
    <2> QED
        BY <1>1, <2>1, <2>2, <2>4 DEF TextsKept
<1>5. CASE \E s \in Sessions : SessionStep(s)
    <2>1. PICK s \in Sessions : SessionStep(s)
        BY <1>5
    <2>2. CASE Commit(s) \/ CallerCommits(s)
        BY <1>2, <1>4, <2>2 DEF Commit, CallerCommits
    <2>3. CASE ~Commit(s) /\ ~CallerCommits(s)
        BY <1>2, <1>3, <2>1, <2>3, RowsWritten
    <2> QED
        BY <2>2, <2>3
<1>6. CASE ~\E s \in Sessions : SessionStep(s)
    <2>1. UNCHANGED <<objects, life>>
        BY <1>6 DEF Next, SessionStep, Resolve, Get, Damage, vars, rowVars,
                    OneCallEach
    <2> QED
        BY <1>2, <1>3, <2>1
<1> QED
    BY <1>5, <1>6

(* What a session reads of an object is there.                             *)
LEMMA OwnTexts ==
    ASSUME OneCallEach, StoreInv, NEW s \in Sessions, SessionStep(s),
           ObjectsStay, NEW r \in Reference, text'[s][r] # None
    PROVE  text'[s][r] = r.hash /\ There(s, r)'
<1>1. Types /\ ObjectTypes /\ TextsKept
    BY DEF StoreInv, Inv, ObjectInv
<1>2. CASE text'[s][r] = text[s][r] /\ newObjects[s] \subseteq newObjects'[s]
    BY <1>1, <1>2, ThereStays DEF TextsKept
<1>3. CASE FetchObjects(s)
    <2>1. PICK chunk : chunk = Chunk(s, ObjectRows(s))
        OBVIOUS
    <2>2. /\ text' = [text EXCEPT ![s] =
                [q \in Reference |->
                    IF q \notin chunk THEN text[s][q]
                    ELSE IF q \in newObjects[s] THEN q.hash ELSE objects[q]]]
          /\ UNCHANGED <<objects, newObjects>>
        BY <1>3, <2>1 DEF FetchObjects, rowVars, txnVars
    <2>3. text'[s][r] = IF r \notin chunk THEN text[s][r]
                        ELSE IF r \in newObjects[s] THEN r.hash ELSE objects[r]
        BY <1>1, <2>2 DEF ObjectTypes
    <2> QED
        BY <1>1, <2>2, <2>3 DEF TextsKept, There
<1>4. CASE EndCall(s, "idle") \/ EndCall(s, "open")
    BY <1>1, <1>4 DEF EndCall, NoTexts, ObjectTypes
<1>5. CASE InsertObject(s)
    BY <1>1, <1>2, <1>5 DEF InsertObject, localVars, ObjectTypes
<1>6. CASE UNCHANGED <<text, newObjects>>
    BY <1>2, <1>6
<1> QED
    BY <1>3, <1>4, <1>5, <1>6
       DEF SessionStep, Caller, Statement, BeginAwaited, BeginEnlisted, Begin,
           ResolveEnlisted, GetEnlisted, ObjectsInserted, ObjectsFetched,
           InsertBinding, BindingsInserted, FetchBindings, BindingsFetched,
           DeleteStart, DeleteRow, DeleteEnd, Commit, CallerCommits, CommitWith,
           Reply, Rollback, CallerRollsBack, EnlistedReturns, EnlistedReplies,
           EnlistedRaises, DeadlockVictim, Disconnect, Lose, EndSession,
           txnVars, localVars

(* Every step keeps the refinement's invariant.                            *)
LEMMA NextStoreInv ==
    ASSUME OneCallEach, StoreInv, [Next]_vars
    PROVE  StoreInv'
<1>1. Inv' /\ ObjectInv' /\ \A s \in Sessions : StaysBound(s)'
    BY NextInv, NextObjects, NextStaysBound DEF StoreInv, OneCallEach
<1>2. /\ ObjectsStay /\ UNCHANGED life
      /\ \A k \in Keys : bindings[k] # None => bindings'[k] = bindings[k]
      /\ \A r \in Reference : objects'[r] \in {None, r.hash}
    BY RowsKept
<1>3. ASSUME NEW t \in Sessions
      PROVE  \/ SessionStep(t)
             \/ SameLocal(t) /\ enlisted'[t] = enlisted[t]
    <2>1. CASE \E s \in Sessions : SessionStep(s)
        BY <2>1, OnlyOwn, OnlyOwnCount DEF StoreInv, Inv, ObjectInv
    <2>2. CASE ~\E s \in Sessions : SessionStep(s)
        BY <2>2 DEF Next, SessionStep, Resolve, Get, Damage, vars, txnVars,
                    localVars, callerVars, SameLocal
    <2> QED
        BY <2>1, <2>2
<1>4. ASSUME NEW t \in Sessions PROVE OneCall(t)'
    BY <1>2, <1>3, OwnOneCall, OtherOneCall DEF StoreInv
<1>5. ASSUME NEW t \in Sessions, NEW r \in Reference, text'[t][r] # None
      PROVE  text'[t][r] = r.hash /\ There(t, r)'
    <2>1. CASE SessionStep(t)
        BY <1>2, <1>5, <2>1, OwnTexts
    <2>2. CASE SameLocal(t)
        BY <1>2, <1>5, <2>2, ThereStays DEF StoreInv, TextsKept, SameLocal
    <2> QED
        BY <1>3, <2>1, <2>2
<1>6. TextsKept'
    BY <1>2, <1>5 DEF TextsKept
<1> QED
    BY <1>1, <1>2, <1>4, <1>6 DEF StoreInv

(* The refinement's invariant holds before the first call.                 *)
LEMMA InitStoreInv ==
    ASSUME Init PROVE StoreInv
<1>1. Inv /\ ObjectInv /\ \A s \in Sessions : StaysBound(s)
    BY InitInv, InitObjects, InitStaysBound
<1>2. TextsKept /\ \A k \in Keys : life[k] = 0
    BY DEF Init, TextsKept, NoTexts
<1>3. ASSUME NEW s \in Sessions PROVE OneCall(s)
    BY DEF Init, OneCall, InCall
<1> QED
    BY <1>1, <1>2, <1>3 DEF StoreInv

-----------------------------------------------------------------------------
(* What ObjectStore's caller was told: the pairs of the current lives.     *)
StoreTold == {<<p[1], p[3]>> : p \in {q \in told : q[2] = life[q[1]]}}

(* Everything told is of a key's one life, so what is told is added.       *)
LEMMA TellsStore ==
    ASSUME StoreInv, UNCHANGED life, NEW N, told' = told \cup N,
           \A p \in N : p[2] = life[p[1]]
    PROVE  StoreTold' = StoreTold \cup {<<p[1], p[3]>> : p \in N}
<1>1. {q \in told' : q[2] = life'[q[1]]}
        = {q \in told : q[2] = life[q[1]]} \cup N
    OBVIOUS
<1> QED
    BY <1>1 DEF StoreTold

(* A commit of a transaction of one call is one operation.                 *)
LEMMA CommitMaps ==
    ASSUME OneCallEach, StoreInv, UNCHANGED life, NEW s \in Sessions, NEW a,
           AmountsToOne(s, a), CommitWith(s, a), deleted[s] = {}
    PROVE  Store!Next
<1>1. Types /\ ObjectTypes /\ TextsKept /\ Locks
    BY DEF StoreInv, Inv, ObjectInv
<1>2. PICK refs \in SUBSET Reference, f \in Batches :
          OneOperation(refs, f) /\ WroteAndTells(s, a, refs, f)
    BY DEF AmountsToOne
<1>3. DOMAIN f \subseteq Keys /\ \A k \in DOMAIN f : f[k] \in Reference
    BY <1>2 DEF Batches
<1>4. /\ objects' = [r \in Reference |->
              IF r \in newObjects[s] THEN r.hash ELSE objects[r]]
      /\ bindings' = [k \in Keys |->
              IF k \in deleted[s] THEN None
              ELSE IF newBindings[s][k] # None THEN newBindings[s][k]
              ELSE bindings[k]]
      /\ stored' = stored \cup a.stored
      /\ told' = told \cup a.told
      /\ UNCHANGED reads
    BY DEF CommitWith
<1>5. ASSUME NEW r \in Reference
      PROVE  objects'[r] = IF r \in refs THEN r.hash ELSE objects[r]
    BY <1>1, <1>2, <1>4 DEF WroteAndTells, TextsKept, There
<1>6. objects' = [r \in Reference |-> IF r \in refs THEN r.hash ELSE objects[r]]
    BY <1>4, <1>5
<1>7. ASSUME NEW k \in Keys
      PROVE  /\ bindings'[k] = Seen(s, k)
             /\ bindings'[k] = IF k \in DOMAIN f /\ bindings[k] = None
                               THEN f[k] ELSE bindings[k]
    <2>1. bindings'[k] = Seen(s, k)
        BY <1>4 DEF Seen
    <2>2. CASE newBindings[s][k] # None
        <3>1. k \in DOMAIN f /\ newBindings[s][k] = f[k]
            BY <1>2, <2>2 DEF WroteAndTells
        <3>2. bindings[k] = None
            BY <1>1, <2>2 DEF Locks
        <3> QED
            BY <2>1, <2>2, <3>1, <3>2 DEF Seen
    <2>3. CASE newBindings[s][k] = None
        <3>1. k \in DOMAIN f => bindings[k] # None
            BY <1>2, <2>3 DEF WroteAndTells, Seen
        <3> QED
            BY <2>1, <2>3, <3>1 DEF Seen
    <2> QED
        BY <2>2, <2>3, <2>1
<1>8. bindings' = [k \in Keys |-> IF k \in DOMAIN f /\ bindings[k] = None
                                  THEN f[k] ELSE bindings[k]]
    BY <1>4, <1>7
<1>9. stored' = stored \cup refs
    BY <1>2, <1>4 DEF WroteAndTells
<1>10. StoreTold' = StoreTold \cup {<<k, bindings'[k]>> : k \in DOMAIN f}
    <2>1. a.told = {<<k, life[k], bindings'[k]>> : k \in DOMAIN f}
        BY <1>2, <1>3, <1>7 DEF WroteAndTells
    <2>2. PICK N : N = {<<k, life[k], bindings'[k]>> : k \in DOMAIN f}
        OBVIOUS
    <2>3. \A p \in N : p[2] = life[p[1]]
        BY <2>2
    <2>4. StoreTold' = StoreTold \cup {<<p[1], p[3]>> : p \in N}
        BY <1>4, <2>1, <2>2, <2>3, TellsStore
    <2>5. {<<p[1], p[3]>> : p \in N} = {<<k, bindings'[k]>> : k \in DOMAIN f}
        <3>1. ASSUME NEW p \in N
              PROVE  \E k \in DOMAIN f : <<p[1], p[3]>> = <<k, bindings'[k]>>
            BY <2>2
        <3>2. ASSUME NEW k \in DOMAIN f
              PROVE  \E p \in N : <<p[1], p[3]>> = <<k, bindings'[k]>>
            <4>1. PICK p \in N : p = <<k, life[k], bindings'[k]>>
                BY <2>2
            <4>2. p[1] = k /\ p[3] = bindings'[k]
                BY <4>1
            <4> QED
                BY <4>2
        <3> QED
            BY <3>1, <3>2
    <2> QED
        BY <2>4, <2>5
<1>11. \A r \in Reference : objects[r] \in {None, r.hash}
    BY <1>1 DEF TextsKept
<1>12. CASE refs = {f[k] : k \in DOMAIN f}
    <2>1. Store!PutMany(f)
        BY <1>2, <1>4, <1>6, <1>8, <1>9, <1>10, <1>11, <1>12
           DEF Store!PutMany, Store!Reference, StoreTold, Reference
    <2>2. f \in Store!Batches
        BY <1>2 DEF Store!Batches, Batches, Store!Reference, Reference
    <2> QED
        BY <2>1, <2>2 DEF Store!Next, Store!Operation
<1>13. CASE DOMAIN f = {} /\ \E r \in Reference : refs = {r}
    <2>1. PICK r \in Reference : refs = {r}
        BY <1>13
    <2>2. r.schema \in Schemas /\ r.hash \in Records
          /\ r = [schema |-> r.schema, hash |-> r.hash]
        BY <2>1 DEF Reference
    <2>3. UNCHANGED <<bindings, reads>> /\ StoreTold' = StoreTold
        BY <1>1, <1>4, <1>8, <1>10, <1>13 DEF Types
    <2>4. objects' = IF objects[r] = None
                     THEN [objects EXCEPT ![r] = r.hash] ELSE objects
        BY <1>1, <1>6, <1>11, <2>1 DEF ObjectTypes
    <2>5. stored' = IF objects[r] \in {None, r.hash}
                    THEN stored \cup {r} ELSE stored
        BY <1>9, <1>11, <2>1
    <2>6. Store!Put(r.schema, r.hash)
        BY <2>2, <2>3, <2>4, <2>5 DEF Store!Put, Store!Ref, StoreTold
    <2> QED
        BY <2>2, <2>6 DEF Store!Next, Store!Operation
<1>14. CASE refs = {} /\ \E k \in Keys : DOMAIN f = {k}
    <2>1. PICK k \in Keys : DOMAIN f = {k}
        BY <1>14
    <2>2. UNCHANGED <<objects, reads, stored>>
        BY <1>1, <1>4, <1>6, <1>9, <1>14 DEF ObjectTypes
    <2>3. bindings' = IF bindings[k] = None
                      THEN [bindings EXCEPT ![k] = f[k]] ELSE bindings
        BY <1>1, <1>8, <2>1 DEF Types
    <2>4. StoreTold' = StoreTold \cup {<<k, bindings'[k]>>}
        BY <1>10, <2>1
    <2>5. Store!Bind(k, f[k])
        BY <2>2, <2>3, <2>4 DEF Store!Bind, StoreTold
    <2>6. f[k] \in Store!Reference
        BY <1>3, <2>1 DEF Store!Reference, Reference
    <2> QED
        BY <2>1, <2>5, <2>6 DEF Store!Next, Store!Operation
<1> QED
    BY <1>2, <1>12, <1>13, <1>14 DEF OneOperation

(* An answer of get_many is one of an atomic get_many.                     *)
LEMMA ReplyMaps ==
    ASSUME OneCallEach, StoreInv, NEW s \in Sessions, pc[s] = "reply",
           Replies(s), UNCHANGED <<objects, bindings, life, stored>>
    PROVE  Store!Next \/ UNCHANGED Store!vars
<1>1. Types /\ ObjectTypes /\ TextsKept /\ SessionOK(s) /\ WritesOwnRows(s)
    BY DEF StoreInv, Inv, ObjectInv, OneCall, InCall
<1>2. call[s] \in Calls /\ call[s].op = "get_many"
    BY <1>1 DEF SessionOK, AtStatement, InCall
<1>3. newObjects[s] = {} /\ \A k \in Keys : newBindings[s][k] = None
    BY <1>1, <1>2 DEF WritesOwnRows, BindsKeys
<1>4. CASE \E k \in Hits(s) : ~Verified(s, k)
    <2>1. UNCHANGED <<reads, told>>
        BY <1>4 DEF Replies
    <2> QED
        BY <2>1 DEF Store!vars
<1>5. CASE \A k \in Hits(s) : Verified(s, k)
    <2>1. Hits(s) \subseteq Keys
        BY DEF Hits
    <2>2. ASSUME NEW k \in Hits(s)
          PROVE  /\ got[s][k].life = life[k] /\ got[s][k].ref = bindings[k]
                 /\ bindings[k] # None /\ bindings[k].schema = call[s].schema
                 /\ bindings[k].hash = objects[bindings[k]]
                 /\ text[s][bindings[k]] = objects[bindings[k]]
                 /\ objects[bindings[k]] # None
        <3>1. k \in Keys /\ got[s][k] # None /\ got[s][k].ref # None
            BY DEF Hits
        <3>2. PICK r : r = got[s][k].ref
            OBVIOUS
        <3>3. r \in Reference /\ bindings[k] = r /\ got[s][k].life = life[k]
            BY <1>3, <3>1, <3>2, GotIsSeen
        <3>4. r.schema = call[s].schema /\ text[s][r] = r.hash
            BY <1>5, <3>2 DEF Verified
        <3>5. r.hash # None
            BY <3>3, NoneAssumption DEF Reference, Texts
        <3>6. objects[r] # None
            BY <1>1, <1>3, <3>3, <3>4, <3>5 DEF TextsKept, There
        <3>7. objects[r] = r.hash
            BY <1>1, <3>3, <3>6 DEF TextsKept
        <3> QED
            BY <3>1, <3>2, <3>3, <3>4, <3>6, <3>7
    <2>3. reads' = reads \cup
              {<<bindings[k], objects[bindings[k]]>> : k \in Hits(s)}
        <3>1. reads' = reads \cup
                  {<<got[s][k].ref, text[s][got[s][k].ref]>> : k \in Hits(s)}
            BY <1>5 DEF Replies
        <3>2. {<<got[s][k].ref, text[s][got[s][k].ref]>> : k \in Hits(s)}
                = {<<bindings[k], objects[bindings[k]]>> : k \in Hits(s)}
            BY <2>2
        <3> QED
            BY <3>1, <3>2
    <2>4. PICK N : N = {<<k, life[k], bindings[k]>> : k \in Hits(s)}
        OBVIOUS
    <2>5. told' = told \cup N
        <3>1. told' = told \cup {p \in ToldBy(s) :
                                   p[3] # None /\ newBindings[s][p[1]] = None}
            BY <1>5 DEF Replies
        <3>2. ASSUME NEW p \in ToldBy(s), p[3] # None PROVE p \in N
            <4>1. PICK k \in Keys : /\ got[s][k] # None
                                    /\ p = <<k, got[s][k].life, got[s][k].ref>>
                BY DEF ToldBy
            <4>2. k \in Hits(s)
                BY <3>2, <4>1 DEF Hits
            <4> QED
                BY <2>2, <2>4, <4>1, <4>2
        <3>3. ASSUME NEW k \in Hits(s)
              PROVE  \E p \in ToldBy(s) :
                        /\ p[3] # None /\ newBindings[s][p[1]] = None
                        /\ p = <<k, life[k], bindings[k]>>
            <4>1. k \in Keys /\ got[s][k] # None
                BY DEF Hits
            <4>2. <<k, life[k], bindings[k]>> \in ToldBy(s)
                BY <2>2, <4>1 DEF ToldBy
            <4> QED
                BY <1>3, <2>2, <4>1, <4>2
        <3> QED
            BY <2>4, <3>1, <3>2, <3>3
    <2>6. StoreTold' = StoreTold \cup {<<k, bindings[k]>> : k \in Hits(s)}
        <3>1. \A p \in N : p[2] = life[p[1]]
            BY <2>4
        <3>2. StoreTold' = StoreTold \cup {<<p[1], p[3]>> : p \in N}
            BY <2>5, <3>1, TellsStore
        <3>3. {<<p[1], p[3]>> : p \in N} = {<<k, bindings[k]>> : k \in Hits(s)}
            <4>1. ASSUME NEW p \in N
                  PROVE  \E k \in Hits(s) : <<p[1], p[3]>> = <<k, bindings[k]>>
                BY <2>4
            <4>2. ASSUME NEW k \in Hits(s)
                  PROVE  \E p \in N : <<p[1], p[3]>> = <<k, bindings[k]>>
                <5>1. PICK p \in N : p = <<k, life[k], bindings[k]>>
                    BY <2>4
                <5>2. p[1] = k /\ p[3] = bindings[k]
                    BY <5>1
                <5> QED
                    BY <5>2
            <4> QED
                BY <4>1, <4>2
        <3> QED
            BY <3>2, <3>3
    <2>7. {k \in Hits(s) : bindings[k] # None} = Hits(s)
        BY <2>2
    <2>8. PICK ks, schema : ks = Hits(s) /\ schema = call[s].schema
        OBVIOUS
    <2>9. Store!GetMany(ks, schema)
        BY <2>2, <2>3, <2>6, <2>7, <2>8
           DEF Store!GetMany, Store!Verifies, StoreTold
    <2>10. ks \in SUBSET Keys /\ schema \in Schemas
        BY <1>2, <2>1, <2>8, BackendAssumption DEF Call
    <2> QED
        BY <2>9, <2>10 DEF Store!Next, Store!Operation
<1> QED
    BY <1>4, <1>5

(* A step is one of ObjectStore's operations, or nothing there changes.    *)
LEMMA StepMaps ==
    ASSUME OneCallEach, StoreInv, [Next]_vars
    PROVE  [Store!Next]_(Store!vars)
<1>1. UNCHANGED life /\ Types /\ \A s \in Sessions : deleted[s] = {}
    BY RowsKept, NothingDeleted DEF StoreInv, Inv, OneCallEach
<1>2. CASE \E s \in Sessions : SessionStep(s)
    <2>1. PICK s \in Sessions : SessionStep(s)
        BY <1>2
    <2>2. CASE Commit(s)
        <3>1. PICK a : a = Answer(s)
            OBVIOUS
        <3>2. AmountsToOne(s, a) /\ CommitWith(s, a)
            BY <2>2, <3>1, AnswerAmounts DEF Commit
        <3> QED
            BY <1>1, <3>2, CommitMaps
    <2>3. CASE CallerCommits(s)
        <3>1. PICK a : a = heard[s]
            OBVIOUS
        <3>2. AmountsToOne(s, a) /\ CommitWith(s, a)
            BY <2>3, <3>1 DEF CallerCommits, StoreInv, OneCall
        <3> QED
            BY <1>1, <3>2, CommitMaps
    <2>4. CASE Reply(s) \/ EnlistedReplies(s)
        <3>1. pc[s] = "reply" /\ Replies(s)
              /\ UNCHANGED <<objects, bindings, life, stored>>
            BY <2>4 DEF Reply, EnlistedReplies, rowVars
        <3> QED
            BY <3>1, ReplyMaps
    <2>5. CASE \E ref \in Reference : GetEnlisted(s, ref)
        <3>1. pc[s] = "open" /\ enlisted[s] < MaxEnlisted
            BY <2>5 DEF GetEnlisted
        <3> QED
            BY <3>1, BackendAssumption DEF StoreInv, OneCall, OneCallEach
    <2>6. CASE /\ ~Commit(s) /\ ~CallerCommits(s) /\ ~Reply(s)
               /\ ~EnlistedReplies(s)
               /\ ~\E ref \in Reference : GetEnlisted(s, ref)
        <3>1. UNCHANGED <<objects, bindings, life, stored>>
            BY <2>1, <2>6, RowsWritten
        <3>2. UNCHANGED <<reads, told>>
            BY <2>1, <2>6
               DEF SessionStep, Caller, Statement, BeginAwaited, BeginEnlisted,
                   Begin, ResolveEnlisted, InsertObject, ObjectsInserted,
                   FetchObjects, ObjectsFetched, InsertBinding,
                   BindingsInserted, FetchBindings, BindingsFetched,
                   DeleteStart, DeleteRow, DeleteEnd, Rollback,
                   CallerRollsBack, EnlistedReturns, EnlistedRaises,
                   DeadlockVictim, Disconnect, Lose, toldVars
        <3> QED
            BY <3>1, <3>2 DEF Store!vars
    <2> QED
        BY <2>2, <2>3, <2>4, <2>5, <2>6
<1>3. CASE \E k \in Keys : Resolve(k)
    <2>1. PICK k \in Keys : Resolve(k)
        BY <1>3
    <2>2. PICK N : N = {<<k, life[k], bindings[k]>>}
        OBVIOUS
    <2>3. /\ bindings[k] # None /\ told' = told \cup N
          /\ UNCHANGED <<objects, bindings, reads, stored>>
        BY <2>1, <2>2 DEF Resolve, rowVars
    <2>4. StoreTold' = StoreTold \cup {<<p[1], p[3]>> : p \in N}
        BY <1>1, <2>2, <2>3, TellsStore
    <2>5. {<<p[1], p[3]>> : p \in N} = {<<k, bindings[k]>>}
        BY <2>2
    <2>6. Store!Resolve(k)
        BY <2>3, <2>4, <2>5 DEF Store!Resolve, StoreTold
    <2> QED
        BY <2>6 DEF Store!Next, Store!Operation
<1>4. CASE \E ref \in Reference : Get(ref)
    <2>1. PICK ref \in Reference : Get(ref)
        BY <1>4
    <2>2. ref.hash # None /\ ref \in Store!Reference
        BY <2>1, NoneAssumption DEF Reference, Texts, Store!Reference
    <2>3. Store!Get(ref)
        BY <2>1, <2>2 DEF Get, Store!Get, Store!Verifies, rowVars
    <2> QED
        BY <2>2, <2>3 DEF Store!Next, Store!Operation
<1>5. CASE UNCHANGED vars
    BY <1>5 DEF vars, rowVars, toldVars, Store!vars
<1> QED
    BY <1>2, <1>3, <1>4, <1>5 DEF Next, SessionStep, OneCallEach

(***************************************************************************)
(* With one call to a transaction, no evictions and no damage, concurrent  *)
(* sessions with their statements, chunks, waits, deadlocks, rollbacks and *)
(* broken connections implement ObjectStore over atomic operations: every  *)
(* commit is one put, bind or put_many, and every answer of get_many is    *)
(* the one an atomic get_many would give at that moment.                   *)
(***************************************************************************)
THEOREM ImplementsAtomicStore ==
    ASSUME OneCallEach PROVE SafeSpec => ImplementsStore
<1>1. Init => StoreInv
    BY InitStoreInv
<1>2. StoreInv /\ [Next]_vars => StoreInv'
    BY NextStoreInv
<1>3. Init => Store!Init
    BY DEF Init, Store!Init, NoTexts, NoKeys, Store!Reference, Reference
<1>4. StoreInv /\ [Next]_vars => [Store!Next]_(Store!vars)
    BY StepMaps
<1> QED
    BY <1>1, <1>2, <1>3, <1>4, PTL DEF SafeSpec, ImplementsStore, Store!Spec

-----------------------------------------------------------------------------
(* Every verified read returned the record its reference is the hash of.   *)
ReadsVerified == \A p \in reads : p[2] = p[1].hash

(* Only verified texts are returned.                                       *)
LEMMA NextReads ==
    ASSUME ReadsVerified, [Next]_vars
    PROVE  ReadsVerified'
<1>1. CASE UNCHANGED reads
    BY <1>1 DEF ReadsVerified
<1>2. ASSUME NEW s \in Sessions, Replies(s)
      PROVE  ReadsVerified'
    <2>1. CASE \A k \in Hits(s) : Verified(s, k)
        <3>1. reads' = reads \cup
                  {<<got[s][k].ref, text[s][got[s][k].ref]>> : k \in Hits(s)}
            BY <1>2, <2>1 DEF Replies
        <3>2. \A k \in Hits(s) : text[s][got[s][k].ref] = got[s][k].ref.hash
            BY <2>1 DEF Verified
        <3> QED
            BY <3>1, <3>2 DEF ReadsVerified
    <2> QED
        BY <1>1, <1>2, <2>1 DEF Replies
<1>3. ASSUME NEW ref \in Reference, Get(ref)
      PROVE  ReadsVerified'
    BY <1>3 DEF Get, ReadsVerified
<1>4. ASSUME NEW s \in Sessions, NEW ref \in Reference, GetEnlisted(s, ref)
      PROVE  ReadsVerified'
    BY <1>4 DEF GetEnlisted, ReadsVerified
<1>5. CASE \E s \in Sessions : SessionStep(s)
    <2>1. PICK s \in Sessions : SessionStep(s)
        BY <1>5
    <2>2. CASE Reply(s) \/ EnlistedReplies(s)
        BY <1>2, <2>2 DEF Reply, EnlistedReplies
    <2>3. CASE \E ref \in Reference : GetEnlisted(s, ref)
        BY <1>4, <2>3
    <2>4. CASE /\ ~Reply(s) /\ ~EnlistedReplies(s)
               /\ ~\E ref \in Reference : GetEnlisted(s, ref)
        <3>1. UNCHANGED reads
            BY <2>1, <2>4
               DEF SessionStep, Caller, Statement, BeginAwaited, BeginEnlisted,
                   Begin, ResolveEnlisted, InsertObject, ObjectsInserted,
                   FetchObjects, ObjectsFetched, InsertBinding,
                   BindingsInserted, FetchBindings, BindingsFetched,
                   DeleteStart, DeleteRow, DeleteEnd, Rollback,
                   CallerRollsBack, EnlistedReturns, EnlistedRaises, Commit,
                   CallerCommits, CommitWith, DeadlockVictim, Disconnect, Lose,
                   toldVars
        <3> QED
            BY <1>1, <3>1
    <2> QED
        BY <2>2, <2>3, <2>4
<1>6. CASE ~\E s \in Sessions : SessionStep(s)
    BY <1>1, <1>3, <1>6 DEF Next, SessionStep, Resolve, Damage, vars, toldVars
<1> QED
    BY <1>5, <1>6

(***************************************************************************)
(* The invariants of ObjectStore hold of the PostgreSQL backend beyond     *)
(* what the refinement covers: with evictions, damaged texts and callers'  *)
(* transactions of any number of calls, a reference means one record, what *)
(* put and put_many reported as stored stays, and what callers were told   *)
(* in a key's current life is the reference that is bound.                 *)
(***************************************************************************)
THEOREM StoreGuarantees ==
    SafeSpec => [](/\ Store!ReferenceMeansOneRecord
                   /\ Store!StoredStays
                   /\ Store!OneWinner)
<1>1. SafeSpec => []ReadsVerified
    <2>1. Init => ReadsVerified
        BY DEF Init, ReadsVerified
    <2> QED
        BY <2>1, NextReads, PTL DEF SafeSpec
<1>2. ReadsVerified => Store!ReferenceMeansOneRecord
    BY DEF ReadsVerified, Store!ReferenceMeansOneRecord
<1>3. Inv /\ ObjectInv => Store!StoredStays
    BY DEF ObjectInv, RowsThere, Store!StoredStays
<1>4. OneWinnerPerLife => Store!OneWinner
    BY DEF OneWinnerPerLife, Store!OneWinner
<1> QED
    BY <1>1, <1>2, <1>3, <1>4, ObjectsHold, FirstWriterWins, PTL
=============================================================================
