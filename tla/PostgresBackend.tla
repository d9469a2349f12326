-------------------------- MODULE PostgresBackend --------------------------
(***************************************************************************)
(* PostgresBackend (storage_backends/postgresql.py) under ObjectStore: the *)
(* statements of put, bind, put_many, evict_bindings, get_many, get and    *)
(* resolve, run by concurrent sessions at READ COMMITTED.                  *)
(*                                                                         *)
(*   INSERT ... ON CONFLICT  handles its rows one by one; for each it      *)
(*   DO NOTHING              waits for another transaction's uncommitted   *)
(*                           insert or delete of that row, then inserts    *)
(*                           it or, if it is committed, does nothing;      *)
(*   DELETE                  deletes the rows of its snapshot one by one,  *)
(*                           waiting for another's uncommitted delete and  *)
(*                           skipping a row that is gone by then;          *)
(*   SELECT                  reads what is committed when it starts, and   *)
(*                           the transaction's own writes.                 *)
(*                                                                         *)
(* A batch is split into statements of ChunkSize rows.  Writes become      *)
(* visible when the transaction commits, and go with its connection.       *)
(*                                                                         *)
(* An awaited operation has a transaction of its own.  An enlisted one     *)
(* runs in a transaction of its caller, who may make several such calls    *)
(* in it and then commits or rolls back, also after one of them raised.    *)
(***************************************************************************)
EXTENDS Naturals, Sequences, FiniteSets, SequencesExt

CONSTANTS
    Keys, Schemas, Records, Damaged, None,   \* as in ObjectStore
    Sessions,
    Calls,          \* the calls sessions make, see Call
    ChunkSize,      \* batch_chunk_size
    MaxLife,        \* bound on the committed evictions of a key
    MaxEnlisted,    \* bound on the enlisted calls in one transaction
    BindStoredOnly  \* do callers bind only references that put reported?

Reference == [schema : Schemas, hash : Records]
Texts == Records \cup Damaged

Entry == [key : Keys \cup {None}, ref : Reference \cup {None}]
Ops == {"put", "bind", "put_many", "evict", "get_many"}
Call == [op : Ops, schema : Schemas, entries : Seq(Entry), enlisted : BOOLEAN]

ASSUME BackendAssumption ==
    /\ Calls \subseteq Call
    /\ \A c \in Calls : c.enlisted => c.op # "evict"
    /\ MaxEnlisted \in Nat
    /\ ChunkSize \in Nat \ {0}
    /\ MaxLife \in Nat
    /\ BindStoredOnly \in BOOLEAN

(* A put or bind has one row.  Every row names its key, but for a put, and *)
(* what is written names its reference.                                    *)
ASSUME EntriesAssumption ==
    \A c \in Calls :
        /\ c.op \in {"put", "bind"} => Len(c.entries) = 1
        /\ \A i \in DOMAIN c.entries :
            /\ c.op # "put" => c.entries[i].key \in Keys
            /\ c.op \in {"put", "bind", "put_many"} =>
                    c.entries[i].ref \in Reference

Read == [life : Nat, ref : Reference \cup {None}]

ASSUME NoneAssumption == None \notin Reference \cup Texts \cup Read \cup Calls

VARIABLES
    objects,      \* committed object rows: text by reference, or None
    bindings,     \* committed binding rows: reference by key, or None
    life,         \* history: committed evictions of each key
    reads,        \* history: <<reference, record>> of every verified read
    stored,       \* history: references reported as stored
    told,         \* history: <<key, life, reference>> told to a caller
    evicted,      \* history: <<key, life>> pairs of each committed eviction
    pc, call,     \* the statement each session is at, and its call
    pos,          \* rows of the current list that are done
    enlisted,     \* enlisted calls made in the caller's transaction, 0 if none
    heard,        \* history: answers that hold once the caller commits
    newObjects,   \* external: references a session inserted, uncommitted
    newBindings,  \* external: bindings a session inserted, uncommitted
    deleted,      \* external: binding rows a session deleted, uncommitted
    todo,         \* external: rows of the running DELETE's snapshot to come
    got,          \* what a session read of each key: a Read, or None
    text          \* what a session read of each object

rowVars == <<objects, bindings, life>>
toldVars == <<reads, stored, told, evicted>>
txnVars == <<newObjects, newBindings, deleted, todo>>
localVars == <<got, text>>
callerVars == <<enlisted, heard>>
vars == <<rowVars, toldVars, pc, call, pos, txnVars, localVars, callerVars>>

NoKeys == [k \in Keys |-> None]
NoTexts == [r \in Reference |-> None]
Nothing == [told |-> {}, stored |-> {}]

Init ==
    /\ objects = NoTexts
    /\ bindings = NoKeys
    /\ life = [k \in Keys |-> 0]
    /\ reads = {} /\ stored = {} /\ told = {} /\ evicted = {}
    /\ pc = [s \in Sessions |-> "idle"]
    /\ call = [s \in Sessions |-> None]
    /\ pos = [s \in Sessions |-> 0]
    /\ enlisted = [s \in Sessions |-> 0]
    /\ heard = [s \in Sessions |-> Nothing]
    /\ newObjects = [s \in Sessions |-> {}]
    /\ newBindings = [s \in Sessions |-> NoKeys]
    /\ deleted = [s \in Sessions |-> {}]
    /\ todo = [s \in Sessions |-> {}]
    /\ got = [s \in Sessions |-> NoKeys]
    /\ text = [s \in Sessions |-> NoTexts]

-----------------------------------------------------------------------------
Goto(s, label) == pc' = [pc EXCEPT ![s] = label]
GotoList(s, label) == Goto(s, label) /\ pos' = [pos EXCEPT ![s] = 0]
Advance(s, n) == pos' = [pos EXCEPT ![s] = n] /\ UNCHANGED pc

Entries(s) == call[s].entries

(* The keys that a session has read as bound.                              *)
Hits(s) == {k \in Keys : got[s][k] # None /\ got[s][k].ref # None}

(* The references whose object rows the session inserts or fetches: those  *)
(* of its entries, or the distinct ones that get_many has read, as the     *)
(* database happened to order them.  (A repeated reference of put_many is  *)
(* one row to the code and a repeated row here, which the database treats  *)
(* alike.)                                                                 *)
ObjectRowsOfFirst(s) ==
    IF call[s].op # "get_many" THEN [i \in DOMAIN Entries(s) |-> Entries(s)[i].ref]
    ELSE LET bound == SetToSeq({got[s][k].ref : k \in Hits(s)})
         IN  [i \in DOMAIN bound \cap {1} |-> bound[i]]

ObjectRows(s) ==
    IF call[s].op # "get_many" THEN [i \in DOMAIN Entries(s) |-> Entries(s)[i].ref]
    ELSE SetToSeq({got[s][k].ref : k \in Hits(s)})

(* The rows of the next statement: at most ChunkSize of the list.          *)
ChunkEnd(s, rows) ==
    IF pos[s] + ChunkSize <= Len(rows) THEN pos[s] + ChunkSize ELSE Len(rows)
Chunk(s, rows) == {rows[i] : i \in (pos[s] + 1)..ChunkEnd(s, rows)}
KeysOf(entries) == {e.key : e \in entries}

(* What a SELECT of the session sees of a key.                             *)
SeenCommitted(s, k) == bindings[k]

Seen(s, k) ==
    IF newBindings[s][k] # None THEN newBindings[s][k] ELSE bindings[k]

(* Those whose uncommitted write of the row the session must wait out.     *)
ObjectWriters(s, r) == {t \in Sessions \ {s} : r \in newObjects[t]}
BindingWriters(s, k) ==
    {t \in Sessions \ {s} : newBindings[t][k] # None \/ k \in deleted[t]}

-----------------------------------------------------------------------------
FirstStatement(op) ==
    IF op \in {"put", "put_many"} THEN "insert_objects"
    ELSE IF op = "bind" THEN "insert_bindings"
    ELSE IF op = "evict" THEN "delete" ELSE "fetch_bindings"

Begin(s, c) ==
    /\ c.op = "bind" /\ BindStoredOnly =>
         c.entries[1].ref \in stored \cup heard[s].stored
    /\ call' = [call EXCEPT ![s] = c]
    /\ Goto(s, FirstStatement(c.op))
    /\ UNCHANGED <<rowVars, toldVars, pos, txnVars, localVars, heard>>

BeginAwaited(s, c) ==
    /\ pc[s] = "idle" /\ ~c.enlisted
    /\ c.op = "evict" =>
         \A i \in DOMAIN c.entries : life[c.entries[i].key] < MaxLife
    /\ Begin(s, c)
    /\ UNCHANGED enlisted

BeginEnlisted(s, c) ==
    /\ pc[s] \in {"idle", "open"} /\ c.enlisted
    /\ enlisted[s] < MaxEnlisted
    /\ enlisted' = [enlisted EXCEPT ![s] = @ + 1]
    /\ Begin(s, c)

(* One row of INSERT INTO objects.                                         *)
InsertObject(s) ==
    LET r == ObjectRows(s)[pos[s] + 1] IN
    /\ pc[s] = "insert_objects" /\ pos[s] < Len(ObjectRows(s))
    /\ ObjectWriters(s, r) = {}
    /\ newObjects' = IF objects[r] = None
                     THEN [newObjects EXCEPT ![s] = @ \cup {r}] ELSE newObjects
    /\ Advance(s, pos[s] + 1)
    /\ UNCHANGED <<rowVars, toldVars, call, newBindings, deleted, todo,
                   localVars, callerVars>>

(* put is done if its row was inserted; else, and in put_many always, the  *)
(* rows are read back.                                                     *)
ObjectsInserted(s) ==
    /\ pc[s] = "insert_objects" /\ pos[s] = Len(ObjectRows(s))
    /\ GotoList(s, IF call[s].op = "put" /\ Entries(s)[1].ref \in newObjects[s]
                   THEN "commit" ELSE "fetch_objects")
    /\ UNCHANGED <<rowVars, toldVars, call, txnVars, localVars, callerVars>>

FetchObjects(s) ==
    LET rows == ObjectRows(s)
        chunk == Chunk(s, rows) IN
    /\ pc[s] = "fetch_objects" /\ pos[s] < Len(rows)
    /\ text' = [text EXCEPT ![s] =
            [r \in Reference |->
                IF r \notin chunk THEN text[s][r]
                ELSE IF r \in newObjects[s] THEN r.hash ELSE objects[r]]]
    /\ Advance(s, ChunkEnd(s, rows))
    /\ UNCHANGED <<rowVars, toldVars, call, txnVars, got, callerVars>>

(* Every proposed object must be there ("assert") with the proposed text   *)
(* (ObjectConflictError).                                                  *)
ObjectsFetched(s) ==
    LET refs == {ObjectRows(s)[i] : i \in DOMAIN ObjectRows(s)} IN
    /\ pc[s] = "fetch_objects" /\ pos[s] = Len(ObjectRows(s))
    /\ GotoList(s,
         IF call[s].op = "get_many" THEN "reply"
         ELSE IF \E r \in refs : text[s][r] = None THEN "assert"
         ELSE IF \E r \in refs : text[s][r] # r.hash THEN "conflict"
         ELSE IF call[s].op = "put" THEN "commit" ELSE "insert_bindings")
    /\ UNCHANGED <<rowVars, toldVars, call, txnVars, localVars, callerVars>>

(* One row of INSERT INTO bindings.                                        *)
InsertBindingWithoutWaiting(s) ==
    LET e == Entries(s)[pos[s] + 1] IN
    /\ pc[s] = "insert_bindings" /\ pos[s] < Len(Entries(s))
    /\ newBindings' = IF Seen(s, e.key) = None
                      THEN [newBindings EXCEPT ![s][e.key] = e.ref]
                      ELSE newBindings
    /\ Advance(s, pos[s] + 1)
    /\ UNCHANGED <<rowVars, toldVars, call, newObjects, deleted, todo,
                   localVars, callerVars>>

InsertBindingOverwrites(s) ==
    LET e == Entries(s)[pos[s] + 1] IN
    /\ pc[s] = "insert_bindings" /\ pos[s] < Len(Entries(s))
    /\ BindingWriters(s, e.key) = {}
    /\ newBindings' = [newBindings EXCEPT ![s][e.key] = e.ref]
    /\ Advance(s, pos[s] + 1)
    /\ UNCHANGED <<rowVars, toldVars, call, newObjects, deleted, todo,
                   localVars, callerVars>>

InsertBinding(s) ==
    LET e == Entries(s)[pos[s] + 1] IN
    /\ pc[s] = "insert_bindings" /\ pos[s] < Len(Entries(s))
    /\ BindingWriters(s, e.key) = {}
    /\ newBindings' = IF Seen(s, e.key) = None
                      THEN [newBindings EXCEPT ![s][e.key] = e.ref]
                      ELSE newBindings
    /\ Advance(s, pos[s] + 1)
    /\ UNCHANGED <<rowVars, toldVars, call, newObjects, deleted, todo,
                   localVars, callerVars>>

BindingsInserted(s) ==
    /\ pc[s] = "insert_bindings" /\ pos[s] = Len(Entries(s))
    /\ GotoList(s, "fetch_bindings")
    /\ UNCHANGED <<rowVars, toldVars, call, txnVars, localVars, callerVars>>

FetchBindingsOneByOne(s) ==
    LET k == Entries(s)[pos[s] + 1].key IN
    /\ pc[s] = "fetch_bindings" /\ pos[s] < Len(Entries(s))
    /\ got' = [got EXCEPT ![s][k] = [life |-> life[k], ref |-> Seen(s, k)]]
    /\ Advance(s, pos[s] + 1)
    /\ UNCHANGED <<rowVars, toldVars, call, txnVars, text, callerVars>>

FetchBindings(s) ==
    LET chunk == KeysOf(Chunk(s, Entries(s))) IN
    /\ pc[s] = "fetch_bindings" /\ pos[s] < Len(Entries(s))
    /\ got' = [got EXCEPT ![s] =
            [k \in Keys |-> IF k \in chunk
                            THEN [life |-> life[k], ref |-> Seen(s, k)]
                            ELSE got[s][k]]]
    /\ Advance(s, ChunkEnd(s, Entries(s)))
    /\ UNCHANGED <<rowVars, toldVars, call, txnVars, text, callerVars>>

(* bind and put_many assert that every key they wrote is bound.            *)
BindingsFetched(s) ==
    /\ pc[s] = "fetch_bindings" /\ pos[s] = Len(Entries(s))
    /\ GotoList(s,
         IF call[s].op = "get_many" THEN "fetch_objects"
         ELSE IF \E i \in DOMAIN Entries(s) :
                    got[s][Entries(s)[i].key].ref = None
              THEN "assert" ELSE "commit")
    /\ UNCHANGED <<rowVars, toldVars, call, txnVars, localVars, callerVars>>

(* DELETE FROM bindings: its snapshot, and then its rows in any order.     *)
DeleteStart(s) ==
    /\ pc[s] = "delete" /\ pos[s] < Len(Entries(s))
    /\ todo' = [todo EXCEPT ![s] =
            {k \in KeysOf(Chunk(s, Entries(s))) : bindings[k] # None}]
    /\ Goto(s, "deleting")
    /\ UNCHANGED <<rowVars, toldVars, call, pos, newObjects, newBindings,
                   deleted, localVars, callerVars>>

DeleteRowWithoutWaiting(s, k) ==
    /\ pc[s] = "deleting" /\ k \in todo[s]
    /\ deleted' = [deleted EXCEPT ![s] = @ \cup {k}]
    /\ todo' = [todo EXCEPT ![s] = @ \ {k}]
    /\ UNCHANGED <<rowVars, toldVars, pc, call, pos, newObjects, newBindings,
                   localVars, callerVars>>

DeleteRow(s, k) ==
    /\ pc[s] = "deleting" /\ k \in todo[s]
    /\ BindingWriters(s, k) = {}
    /\ deleted' = [deleted EXCEPT ![s] = @ \cup {k}]
    /\ todo' = [todo EXCEPT ![s] = @ \ {k}]
    /\ UNCHANGED <<rowVars, toldVars, pc, call, pos, newObjects, newBindings,
                   localVars, callerVars>>

DeleteEnd(s) ==
    /\ pc[s] = "deleting" /\ todo[s] = {}
    /\ pos' = [pos EXCEPT ![s] = ChunkEnd(s, Entries(s))]
    /\ Goto(s, IF ChunkEnd(s, Entries(s)) = Len(Entries(s))
               THEN "commit" ELSE "delete")
    /\ UNCHANGED <<rowVars, toldVars, call, txnVars, localVars, callerVars>>

-----------------------------------------------------------------------------
(* The end of a call, and the end of a transaction: the connection goes    *)
(* back without any writes.                                                *)
EndCall(s, label) ==
    /\ pc' = [pc EXCEPT ![s] = label]
    /\ call' = [call EXCEPT ![s] = None]
    /\ pos' = [pos EXCEPT ![s] = 0]
    /\ got' = [got EXCEPT ![s] = NoKeys]
    /\ text' = [text EXCEPT ![s] = NoTexts]

EndSessionKeepsWrites(s) ==
    /\ EndCall(s, "idle")
    /\ enlisted' = [enlisted EXCEPT ![s] = 0]
    /\ heard' = [heard EXCEPT ![s] = Nothing]
    /\ UNCHANGED <<newObjects, newBindings, deleted>>

EndSession(s) ==
    /\ EndCall(s, "idle")
    /\ enlisted' = [enlisted EXCEPT ![s] = 0]
    /\ heard' = [heard EXCEPT ![s] = Nothing]
    /\ newObjects' = [newObjects EXCEPT ![s] = {}]
    /\ newBindings' = [newBindings EXCEPT ![s] = NoKeys]
    /\ deleted' = [deleted EXCEPT ![s] = {}]

ToldBy(s) ==
    {<<k, got[s][k].life, got[s][k].ref>> :
        k \in {j \in Keys : got[s][j] # None}}

Answer(s) ==
    [told |-> ToldBy(s),
     stored |-> IF call[s].op \in {"put", "put_many"}
                THEN {ObjectRows(s)[i] : i \in DOMAIN ObjectRows(s)} ELSE {}]

(* COMMIT.  A DELETE of another session that waited for a row deleted here *)
(* finds it gone.                                                          *)
CommitWith(s, answer) ==
    /\ objects' = [r \in Reference |->
            IF r \in newObjects[s] THEN r.hash ELSE objects[r]]
    /\ bindings' = [k \in Keys |->
            IF k \in deleted[s] THEN None
            ELSE IF newBindings[s][k] # None THEN newBindings[s][k]
            ELSE bindings[k]]
    /\ life' = [k \in Keys |-> life[k] + IF k \in deleted[s] THEN 1 ELSE 0]
    /\ stored' = stored \cup answer.stored
    /\ told' = told \cup answer.told
    /\ evicted' = evicted \cup ({{<<k, life[k]>> : k \in deleted[s]}} \ {{}})
    /\ todo' = [t \in Sessions |-> todo[t] \ deleted[s]]
    /\ EndSession(s)
    /\ UNCHANGED reads

(* An awaited operation commits and answers; an enlisted one only answers. *)
Commit(s) == pc[s] = "commit" /\ enlisted[s] = 0 /\ CommitWith(s, Answer(s))

EnlistedReturns(s) ==
    /\ pc[s] = "commit" /\ enlisted[s] > 0
    /\ heard' = [heard EXCEPT ![s] =
            [told |-> @.told \cup Answer(s).told,
             stored |-> @.stored \cup Answer(s).stored]]
    /\ EndCall(s, "open")
    /\ UNCHANGED <<rowVars, toldVars, txnVars, enlisted>>

CallerCommits(s) == pc[s] = "open" /\ CommitWith(s, heard[s])

CallerRollsBack(s) ==
    /\ pc[s] = "open"
    /\ EndSession(s)
    /\ UNCHANGED <<rowVars, toldVars, todo>>

(* get_many: every bound key must have the requested schema, an object and *)
(* a text that verifies; else an error and no answer.  In a caller's       *)
(* transaction the keys it has bound itself are its own affair until it    *)
(* commits.                                                                *)
Verified(s, k) ==
    LET ref == got[s][k].ref IN
    ref.schema = call[s].schema /\ text[s][ref] = ref.hash

Replies(s) ==
    IF \A k \in Hits(s) : Verified(s, k)
    THEN /\ reads' = reads \cup
                {<<got[s][k].ref, text[s][got[s][k].ref]>> : k \in Hits(s)}
         /\ told' = told \cup {p \in ToldBy(s) :
                                 p[3] # None /\ newBindings[s][p[1]] = None}
    ELSE UNCHANGED <<reads, told>>

Reply(s) ==
    /\ pc[s] = "reply" /\ enlisted[s] = 0
    /\ Replies(s)
    /\ EndSession(s)
    /\ UNCHANGED <<rowVars, stored, evicted, todo>>

EnlistedReplies(s) ==
    /\ pc[s] = "reply" /\ enlisted[s] > 0
    /\ Replies(s)
    /\ EndCall(s, "open")
    /\ UNCHANGED <<rowVars, stored, evicted, txnVars, callerVars>>

(* An AssertionError or ObjectConflictError leaves the block: ROLLBACK.    *)
(* From an enlisted call it goes to the caller, and the rows inserted so   *)
(* far stay in the caller's transaction.                                   *)
Rollback(s) ==
    /\ pc[s] \in {"assert", "conflict"} /\ enlisted[s] = 0
    /\ EndSession(s)
    /\ UNCHANGED <<rowVars, toldVars, todo>>

EnlistedRaises(s) ==
    /\ pc[s] \in {"assert", "conflict"} /\ enlisted[s] > 0
    /\ EndCall(s, "open")
    /\ UNCHANGED <<rowVars, toldVars, txnVars, callerVars>>

(* resolve and get, one SELECT each.  get prefers the row of its schema    *)
(* and falls back on any other of that hash, which does not verify.        *)
Resolve(k) ==
    /\ bindings[k] # None
    /\ told' = told \cup {<<k, life[k], bindings[k]>>}
    /\ UNCHANGED <<rowVars, reads, stored, evicted, pc, call, pos, txnVars,
                   localVars, callerVars>>

Get(ref) ==
    /\ objects[ref] = ref.hash
    /\ reads' = reads \cup {<<ref, objects[ref]>>}
    /\ UNCHANGED <<rowVars, stored, told, evicted, pc, call, pos, txnVars,
                   localVars, callerVars>>

(* Enlisted, they see what their transaction has written, too; of other    *)
(* rows they see what everybody sees.                                      *)
ResolveEnlisted(s, k) ==
    /\ pc[s] = "open" /\ newBindings[s][k] # None
    /\ enlisted[s] < MaxEnlisted
    /\ enlisted' = [enlisted EXCEPT ![s] = @ + 1]
    /\ heard' = [heard EXCEPT ![s].told = @ \cup {<<k, life[k], Seen(s, k)>>}]
    /\ UNCHANGED <<rowVars, toldVars, pc, call, pos, txnVars, localVars>>

GetEnlisted(s, ref) ==
    /\ pc[s] = "open" /\ ref \in newObjects[s]
    /\ enlisted[s] < MaxEnlisted
    /\ enlisted' = [enlisted EXCEPT ![s] = @ + 1]
    /\ reads' = reads \cup {<<ref, ref.hash>>}
    /\ UNCHANGED <<rowVars, stored, told, evicted, pc, call, pos, txnVars,
                   localVars, heard>>

-----------------------------------------------------------------------------
(* External: whom a session waits for; a cycle of waiting sessions, of     *)
(* which PostgreSQL aborts one; a broken connection; a damaged text.       *)
WaitsFor(s) ==
    IF pc[s] = "insert_objects" /\ pos[s] < Len(ObjectRows(s))
    THEN ObjectWriters(s, ObjectRows(s)[pos[s] + 1])
    ELSE IF pc[s] = "insert_bindings" /\ pos[s] < Len(Entries(s))
    THEN BindingWriters(s, Entries(s)[pos[s] + 1].key)
    ELSE IF pc[s] = "deleting" /\ \A k \in todo[s] : BindingWriters(s, k) # {}
    THEN UNION {BindingWriters(s, k) : k \in todo[s]}
    ELSE {}

Deadlocked(s) ==
    \E cycle \in SUBSET Sessions :
        /\ s \in cycle
        /\ \A t \in cycle : WaitsFor(t) \cap cycle # {}

Lose(s) ==
    /\ EndSession(s)
    /\ todo' = [todo EXCEPT ![s] = {}]
    /\ UNCHANGED <<rowVars, toldVars>>

DeadlockVictim(s) == Deadlocked(s) /\ Lose(s)

Disconnect(s) == pc[s] # "idle" /\ Lose(s)

Damage(ref, bad) ==
    /\ objects[ref] # None
    /\ objects' = [objects EXCEPT ![ref] = bad]
    /\ UNCHANGED <<bindings, life, toldVars, pc, call, pos, txnVars, localVars,
                   callerVars>>

Statement(s) ==
    \/ InsertObject(s) \/ ObjectsInserted(s) \/ FetchObjects(s)
    \/ ObjectsFetched(s) \/ InsertBinding(s) \/ BindingsInserted(s)
    \/ FetchBindings(s) \/ BindingsFetched(s) \/ DeleteStart(s)
    \/ \E k \in Keys : DeleteRow(s, k)
    \/ DeleteEnd(s) \/ Commit(s) \/ Reply(s) \/ Rollback(s)
    \/ EnlistedReturns(s) \/ EnlistedReplies(s) \/ EnlistedRaises(s)

Caller(s) ==
    \/ \E c \in Calls : BeginAwaited(s, c) \/ BeginEnlisted(s, c)
    \/ \E k \in Keys : ResolveEnlisted(s, k)
    \/ \E ref \in Reference : GetEnlisted(s, ref)
    \/ CallerCommits(s) \/ CallerRollsBack(s)

Next ==
    \/ \E s \in Sessions :
        Caller(s) \/ Statement(s) \/ DeadlockVictim(s) \/ Disconnect(s)
    \/ \E k \in Keys : Resolve(k)
    \/ \E ref \in Reference : Get(ref)
    \/ \E ref \in Reference, bad \in Damaged : Damage(ref, bad)

(* A call goes on with its statements; PostgreSQL queues the sessions that *)
(* wait for a row and resolves deadlocks.  Callers need not do anything.   *)
Fairness ==
    \A s \in Sessions : SF_vars(Statement(s)) /\ WF_vars(DeadlockVictim(s))

SafeSpec == Init /\ [][Next]_vars
Spec == SafeSpec /\ Fairness

-----------------------------------------------------------------------------
(* Without evictions the statements of concurrent sessions add up to the   *)
(* atomic operations of ObjectStore: every commit is one put, bind or      *)
(* put_many, every get_many answer is one of an atomic get_many.           *)
Store ==
    INSTANCE ObjectStore WITH
        told <- {<<p[1], p[3]>> : p \in {q \in told : q[2] = life[q[1]]}}
ImplementsStore == Store!Spec

(* bind, put and put_many's own assertions ("assert row is not None") hold *)
(* whatever other sessions do.                                             *)
AssertionsHold == \A s \in Sessions : pc[s] # "assert"

(* A reader that found a key bound finds the object: put_many commits both *)
(* together, and get_many reads bindings first and objects after.          *)
NoDanglingRead ==
    \A s \in Sessions : pc[s] = "reply" =>
        \A k \in Hits(s) : text[s][got[s][k].ref] # None

(* First writer wins, until evicted: within one life of a key every caller *)
(* that bound, read or resolved it was told one reference, and in the      *)
(* current life it is the one bound.                                       *)
OneWinnerPerLife ==
    /\ \A p, q \in told : p[1] = q[1] /\ p[2] = q[2] => p[3] = q[3]
    /\ \A p \in told : p[2] = life[p[1]] => bindings[p[1]] = p[3]

(* Of several concurrent evictions of a key, one deletes the row and the   *)
(* others report ABSENT.                                                   *)
EvictedOnce ==
    \A s \in Sessions : \A k \in deleted[s] :
        bindings[k] # None /\ \A t \in Sessions \ {s} : k \notin deleted[t]

(* "A batch commits atomically across every chunk it is split into, so no  *)
(* caller observes a partially evicted batch": whatever one call read of   *)
(* two keys evicted together, it read both before or both after.           *)
NoPartialEviction ==
    \A s \in Sessions, batch \in evicted : \A p, q \in batch :
        got[s][p[1]] # None /\ got[s][q[1]] # None =>
            (got[s][p[1]].life <= p[2] <=> got[s][q[1]].life <= q[2])

(* Nobody waits for ever, not even when batches name their keys in         *)
(* opposite orders, unless some caller keeps a transaction of its own open *)
(* for ever.                                                               *)
InCall(s) == pc[s] \notin {"idle", "open"}

CallsEnd ==
    (\A s \in Sessions : []<>(pc[s] # "open")) =>
        \A s \in Sessions : InCall(s) ~> ~InCall(s)
=============================================================================
