# dr-store: TLA+ models, model checking and proofs

This directory is the verification project of dr-store. It models the parts of
the library whose correctness depends on order, concurrency or failure, checks
them with TLC on small instances, and proves their safety properties with TLAPS
for every instance. `PROJECT.json` is the index: components, runs, mutants, the
map from every definition to the lines it models, findings, hazards and
theorems. Paths below are relative to `src/dr_store/` in the repository.

## 1. The system

dr-store is a Python library with no server of its own. Its parts are used by
threads, processes and hosts that share a database or a directory, so the hard
behaviour sits where two of them meet: a row of a lease table, a binding key, a
file name, a handle used by a background thread.

| Component | State | Operations | What makes it correct |
|---|---|---|---|
| Lease authority (`lease/authority.py`, `models.py`, `_storage.py`) | one row per semantic key: request, holder, fence, expiry or terminal | `acquire`, `renew`, `succeed`, `fail`, `verify_terminal` | one holder per fence; one terminal for ever; recovery and takeover only after expiry; retries are harmless |
| Lease stores (`lease/_memory.py`, `_sqlite.py`, `_postgres.py`) | the rows, locks, open transactions | `transaction(key, transition)` | a transaction is atomic; no false corruption alarm; no call waits for ever |
| Lease maintenance (`lease/authority.py`) | the held lease, the recorded loss, stop flag, renewer thread, terminalization flags | `__enter__`, renewal loop, `succeed`, `fail`, `check`, `__exit__` | one renewer; publication with the stored lease; no renewer outlives the handle; calls return |
| Object store (`object_store.py`, `content_addressing.py`) | none of its own | `put`, `get`, `bind`, `resolve`, `put_many`, `get_many`, `evict_bindings`, enlisted variants | a reference means one record; what was stored stays; the first writer of a key wins until it is evicted |
| Memory backend (`storage_backends/memory.py`) | object rows, binding rows, one lock | the backend protocol | each operation is atomic |
| PostgreSQL backend (`storage_backends/postgresql.py`) | the same rows in tables; per-connection transactions | the same, as SQL statements in chunks | concurrent transactions look like atomic operations |
| SQLite backend (`storage_backends/sqlite.py`) | rows, one connection, worker thread, admission lock, lifecycle | the same, plus `open` and `aclose` | a cancelled operation settles before the next one; close waits for what was admitted and happens once; nothing leaks |
| Record cache (`record_cache/`) | operation tasks, lifecycle | `get`, `put`, batches, `aclose` | no operation after close; close drains; a hit is the record that was stored |
| Sync facade (`sync/blocking.py`) | event-loop thread, futures, registry of sessions | `open_sqlite`, `persistent_sqlite`, `close` | close drains and is idempotent; a registered session is usable |
| Artifact bundle (`artifact_bundle/`) | publication state, writers, files | `open_artifact`, writers, `publish`, reading | published means complete; a failed writer poisons; no writer after publication |
| Document file, directory, sidecars (`document_file/`, `document_directory/`, `core/verified_read.py`) | files, temporary files, sidecar records | publish by replacement, verified read, accounting | a reader sees the old or the new document; errors say whether the replacement happened |
| Local filesystem (`localfs/`) | private directories, file locks | open, list, lock | a lock excludes; paths stay inside the directory |
| Relational helpers, errors, names, test support | none | stateless checks | - |

How they interact: the maintenance handle calls the authority from two threads;
the authority calls `store.transaction` with a pure transition, which a store
may evaluate more than once (PostgreSQL evaluates it again after it lost an
insert race); the object store calls a backend and verifies what it returns;
the record cache owns a SQLite backend and closes it when its last operation has
left; the sync facade runs a SQLite backend on an event-loop thread of its own
and hands its operations over as futures; a document directory combines one
document file with sidecars, and an artifact bundle is a document directory
whose document is the manifest.

The hard behaviours, listed at their lines under `hazards`: stale copies of a
lease presented late; clocks that jump; replies lost after a commit; races on
absent rows; a row read, a decision taken and a write made in three statements;
connections lost between two of them; batches that lock rows in opposite
orders; reads that span another transaction's commit; a renewal in flight while
the handle publishes; a restart of the renewer after a failed publication;
cancellation and close against operations already admitted; a crash between
writing a temporary file and replacing the target.

## 2. Plan

Ordered by how much of the library's promise depends on each part.

1. *Lease transitions and authority* - done: `LeaseTransitions`,
   `LeaseAuthority`, `LeaseAuthorityTimed`, with all safety properties proved.
2. *PostgreSQL lease store* - done: `LeasePostgres` implements `LeaseAuthority`.
3. *Lease maintenance* - done: `LeaseMaintenance`, on `LeaseTransitions`.
4. *Object store and memory backend* - done: `ObjectStore`, all safety
   properties proved.
5. *PostgreSQL backend* - done, awaited and enlisted operations:
   `PostgresBackend` implements `ObjectStore` where there are no evictions; the
   eviction properties are stated directly.
6. *SQLite backend and record cache* - done: `SqliteBackend`, `RecordCache`.
7. *Sync facade* - done: `SyncSession`.
8. *Documents, sidecars and artifact bundles* - done: `DocumentFile`, `Sidecar`,
   `ArtifactBundle`.
9. *Proofs* - done: every safety property a passing run checks, and both
   refinements (section 6).
10. *Left*: liveness, which the prover does not handle, and the parts named in
    section 7.

## 3. Modules

| Module | Extends | Models |
|---|---|---|
| `LeaseTransitions` | - | transition functions of `lease/authority.py`, row checks of `lease/_storage.py` |
| `LeaseAuthority` | `LeaseTransitions` | the authority on an atomic store |
| `LeaseAuthorityTimed` | `LeaseAuthority` | the same with one clock |
| `LeasePostgres` | `LeaseTransitions` | `_PostgreSQLStore.transaction` |
| `LeaseMaintenance` | `LeaseTransitions` | the maintenance handle and its renewers |
| `ObjectStore` | - | `object_store.py` on an atomic backend (memory) |
| `PostgresBackend` | - | the same operations as SQL statements |
| `SqliteBackend` | - | `storage_backends/sqlite.py` |
| `RecordCache` | `SqliteBackend` | `record_cache/` on its backend |
| `SyncSession` | - | `sync/blocking.py` |
| `DocumentFile` | - | publication and read of one canonical document |
| `Sidecar` | `DocumentFile` | sidecar writer and verified read |
| `ArtifactBundle` | `Sidecar` | bundle publication and reading, composed with the two |

### Leases

`LeaseTransitions` holds the pure transition functions and everything else the
lease modules share; every definition takes a row and a time and yields the new
row and the reply, as the closures passed to `store.transaction` do. Texts,
hashes and identities are model values; `who` stands for the pair
`(owner_id, attempt_id)`, which the code always compares together. `Decodes`
models what `_decode_row` demands of a stored row; the wire form of the columns
is not modelled. `MaxFence` stands for `_MAX_FENCE` (2^63 - 1).

`LeaseAuthority` makes each call one step on `rows`. Two history variables
record what callers have been told: `granted`, every lease a call returned, and
`reported`, every terminal. Callers are arbitrary: any member of `granted` may
be presented at any time, so lost replies, retries and stale copies need no
actions of their own. The clock is arbitrary too: each step reads some time in
`Times`, later or earlier than the last one. Memory and SQLite stores run their
transitions under a lock or in `BEGIN IMMEDIATE`, which is this atomicity.

`LeaseAuthorityTimed` gives all callers one `clock`, which `Tick` sets to any
other time, back as well as forward; `steady` remembers whether it was ever set
back. The two properties about time rather than fences (`OlderLeasesExpired`,
`RecoveryOnlyAfterExpiry`) are stated for a steady clock; all the others hold
whatever the clock does. Every timed step is a step of `LeaseAuthority`.

`LeasePostgres` replaces the atomic step by the statements of
`_PostgreSQLStore.transaction`: `SELECT ... FOR UPDATE`, the transition, then
nothing, an `INSERT ... ON CONFLICT DO NOTHING` (and, when it loses, a second
`SELECT` and a second transition) or a conditional `UPDATE`. Row locks,
uncommitted inserts and READ COMMITTED visibility are modelled from
PostgreSQL's documentation and marked external. A connection may be lost before
any statement. `ImplementsAuthority` states that the committed rows and the
replies behave as `LeaseAuthority` says.

`LeaseMaintenance` models the handle: the owner's thread (`main`), one thread
per renewer generation (`renewer`, `local`), the fields the lock protects, and
the row they work on, with a contender that takes over expired leases. `Tick`
sets the authority's clock to any other time, back as well as forward, and
`steady` remembers whether it was ever set back. Only `StaleMeansNotLive` needs a
steady clock: a renewal that finds the lease expired is recorded as a loss, and a
clock that is then set back makes the stored lease live again. Each
authority call is one atomic step, which `LeasePostgres` justifies; between the
steps any thread may run. A call may fail for a transient reason before or,
with `LostReplies`, after its commit; with `Interrupts` a `KeyboardInterrupt`
may leave `join()`. `_terminalized` is set together with
`_terminalization_started`, so one variable stands for both; `_entered` and
`_exited` are positions of the owner's thread.

### Stores

`ObjectStore` models the store's operations over a backend whose operations are
atomic. A record is its canonical text and a content hash is the record it is
the hash of (no SHA-256 collisions). `Damage` changes a stored text from
outside, which verification must notice. The history variables are what callers
were told: `reads`, `stored` and `told`.

`PostgresBackend` models the statements of each awaited operation by concurrent
sessions, row by row where a statement can block halfway: an insert waits for
another transaction's uncommitted insert or delete of its row, a delete works
through the rows of its snapshot, a select sees what is committed and its own
writes. A batch is split into statements of `ChunkSize` rows as `_chunked`
does. An enlisted call leaves its transaction open (`"open"`): the caller may
make up to `MaxEnlisted` such calls in it, also after one raised, and then
commits or rolls back. What enlisted calls answered about the caller's own
writes is kept in `heard` and counts as told when the caller commits. A caller's
transaction is taken to run at READ COMMITTED, PostgreSQL's default, like the
others. `life` counts the committed evictions of a key, so that "who won" can be
said per life of a key. `BindStoredOnly` restricts callers of `bind` to
references a `put` reported, which the promise that a bound key can be read
depends on.

### SQLite backend and record cache

In `SqliteBackend` asyncio code runs from one await to the next in one step, and
the worker thread runs beside it. A task makes one call: it waits for
`_admission` in the order of `queue`, submits its job to the worker, and awaits
it under `_await_settled`. A cancellation may be requested at any await and is
delivered when the task runs next; what it does there (leave the queue, wait for
the job to settle, close what `open` had opened) is the code's. `Effects` is the
whole SQL transaction of an operation, since one connection serves one job at a
time. `results` holds the future of every job: pending, or how the job ended.
`IsCall` says which calls there are, and `Stored` which files may be opened.
SQLite may fail a job `MaxFaults` times. `TearDown` is the end of
`asyncio.run`, which cancels every task that is left, the shared close tasks
among them. Two histories, `ran` and `misused`, say how often a task's job ran
and whether one met a connection that is not open.

`RecordCache` puts the cache's own lifecycle on top: `active` is
`_operation_tasks`, and closing waits until it is empty before it closes the
backend. `front` chooses whether the program uses the cache or the backend
directly, so one specification covers both. A lookup is verified: a binding of
another schema or a text that is not its reference's record is a miss. `get` and
`put` are batches of one. The check in `aclose` against a call from inside an
operation of the cache has nothing to refuse, as no caller's code runs there;
the statistics and the derivation of keys are left out.

`SyncSession` uses what `RecordCache`'s run shows of the backend: an operation
on an open one ends, one on a closed one raises, `aclose` ends. Threads open
sessions (`open_sqlite` blocks, which may be nested, or `persistent_sqlite`
through the registry),
run operations on any session they were handed, and close one or all.
`_open_lock` is held across waiting and is a variable; the other two locks guard
a few statements that cannot block, so such a block is one step. Every
operation of the facade is submitted in the same way, so there is one (`Run`).

### Files

`DocumentFile` is one directory: inodes with what they hold, names that lead to
inodes, temporary names that are never met again. A publication goes through
the code's stages (encode, create, write, replace, close and clean up);
each OS call may fail, `os.replace` may fail after it replaced, an interrupt may
leave the call, and the process may die between any two. An encoding has two
pieces that partial writes and reads separate. Reads pin the inode they opened.
A process dies, the kernel does not: power failures are not modelled.

`Sidecar` numbers the bytes of the stream, so that the head and tail that are
kept can be compared with what was produced. The caps and the cutting of the
stream into chunks are arbitrary. `VerifiedRead` is the bounded read against
length and hash that sidecars and artifacts share.

`ArtifactBundle` composes the two with the writers and the state of a
publication: a name is reserved under the lock, its file created outside it;
writes go through a buffer and may fail half way; writers and `publish` race; a
failed writer poisons the publication. A reader in another process loads the
manifest, audits or consumes artifacts under its limits, and someone else may
change an artifact. It ends with the reason the code reports, and the code has
one reason for two things twice: `MISSING` is a name the manifest does not
declare or a file that is gone, `MISMATCH` other bytes or an I/O error while the
file was opened or read (an error of `fstat` is not caught). `reader.failed`
remembers the I/O error, so that `VerifiedMeansExact` can say when an artifact
nobody changed is refused: never for its bytes. A directory is allocated for one use
(`use`): documents, a sidecar or a bundle, which share no other state. Assumed:
each artifact writer is used by one thread, since a writer has no lock of its
own.

The `MC*` modules give the constants their values; the `*Proofs` modules hold
the theorems (section 6). Definitions directly before
the one they vary, named for a mistake (`TakeOverSameFence`, `DrainedFirst`,
`ReadWithoutLock`, ...), are not part of the specification: nothing uses them.
Each is the same definition with a plausible bug, and the `mutants` of
`PROJECT.json` say which property notices it.

## 4. Runs

All bounds are constants in the `.cfg` files.

| Run | Instance | Checks | Shows |
|---|---|---|---|
| `lease_authority` | 1 key, 2 conflicting requests (one `no_redrive`), 2 identities, times 0..5, fences to 3 | `TypeOK`, `OneHolderPerFence`, `ReportedStaysAuthoritative`, `TerminalOfNewestFence`, `NoRedriveOneHolder`, `HolderRecoversLease`, `PublicationIdempotent`, `OlderLeasesExpired`, `RecoveryOnlyAfterExpiry`, `RowEvolution` | the state machine is safe whatever callers present and the clock does; with a steady clock leases exclude each other in time as well |
| `lease_postgres` | 3 sessions, 1 key, fences to 2 | `NoFalseCorruption`, `ImplementsAuthority`, `CallsEnd` | the statement-level store implements the atomic one, and no call waits for ever |
| `maintenance` | 2 faults, times 0, 1 and 3 in any order, a contender, interrupts and lost replies | `PublishesStoredLease`, `StaleMeansNotLive`, `NoRenewerOutlivesHandle`, `CleanExitPublished`, `CallsReturn` | the handle's threads keep their agreement, and its calls return |
| `maintenance_lost_reply` | the same without interrupts | `OwnTerminalNotStale` (violated) | finding 1 |
| `object_store` | 2 keys, 2 schemas, 2 records, 1 damaged text | `ReferenceMeansOneRecord`, `StoredStays`, `OneWinner` | content addressing and first-writer-wins |
| `postgres_store` | 2 sessions, 2 keys, chunks of 1, batches in opposite orders, one enlisted call per caller's transaction, no evictions | `AssertionsHold`, `ImplementsStore`, `CallsEnd` | without evictions the backend implements `ObjectStore`; deadlocked batches end |
| `postgres_evict` | 2 sessions, 3 keys, chunks of 2, evictions, two enlisted calls per caller's transaction, a damaged text | `OneWinnerPerLife`, `EvictedOnce`, `NoPartialEviction`, `NoDanglingRead` | evictions against writers, callers' transactions, readers and each other |
| `postgres_assert` | the same with one enlisted call and without damage | `AssertionsHold` (violated) | finding 2 |
| `record_cache` | 3 tasks, 1 key, 2 schemas, conflicting texts, an empty and a damaged file, 1 failure | `EndedLeavesNothing`, `AnsweredRanOnce`, `CloseReleases`, `CallsEnd` | opening, operating, closing and cancelling in any order leaks nothing, answers truly, and ends |
| `sqlite_teardown` | the same | `CloseCallsEnd` (violated) | finding 3 |
| `sync` | 3 threads, 2 paths, 2 sessions, 4 calls, 1 failure | `DrainedBeforeTeardown`, `NoSessionForgotten`, `CallsReturn` | close drains before it tears down, no session is lost or handed out closed, nobody waits for ever |
| `bundle` | 3 publishers, 2 documents and one that cannot be encoded, 2 artifacts of 2 bytes, a stream of 5 bytes, 2 failures, 1 change from outside | `ReadsOneDocument`, `OutcomeTruthful`, `ManifestMeansComplete`, `VerifiedMeansExact`, `SidecarKeepsHeadAndTail` | what is on disk and what callers are told agree at every point where a call fails or the process dies |

Why the bounds are enough. One key suffices for the lease modules: no
transition looks at another key. Two requests cover conflict and both replay
behaviours; two identities cover holder and successor; three fences cover a
first grant, a takeover, a takeover of the successor and the exhausted range;
six times with durations 1 and 2 cover before, at and after expiry, and a
renewal that would shorten the lease. Three sessions let one hold a lock,
one wait and one race; one identity is enough there, because a takeover by the
same identity mints a new fence like any other. Two faults give a failed
publication, a restarted renewer and a second failure; with a
duration of 2, a lease granted at time 0 is past its expiry at 3, and one renewed
at 1 at it. For the stores, two keys in opposite orders make the smallest deadlock, and chunks of one make every
batch span two statements. A key is evicted at most once (`MaxLife`), so it has
a life before and a life after. Three tasks are one inside an operation, one
waiting for admission and one closing; the calls are divided among them, as the
tasks are alike. Two sessions and four calls let a session be opened, used by
one thread, closed by another and opened again under its path. Two failures
cover an OS call that fails and a clean-up that fails after it. A stream of five
bytes passes a head cap and a tail cap of two each with one byte to drop. One
enlisted call per transaction keeps a commit one operation of `ObjectStore`,
which the refinement needs; two, in `postgres_evict`, put a record and bind it
in one transaction. In `bundle` publishers, documents and artifacts are
symmetric, and in `postgres_evict` the sessions, which is sound as only
invariants are checked there and nothing tells their members apart.
`postgres_evict` identifies states that differ only in the history `reads`,
which no action and no property of that run looks at.

Runs that check no deadlock are those where the program may stop: all calls
made, all sessions closed, the process dead.

*Fairness.* The safety properties use none. In `LeasePostgres` and
`PostgresBackend` each session's statements are strongly fair: a client that has
begun a transaction goes on with it, and PostgreSQL grants locks in queue order,
so a waiter is not passed over for ever; its deadlock detector eventually picks
a victim. Beginning a call and losing a connection are not fair, nor is the caller
of enlisted operations, so `CallsEnd` in `PostgresBackend` is stated for callers
that do not keep a transaction open for ever. In `LeaseMaintenance` the
renewer threads run (waits have a timeout and are woken by
`stop`, authority calls return) and an owner inside a call goes on; nothing
forces the owner to make a call, a contender to come or the clock to move. In
`RecordCache` the worker, the open and close tasks and every task inside a call
are weakly fair: asyncio runs ready callbacks in order and an SQLite call
returns. `CallsEnd` excepts a loop that is torn down, where the code's own
behaviour is finding 3. In `SyncSession` a thread inside a call and a running
loop go on; nobody has to make a call.

## 5. Findings

1. *Stale loss for one's own terminal* (`lease/authority.py:272`). If a
   publication commits and loses its reply, the handle restarts the renewer, the
   renewer meets the terminal, and from then on the handle raises
   `StaleLeaseError`, where the repository's README promises that the caller can
   retry. Calling `LeaseAuthority.succeed` again would return the terminal
   (`PublicationIdempotent`).
2. *Assertion in bind* (`storage_backends/postgresql.py:251`, `:423`). An
   eviction that commits between the insert and the select of `bind` or
   `put_many` leaves no row for the select, and the assertion fails in the
   caller.
3. *A close that never ends* (`storage_backends/sqlite.py:110`). When the loop's
   teardown cancels the shared close task, an `aclose` that waits for it in
   `_await_settled` awaits a cancelled future again and again without giving
   the loop a turn.

Met while modelling, and stated as the condition of a property rather than by a
run of its own:

- An interrupt that leaves `join()` (`lease/authority.py:265`) makes the abort
  path start a second renewer while the first is inside `renew`. The safety
  properties of `LeaseMaintenance` that need a single renewer are stated for
  handles whose `join()` was not interrupted (`Uninterrupted`); `CallsReturn` and
  `CleanExitPublished` hold regardless.
- A `get_many` of more keys than one chunk may see its first chunk before and
  its second after an eviction (`storage_backends/postgresql.py:287`).
  `NoPartialEviction` is checked for readers whose keys fit one chunk. The
  contract that an enlisted read "observes one caller-transaction snapshot"
  likewise depends on the caller's isolation level: at READ COMMITTED each of
  its statements has a snapshot of its own.
- A clock that is set back after a renewal found the lease expired makes the
  stored lease live again, while the handle has recorded its loss
  (`lease/authority.py:311`). `StaleMeansNotLive` excepts it (`steady`).
- An I/O error while an intact artifact is read is reported as `MISMATCH`
  (`core/verified_read.py:152`), and a name the manifest does not declare as
  `MISSING` (`artifact_bundle/reading.py:405`): these reasons alone do not show
  that a bundle was changed, and `VerifiedMeansExact` says so.
- A `KeyboardInterrupt` inside a document publication leaves the temporary file
  behind; `OutcomeTruthful` excepts it (`orphan`).

## 6. Proofs

TLAPS proves these theorems for every value of the constants that satisfies the
named assumptions: any number of keys, callers, sessions, tasks, threads, faults
and evictions, any chunk size, and any clock but where a property itself asks for
a steady one. The assumptions only give the
constants their shape:

| Module | Assumptions |
|---|---|
| `LeaseTransitions` | requests are requests, times and durations numbers, `MaxFence` positive; `None` is no row, lease, terminal, number, result or failure |
| `LeasePostgres` | `SessionsAssumption`: `None` (nobody holds the lock) is no session |
| `LeaseMaintenance` | two different identities, a positive duration; `LossAssumption`: `None` (no loss) is no kind of loss |
| `ObjectStore` | records, damaged texts and `None` are different things |
| `PostgresBackend` | the calls are sequences of entries with the keys and references their operation has (`BackendAssumption`, `EntriesAssumption`); `NoneAssumption` |
| `SqliteBackend` | tasks are not named like the jobs of the lifecycle (`TasksAssumption`); a file holds rows of the tables' shape and `None` is no text or reference (`RowsAssumption`); the calls are calls, a batch is finite (`CallsAssumption`) |
| `SyncSession` | `MaxSessions` is a number; `None` is no session, thread or outcome |
| `DocumentFile` | `DocumentAssumption`: the target is a name, some of the documents cannot be encoded, `None` is no document |
| `Sidecar` | `SidecarAssumption`: caps are numbers or, for no cap, `None` |
| `ArtifactBundle` | `BundleAssumption`: manifest, artifacts and sidecar have different names, and no artifact is called like the model's own two kinds of read; `NoneAssumption`: `None` is no bytes, manifest, state or artifact |

The inductive invariants were checked with TLC on the instances of the runs
before they were proved; the step lemmas are one per action.

`LeaseAuthorityProofs`. The inductive invariant is
`Inv == TypeOK /\ GrantWithinRow /\ OneHolderPerFence /\ ReportedStored /\
NoRedriveFence`. `OneHolderPerFence` alone is not inductive: a takeover mints
`row.fence + 1`, and only `GrantWithinRow` says that no lease in anybody's
hands has that fence already. `ReportedStored` (a reported terminal is the
row's) carries the terminal properties, `NoRedriveFence` (a `no_redrive` row
has fence 1) the no-redrive one. The argument has two halves. First, every
transition changes its row in one of five ways (keep, grant, take over, extend,
close), one lemma per transition (`AcquireEvolves`, `RenewEvolves`,
`TerminalizeEvolves`). Second, each of the five preserves the invariant
(`EvolvesInv`). From `Inv` follow `TypeCorrect`, `FenceUnique`,
`GrantsWithinRow`, `ExactlyOnce`, `Fencing`, `NoRedrive`, `HolderRecovers`,
`IdempotentPublication` and, with the same lemmas, the action property
`RowsEvolve`.

With the clock (`LeaseAuthorityTimed`, proved in the same module). Any timed step
is a step of `LeaseAuthority` or leaves its variables alone
(`TimedImplementsAuthority`), so `Inv` is inherited; on top of it, as long as the
clock was never set back, leases with an older fence than the stored row, and
every lease of a recovered row, have expired. Forward time keeps that true, and a
takeover or recovery only happens when the row's expiry, which bounds every copy
by `GrantWithinRow`, has passed. Results: `TimeExclusion`, `RecoveryAfterExpiry`,
`LiveHolderUndisturbed`.

`ObjectStoreProofs`. The invariant adds `ReadsVerified` (every read returned
the record its reference names) to `TypeOK`, `StoredStays` and `OneWinner`.
`ReferenceMeansOneRecord` is not inductive without it: nothing else relates an
old read to the text a later one will accept. One lemma per operation. Results:
`OneRecordPerReference`, `ContentKept`, `FirstWriterWins`, `StoreTypeCorrect`,
`NoRewrite`.

`LeasePostgresProofs`. A transition is computed from a row that was read some
statements ago, and the refinement holds because that row is still the stored
one when the transaction commits. `PInv` says why: a session that read a row
holds its lock and the row is what it read (`HoldsWhatItRead`); one that read
nothing has no lock to hold, and only its uncommitted insert keeps the others
away (`OwnsItsInsert`); what it is about to write is a transition of what it
read (`Decided`). Each step is then a stutter of `LeaseAuthority` or, at COMMIT,
one of its steps: `Refinement` (`ImplementsAuthority`). The two alarms are
unreachable (`NoFalseAlarm`). Through the refinement the theorems of
`LeaseAuthorityProofs` become theorems about the PostgreSQL store
(`StoreGuarantees`).

`LeaseMaintenanceProofs`. What the properties rest on is which thread may still
move and what it knows. `OneRenewer`: unless a `join()` was interrupted every
renewer but the last is dead, and that one too once the owner publishes.
`HandleKnows`: as long as the stored lease is the owner's, live or not, its true
copy is in the handle, or in the renewer between `renew` and its assignment of
`_lease`; after a failed renewal it may be in neither, and then the handle has a
recorded loss and does not publish. None of this looks at the clock, so it holds
for one that is set back; only that a lease found stale is not live does not, and
is stated for a steady one. Results: `Publishes`, `StaleIsStale`,
`RenewersEnd`, `CleanMeansPublished`; the last one also for interrupted handles.

`PostgresBackendProofs` has three invariants. `Inv`: where each session is in its
call (`SessionOK`), that uncommitted inserts and deletes of a binding row exclude
each other (`Locks`), and that what sessions were told, or have read and will be
told, agrees for each life of a key, and with the row for the current one
(`PublicAgrees`), except for what a session knows of its own uncommitted insert
(`PrivateAgrees`). `OneWinnerPerLife` speaks of what was told at a commit; it is
not inductive, because a reply may rest on a row read several commits before.
`EvictOnce` and `FirstWriterWins` follow. `BoundObjectsAreFound` adds that the
object of every known reference is stored or about to be, under the hypothesis
`BindStoredOnly`; `AssertionsWithoutEvictions` assumes `NoEvictions`, as it must
(finding 2); `EvictionsAreAtomic` assumes `OneStatementReads`, the readers whose
keys fit one chunk (section 5). The three hypotheses are the conditions the
runs check the same properties under.

The refinement (`ImplementsAtomicStore`, the run's `ImplementsStore`) is proved
for transactions of one call, without evictions and damage, and for a `put_many`
that names a key once (`OneCallEach`). The last is no restriction: the argument of
`ObjectStore.put_many` is a mapping. The others are the run's own: a caller's
transaction of several calls commits more than one operation at once; an eviction
or a damage between two statements of one call can show in its answer.
Chunks, sessions, keys, batches, waits, deadlocks, rollbacks and lost connections
are arbitrary. A commit must be one atomic operation although its rows were
written several statements before and some by others. `AmountsToOne` states this
of an open transaction: there is one `put`, `bind` or `put_many` whose objects are
all there, whose new bindings are those the transaction inserted, and whose answer
is what its caller will be told. It cannot become false, since rows stay
(`AmountsStays`); it holds when a call has done its last statement
(`AnswerAmounts`), since a call writes only rows it was given (`WritesOwnRows`)
and what it read of a key is what it sees (`GotIsSeen`, from `PublicAgrees` and
`PrivateAgrees`); and a commit of such a transaction is that operation
(`CommitMaps`). The answer of a `get_many` is the one an atomic `get_many` would
give at its last step, because what it read in earlier chunks is still so
(`ReplyMaps`).

`StoreGuarantees` has no hypotheses: with evictions, damage and transactions of
any number of calls the backend keeps `ObjectStore`'s invariants
`ReferenceMeansOneRecord`, `StoredStays` and `OneWinner`.

`RecordCacheProofs`, for the SQLite backend and the cache together. `Inv` says
which job the one worker may have and that its connection is open (`OneJob`), who
holds or waits for the admission lock (`LockHeld`, `LockWaited`), how the
lifecycles of backend and cache depend on each other (`Life`, `CacheLife`,
`Opening`, `Closing`), and what the end of a call is founded on (`TaskOK`).
`NothingLeft` and `CloseIsFinal` follow. `RowInv` says that the result of every
settled operation is true of the rows (`Says`). It is kept because rows only
follow each other in one way (`Follows`: an object row never changes, a binding
only by deletion), and it holds of a new result by one lemma over the operations
(`EffectRows`); for `put_bound_objects` this needs that a batch without conflict
proposes one text per row (`InsertsAll`). With `Inv` this gives `AnswersStayTrue`.

`SyncSessionProofs`. Two invariants. `DrainInv`: the futures of a session are
those of the threads waiting on it, and once it is closed the set only shrinks,
so the snapshot `close` took covers it (`CloseDrained`); hence `DrainSafe`.
`OwnerInv`: every session has one kind of owner - the registry, a scope, or
threads about to close it - and when the last lets go its loop no longer runs;
hence `SessionsKept`.

`ArtifactBundleProofs`, for documents, sidecars and bundles together, has four
invariants (`Invariance`), each resting on the ones before it.
`FileInv`: an inode belongs to one publication or to one child's name
(`InodesOwned`), so no write or cleanup of one touches what another installed; what
a publication would report at each stage agrees with whether it is in the log
(`Honest`), which `OutcomeTruthful` says only of finished ones; an installed inode
holds the whole encoding (`Written`), and the target is the inode of the log's last
entry (`LogOK`). `OutcomesAreTrue` follows.
`SidecarInv`: at every point of the stream, head, tail and count are those of the
bytes fed so far (`Counted`), so that it does not matter how the stream was cut;
the step lemma is arithmetic on lengths (`LengthsAfter`) and on runs of numbered
bytes (`RunsAfter`). `SidecarsKeepHeadAndTail` follows.
`BundleInv`: a writer's file and its buffer make up the bytes it has hashed
(`WriterOK`), a failed writer has poisoned the publication (`FailurePoisons`), and
once a manifest is encoded every admitted writer is finalized, which nothing can
undo (`TerminalIsFinal`). `ManifestMeansComplete` alone is not inductive: it
speaks of the manifest on disk, the argument is about the moment it was encoded.
`ManifestsAreComplete` follows.
`ReaderInv`: a reader holds the inode that was the target when it opened it, and
what it has read is a prefix of that encoding (`Opened`), whatever was published
since; what it may say at each point (`ReaderAt`), a refusal included: where nobody
changed an artifact, one that was finalized is not `MISSING`, and `MISMATCH` comes
with an I/O error. `DocumentsAreWhole` and
`VerifiedBytesAreExact` follow.

Only model-checked: the liveness properties (`CallsEnd` of the two PostgreSQL
modules and of `RecordCache`, `CallsReturn` of `LeaseMaintenance` and
`SyncSession`), which are outside what the prover handles, and the three
counterexamples of section 5.

## 7. Not modelled

- Schema installation and validation, `initialize`, connection strings, text
  limits and JSON encodings: sequential checks without shared state.
- `localfs/`: `PrivateDirectory`'s checks of ownership and paths, and
  `FileLock`, are thin layers over the operating system; nothing in the library
  holds a `FileLock` or removes its file, so there is no protocol to check.
- Names of documents, sidecars and artifacts and their validation, the bounds on
  reading a manifest, and a sidecar that is opened again under its name, which
  truncates it.
- Relational helpers, errors, re-exports and test support: stateless code.
- SHA-256 collisions, power failures, and violations of PostgreSQL's or SQLite's
  isolation rules.
