# Carrot: TLA+ models and proofs

Carrot is a Redis-like key-value server in Go: strings and lists with
deadlines, an append-only file (AOF) with group commit and background rewrite,
a memory limit with LRU eviction, and two front ends (one goroutine per client,
and an epoll reactor) over one command executor. This directory holds TLA+
models of the parts where order, failure and time decide correctness, TLC
configurations that check them on small instances, and TLAPS proofs of the
safety of the append-only log for every value of its constants.
`PROJECT.json` maps each definition to the lines it models.

## The system

| Part | State | Operations | Talks to |
|---|---|---|---|
| `internal/aof` | file, bufio writer, `failed`/`closing`/`closed`, `rewrite` job | `Open` (lock, replay, cut a torn tail, sync a new directory entry), `AppendBatch` + `rollback`, `syncLoop`, `StartRewrite`, `CompleteRewrite`, `AbortRewrite`, `Close` | file system; replays into the store |
| `internal/command` executor | `writeQueue`, `dispatching`, `dispatchMu`, `mutationMu`, `rewriteStatus` | `enqueue`, `writeLoop`, `commitMutationBatch`, `journalAndDeleteExpired`, `AOFREWRITE`, `RewriteAOF`, `admit` | AOF as its journal, store |
| `internal/storage` | 256 shards of objects, `all`/`volatile` indexes, byte counters | get/set/delete/expire, list operations, sampling of expired keys and LRU victims, snapshots | – |
| `internal/storage/list.go` | circular buffer: `buffer`, `head`, `size`, `bytes` | push, pop, index, set, range, trim, remove, insert, move, position | – |
| `internal/server` | listener, `active`, `closing`, `started`, wait groups | `Start`, `Serve`, `Shutdown`, `handleClient`, expiry loop | executor; opens and closes the AOF |
| `internal/reactor` | epoll set, `conns`, read and write buffers | accept, `OnRead`, `OnWrite`, idle expiry, stop | executor; opens and closes the AOF |
| `internal/protocol/resp` | decoder position and byte budget | decode, encode | both servers, AOF replay |

How they interact: a mutation goes from a client goroutine through
`writeQueue` to a dispatcher that is started on demand and stops when idle. The
dispatcher gathers up to 64 mutations, takes `mutationMu`, admits each one under
the memory limit (evicting, with a journaled `DEL`), appends the batch to the
file in canonical form (absolute deadlines), applies it, and answers. Active
expiry takes `mutationMu` from outside the queue. `AOFREWRITE` travels in the
queue and is answered when it is in there; its snapshot is copied under
`mutationMu`, written in the background while appends also go to a delta, and
installed by rename. Reads expire keys lazily and journal nothing.

What makes this hard: kills and power losses between any two system calls,
calls that fail half-way (flush, sync, truncate, rename, directory sync), the
periodic sync and the rewrite worker beside commits, a dispatcher that decides
to stop while a client enqueues, a clock that moves between append, apply and
replay, commands that are journaled before they are known to fail, and index
arithmetic in a circular buffer.

What correctness means here: what was promised survives; what was refused does
not come back; the file can always be recovered; a restart shows the data the
running server would have shown; effects happen in one order, and each answer is
true; every request is answered; lists behave as sequences.

## Modules

| Module | Models | Checked by |
|---|---|---|
| `AppendLog` | `aof.go` with the part of the executor that drives it | `log_*`, proofs |
| `AppendLogInvariant` | the inductive invariant of `AppendLog` | proofs |
| `AppendLogRecords` | lemmas on records, cuts and prefixes | proofs |
| `AppendLogProofs`, `AppendLogSafety`, `AppendLogDurability`, `AppendLogRefusal` | the theorems | proofs |
| `WriteQueue`, `MCWriteQueue` | queue, dispatcher, barrier, active expiry | `queue_*` |
| `RewriteStatus` | every writer of `rewriteStatus` | `status_*` |
| `Lists`, `ListSpec` | lists as sequences: the abstract specification | used by `ListBuffer` |
| `ListBuffer`, `MCListBuffer` | `list.go`, shown to implement `ListSpec` | `lists` |
| `Keyspace` | what each mutation does to strings, lists and deadlines; canonical records, snapshots, replay | used by `Recovery` |
| `Recovery`, `MCRecovery` | group commit, expiry, eviction, rewrite and restart over `Keyspace`, with a clock | `recovery_*` |

A definition whose name has a suffix after an underscore (`Evict_Unjournaled`)
is a deliberately wrong variant of the definition that follows it. It is not part of any
specification; substituting it shows that the property named for it in
`PROJECT.json` notices the difference.

### AppendLog

A command is a number and the store is the sequence of commands applied to it.
A file is a sequence of records; `Torn` is a partial record. `data` is what the
kernel shows, `synced` how much of it is on the device, `ghosts` what a
truncation not yet synced has cut, `link` and `reverts` the state of the
directory entry around creation and rename. `AfterPowerLoss` is the set of
contents that a loss of power may leave: any prefix, cut at or inside a record,
not shorter than what was synced. `pc` is the step of whoever holds the log's
mutex or the mutation barrier; each system call that can fail is a pair of
actions (`FlushOK`/`FlushFail`, `TruncateOK`/`TruncateFail`, ...). The rewrite
worker, the periodic sync, `Close`, `Kill` and `PowerLoss` interleave with it.

History variables say what was promised: `owed` holds the commands acknowledged
under `always`, covered by a successful periodic sync under `everysec`, or synced
by an orderly close; `refused` those answered with an error after a completed
rollback.

Simplifications: `lseek` does not fail; a successful fsync makes the whole file
durable; apply and reply are one step; commands that `canonicalCommand` rejects
are not journaled and do not appear; failing to create a temporary file changes
no state; leftover temporary files are ignored, as `Open` ignores them; the
`DEL`s of expiry and eviction take the same path as client commands. After a
failed encode whose truncation also fails, the writer may still hold complete records
that `Close` flushes: no completed rollback, hence not in `refused`. That flush may
fail too and leave a part of them in the file (`PartlyFlushed`).

### WriteQueue

Client steps, the holder of `dispatchMu`, `dispatching`, the bounded channel,
one `pc` per dispatcher goroutine (several may exist, which is what
`OneDispatcher` rules out), and the holder of `mutationMu`. Journal and store are
histories of requests. `IdleFires` may happen with a non-empty queue, because the
timer is not reset during a slow commit and `select` picks any ready branch.
Admission and append failures are free choices.

The client of a mutation waits for its result. That of an `AOFREWRITE` is told OK as
soon as the request is in the queue and may send the next command while the rewrite
is still waiting, so a client can have two requests outstanding; it is refused while the status
is queued or running. A start that fails reaches only the status (`RecordStartFailure`), and a
started rewrite ends at some point (`FinishAOFRewrite`). A rewrite takes its place in the histories
where the snapshot is copied. `ServedInOrder` is therefore about the order in which
the dispatcher is done with requests, and `AnswersAreTrue` about mutations.

### RewriteStatus

The status string has four writers that do not share one critical section: the
`AOFREWRITE` command, the dispatcher (or a `RewriteAOF` caller) that starts the
job, the goroutine that finishes it, and the goroutine that waits for a queued
start. `starting` stands for `mutationMu`. A `RewriteAOF` call takes its place in the queue
without claiming the status, so an accepted `AOFREWRITE` can find a rewrite running when its turn
comes; `AcceptedIsSettled` says that it is then reported as failed.

### ListSpec and ListBuffer

`ListBuffer` has the circular buffer with growth, wrap-around, shifts towards the
nearer end, and the byte count; `ListSpec` has the same operations on sequences.
The refinement mapping reads the buffer from `head` for `size` slots. `reply` is
observable in both, so the answers must agree too. The initial capacity is 2
instead of 8, so that growth happens with three items.

### Keyspace and Recovery

`Keyspace` is pure: `Execute(store, command, now)`, `Canonical(command, now)`,
`Snapshot`, and `Replay(log, now)`. `Recovery` runs it: a batch is admitted
(`Admit`, `Evict`, `Refuse`), appended, and applied one command at a time, and
the clock may tick between any two of these. Replay runs at one instant. A failed
append leaves the log refusing everything until a restart, as after `rollback`.
The rewrite is one step, since `AppendLog` shows that snapshot and delta install
as one. Memory is counted in entries and items; `DEL` has one key; the LRU victim
is any key; the clock never goes backwards. Of the reads, only the lazy removal is
visible.

`leaned` collects the deadlines of live keys on which a command relied by changing
a key in place (`EXPIRE`, pushes, edits). `ReplayAgrees` holds while none of these
has passed. The condition is sufficient, not necessary: it collects the deadlines of
all keys together, and many in-place changes replay to the same data anyway. Where it does not
hold, three things can go wrong at a replay after the deadline `d` (see *Findings*):

- a key whose deadline was extended is lost: `SET k v PXAT d`, `PEXPIREAT k d2`;
- a key that is gone comes back without a deadline: `RPUSH k a`, `PEXPIREAT k d`,
  `RPUSH k b` leaves `k = [b]` for ever, because the second push finds no list;
- a command that failed succeeds: `SET k v PXAT d`, `RPUSH k a` was answered
  `WRONGTYPE` and leaves the list `[a]`.

## Runs

| Run | Question | Distinct states |
|---|---|---|
| `log_always` | durability, refusal, recoverability, rewrite under `always` | 370,174 |
| `log_everysec` | promises kept by the periodic sync; rewrites end, `Close` returns | 202,405 |
| `log_directory` | *violation*: a promise over an unsynced directory entry | – |
| `queue_order` | one dispatcher, one order of service and effects, true answers | 4,373,149 |
| `queue_progress` | every command is answered, with room in the queue for all outstanding requests | 89,444 |
| `queue_full` | *violation*: full queue against idle stop | – |
| `lists` | the buffer implements sequences; exact bytes; cleared slots | 6,721 |
| `recovery_strings` | restart equals live: batches of strings, eviction | 4,076,705 |
| `recovery_lists` | the same for lists and clashing kinds; errors change nothing | 4,317,097 |
| `recovery_deadline` | *violation*: an extended deadline | – |
| `status_overlap` | the status settles; an accepted rewrite runs or is reported as failed | 3,130 |
| `status_late` | *violation*: a late failure over a running rewrite | – |

### Bounds

- **Log**: three faults, three commands, batches of two, and two crashes
  (`log_everysec`: two faults and one crash). A rollback that fails takes two faults, the
  append and its truncate or sync; a flush at close that fails after that takes the third. The second crash finds what the recovery from the first left
  behind. Three commands give one before, one during and one after a rewrite or a
  batch. The proofs need none of these bounds.
- **Queue**: `queue_order` has two clients and one that also sends `AOFREWRITE`, with
  two commands each, and one expiry batch; two dispatchers can exist. The rewrite
  splits a batch, its client's second command is a mutation behind it or another `AOFREWRITE`, and
  either may meet a restarted dispatcher. The dispatchers, and the clients that send only mutations,
  are interchangeable (`SYMMETRY`). `queue_progress` has two clients and three slots: one for each
  client and one for a rewrite whose client has gone on. With two slots it fails in the way
  `queue_full` shows with two clients and one slot. It has one dispatcher, since `queue_order` shows
  that there is never a second.
- **Lists**: two lists of four items together; four are the fewest for which removal
  shifts the left part. The offsets -3, -1, 0 and 2 lie inside a full list and beyond
  the ends of the shorter ones. The abstract lists have no bound. No step reads the
  previous reply, so `VIEW` leaves it out of a state's identity; every step is still
  checked. The two keys are interchangeable (`SYMMETRY`).
- **Recovery**: deadlines lie in the past, within and beyond the clock, which has three
  values, so that one deadline can pass after a command is appended and another
  after it is applied. Three records are a write, an in-place change and what follows;
  rewrites make room for more.
- **Status**: three commands and a call, so that one waits, one runs, one has failed
  and one is new.

`CHECK_DEADLOCK FALSE` is set where bounded clients simply finish (queue, status).

### Fairness

A goroutine that can run does (weak fairness). One that waits for a mutex gets it
although others take it in between: `sync.Mutex` hands over to a waiter after
1 ms (strong fairness on the steps that lock). `select` picks among ready
branches at random, so a branch that is ready again and again is taken (strong
fairness on `Take`). Nothing is assumed about clients, crashes, faults, the idle
timer or the periodic sync.

## Findings

Each is a run with expectation `violation`.

1. **Directory entry** (`log_directory`, `aof.go:105`). `Open` syncs the directory
   only in the call that creates the file. If the process stops in between, or
   the sync fails, no later `Open` repairs it, and acknowledged commands go with
   the file name at a power loss. The same holds for the rename of a rewrite: if the process
   stops between `os.Rename` and the directory sync, or that sync fails and the server is
   restarted, a later power loss may bring back the old file, without what was acknowledged since.
2. **Full queue** (`queue_full`, `executor.go:335`). A client blocks in the channel
   send while it holds `dispatchMu`; a dispatcher whose idle timer fired waits for that lock.
   It takes more than 1024 outstanding requests (one per client that waits, and queued `AOFREWRITE`s
   whose clients were answered), so a connection limit above the default 128.
3. **Extended deadline** (`recovery_deadline`, `aof.go:616`). `SET k v PXAT d1`, then
   `PEXPIREAT k d2` with `d2 > d1`: a restart between `d1` and `d2` loses a key
   that is alive. `HLD.md:328-331` says replay gives the same result. The same cause
   brings back a list that has expired, and defeats `HLD.md:460`, "Rejected requests add AOF bytes but
   replay to the same data state": the second and third case listed under *Keyspace and Recovery*.
   TLC finds both when `recovery_deadline` is run with only those commands; no run of the project
   states them separately, and `ReplayAgrees` excludes them.
4. **Late failure** (`status_late`, `executor.go:266`). The goroutine that waited for
   a start that failed records the failure again, over the status of a rewrite that runs by then.

## Proofs

All theorems are about `AppendLog`, for every policy, batch size and bound
(`LogAssumption`: the policy is one of three, the bounds are naturals).

| Theorem | Says |
|---|---|
| `TypeCorrect` | the state keeps its types |
| `StoreAlwaysLogged` | what was applied is a prefix of the file |
| `LogAlwaysRecoverable` | a torn record is only ever the last one, whatever a crash leaves |
| `RewritePreservesLog` | the file a rewrite installs holds the commands of the one it replaces |
| `OwedAlwaysKept` | what was promised is in every content a power loss may leave |
| `RefusedNeverRecovered` | what was refused and rolled back is in none |

The argument. None of these is inductive by itself. `Shape` says what the file
holds at every step of the mutex holder (the store; the store and the batch; the
store and a part of the batch), that a rollback's offset is the length of the store, that
a torn record appears only in a log marked failed or about to be rolled back, and that
snapshot and delta add up to the store. `StoreIsLogged`, `AlwaysRecoverable` and
`ReplacementIsEquivalent` follow from it. `Durable` adds that what is owed lies below
`synced`, in front of everything a truncation or rename may bring back, and that a
directory entry that is not durable owes nothing; for that the rollback needs
`offset = Len(store)` from `Shape`. `Fresh` says command numbers are
used once and no refused number is in any content; while a batch is written its numbers are
in no content that can outlive the rollback. `AppendLogRecords` has the
facts on prefixes, cuts and torn tails that all three use. Each preservation proof
has one lemma per group of actions (open, commit, sync loop, rewrite, stop), one step
per action.

`OwedAlwaysKept` carries the condition `~dirty`: no log was opened over a directory
entry, of a new file or of a rename, that had not been synced. Finding 1 is the reason.

Only model-checked: everything in the other modules; liveness (`RewriteEnds`,
`CloseEnds`, `EveryRequestAnswered`, `StatusSettles`, `AcceptedIsSettled`), which the prover does not
handle; and what folds over data compute (`ReplayAgrees`, `ImplementsListSpec`),
which would take induction over sequences.

## Not modelled

- Servers, reactor, RESP: see the plan.
- Shard indexes, LRU sampling, byte accounting outside lists: see the plan.
- The file lock: `AppendLog` assumes one owner.
- Parsing, formatting, configuration and profiling: sequential conversions of single
  values that unit tests reach.

## Plan

In this order:

1. `Shard`: `keyIndex` with swap-remove, the `all` and `volatile` indexes, `usedBytes`;
   the lock order of `LMOVE`; the bound on how far a batch overshoots the memory limit.
   Proofs: positions and keys stay inverse, and every key with a deadline is in
   `volatile`.
2. `DurableStore`, an abstract store that keeps what it acknowledges, and
   `AppendLog` shown to implement it, by TLC and by proof.
3. `ServerLifecycle`: `Start`, `Serve`, `Shutdown`, open and close of persistence as
   concurrent calls, wait groups, connection limit, expiry loop. Nothing is accepted
   after shutdown, the log is closed once and last, and `Shutdown` returns.
4. `EventLoop`: connections with partial reads and writes, epoll interest and idle expiry. Every response is
   delivered in order, or its connection closed.
5. `Decoder`: byte budget and consumed bytes over bounded inputs, and the record limit of the AOF.
6. `WriteQueueProofs`: `OneDispatcher` and `StoreFollowsJournal` for any number of
   clients.
7. Two processes on one path: `flock` against the rename of a rewrite.
