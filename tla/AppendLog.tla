------------------------------ MODULE AppendLog ------------------------------
(***************************************************************************)
(* The append-only file of internal/aof together with the part of the      *)
(* executor that drives it under the mutation barrier: group commit with   *)
(* rollback, the three sync policies, the background rewrite with its      *)
(* delta, close, a killed process, a power loss and recovery.              *)
(*                                                                         *)
(* A command is a number.  The store is abstracted to the sequence of      *)
(* commands applied to it, so that two equal stores have seen the same     *)
(* commands in the same order; a snapshot of the store therefore replays   *)
(* to that sequence.  A file is the sequence of its records, and Torn is   *)
(* a record of which only the first bytes are there.                       *)
(***************************************************************************)
EXTENDS Naturals, Sequences, SequencesExt

CONSTANTS
    SyncPolicy,    \* "always", "everysec" or "no"
    MaxBatch,      \* largest group the dispatcher commits at once
    MaxCommands,   \* bound: commands issued in a behaviour
    MaxCrashes,    \* bound: kills and power losses
    MaxFaults      \* bound: failing system calls

ASSUME LogAssumption ==
    /\ SyncPolicy \in {"always", "everysec", "no"}
    /\ MaxBatch \in Nat
    /\ MaxCommands \in Nat
    /\ MaxCrashes \in Nat
    /\ MaxFaults \in Nat

VARIABLES
    \* the file system
    data,      \* records of the file at the AOF path, as the kernel sees them
    synced,    \* how many of them are on the device
    ghosts,    \* longer contents a not yet synced truncation has cut
    link,      \* directory entry of the path: absent, volatile or durable
    reverts,   \* contents the entry may name again until the directory is synced
    \* the process
    pc,        \* the step the holder of the log mutex or mutation barrier is at
    batch,     \* the commands being committed
    offset,    \* file position at which their records start
    buf,       \* records left in the bufio.Writer
    sticky,    \* the writer has failed and refuses to flush
    failed, closing, closed,
    job,       \* the background rewrite
    store,     \* commands applied to the in-memory store, in order
    \* history and bounds
    issued,    \* commands issued so far
    refused,   \* commands answered with an error after a completed rollback
    owed,      \* commands the sync policy has promised to keep
    dirty,     \* the log was opened over a directory entry never synced
    crashes, faults

disk == <<data, synced, ghosts, link, reverts>>
flags == <<failed, closing, closed>>
writer == <<buf, sticky>>
proc == <<pc, batch, offset, writer, flags, job, store>>
ghost == <<issued, refused, owed, dirty, crashes, faults>>
vars == <<disk, proc, ghost>>

Torn == 0
NoJob == [on |-> FALSE, snap |-> <<>>, delta |-> <<>>, deltaErr |-> FALSE,
          ready |-> "writing"]

\* Content c cut after n records, and cut inside the record that follows them.
Cut(c, n) ==
    IF n < Len(c) THEN {SubSeq(c, 1, n), Append(SubSeq(c, 1, n), Torn)} ELSE {c}

\* What may be left of content c when only its first low records are certain.
Survivors(c, low) == UNION {Cut(c, n) : n \in low..Len(c)}

\* What the process has handed to write so far, the call in progress included.
Written == IF pc = "write" THEN data \o batch ELSE data

\* The file contents a power loss may leave at the path, file present.
Images == (UNION {Survivors(c, synced) : c \in {Written} \cup ghosts}) \cup reverts

\* What recovery may find after a power loss, an absent file being empty.
AfterPowerLoss == Images \cup (IF link = "durable" THEN {} ELSE {<<>>})

EndsTorn(c) == c # <<>> /\ Last(c) = Torn
Complete(c) == IF EndsTorn(c) THEN Front(c) ELSE c

Fault == faults < MaxFaults /\ faults' = faults + 1
NoFault == faults' = faults

Init ==
    /\ data = <<>> /\ synced = 0 /\ ghosts = {} /\ link = "absent" /\ reverts = {}
    /\ pc = "down" /\ batch = <<>> /\ offset = 0 /\ buf = <<>> /\ sticky = FALSE
    /\ failed = FALSE /\ closing = FALSE /\ closed = FALSE
    /\ job = NoJob /\ store = <<>>
    /\ issued = 0 /\ refused = {} /\ owed = <<>> /\ dirty = FALSE
    /\ crashes = 0 /\ faults = 0

\* A successful fsync of the log file.
Fsync(content) ==
    /\ synced' = Len(content)
    /\ ghosts' = {}

-----------------------------------------------------------------------------
(* Open: lock, replay (cutting a torn tail), sync the directory if created *)

OpenCreate ==
    /\ pc = "down" /\ link = "absent"
    /\ data' = <<>> /\ synced' = 0 /\ ghosts' = {}
    /\ link' = "volatile"
    /\ store' = <<>>
    /\ pc' = "created"
    /\ UNCHANGED <<reverts, batch, offset, writer, flags, job, ghost>>

\* Mutated form: recovery leaves a torn tail in place.
OpenExisting_KeepsTail ==
    /\ pc = "down" /\ link # "absent"
    /\ store' = Complete(data)
    /\ pc' = "idle"
    /\ dirty' = (dirty \/ link # "durable" \/ reverts # {})
    /\ UNCHANGED <<disk, batch, offset, writer, flags, job,
                   issued, refused, owed, crashes, faults>>

OpenExisting ==
    /\ pc = "down" /\ link # "absent"
    /\ data' = Complete(data)
    /\ ghosts' = IF EndsTorn(data) THEN ghosts \cup {data} ELSE ghosts
    /\ synced' = IF synced > Len(data') THEN Len(data') ELSE synced
    /\ store' = data'
    /\ pc' = "idle"
    /\ dirty' = (dirty \/ link # "durable" \/ reverts # {})
    /\ UNCHANGED <<link, reverts, batch, offset, writer, flags, job,
                   issued, refused, owed, crashes, faults>>

CreatedSyncOK ==
    /\ pc = "created"
    /\ link' = "durable" /\ reverts' = {}
    /\ pc' = "idle" /\ dirty' = FALSE
    /\ UNCHANGED <<data, synced, ghosts, batch, offset, writer, flags, job, store,
                   issued, refused, owed, crashes, faults>>

CreatedSyncFail ==
    /\ pc = "created" /\ Fault
    /\ pc' = "down"
    /\ UNCHANGED <<disk, batch, offset, writer, flags, job, store,
                   issued, refused, owed, dirty, crashes>>

-----------------------------------------------------------------------------
(* AppendBatch and the application of the batch, under the mutation barrier *)

AppendRefused ==
    /\ pc = "idle" /\ (failed \/ closing \/ closed)
    /\ issued < MaxCommands
    /\ issued' = issued + 1
    /\ refused' = refused \cup {issued'}
    /\ UNCHANGED <<disk, proc, owed, dirty, crashes, faults>>

\* Mutated form: the append offset is one record short.
AppendBatch_OffByOne(n) ==
    /\ pc = "idle" /\ ~failed /\ ~closing /\ ~closed
    /\ issued + n <= MaxCommands
    /\ batch' = [i \in 1..n |-> issued + i]
    /\ issued' = issued + n
    /\ offset' = Len(data) - 1
    /\ pc' = "write"
    /\ UNCHANGED <<disk, writer, flags, job, store, refused, owed, dirty, crashes, faults>>

AppendBatch(n) ==
    /\ pc = "idle" /\ ~failed /\ ~closing /\ ~closed
    /\ issued + n <= MaxCommands
    /\ batch' = [i \in 1..n |-> issued + i]
    /\ issued' = issued + n
    /\ offset' = Len(data)
    /\ pc' = "write"
    /\ UNCHANGED <<disk, writer, flags, job, store, refused, owed, dirty, crashes, faults>>

\* Mutated form: the batch is left in the buffer and reported as written.
FlushOK_Buffered ==
    /\ pc = "write"
    /\ pc' = IF SyncPolicy = "always" THEN "sync" ELSE "delta"
    /\ UNCHANGED <<disk, batch, offset, writer, flags, job, store, ghost>>

FlushOK ==
    /\ pc = "write"
    /\ data' = data \o batch
    /\ pc' = IF SyncPolicy = "always" THEN "sync" ELSE "delta"
    /\ UNCHANGED <<synced, ghosts, link, reverts, batch, offset, writer, flags,
                   job, store, ghost>>

\* The write fails part way; the bufio.Writer keeps the error.
FlushFail ==
    /\ pc = "write" /\ Fault
    /\ data' \in Survivors(data \o batch, Len(data)) \ {data \o batch}
    /\ sticky' = TRUE
    /\ pc' = "truncate"
    /\ UNCHANGED <<synced, ghosts, link, reverts, batch, offset, buf, flags,
                   job, store, issued, refused, owed, dirty, crashes>>

\* Record k + 1 is too large.  The k before it are in the writer, which may
\* have spilled some of their bytes.
EncodeFail(k) ==
    /\ pc = "write" /\ Fault
    /\ \E j \in 0..k :
          /\ data' \in Cut(data \o SubSeq(batch, 1, k), Len(data) + j)
          /\ buf' = SubSeq(batch, j + 1, k)
    /\ pc' = "truncate"
    /\ UNCHANGED <<synced, ghosts, link, reverts, batch, offset, sticky, flags,
                   job, store, issued, refused, owed, dirty, crashes>>

SyncOK ==
    /\ pc = "sync"
    /\ Fsync(data)
    /\ pc' = "delta"
    /\ UNCHANGED <<data, link, reverts, batch, offset, writer, flags, job, store, ghost>>

SyncFail ==
    /\ pc = "sync" /\ Fault
    /\ pc' = "truncate"
    /\ UNCHANGED <<disk, batch, offset, writer, flags, job, store,
                   issued, refused, owed, dirty, crashes>>

\* rollback: truncate to the offset, reposition, reset the writer, sync.  The
\* log stays failed whether or not this succeeds.
TruncateOK ==
    /\ pc = "truncate"
    /\ data' = SubSeq(data, 1, offset)
    /\ ghosts' = ghosts \cup {data}
    /\ buf' = <<>> /\ sticky' = FALSE
    /\ pc' = "rollbackSync"
    /\ UNCHANGED <<synced, link, reverts, batch, offset, flags, job, store, ghost>>

\* Mutated form: a failed truncation leaves the log healthy.
TruncateFail_Healthy ==
    /\ pc = "truncate" /\ Fault
    /\ pc' = "idle" /\ batch' = <<>>
    /\ UNCHANGED <<disk, offset, writer, flags, job, store,
                   issued, refused, owed, dirty, crashes>>

TruncateFail ==
    /\ pc = "truncate" /\ Fault
    /\ failed' = TRUE
    /\ pc' = "idle" /\ batch' = <<>>
    /\ UNCHANGED <<disk, offset, writer, closing, closed, job, store,
                   issued, refused, owed, dirty, crashes>>

\* Mutated form: the rollback is reported without being synced.
RollbackSyncOK_Unsynced ==
    /\ pc = "rollbackSync"
    /\ failed' = TRUE
    /\ refused' = refused \cup ToSet(batch)
    /\ pc' = "idle" /\ batch' = <<>>
    /\ UNCHANGED <<disk, offset, writer, closing, closed, job, store,
                   issued, owed, dirty, crashes, faults>>

RollbackSyncOK ==
    /\ pc = "rollbackSync"
    /\ Fsync(data)
    /\ failed' = TRUE
    /\ refused' = refused \cup ToSet(batch)
    /\ pc' = "idle" /\ batch' = <<>>
    /\ UNCHANGED <<data, link, reverts, offset, writer, closing, closed, job, store,
                   issued, owed, dirty, crashes, faults>>

RollbackSyncFail ==
    /\ pc = "rollbackSync" /\ Fault
    /\ failed' = TRUE
    /\ pc' = "idle" /\ batch' = <<>>
    /\ UNCHANGED <<disk, offset, writer, closing, closed, job, store,
                   issued, refused, owed, dirty, crashes>>

\* Mutated form: a batch that commits after the snapshot worker has finished
\* is not captured.
DeltaOK_WhileWriting ==
    /\ pc = "delta"
    /\ job' = IF job.on /\ ~job.deltaErr /\ job.ready = "writing"
              THEN [job EXCEPT !.delta = @ \o batch] ELSE job
    /\ pc' = "apply"
    /\ UNCHANGED <<disk, batch, offset, writer, flags, store, ghost>>

DeltaOK ==
    /\ pc = "delta"
    /\ job' = IF job.on /\ ~job.deltaErr
              THEN [job EXCEPT !.delta = @ \o batch] ELSE job
    /\ pc' = "apply"
    /\ UNCHANGED <<disk, batch, offset, writer, flags, store, ghost>>

DeltaFail ==
    /\ pc = "delta" /\ job.on /\ ~job.deltaErr /\ Fault
    /\ job' = [job EXCEPT !.deltaErr = TRUE]
    /\ pc' = "apply"
    /\ UNCHANGED <<disk, batch, offset, writer, flags, store,
                   issued, refused, owed, dirty, crashes>>

\* AppendBatch has released the log mutex: a periodic sync, an abort or a
\* close may come before the executor applies the batch and replies.
Apply ==
    /\ pc = "apply"
    /\ store' = store \o batch
    /\ owed' = IF SyncPolicy = "always" THEN store' ELSE owed
    /\ pc' = "idle" /\ batch' = <<>>
    /\ UNCHANGED <<disk, offset, writer, flags, job,
                   issued, refused, dirty, crashes, faults>>

-----------------------------------------------------------------------------
(* syncLoop *)

MutexFree == pc \in {"idle", "apply"}

\* Mutated form: the periodic sync only flushes to the kernel.
SyncTickOK_FlushOnly ==
    /\ SyncPolicy = "everysec" /\ MutexFree /\ ~closing /\ ~failed
    /\ owed' = store
    /\ UNCHANGED <<disk, proc, issued, refused, dirty, crashes, faults>>

SyncTickOK ==
    /\ SyncPolicy = "everysec" /\ MutexFree /\ ~closing /\ ~failed
    /\ Fsync(data)
    /\ owed' = store
    /\ UNCHANGED <<data, link, reverts, proc, issued, refused, dirty, crashes, faults>>

SyncTickFail ==
    /\ SyncPolicy = "everysec" /\ MutexFree /\ ~closing /\ ~failed /\ Fault
    /\ failed' = TRUE
    /\ UNCHANGED <<disk, pc, batch, offset, writer, closing, closed, job, store,
                   issued, refused, owed, dirty, crashes>>

-----------------------------------------------------------------------------
(* Background rewrite: snapshot under the barrier, worker, completion *)

StartRewrite ==
    /\ pc = "idle" /\ ~failed /\ ~closing /\ ~closed /\ ~job.on
    /\ job' = [NoJob EXCEPT !.on = TRUE, !.snap = store]
    /\ UNCHANGED <<disk, pc, batch, offset, writer, flags, store, ghost>>

SnapshotWritten ==
    /\ job.on /\ job.ready = "writing"
    /\ job' = [job EXCEPT !.ready = "ok"]
    /\ UNCHANGED <<disk, pc, batch, offset, writer, flags, store, ghost>>

SnapshotFails ==
    /\ job.on /\ job.ready = "writing" /\ Fault
    /\ job' = [job EXCEPT !.ready = "failed"]
    /\ UNCHANGED <<disk, pc, batch, offset, writer, flags, store,
                   issued, refused, owed, dirty, crashes>>

\* Mutated form: the job is left registered when its snapshot fails.
AbortRewrite_KeepsJob ==
    /\ MutexFree /\ job.on /\ job.ready = "failed"
    /\ UNCHANGED vars

AbortRewrite ==
    /\ MutexFree /\ job.on /\ job.ready = "failed"
    /\ job' = NoJob
    /\ UNCHANGED <<disk, pc, batch, offset, writer, flags, store, ghost>>

\* Mutated form: an early return of CompleteRewrite leaves the job registered.
CompleteRefused_KeepsJob ==
    /\ pc = "idle" /\ job.on /\ job.ready = "ok"
    /\ closed \/ failed \/ job.deltaErr
    /\ UNCHANGED vars

\* CompleteRewrite needs the mutation barrier; it gives up on a log that has
\* failed and on an incomplete delta.
CompleteRefused ==
    /\ pc = "idle" /\ job.on /\ job.ready = "ok"
    /\ closed \/ failed \/ job.deltaErr
    /\ job' = NoJob
    /\ UNCHANGED <<disk, pc, batch, offset, writer, flags, store, ghost>>

\* Append the delta to the snapshot and sync the replacement.
CompleteSynced ==
    /\ pc = "idle" /\ job.on /\ job.ready = "ok"
    /\ ~closed /\ ~failed /\ ~job.deltaErr
    /\ pc' = "rename"
    /\ UNCHANGED <<disk, batch, offset, writer, flags, job, store, ghost>>

CompleteFails ==
    /\ \/ pc = "idle" /\ job.on /\ job.ready = "ok" /\ ~closed /\ ~failed /\ ~job.deltaErr
       \/ pc = "rename"
    /\ Fault
    /\ job' = NoJob /\ pc' = "idle"
    /\ UNCHANGED <<disk, batch, offset, writer, flags, store,
                   issued, refused, owed, dirty, crashes>>

Rename ==
    /\ pc = "rename"
    /\ reverts' = Images
    /\ data' = job.snap \o job.delta
    /\ Fsync(data')
    /\ buf' = <<>> /\ sticky' = FALSE
    /\ pc' = "directorySync"
    /\ UNCHANGED <<link, batch, offset, flags, job, store, ghost>>

DirectorySyncOK ==
    /\ pc = "directorySync"
    /\ link' = "durable" /\ reverts' = {} /\ dirty' = FALSE
    /\ job' = NoJob /\ pc' = "idle"
    /\ UNCHANGED <<data, synced, ghosts, batch, offset, writer, flags, store,
                   issued, refused, owed, crashes, faults>>

\* Mutated form: a failed directory sync leaves the log healthy.
DirectorySyncFail_Healthy ==
    /\ pc = "directorySync" /\ Fault
    /\ job' = NoJob /\ pc' = "idle"
    /\ UNCHANGED <<disk, batch, offset, writer, flags, store,
                   issued, refused, owed, dirty, crashes>>

DirectorySyncFail ==
    /\ pc = "directorySync" /\ Fault
    /\ failed' = TRUE
    /\ job' = NoJob /\ pc' = "idle"
    /\ UNCHANGED <<disk, batch, offset, writer, closing, closed, store,
                   issued, refused, owed, dirty, crashes>>

-----------------------------------------------------------------------------
(* Close, kill and power loss *)

CloseBegin ==
    /\ MutexFree /\ ~closing
    /\ closing' = TRUE
    /\ UNCHANGED <<disk, pc, batch, offset, writer, failed, closed, job, store, ghost>>

\* The file with what the writer still holds: the rest of a record that it had
\* spilled in part, and the records after it.
Flushed == IF buf = <<>> THEN data ELSE Complete(data) \o buf

\* What a flush may leave of that, all of it if only the sync fails.
PartlyFlushed ==
    IF buf = <<>> THEN {data}
    ELSE {c \in Survivors(Flushed, Len(Complete(data))) : Len(c) >= Len(data)}

\* Close waits for the rewrite, then flushes what the writer still holds.
CloseFlushed ==
    /\ MutexFree /\ closing /\ ~closed /\ ~job.on /\ ~sticky
    /\ closed' = TRUE
    /\ data' = Flushed
    /\ buf' = <<>>
    /\ Fsync(data')
    /\ owed' = IF failed THEN owed ELSE store
    /\ UNCHANGED <<link, reverts, pc, batch, offset, sticky, failed, closing, job, store,
                   issued, refused, dirty, crashes, faults>>

\* A writer that has failed before writes nothing; otherwise the flush fails part
\* way, or the sync does.  The writer is not used again.
CloseFails ==
    /\ MutexFree /\ closing /\ ~closed /\ ~job.on
    /\ \/ sticky /\ NoFault /\ data' = data
       \/ ~sticky /\ Fault /\ data' \in PartlyFlushed
    /\ closed' = TRUE
    /\ UNCHANGED <<synced, ghosts, link, reverts, pc, batch, offset, writer, failed, closing,
                   job, store, issued, refused, owed, dirty, crashes>>

\* The memory of a process that has gone.
Stopped ==
    /\ pc' = "down" /\ batch' = <<>> /\ offset' = 0 /\ buf' = <<>> /\ sticky' = FALSE
    /\ failed' = FALSE /\ closing' = FALSE /\ closed' = FALSE
    /\ job' = NoJob /\ store' = <<>>

Exit ==
    /\ pc = "idle" /\ closed
    /\ Stopped
    /\ UNCHANGED <<disk, ghost>>

\* The kernel keeps what was written; a write in progress may be partial.
Kill ==
    /\ pc # "down" /\ crashes < MaxCrashes
    /\ data' \in Survivors(Written, Len(data))
    /\ Stopped
    /\ crashes' = crashes + 1
    /\ UNCHANGED <<synced, ghosts, link, reverts, issued, refused, owed, dirty, faults>>

PowerLoss ==
    /\ crashes < MaxCrashes /\ link # "absent"
    /\ \/ /\ data' \in Images
          /\ link' = "durable"
       \/ /\ link = "volatile"
          /\ data' = <<>>
          /\ link' = "absent"
    /\ Fsync(data')
    /\ reverts' = {}
    /\ Stopped
    /\ owed' = IF dirty THEN <<>> ELSE owed
    /\ dirty' = FALSE
    /\ crashes' = crashes + 1
    /\ UNCHANGED <<issued, refused, faults>>

-----------------------------------------------------------------------------
Open == OpenCreate \/ OpenExisting \/ CreatedSyncOK \/ CreatedSyncFail

Commit ==
    \/ AppendRefused
    \/ \E n \in 1..MaxBatch : AppendBatch(n)
    \/ FlushOK \/ FlushFail
    \/ \E k \in 0..(Len(batch) - 1) : EncodeFail(k)
    \/ SyncOK \/ SyncFail
    \/ TruncateOK \/ TruncateFail \/ RollbackSyncOK \/ RollbackSyncFail
    \/ DeltaOK \/ DeltaFail \/ Apply

SyncLoop == SyncTickOK \/ SyncTickFail

Rewrite ==
    \/ StartRewrite \/ SnapshotWritten \/ SnapshotFails \/ AbortRewrite
    \/ CompleteRefused \/ CompleteSynced \/ CompleteFails
    \/ Rename \/ DirectorySyncOK \/ DirectorySyncFail

Close == CloseBegin \/ CloseFlushed \/ CloseFails \/ Exit

Next == Open \/ Commit \/ SyncLoop \/ Rewrite \/ Close \/ Kill \/ PowerLoss

Spec == Init /\ [][Next]_vars

\* Steps of a commit under way, of the rewrite worker, of the goroutine that
\* finishes a rewrite, and of Close.
CommitStep ==
    \/ FlushOK \/ FlushFail \/ (\E k \in 0..(Len(batch) - 1) : EncodeFail(k))
    \/ SyncOK \/ SyncFail \/ TruncateOK \/ TruncateFail
    \/ RollbackSyncOK \/ RollbackSyncFail \/ DeltaOK \/ DeltaFail \/ Apply
WorkerStep == SnapshotWritten \/ SnapshotFails
FinishStep ==
    \/ AbortRewrite \/ CompleteRefused \/ CompleteSynced \/ CompleteFails
    \/ Rename \/ DirectorySyncOK \/ DirectorySyncFail
CloseStep == CloseFlushed \/ CloseFails

\* A running goroutine goes on, and one that waits for a mutex gets it: Go's
\* mutexes hand over to a waiter that has starved.
FairSpec ==
    /\ Spec
    /\ WF_vars(CommitStep) /\ WF_vars(WorkerStep)
    /\ SF_vars(FinishStep) /\ SF_vars(CloseStep)

-----------------------------------------------------------------------------
Steps == {"down", "created", "idle", "write", "sync", "truncate", "rollbackSync",
          "delta", "apply", "rename", "directorySync"}
Records == Seq(Nat)
Jobs == [on : BOOLEAN, snap : Records, delta : Records, deltaErr : BOOLEAN,
         ready : {"writing", "ok", "failed"}]

\* Every variable of the log keeps its type.
TypeOK ==
    /\ data \in Records /\ synced \in Nat /\ ghosts \subseteq Records
    /\ link \in {"absent", "volatile", "durable"} /\ reverts \subseteq Records
    /\ pc \in Steps /\ batch \in Records /\ offset \in Nat
    /\ buf \in Records /\ sticky \in BOOLEAN
    /\ failed \in BOOLEAN /\ closing \in BOOLEAN /\ closed \in BOOLEAN
    /\ job \in Jobs /\ store \in Records
    /\ issued \in Nat /\ refused \subseteq Nat /\ owed \in Records
    /\ dirty \in BOOLEAN /\ crashes \in Nat /\ faults \in Nat

\* Append before apply: whatever the store shows, the file holds as a prefix
\* in the same order, so a killed process loses nothing a client has seen,
\* under every sync policy (commitMutationBatch applies what AppendBatch wrote).
StoreIsLogged == pc # "down" => IsPrefix(store, data)

\* Commands the policy has promised to keep (acknowledged under always, seen
\* by a successful periodic sync under everysec, or synced by an orderly
\* close) are a prefix of every content a power loss may leave, across
\* rollbacks, the rename of a rewrite and earlier crashes, as long as the log
\* was not opened over a directory entry that was never synced.
OwedSurvives == ~dirty => \A c \in AfterPowerLoss : IsPrefix(owed, c)

\* The same promise with no exception for how the log was opened.
OwedAlwaysSurvives == \A c \in AfterPowerLoss : IsPrefix(owed, c)

\* A command refused with a completed rollback is in no content that a
\* recovery may read, now or after a power loss.
RefusedLeavesNoRecord ==
    \A c \in AfterPowerLoss : ToSet(c) \cap refused = {}

TornOnlyLast(c) == \A i \in 1..(Len(c) - 1) : c[i] # Torn

\* Recovery never meets a torn record before the last one, which it would
\* report as corruption and refuse to start: the log is never appended to
\* after a partial write that was not cut off.
AlwaysRecoverable ==
    /\ TornOnlyLast(data)
    /\ \A c \in AfterPowerLoss : TornOnlyLast(c)

\* Installing a rewrite replaces the file by one that replays to the same
\* commands: no mutation slips between the snapshot and the delta.
ReplacementIsEquivalent ==
    [][pc = "rename" /\ pc' = "directorySync" => data' = data /\ data' = store]_vars

\* A rewrite that has started ends, in success or failure: job.done is closed
\* on every path of CompleteRewrite and AbortRewrite.
RewriteEnds == job.on ~> ~job.on

\* Close returns: it does not wait for ever for a rewrite to be done.
CloseEnds == closing ~> (closed \/ pc = "down")

=============================================================================
