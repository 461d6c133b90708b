------------------------------- MODULE Recovery -------------------------------
(***************************************************************************)
(* Does the log give back the data?  The group commit of                   *)
(* internal/command/executor.go over the commands of Keyspace: admission   *)
(* under the memory limit, append, apply; lazy and active expiry,          *)
(* eviction, rewrite and restart, while the clock moves on between any two *)
(* steps.  The log is what is in the file; AppendLog has the failures of   *)
(* the file itself.                                                        *)
(***************************************************************************)
EXTENDS Keyspace, FiniteSetsExt

CONSTANTS
    Commands,    \* mutations clients send
    MaxMemory,   \* entries and items the store may hold before a growing command
    EvictLRU,    \* allkeys-lru, or noeviction
    MaxBatch,    \* commands in one group commit
    MaxTime,     \* bound on the clock
    MaxLog       \* bound on the records of the log

ASSUME RecoveryAssumption ==
    /\ MaxMemory \in Nat /\ EvictLRU \in BOOLEAN /\ MaxBatch \in Nat \ {0}
    /\ MaxTime \in Nat \ {0} /\ MaxLog \in Nat

VARIABLES
    clock,
    store,
    log,         \* records in the file
    failed,      \* an append failed: the log takes no more until a restart
    queue,       \* commands of the batch still to be admitted
    accepted,    \* commands of the batch admitted
    todo,        \* persisted commands of the batch still to be applied
    candidates,  \* keys the expiry cycle sampled
    leaned       \* history: deadlines that a command which keeps what it finds met

barrier == <<queue, accepted, todo>>
vars == <<clock, store, log, failed, barrier, candidates, leaned>>

\* mutationMu is free.
Quiet == queue = <<>> /\ accepted = <<>> /\ todo = <<>>

\* Mutations bounded by MaxLog; a rewrite makes room.
Room(n) == Len(log) + n <= MaxLog

\* The memory estimate, in entries and items.
Used == FoldLeft(LAMBDA sum, k : sum + (IF store[k] = Absent THEN 0 ELSE 1 + Len(store[k].value)),
                 0, SetToSeq(Keys))
Full(c) == MaxMemory > 0 /\ GrowsMemory(c) /\ Used > MaxMemory

Init ==
    /\ clock = 1
    /\ store = EmptyStore
    /\ log = <<>> /\ failed = FALSE
    /\ queue = <<>> /\ accepted = <<>> /\ todo = <<>>
    /\ candidates = {}
    /\ leaned = {}

Tick ==
    /\ clock < MaxTime
    /\ clock' = clock + 1
    /\ UNCHANGED <<store, log, failed, barrier, candidates, leaned>>

-----------------------------------------------------------------------------
(* commitMutationBatch *)

\* The dispatcher takes mutationMu with a batch.
Commit(batch) ==
    /\ Quiet
    /\ queue' = batch
    /\ UNCHANGED <<clock, failed, store, log, accepted, todo, candidates, leaned>>

Admit ==
    /\ queue # <<>>
    /\ ~Full(Head(queue))
    /\ accepted' = Append(accepted, Head(queue))
    /\ queue' = Tail(queue)
    /\ UNCHANGED <<clock, failed, store, log, todo, candidates, leaned>>

\* Mutated form: an eviction is not journaled.
Evict_Unjournaled(k) ==
    /\ queue # <<>> /\ EvictLRU /\ Full(Head(queue)) /\ ~failed /\ Room(1)
    /\ store[k] # Absent
    /\ store' = [store EXCEPT ![k] = Absent]
    /\ UNCHANGED <<clock, failed, log, barrier, candidates, leaned>>

\* admit's loop: LRUVictim is some key of the store, journaled, then deleted.
Evict(k) ==
    /\ queue # <<>> /\ EvictLRU /\ Full(Head(queue)) /\ ~failed /\ Room(1)
    /\ store[k] # Absent
    /\ log' = Append(log, DelOf(k))
    /\ store' = [store EXCEPT ![k] = Absent]
    /\ UNCHANGED <<clock, failed, barrier, candidates, leaned>>

\* The DEL of a victim cannot be persisted: the victim stays.
EvictFails ==
    /\ queue # <<>> /\ EvictLRU /\ Full(Head(queue))
    /\ failed' = TRUE
    /\ queue' = Tail(queue)
    /\ UNCHANGED <<clock, store, log, accepted, todo, candidates, leaned>>

\* The OOM reply.
Refuse ==
    /\ queue # <<>> /\ ~EvictLRU
    /\ Full(Head(queue))
    /\ queue' = Tail(queue)
    /\ UNCHANGED <<clock, failed, store, log, accepted, todo, candidates, leaned>>

\* AppendBatch: canonical commands are journaled, the others only executed.
AppendBatch ==
    LET valid == SelectSeq(accepted, IsCanonical)
    IN  /\ queue = <<>> /\ accepted # <<>> /\ ~failed
        /\ Room(Len(valid))
        /\ log' = log \o [i \in DOMAIN valid |-> Canonical(valid[i], clock)]
        /\ todo' = [i \in DOMAIN accepted |-> Canonical(accepted[i], clock)]
        /\ accepted' = <<>>
        /\ UNCHANGED <<clock, failed, store, queue, candidates, leaned>>

\* The batch cannot be persisted: its commands are answered with the error.
AppendFails ==
    /\ queue = <<>> /\ accepted # <<>>
    /\ failed' = TRUE
    /\ accepted' = <<>>
    /\ UNCHANGED <<clock, store, log, queue, todo, candidates, leaned>>

Touched(c) == IF c.op = "LMOVE" THEN {c.src, c.dst} ELSE {c.key}

\* The deadlines of the keys c finds alive and does not simply overwrite.
Leans(s, c, now) ==
    IF c.op \in {"SET", "SETEX", "DEL"} THEN {}
    ELSE {Live(s, k, now).expires : k \in Touched(c)} \ {Never}

\* Executor.execute on the next persisted command.
Apply ==
    /\ todo # <<>>
    /\ store' = Execute(store, Head(todo), clock).store
    /\ leaned' = leaned \cup Leans(store, Head(todo), clock)
    /\ todo' = Tail(todo)
    /\ UNCHANGED <<clock, failed, log, queue, accepted, candidates>>

-----------------------------------------------------------------------------
(* Everything else that touches the store or the log *)

\* A read removes the key it meets if it has expired, and journals nothing.
Read(k) ==
    /\ store' = Lazy(store, k, clock)
    /\ store' # store
    /\ UNCHANGED <<clock, failed, log, barrier, candidates, leaned>>

\* sampleExpired, without mutationMu.
SampleExpired ==
    /\ candidates = {}
    /\ \E expired \in SUBSET {k \in Keys : IsExpired(store[k], clock)} \ {{}} :
          candidates' = expired
    /\ UNCHANGED <<clock, failed, store, log, barrier, leaned>>

\* Mutated form: the candidates are not looked at again before the append.
JournalAndDeleteExpired_NoRecheck ==
    LET expired == SetToSeq(candidates)
    IN  /\ Quiet /\ candidates # {} /\ (failed => expired = <<>>) /\ Room(Len(expired))
        /\ log' = log \o [i \in DOMAIN expired |-> DelOf(expired[i])]
        /\ store' = [k \in Keys |-> IF k \in candidates THEN Live(store, k, clock) ELSE store[k]]
        /\ candidates' = {}
        /\ UNCHANGED <<clock, failed, barrier, leaned>>

\* journalAndDeleteExpired, under mutationMu.
JournalAndDeleteExpired ==
    LET expired == SetToSeq({k \in candidates : IsExpired(store[k], clock)})
    IN  /\ Quiet /\ candidates # {} /\ (failed => expired = <<>>) /\ Room(Len(expired))
        /\ log' = log \o [i \in DOMAIN expired |-> DelOf(expired[i])]
        /\ store' = [k \in Keys |-> IF k \in candidates THEN Live(store, k, clock) ELSE store[k]]
        /\ candidates' = {}
        /\ UNCHANGED <<clock, failed, barrier, leaned>>

\* The DELs cannot be persisted: the cycle ends and the keys stay.
ExpiryFails ==
    /\ Quiet /\ \E k \in candidates : IsExpired(store[k], clock)
    /\ failed' = TRUE
    /\ candidates' = {}
    /\ UNCHANGED <<clock, store, log, barrier, leaned>>

\* StartRewrite captures the store under mutationMu; what is appended after
\* that ends up behind the snapshot.
Rewrite ==
    /\ Quiet /\ ~failed
    /\ log' = Snapshot(store, clock)
    /\ Len(log') <= MaxLog
    /\ leaned' = {}
    /\ UNCHANGED <<clock, failed, store, barrier, candidates>>

\* The deadlines that a replay of the log meets.
ReplayLeans ==
    UNION {Leans(Replay(SubSeq(log, 1, i - 1), clock), log[i], clock) : i \in DOMAIN log}

\* A crash at any point, and recovery from the file.
Restart ==
    /\ store' = Replay(log, clock)
    /\ leaned' = ReplayLeans
    /\ failed' = FALSE
    /\ queue' = <<>> /\ accepted' = <<>> /\ todo' = <<>> /\ candidates' = {}
    /\ UNCHANGED <<clock, log>>

Next ==
    \/ Tick
    \/ \E n \in 1..MaxBatch : \E batch \in [1..n -> Commands] : Commit(batch)
    \/ Admit \/ Refuse \/ EvictFails \/ AppendBatch \/ AppendFails \/ Apply
    \/ \E k \in Keys : Evict(k) \/ Read(k)
    \/ SampleExpired \/ JournalAndDeleteExpired \/ ExpiryFails
    \/ Rewrite \/ Restart

Spec == Init /\ [][Next]_vars

-----------------------------------------------------------------------------
\* An absent key has no value, a string one, a list at least one: a list that
\* loses its last item is removed with its key.
TypeOK ==
    /\ clock \in 1..MaxTime /\ Len(log) <= MaxLog /\ failed \in BOOLEAN
    /\ \A k \in Keys :
          LET obj == store[k] IN
          /\ obj.expires \in Nat
          /\ obj.value \in Seq(Values)
          /\ \/ obj = Absent
             \/ obj.kind = "string" /\ Len(obj.value) = 1
             \/ obj.kind = "list" /\ Len(obj.value) > 0

SameAt(t) == View(Replay(log, t), t) = View(store, t)

\* A restart at any later time gives back exactly what clients would have seen
\* had the server gone on: through lazy expiry that is not journaled, active
\* expiry and eviction that are, deadlines that pass between append and apply,
\* and rewrites.  The condition says where this ends: no deadline may have
\* passed that an earlier command relied on by changing a key in place.
ReplayAgrees ==
    Quiet => \A t \in clock..MaxTime : (\A d \in leaned : t < d) => SameAt(t)

\* Lazy expiry need not be journaled: replay re-applies absolute deadlines,
\* which gives the same result unless the clock moves backwards.
ReplayEqualsLive == Quiet => \A t \in clock..MaxTime : SameAt(t)

\* A command that is answered with an error has changed nothing: LMOVE to a key
\* of the wrong kind, LSET beyond the end, a pop with a negative count.
ErrorsChangeNothing ==
    todo # <<>> =>
        LET result == Execute(store, Head(todo), clock)
        IN  result.error => View(result.store, clock) = View(store, clock)

=============================================================================
