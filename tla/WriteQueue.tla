------------------------------ MODULE WriteQueue ------------------------------
(***************************************************************************)
(* The write path of command.Executor with a batch journal: client         *)
(* goroutines enqueue under dispatchMu, a dispatcher started on demand     *)
(* gathers batches and commits them under the mutation barrier, an idle    *)
(* dispatcher stops, AOFREWRITE requests travel in the same queue, and     *)
(* active expiry takes the barrier from outside the queue.  The client of  *)
(* a mutation waits for its result; that of an AOFREWRITE is told OK once  *)
(* the request is in the queue and may go on before the rewrite starts.    *)
(*                                                                         *)
(* A request is a client, a number and a kind.  What it does to journal    *)
(* and store is abstracted to its place in their histories; a rewrite      *)
(* takes its place where the snapshot is copied.  Admission and the        *)
(* journal's own failures are choices; AppendLog has their detail, and     *)
(* RewriteStatus that of the status.                                       *)
(***************************************************************************)
EXTENDS Naturals, Sequences, FiniteSets, SequencesExt

CONSTANTS
    Clients,      \* goroutines that execute commands
    Rewriters,    \* the clients that may also send AOFREWRITE
    Expiry,       \* stands for the active-expiry loop in the histories
    Loops,        \* dispatcher goroutines that may exist
    Capacity,     \* capacity of the write queue
    BatchLimit,   \* most mutations committed together
    Delay,        \* whether the journal asks for a group-commit delay
    MaxRounds,    \* bound: requests of one client
    MaxExpiries   \* bound: active-expiry batches

ASSUME QueueAssumption ==
    /\ Rewriters \subseteq Clients /\ Expiry \notin Clients
    /\ Clients \cap Loops = {} /\ Expiry \notin Loops
    /\ Capacity \in Nat \ {0} /\ BatchLimit \in Nat \ {0}
    /\ Delay \in BOOLEAN
    /\ MaxRounds \in Nat /\ MaxExpiries \in Nat

VARIABLES
    step,         \* step of each client
    round,        \* number of each client's latest command
    kind,         \* its kind: a mutation, or AOFREWRITE
    mu,           \* holder of dispatchMu
    dispatching,
    queue,        \* writeQueue
    pc,           \* step of each dispatcher
    pending,      \* request a dispatcher handles next, as a sequence of at most one
    batch,        \* requests a dispatcher is committing
    accepted,     \* those of them that are admitted and persisted
    barrier,      \* holder of mutationMu
    expiry,       \* step of the active-expiry loop
    expiries,     \* number of its latest batch
    status,       \* rewriteStatus; "none" if it is idle, completed or failed
    job,          \* the log has a rewrite under way
    late,         \* rewrites whose failed start is still to be recorded
    journal,      \* what was persisted, in order
    store,        \* what was applied, in order
    sent,         \* requests in the order they entered the queue
    served,       \* requests in the order the dispatcher was done with them
    acked         \* mutations answered with success

client == <<step, round, kind>>
loop == <<pc, pending, batch, accepted>>
expire == <<expiry, expiries>>
rewrite == <<status, job, late>>
effect == <<journal, store>>
history == <<sent, served, acked>>
vars == <<client, mu, dispatching, queue, loop, barrier, expire, rewrite, effect, history>>

Free == "free"
Request(c) == <<c, round[c], kind[c]>>
IsRewrite(r) == r[3] = "rewrite"
IsMutation(r) == r[3] = "mutation"

Init ==
    /\ step = [c \in Clients |-> "idle"] /\ round = [c \in Clients |-> 0]
    /\ kind = [c \in Clients |-> "mutation"]
    /\ mu = Free /\ dispatching = FALSE /\ queue = <<>>
    /\ pc = [l \in Loops |-> "off"] /\ pending = [l \in Loops |-> <<>>]
    /\ batch = [l \in Loops |-> <<>>] /\ accepted = [l \in Loops |-> {}]
    /\ barrier = Free /\ expiry = "idle" /\ expiries = 0
    /\ status = "none" /\ job = FALSE /\ late = {}
    /\ journal = <<>> /\ store = <<>>
    /\ sent = <<>> /\ served = <<>> /\ acked = {}

-----------------------------------------------------------------------------
(* Clients *)

\* Client c is free to give Execute a command, one of kind k.
Execute(c, k) ==
    /\ step[c] = "idle" /\ round[c] < MaxRounds
    /\ round' = [round EXCEPT ![c] = @ + 1]
    /\ kind' = [kind EXCEPT ![c] = k]

SubmitMutation(c) ==
    /\ Execute(c, "mutation")
    /\ step' = [step EXCEPT ![c] = "enqueue"]
    /\ UNCHANGED <<mu, dispatching, queue, loop, barrier, expire, rewrite, effect, history>>

\* enqueueAOFRewrite claims the status; it refuses, and the client is idle
\* again, while a rewrite is queued or running.
EnqueueAOFRewrite(c) ==
    /\ c \in Rewriters /\ Execute(c, "rewrite")
    /\ IF status = "none"
       THEN step' = [step EXCEPT ![c] = "enqueue"] /\ status' = "queued"
       ELSE UNCHANGED <<step, status>>
    /\ UNCHANGED <<mu, dispatching, queue, loop, barrier, expire, job, late, effect, history>>

\* enqueue takes dispatchMu and starts a dispatcher if none is running.
EnqueueLock(c) ==
    /\ step[c] = "enqueue" /\ mu = Free
    /\ mu' = c
    /\ step' = [step EXCEPT ![c] = "send"]
    /\ IF dispatching
       THEN UNCHANGED <<dispatching, pc>>
       ELSE /\ dispatching' = TRUE
            /\ \E l \in Loops : pc[l] = "off" /\ pc' = [pc EXCEPT ![l] = "select"]
    /\ UNCHANGED <<round, kind, queue, pending, batch, accepted, barrier, expire, rewrite,
                   effect, history>>

\* Mutated form: the queue grows past its capacity.
EnqueueSend_Unbounded(c) ==
    /\ step[c] = "send"
    /\ queue' = Append(queue, Request(c))
    /\ sent' = Append(sent, Request(c))
    /\ mu' = Free
    /\ step' = [step EXCEPT ![c] = IF kind[c] = "rewrite" THEN "idle" ELSE "wait"]
    /\ UNCHANGED <<round, kind, dispatching, loop, barrier, expire, rewrite, effect,
                   served, acked>>

\* The send may block while dispatchMu is held.  The client of a mutation then
\* waits for its result, that of an AOFREWRITE has its OK.
EnqueueSend(c) ==
    /\ step[c] = "send" /\ Len(queue) < Capacity
    /\ queue' = Append(queue, Request(c))
    /\ sent' = Append(sent, Request(c))
    /\ mu' = Free
    /\ step' = [step EXCEPT ![c] = IF kind[c] = "rewrite" THEN "idle" ELSE "wait"]
    /\ UNCHANGED <<round, kind, dispatching, loop, barrier, expire, rewrite, effect,
                   served, acked>>

-----------------------------------------------------------------------------
(* writeLoop *)

\* Take up request r: a rewrite is started, a mutation opens a batch.
TakeUp(l, r) ==
    IF IsRewrite(r)
    THEN /\ pc' = [pc EXCEPT ![l] = "start"]
         /\ pending' = [pending EXCEPT ![l] = <<r>>]
         /\ UNCHANGED batch
    ELSE /\ pc' = [pc EXCEPT ![l] = "collect"]
         /\ batch' = [batch EXCEPT ![l] = <<r>>]
         /\ pending' = [pending EXCEPT ![l] = <<>>]

TakePending(l) ==
    /\ pc[l] = "select" /\ pending[l] # <<>>
    /\ TakeUp(l, Head(pending[l]))
    /\ UNCHANGED <<client, mu, dispatching, queue, accepted, barrier, expire, rewrite,
                   effect, history>>

Receive(l) ==
    /\ pc[l] = "select" /\ pending[l] = <<>> /\ queue # <<>>
    /\ TakeUp(l, Head(queue))
    /\ queue' = Tail(queue)
    /\ UNCHANGED <<client, mu, dispatching, accepted, barrier, expire, rewrite, effect, history>>

\* The idle timer keeps running during a slow commit, so that it may have
\* fired although requests are waiting.
IdleFires(l) ==
    /\ pc[l] = "select" /\ pending[l] = <<>>
    /\ pc' = [pc EXCEPT ![l] = "idle"]
    /\ UNCHANGED <<client, mu, dispatching, queue, pending, batch, accepted,
                   barrier, expire, rewrite, effect, history>>

\* Mutated form: the dispatcher stops without another look at the queue.
IdleCheck_NoRecheck(l) ==
    /\ pc[l] = "idle" /\ mu = Free
    /\ dispatching' = FALSE /\ pc' = [pc EXCEPT ![l] = "off"]
    /\ UNCHANGED <<client, mu, queue, pending, batch, accepted, barrier, expire,
                   rewrite, effect, history>>

IdleCheck(l) ==
    /\ pc[l] = "idle" /\ mu = Free
    /\ IF queue = <<>>
       THEN dispatching' = FALSE /\ pc' = [pc EXCEPT ![l] = "off"]
       ELSE pc' = [pc EXCEPT ![l] = "select"] /\ UNCHANGED dispatching
    /\ UNCHANGED <<client, mu, queue, pending, batch, accepted, barrier, expire,
                   rewrite, effect, history>>

\* Mutated form: a rewrite is set aside and the batch goes on growing.
Collect_PastRewrite(l) ==
    /\ pc[l] = "collect" /\ Len(batch[l]) < BatchLimit /\ queue # <<>>
    /\ queue' = Tail(queue)
    /\ IF IsRewrite(Head(queue))
       THEN /\ pending' = [pending EXCEPT ![l] = <<Head(queue)>>]
            /\ UNCHANGED batch
       ELSE /\ batch' = [batch EXCEPT ![l] = Append(@, Head(queue))]
            /\ UNCHANGED pending
    /\ UNCHANGED <<client, mu, dispatching, pc, accepted, barrier, expire, rewrite,
                   effect, history>>

Collect(l) ==
    /\ pc[l] = "collect" /\ Len(batch[l]) < BatchLimit /\ queue # <<>>
    /\ queue' = Tail(queue)
    /\ IF IsRewrite(Head(queue))
       THEN /\ pending' = [pending EXCEPT ![l] = <<Head(queue)>>]
            /\ pc' = [pc EXCEPT ![l] = "commit"]
            /\ UNCHANGED batch
       ELSE /\ batch' = [batch EXCEPT ![l] = Append(@, Head(queue))]
            /\ UNCHANGED <<pc, pending>>
    /\ UNCHANGED <<client, mu, dispatching, accepted, barrier, expire, rewrite, effect, history>>

\* The batch is full, the delay is over, or there is none and nothing waits.
CloseBatch(l) ==
    /\ pc[l] = "collect"
    /\ Len(batch[l]) >= BatchLimit \/ Delay \/ queue = <<>>
    /\ pc' = [pc EXCEPT ![l] = "commit"]
    /\ UNCHANGED <<client, mu, dispatching, queue, pending, batch, accepted,
                   barrier, expire, rewrite, effect, history>>

CommitLock(l) ==
    /\ pc[l] = "commit" /\ barrier = Free
    /\ barrier' = l
    /\ pc' = [pc EXCEPT ![l] = "append"]
    /\ UNCHANGED <<client, mu, dispatching, queue, pending, batch, accepted,
                   expire, rewrite, effect, history>>

Commands(l, R) == SelectSeq(batch[l], LAMBDA r : r \in R)

\* Admission refuses some of the batch; the rest is persisted as a whole.
CommitAppend(l) ==
    /\ pc[l] = "append"
    /\ \E R \in SUBSET ToSet(batch[l]) :
          /\ accepted' = [accepted EXCEPT ![l] = R]
          /\ journal' = journal \o Commands(l, R)
    /\ pc' = [pc EXCEPT ![l] = "apply"]
    /\ UNCHANGED <<client, mu, dispatching, queue, pending, batch, barrier,
                   expire, rewrite, store, history>>

\* Nothing of a batch the journal refuses is applied.
CommitRefused(l) ==
    /\ pc[l] = "append"
    /\ accepted' = [accepted EXCEPT ![l] = {}]
    /\ barrier' = Free
    /\ pc' = [pc EXCEPT ![l] = "reply"]
    /\ UNCHANGED <<client, mu, dispatching, queue, pending, batch, expire, rewrite,
                   effect, history>>

CommitApply(l) ==
    /\ pc[l] = "apply"
    /\ store' = store \o Commands(l, accepted[l])
    /\ barrier' = Free
    /\ pc' = [pc EXCEPT ![l] = "reply"]
    /\ UNCHANGED <<client, mu, dispatching, queue, pending, batch, accepted,
                   expire, rewrite, journal, history>>

\* The answer goes to a channel with room for it, so this never blocks.
Answer(r, ok) ==
    /\ step' = [step EXCEPT ![r[1]] = "idle"]
    /\ served' = Append(served, r)
    /\ acked' = IF ok THEN acked \cup {r} ELSE acked

\* Mutated form: every request of a batch gets the result of the append.
Reply_BatchResult(l) ==
    /\ pc[l] = "reply"
    /\ Answer(Head(batch[l]), accepted[l] # {})
    /\ batch' = [batch EXCEPT ![l] = Tail(@)]
    /\ IF Len(batch[l]) > 1
       THEN UNCHANGED <<pc, accepted>>
       ELSE /\ pc' = [pc EXCEPT ![l] = "select"]
            /\ accepted' = [accepted EXCEPT ![l] = {}]
    /\ UNCHANGED <<round, kind, mu, dispatching, queue, pending, barrier, expire, rewrite,
                   effect, sent>>

Reply(l) ==
    /\ pc[l] = "reply"
    /\ Answer(Head(batch[l]), Head(batch[l]) \in accepted[l])
    /\ batch' = [batch EXCEPT ![l] = Tail(@)]
    /\ IF Len(batch[l]) > 1
       THEN UNCHANGED <<pc, accepted>>
       ELSE /\ pc' = [pc EXCEPT ![l] = "select"]
            /\ accepted' = [accepted EXCEPT ![l] = {}]
    /\ UNCHANGED <<round, kind, mu, dispatching, queue, pending, barrier, expire, rewrite,
                   effect, sent>>

\* startAOFRewriteNow, holding the barrier: the snapshot is copied where the log
\* accepts the job, which it does only if it has none.  A failure reaches the
\* status, not the client.
StartRewrite(l) ==
    /\ pc[l] = "start" /\ barrier = Free
    /\ \/ /\ status # "running" /\ ~job
          /\ status' = "running" /\ job' = TRUE
          /\ journal' = journal \o pending[l]
          /\ store' = store \o pending[l]
          /\ UNCHANGED late
       \/ /\ status' = IF status = "running" THEN "running" ELSE "none"
          /\ late' = late \cup ToSet(pending[l])
          /\ UNCHANGED <<job, effect>>
    /\ served' = served \o pending[l]
    /\ pending' = [pending EXCEPT ![l] = <<>>]
    /\ pc' = [pc EXCEPT ![l] = "select"]
    /\ UNCHANGED <<client, mu, dispatching, queue, batch, accepted, barrier, expire,
                   sent, acked>>

\* The goroutine left behind by enqueueAOFRewrite receives the start's error.
RecordStartFailure(r) ==
    /\ r \in late
    /\ late' = late \ {r}
    /\ status' = "none"
    /\ UNCHANGED <<client, mu, dispatching, queue, loop, barrier, expire, job, effect, history>>

\* finishAOFRewrite: only a rewrite that is completed, not one that is aborted,
\* waits for the barrier.  RewriteStatus has the recording of the result as a
\* step of its own.
FinishAOFRewrite ==
    /\ job
    /\ job' = FALSE
    /\ status' = "none"
    /\ UNCHANGED <<client, mu, dispatching, queue, loop, barrier, expire, late, effect, history>>

-----------------------------------------------------------------------------
(* journalAndDeleteExpired *)

Expired == <<Expiry, expiries>>

\* Mutated form: active expiry does not take the barrier.
ExpireLock_NoBarrier ==
    /\ expiry = "idle" /\ expiries < MaxExpiries
    /\ expiry' = "append"
    /\ expiries' = expiries + 1
    /\ UNCHANGED <<client, mu, dispatching, queue, loop, barrier, rewrite, effect, history>>

ExpireLock ==
    /\ expiry = "idle" /\ barrier = Free /\ expiries < MaxExpiries
    /\ barrier' = Expiry
    /\ expiry' = "append"
    /\ expiries' = expiries + 1
    /\ UNCHANGED <<client, mu, dispatching, queue, loop, rewrite, effect, history>>

ExpireAppend ==
    /\ expiry = "append"
    /\ journal' = Append(journal, Expired)
    /\ expiry' = "delete"
    /\ UNCHANGED <<client, mu, dispatching, queue, loop, barrier, expiries, rewrite, store,
                   history>>

ExpireRefused ==
    /\ expiry = "append"
    /\ barrier' = Free
    /\ expiry' = "idle"
    /\ UNCHANGED <<client, mu, dispatching, queue, loop, expiries, rewrite, effect, history>>

ExpireDelete ==
    /\ expiry = "delete"
    /\ store' = Append(store, Expired)
    /\ barrier' = Free
    /\ expiry' = "idle"
    /\ UNCHANGED <<client, mu, dispatching, queue, loop, expiries, rewrite, journal, history>>

-----------------------------------------------------------------------------
Client(c) ==
    SubmitMutation(c) \/ EnqueueAOFRewrite(c) \/ EnqueueLock(c) \/ EnqueueSend(c)
Take(l) == TakePending(l) \/ Receive(l)
Commit(l) ==
    \/ Collect(l) \/ CloseBatch(l) \/ CommitLock(l)
    \/ CommitAppend(l) \/ CommitRefused(l) \/ CommitApply(l)
    \/ Reply(l) \/ StartRewrite(l)
Dispatch(l) == Take(l) \/ IdleFires(l) \/ IdleCheck(l) \/ Commit(l)
Expire == ExpireAppend \/ ExpireRefused \/ ExpireDelete

Next ==
    \/ \E c \in Clients : Client(c)
    \/ \E l \in Loops : Dispatch(l)
    \/ ExpireLock \/ Expire
    \/ (\E r \in late : RecordStartFailure(r)) \/ FinishAOFRewrite

Spec == Init /\ [][Next]_vars

\* Go's mutexes serve every waiter, its select prefers no ready branch for ever,
\* and a goroutine that can run does.
FairSpec ==
    /\ Spec
    /\ \A c \in Clients : SF_vars(EnqueueLock(c))
    /\ WF_vars(\E c \in Clients : EnqueueSend(c))
    /\ SF_vars(\E l \in Loops : Take(l))
    /\ SF_vars(\E l \in Loops : IdleCheck(l))
    /\ SF_vars(\E l \in Loops : Commit(l))
    /\ WF_vars(Expire)

-----------------------------------------------------------------------------
RequestIds == Clients \X (1..MaxRounds) \X {"mutation", "rewrite"}
Effects == RequestIds \cup ({Expiry} \X (1..MaxExpiries))

\* Every variable of the write path keeps its type.
TypeOK ==
    /\ step \in [Clients -> {"idle", "enqueue", "send", "wait"}]
    /\ round \in [Clients -> 0..MaxRounds] /\ kind \in [Clients -> {"mutation", "rewrite"}]
    /\ mu \in Clients \cup {Free} /\ dispatching \in BOOLEAN
    /\ queue \in Seq(RequestIds) /\ Len(queue) <= Capacity
    /\ pc \in [Loops -> {"off", "select", "idle", "collect", "commit", "append",
                         "apply", "reply", "start"}]
    /\ pending \in [Loops -> Seq(RequestIds)]
    /\ batch \in [Loops -> Seq(RequestIds)]
    /\ accepted \in [Loops -> SUBSET RequestIds]
    /\ barrier \in Loops \cup {Free, Expiry}
    /\ expiry \in {"idle", "append", "delete"} /\ expiries \in 0..MaxExpiries
    /\ status \in {"none", "queued", "running"} /\ job \in BOOLEAN
    /\ late \subseteq RequestIds
    /\ journal \in Seq(Effects) /\ store \in Seq(Effects)
    /\ sent \in Seq(RequestIds) /\ served \in Seq(RequestIds)
    /\ acked \subseteq RequestIds

\* At most one dispatcher runs, and it runs whenever a request is in the queue
\* or being sent: the decision to stop and the decision to start are both made
\* under dispatchMu, so no request is stranded and no two batches interleave.
OneDispatcher ==
    /\ \A l, m \in Loops : pc[l] # "off" /\ pc[m] # "off" => l = m
    /\ queue # <<>> \/ (\E c \in Clients : step[c] = "send")
           => \E l \in Loops : pc[l] # "off"

\* The dispatcher serves requests in the order in which they entered the queue,
\* a mutation by answering it, a rewrite by starting it or recording why not
\* (its client was answered when it was enqueued), and loses none between the
\* queue, the batch and the request set aside.
ServedInOrder ==
    \/ \E l \in Loops : pc[l] # "off" /\ sent = served \o batch[l] \o pending[l] \o queue
    \/ (\A l \in Loops : pc[l] = "off") /\ sent = served

\* One order of effects: what the store has applied is what the journal holds,
\* in the same order, and all of it whenever the barrier is free, although
\* active expiry writes to both from outside the queue.
StoreFollowsJournal ==
    /\ IsPrefix(store, journal)
    /\ barrier = Free => store = journal

\* Requests take effect in the order of the queue: a snapshot for AOFREWRITE
\* has every mutation enqueued before it and none enqueued after it.
EffectsInQueueOrder ==
    SelectSeq(journal, LAMBDA e : e[1] # Expiry)
        = SelectSeq(sent, LAMBDA r : r \in ToSet(journal))

\* The client of a mutation is told of success exactly when its request took
\* effect, each result of a batch going to the request it belongs to.
AnswersAreTrue ==
    /\ acked \subseteq ToSet(store)
    /\ \A r \in ToSet(served) \cap ToSet(journal) : IsMutation(r) => r \in acked

\* Every command given to the executor is answered, a mutation after it was
\* committed or refused, an AOFREWRITE once it is in the queue.
EveryRequestAnswered ==
    \A c \in Clients : step[c] = "enqueue" ~> step[c] = "idle"

=============================================================================
