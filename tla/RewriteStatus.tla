----------------------------- MODULE RewriteStatus -----------------------------
(***************************************************************************)
(* Who writes rewriteStatus in internal/command/executor.go: clients that  *)
(* ask for a rewrite, the dispatcher that starts it, the goroutine that    *)
(* finishes it, and the goroutine that waits for a request's start and     *)
(* records its failure.  Several requests overlap.                         *)
(***************************************************************************)
EXTENDS Naturals, Sequences

CONSTANTS
    Requests,   \* AOFREWRITE commands and RewriteAOF calls
    Calls,      \* those that are RewriteAOF calls
    None

ASSUME RequestsAssumption == Calls \subseteq Requests /\ None \notin Requests

VARIABLES
    status,     \* rewriteStatus
    step,       \* what each request, or the goroutine left behind by it, does
    queue,      \* requests in the dispatcher's queue
    starting,   \* request whose start holds mutationMu, or None
    jobs        \* requests whose rewrite is active in the log

vars == <<status, step, queue, starting, jobs>>

Steps == {"new", "sending", "queued", "starting", "running", "failing",
          "completed", "failed", "over"}

Busy == status \in {"queued", "running"}

Init ==
    /\ status = "idle"
    /\ step = [r \in Requests |-> "new"]
    /\ queue = <<>>
    /\ starting = None
    /\ jobs = {}

\* AOFREWRITE up to the unlock of rewriteMu, refused if one is queued or runs.
EnqueueAOFRewrite(r) ==
    /\ step[r] = "new" /\ r \notin Calls
    /\ IF Busy
       THEN step' = [step EXCEPT ![r] = "over"] /\ UNCHANGED status
       ELSE step' = [step EXCEPT ![r] = "sending"] /\ status' = "queued"
    /\ UNCHANGED <<queue, starting, jobs>>

Enqueue(r) ==
    /\ step' = [step EXCEPT ![r] = "queued"]
    /\ queue' = Append(queue, r)
    /\ UNCHANGED <<status, starting, jobs>>

\* The request goes to the queue; RewriteAOF sends it without a look at status.
Send(r) == step[r] = "sending" /\ Enqueue(r)
Call(r) == step[r] = "new" /\ r \in Calls /\ Enqueue(r)

\* Mutated form: the error of a start is dropped.
Failing_Dropped(r) == [step EXCEPT ![r] = "over"]

\* A start that failed: AOFREWRITE leaves a goroutine behind that will record
\* it, RewriteAOF returns.
Failing(r) == [step EXCEPT ![r] = IF r \in Calls THEN "over" ELSE "failing"]

\* startAOFRewriteNow on the first request: status is claimed under rewriteMu.
ClaimStatus ==
    /\ queue # <<>> /\ starting = None
    /\ queue' = Tail(queue)
    /\ LET r == Head(queue) IN
       IF status = "running"
       THEN step' = Failing(r) /\ UNCHANGED <<status, starting>>
       ELSE /\ status' = "running"
            /\ starting' = r
            /\ step' = [step EXCEPT ![r] = "starting"]
    /\ UNCHANGED jobs

\* ... Log.StartRewrite accepts the job if it has none,
StartRewrite ==
    /\ starting # None /\ jobs = {}
    /\ jobs' = {starting}
    /\ step' = [step EXCEPT ![starting] = "running"]
    /\ starting' = None
    /\ UNCHANGED <<status, queue>>

\* ... and refuses it, or fails, otherwise.
StartFails ==
    /\ starting # None
    /\ status' = "failed"
    /\ step' = Failing(starting)
    /\ starting' = None
    /\ UNCHANGED <<queue, jobs>>

\* The goroutine of enqueueAOFRewrite receives the start's error.
RecordStartFailure(r) ==
    /\ step[r] = "failing"
    /\ status' = "failed"
    /\ step' = [step EXCEPT ![r] = "over"]
    /\ UNCHANGED <<queue, starting, jobs>>

\* Mutated form: a failed rewrite stays active in the log.
AbortRewrite_KeepsJob(r) ==
    /\ step[r] = "running"
    /\ step' = [step EXCEPT ![r] = "failed"]
    /\ UNCHANGED <<status, queue, starting, jobs>>

\* finishAOFRewrite: the log has given up the job, or has finished it under
\* mutationMu,
AbortRewrite(r) ==
    /\ step[r] = "running"
    /\ jobs' = jobs \ {r}
    /\ step' = [step EXCEPT ![r] = "failed"]
    /\ UNCHANGED <<status, queue, starting>>

CompleteRewrite(r) ==
    /\ step[r] = "running" /\ starting = None
    /\ jobs' = jobs \ {r}
    /\ \E result \in {"completed", "failed"} : step' = [step EXCEPT ![r] = result]
    /\ UNCHANGED <<status, queue, starting>>

\* Mutated form: only success is recorded.
SetRewriteResult_OnlySuccess(r) ==
    /\ step[r] \in {"completed", "failed"}
    /\ status' = IF step[r] = "completed" THEN "completed" ELSE status
    /\ step' = [step EXCEPT ![r] = "over"]
    /\ UNCHANGED <<queue, starting, jobs>>

\* ... and then the result is recorded.
SetRewriteResult(r) ==
    /\ step[r] \in {"completed", "failed"}
    /\ status' = step[r]
    /\ step' = [step EXCEPT ![r] = "over"]
    /\ UNCHANGED <<queue, starting, jobs>>

Work ==
    \/ ClaimStatus \/ StartRewrite \/ StartFails
    \/ \E r \in Requests : \/ Send(r) \/ RecordStartFailure(r) \/ AbortRewrite(r)
                           \/ CompleteRewrite(r) \/ SetRewriteResult(r)

Next == Work \/ \E r \in Requests : EnqueueAOFRewrite(r) \/ Call(r)

Spec == Init /\ [][Next]_vars

\* Goroutines that can go on do; nobody has to ask for a rewrite.
FairSpec == Spec /\ WF_vars(Work)

-----------------------------------------------------------------------------
\* Each request is in one place.
TypeOK ==
    /\ status \in {"idle", "queued", "running", "completed", "failed"}
    /\ step \in [Requests -> Steps]
    /\ \A r \in Requests : (\E i \in DOMAIN queue : queue[i] = r) <=> step[r] = "queued"
    /\ starting # None => step[starting] = "starting"
    /\ \A r \in Requests : r \in jobs <=> step[r] = "running"

\* An AOFREWRITE that was answered OK is not forgotten: its rewrite runs, or the
\* status says failed once its start is over, although startAOFRewriteNow leaves
\* the status alone when it finds a RewriteAOF call's rewrite running.
AcceptedIsSettled ==
    \A r \in Requests :
        step[r] = "sending" ~> (step[r] = "running" \/ (step[r] = "over" /\ status = "failed"))

\* A status of queued or running does not stay: a result is recorded.
StatusSettles == Busy ~> ~Busy

\* While a rewrite runs, AOFREWRITE STATUS says running, or queued.
StatusOfRunning == jobs # {} => Busy

=============================================================================
