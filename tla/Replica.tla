------------------------------ MODULE Replica ------------------------------
(***************************************************************************)
(* One replica's background worker and its shutdown: the loop of           *)
(* signing/worker.go, RunJob for one job of the device flow (signDevice in *)
(* signing/flows.go: push, poll until the deadline, always delete) or one  *)
(* that comes back FINALIZING, and App.Stop (app.go), which closes Redis   *)
(* before it stops the worker.                                             *)
(*                                                                         *)
(* The clock counts from the moment signDevice computes its deadline; only *)
(* the device calls take time.                                             *)
(***************************************************************************)
EXTENDS Integers

CONSTANTS
    Window,        \* EIDScanDeadline
    Grace,         \* what signDevice adds to it
    PollInterval,  \* EIDScanPollInterval
    Latency,       \* how long one HTTP call may take
    MaxErrors      \* bound: Redis commands that fail although Redis is open

ASSUME ReplicaAssumption ==
    /\ Window \in Nat /\ Grace \in Nat /\ MaxErrors \in Nat
    /\ PollInterval \in Nat \ {0} /\ Latency \in Nat \ {0}

VARIABLES
    clock,   \* time since the deadline was computed
    app,     \* App.Stop: running, redisClosed, stopping, stopped
    ctx,     \* the background context is cancelled
    saved,   \* the job's state in Redis
    queued,  \* the job is on the work list
    pushing, \* a handler has saved the job and is about to push it onto the list
    worker,  \* the worker goroutine
    device,  \* the signature request at the platform
    known,   \* the worker holds its id and has not yet tried to delete it
    errors   \* Redis errors so far

vars == <<clock, app, ctx, saved, queued, pushing, worker, device, known, errors>>

WorkerPCs == {"top", "dequeue", "backoff", "load", "saveCode", "push", "poll", "answer", "wait",
              "delete", "saveSigned", "finalize", "saveResult", "done"}
States    == {"none", "SIGNING", "FINALIZING", "READY", "FAILED"}
Results   == {"none", "pending", "finished", "failed", "canceled"}
Verdicts  == {"none", "finished", "refused", "timeout", "cancelled"}

\* job: the state of the worker's copy; since: when the call or wait began; result: what
\* the provider answered to the poll (none: an error); verdict: how the polling ended.
WorkerType == [pc : WorkerPCs, job : States, since : Nat, result : Results, verdict : Verdicts]

\* at: when the person answered.
DeviceType == [st : Results \cup {"deleted"}, at : Nat]

TypeOK ==
    /\ clock \in Nat
    /\ app \in {"running", "redisClosed", "stopping", "stopped"}
    /\ ctx \in BOOLEAN
    /\ saved \in States
    /\ queued \in BOOLEAN
    /\ pushing \in BOOLEAN
    /\ worker \in WorkerType
    /\ device \in DeviceType
    /\ known \in BOOLEAN
    /\ errors \in 0..MaxErrors

Worker(pc, job, since, result, verdict) ==
    [pc |-> pc, job |-> job, since |-> since, result |-> result, verdict |-> verdict]

Top == Worker("top", "none", 0, "none", "none")

Init ==
    /\ clock = 0
    /\ app = "running"
    /\ ctx = FALSE
    /\ saved = "none"
    /\ queued = FALSE
    /\ pushing = FALSE
    /\ worker = Top
    /\ device = [st |-> "none", at |-> 0]
    /\ known = FALSE
    /\ errors = 0

At(pc) == worker.pc = pc

----------------------------------------------------------------------------
(* Redis.  After Close, which comes before the background context can be   *)
(* cancelled, every command fails without effect; before that a failing    *)
(* one (a broken connection, a request the browser gave up) may have taken *)
(* effect.                                                                 *)

RedisUp == app = "running"

RedisError == RedisUp /\ errors < MaxErrors /\ errors' = errors + 1

SaveOK(st)    == RedisUp /\ saved' = st /\ UNCHANGED errors
SaveFails(st) ==
    \/ ~RedisUp /\ UNCHANGED <<saved, errors>>
    \/ RedisError /\ saved' \in {saved, st}

\* A handler saves a job for the workers: a completed authorization, or signatures.  It
\* answers with an error, and pushes nothing, when the save fails.
JobArrives ==
    /\ saved = "none" /\ ~pushing
    /\ \E st \in {"SIGNING", "FINALIZING"} :
         \/ SaveOK(st) /\ pushing' = TRUE
         \/ SaveFails(st) /\ UNCHANGED pushing
    /\ UNCHANGED <<clock, app, ctx, queued, worker, device, known>>

\* LPUSH, a command of its own, whose error is only logged.
EnqueueWork ==
    /\ pushing
    /\ pushing' = FALSE
    /\ \/ RedisUp /\ queued' = TRUE /\ UNCHANGED errors
       \/ RedisError /\ queued' \in {queued, TRUE}
       \/ ~RedisUp /\ UNCHANGED <<queued, errors>>
    /\ UNCHANGED <<clock, app, ctx, saved, worker, device, known>>

----------------------------------------------------------------------------
(* The worker loop.                                                        *)

Goto(pc) == worker' = Worker(pc, worker.job, worker.since, worker.result, worker.verdict)

\* The job has ended in state st, which is to be saved.
Result(st) == worker' = Worker("saveResult", st, worker.since, worker.result, worker.verdict)

Answer(res) == worker' = Worker("answer", worker.job, worker.since, res, "none")

Stopping == app \in {"stopping", "stopped"} \/ ctx

\* Mutant of LoopTop: the stop channel is not looked at.
LoopTopNoStop ==
    /\ At("top")
    /\ Goto(IF ctx THEN "done" ELSE "dequeue")
    /\ UNCHANGED <<clock, app, ctx, saved, queued, pushing, device, known, errors>>

LoopTop ==
    /\ At("top")
    /\ Goto(IF Stopping THEN "done" ELSE "dequeue")
    /\ UNCHANGED <<clock, app, ctx, saved, queued, pushing, device, known, errors>>

\* BRPOP: an item, nothing within five seconds, or an error, which may hide a pop.
Dequeue ==
    /\ At("dequeue")
    /\ \/ RedisUp /\ queued /\ queued' = FALSE /\ Goto("load") /\ UNCHANGED errors
       \/ RedisUp /\ ~queued /\ Goto("top") /\ UNCHANGED <<queued, errors>>
       \/ RedisError /\ queued' \in {queued, FALSE} /\ Goto("backoff")
       \/ ~RedisUp /\ Goto("backoff") /\ UNCHANGED <<queued, errors>>
    /\ UNCHANGED <<clock, app, ctx, saved, pushing, device, known>>

Backoff ==
    /\ At("backoff")
    /\ \/ Stopping /\ Goto("done")
       \/ Goto("top")
    /\ UNCHANGED <<clock, app, ctx, saved, queued, pushing, device, known, errors>>

\* RunJob loads the job; on an error, or in no workable state, it leaves it alone.
Load ==
    /\ At("load")
    /\ \/ RedisUp /\ saved = "SIGNING" /\ worker' = Worker("saveCode", saved, 0, "none", "none")
       \/ RedisUp /\ saved = "FINALIZING" /\ worker' = Worker("finalize", saved, 0, "none", "none")
       \/ RedisUp /\ saved \notin {"SIGNING", "FINALIZING"} /\ worker' = Top
       \/ ~RedisUp /\ worker' = Top
    /\ UNCHANGED <<clock, app, ctx, saved, queued, pushing, device, known, errors>>

LoadFails ==
    /\ At("load")
    /\ RedisError
    /\ worker' = Top
    /\ UNCHANGED <<clock, app, ctx, saved, queued, pushing, device, known>>

----------------------------------------------------------------------------
(* signDevice.                                                             *)

\* The code and the deadline are published before the push.
SaveCode ==
    /\ At("saveCode")
    /\ clock' = 0
    /\ \/ SaveOK(worker.job) /\ Goto("push")
       \/ SaveFails(worker.job) /\ Result("FAILED")
    /\ UNCHANGED <<app, ctx, queued, pushing, device, known>>

\* DeviceRaw.  Outbound calls do not carry the cancellation of the background context, so
\* a replica being stopped still pushes, polls, deletes and finalizes.  An error may hide a
\* prompt on the device whose id nobody has.
Push ==
    /\ At("push")
    /\ \/ /\ device' = [st |-> "pending", at |-> 0]
          /\ known' = TRUE
          /\ worker' = Worker("poll", worker.job, clock, "none", "none")
       \/ /\ device' \in {device, [st |-> "pending", at |-> 0]}
          /\ UNCHANGED known
          /\ Result("FAILED")
    /\ UNCHANGED <<clock, app, ctx, saved, queued, pushing, errors>>

\* The person answers on the device, or the device gives up.
PersonAnswers ==
    /\ device.st = "pending"
    /\ \E st \in {"finished", "failed", "canceled"} :
         device' = [st |-> st, at |-> clock]
    /\ UNCHANGED <<clock, app, ctx, saved, queued, pushing, worker, known, errors>>

\* The provider looks at the request while a poll is under way.
PollEvaluated ==
    /\ At("poll")
    /\ Answer(device.st)
    /\ UNCHANGED <<clock, app, ctx, saved, queued, pushing, device, known, errors>>

\* The poll fails, before or after that.
PollFails ==
    /\ worker.pc \in {"poll", "answer"}
    /\ Answer("none")
    /\ UNCHANGED <<clock, app, ctx, saved, queued, pushing, device, known, errors>>

\* The polling ends with verdict v.
Verdict(v, st) == worker' = Worker("delete", st, clock, worker.result, v)

\* Mutant of HandleAnswer: the grace period is dropped.
TimeoutAtDeadline ==
    /\ At("answer")
    /\ CASE worker.result = "finished" -> Verdict("finished", "SIGNING")
         [] worker.result \in {"failed", "canceled"} -> Verdict("refused", "FAILED")
         [] worker.result \in {"none", "pending"} /\ clock > Window -> Verdict("timeout", "FAILED")
         [] OTHER -> worker' = Worker("wait", worker.job, clock, worker.result, "none")
    /\ UNCHANGED <<clock, app, ctx, saved, queued, pushing, device, known, errors>>

\* The result, and only then the deadline with its grace period.
HandleAnswer ==
    /\ At("answer")
    /\ CASE worker.result = "finished" -> Verdict("finished", "SIGNING")
         [] worker.result \in {"failed", "canceled"} -> Verdict("refused", "FAILED")
         [] worker.result \in {"none", "pending"} /\ clock > Window + Grace ->
              Verdict("timeout", "FAILED")
         [] OTHER -> worker' = Worker("wait", worker.job, clock, worker.result, "none")
    /\ UNCHANGED <<clock, app, ctx, saved, queued, pushing, device, known, errors>>

\* Mutant of Wait: the request is deleted in the loop, not when it ends.
DeleteInLoop ==
    /\ At("wait")
    /\ worker' = Worker("poll", worker.job, clock, "none", "none")
    /\ device' = [st |-> "deleted", at |-> device.at]
    /\ UNCHANGED <<clock, app, ctx, saved, queued, pushing, known, errors>>

\* The ticker fires, at the latest one interval on; a cancelled context ends the polling.
Wait ==
    /\ At("wait")
    /\ \/ worker' = Worker("poll", worker.job, clock, "none", "none")
       \/ ctx /\ Verdict("cancelled", "FAILED")
    /\ UNCHANGED <<clock, app, ctx, saved, queued, pushing, device, known, errors>>

\* Mutant of DeleteSignature: not deferred, only reached with a signature.
DeleteOnSuccess ==
    /\ At("delete")
    /\ known' = (worker.job = "FAILED")
    /\ Goto(IF worker.job = "FAILED" THEN "saveResult" ELSE "saveSigned")
    /\ UNCHANGED <<clock, app, ctx, saved, queued, pushing, device, errors>>

\* The deferred DeleteSignature, best effort.
DeleteSignature ==
    /\ At("delete")
    /\ \E st \in {device.st, "deleted"} : device' = [st |-> st, at |-> device.at]
    /\ known' = FALSE
    /\ Goto(IF worker.job = "FAILED" THEN "saveResult" ELSE "saveSigned")
    /\ UNCHANGED <<clock, app, ctx, saved, queued, pushing, errors>>

----------------------------------------------------------------------------
(* The rest of RunJob.                                                     *)

\* SIGNING becomes FINALIZING; the save's error is dropped.
SaveSigned ==
    /\ At("saveSigned")
    /\ SaveOK("FINALIZING") \/ SaveFails("FINALIZING")
    /\ worker' = Worker("finalize", "FINALIZING", worker.since, worker.result, worker.verdict)
    /\ UNCHANGED <<clock, app, ctx, queued, pushing, device, known>>

Finalize ==
    /\ At("finalize")
    /\ Result("READY") \/ Result("FAILED")
    /\ UNCHANGED <<clock, app, ctx, saved, queued, pushing, device, known, errors>>

\* Mutant of SaveResult: a failed job is only logged.
SaveOnlyReady ==
    /\ At("saveResult")
    /\ IF worker.job = "READY" THEN SaveOK(worker.job) \/ SaveFails(worker.job)
                               ELSE UNCHANGED <<saved, errors>>
    /\ worker' = Top
    /\ UNCHANGED <<clock, app, ctx, queued, pushing, device, known>>

\* READY or FAILED is saved; the save's error is dropped.
SaveResult ==
    /\ At("saveResult")
    /\ SaveOK(worker.job) \/ SaveFails(worker.job)
    /\ worker' = Top
    /\ UNCHANGED <<clock, app, ctx, queued, pushing, device, known>>

----------------------------------------------------------------------------
(* App.Stop and time.                                                      *)

\* SIGTERM: Redis is closed before the tasks are stopped.
CloseRedis ==
    /\ app = "running"
    /\ app' = "redisClosed"
    /\ UNCHANGED <<clock, ctx, saved, queued, pushing, worker, device, known, errors>>

\* The framework stops the tasks: the worker's stop channel is closed, and Stop waits
\* for the loop.  When it cancels the background context is up to the framework.
StopTasks ==
    /\ \/ app = "redisClosed" /\ app' = "stopping"
       \/ app = "stopping" /\ At("done") /\ app' = "stopped"
    /\ UNCHANGED <<clock, ctx, saved, queued, pushing, worker, device, known, errors>>

CancelContext ==
    /\ app \in {"redisClosed", "stopping"}
    /\ ctx' = TRUE
    /\ UNCHANGED <<clock, app, saved, queued, pushing, worker, device, known, errors>>

\* Time passes while a device call is under way or the poll loop waits, within limits.
Tick ==
    /\ \/ worker.pc \in {"push", "poll", "answer", "delete"} /\ clock < worker.since + Latency
       \/ At("wait") /\ clock < worker.since + PollInterval
    /\ clock' = clock + 1
    /\ UNCHANGED <<app, ctx, saved, queued, pushing, worker, device, known, errors>>

WorkerStep ==
    \/ LoopTop \/ Dequeue \/ Backoff \/ Load \/ LoadFails
    \/ SaveCode \/ Push \/ PollEvaluated \/ PollFails \/ HandleAnswer \/ Wait \/ DeleteSignature
    \/ SaveSigned \/ Finalize \/ SaveResult

Next ==
    \/ JobArrives \/ EnqueueWork \/ PersonAnswers \/ CloseRedis \/ StopTasks \/ CancelContext
    \/ WorkerStep \/ Tick

Spec == Init /\ [][Next]_vars

\* Calls have time limits, tickers tick, and a stop that began goes on.  Nothing is assumed
\* of the person, of Redis or of when a stop begins.
LiveSpec == Spec /\ WF_vars(WorkerStep) /\ WF_vars(Tick) /\ WF_vars(StopTasks)

----------------------------------------------------------------------------
(* Properties.                                                             *)

Working(st) == st \in {"SIGNING", "FINALIZING"}

\* When the polling times out although its last poll was answered, the person had not
\* confirmed by one call's time limit before the end of the grace period: a confirmation
\* that old was there before the last poll began.  (Window + Grace - Latency is before the
\* published deadline when a call may take longer than the grace period.)
ConfirmedInTimeCounts ==
    worker.verdict = "timeout" /\ worker.result = "pending" =>
        ~(device.st = "finished" /\ device.at + Latency <= Window + Grace)

\* A running replica strands no job while Redis answers: between two jobs, a job that
\* is SIGNING or FINALIZING is still on the work list, or about to be pushed onto it.  (A
\* command that fails can strand one: a push whose error is only logged, a pop whose answer
\* is lost, a save whose error is dropped.  Nothing puts the job back.)
RunningStrandsNothing ==
    app = "running" /\ errors = 0 /\ worker.pc \in {"top", "dequeue", "backoff"} =>
        (Working(saved) => queued \/ pushing)

\* The worker always gets to asking for the withdrawal of a prompt it polls for, whatever
\* the polls answer and whether or not the replica is being stopped.
PromptWithdrawn == known ~> ~known

\* A stop that began ends, also in the middle of a device signing.
StopReturns == app # "running" ~> app = "stopped"

=============================================================================
