------------------------------- MODULE Store -------------------------------
(***************************************************************************)
(* The Redis job store (job/store.go): one key per job, one key per OAuth  *)
(* state that points at the job, and the list the workers pop.  Redis runs *)
(* single commands atomically; Save and Delete are two commands each, and  *)
(* nothing makes a load and the later save of the same job one step.       *)
(*                                                                         *)
(* A failing command (`faults` counts the failures a behaviour may still   *)
(* have) leaves any prefix of its effect: the connection may break before  *)
(* or after the server applied it.                                         *)
(***************************************************************************)
EXTENDS Job, Sequences

CONSTANTS
    Jobs,       \* job ids
    MaxStates,  \* bound: OAuth states minted in one behaviour
    MaxFaults   \* bound: crashes, Redis errors and expiries in one behaviour

ASSUME JobsAssumption == NoJob \notin Jobs
ASSUME BoundsAssumption == MaxStates \in Nat /\ MaxFaults \in Nat

VARIABLES
    store,   \* job key: [Jobs -> JobType or NoJob]
    index,   \* state key: [1..MaxStates -> Jobs or NoJob]
    queue,   \* the work list, oldest first
    faults   \* faults so far

storeVars == <<store, index, queue, faults>>

OAuthStates == 1..MaxStates

StoreTypeOK ==
    /\ store \in [Jobs -> JobType \cup {NoJob}]
    /\ index \in [OAuthStates -> Jobs \cup {NoJob}]
    /\ queue \in Seq(Jobs)
    /\ faults \in 0..MaxFaults

StoreInit ==
    /\ store = [id \in Jobs |-> NoJob]
    /\ index = [s \in OAuthStates |-> NoJob]
    /\ queue = <<>>
    /\ faults = 0

Fault == faults < MaxFaults /\ faults' = faults + 1

Exists(id) == store[id] # NoJob

\* Save writes the job, then points its OAuth state at it again, whether or not
\* a callback has consumed that state since.
SaveJob(id, x)   == store' = [store EXCEPT ![id] = x]
SaveIndex(id, x) == index' = IF x.oauth = 0 THEN index ELSE [index EXCEPT ![x.oauth] = id]

SaveOK(id, x) == SaveJob(id, x) /\ SaveIndex(id, x) /\ UNCHANGED faults

SaveFails(id, x) ==
    /\ Fault
    /\ \/ UNCHANGED <<store, index>>
       \/ SaveJob(id, x) /\ UNCHANGED index
       \/ SaveJob(id, x) /\ SaveIndex(id, x)

\* A save whose error the caller looks at (ok), or ignores (Save).
TrySave(id, x, ok) == IF ok THEN SaveOK(id, x) ELSE SaveFails(id, x)
Save(id, x) == \E ok \in BOOLEAN : TrySave(id, x, ok)

\* ClearState: its error is ignored.
ClearState(s) ==
    \/ index' = [index EXCEPT ![s] = NoJob] /\ UNCHANGED faults
    \/ UNCHANGED index /\ Fault

\* Delete drops the state key the given copy of the job names, then the job key.
\* An error on the first command is ignored, one on the second is returned.
DeleteIndex(x) == index' = IF x.oauth = 0 THEN index ELSE [index EXCEPT ![x.oauth] = NoJob]

DeleteOK(id, x) ==
    /\ store' = [store EXCEPT ![id] = NoJob]
    /\ \/ DeleteIndex(x) /\ UNCHANGED faults
       \/ UNCHANGED index /\ Fault

DeleteFails(id, x) ==
    /\ Fault
    /\ DeleteIndex(x)
    /\ store' \in {store, [store EXCEPT ![id] = NoJob]}

\* Mutant of EnqueueOK: the push is retried although the first one arrived.
EnqueueTwice(id) == queue' = Append(Append(queue, id), id) /\ UNCHANGED faults

EnqueueOK(id) == queue' = Append(queue, id) /\ UNCHANGED faults
EnqueueFails  == UNCHANGED queue /\ Fault

\* BRPOP takes the item off the list before anything is done about it.
DequeueWork(id) == queue # <<>> /\ id = Head(queue) /\ queue' = Tail(queue)

\* The job key reaches its TTL.
Expire(id) ==
    /\ Exists(id)
    /\ Fault
    /\ store' = [store EXCEPT ![id] = NoJob]
    /\ UNCHANGED <<index, queue>>
=============================================================================
