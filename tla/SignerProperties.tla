-------------------------- MODULE SignerProperties --------------------------
(***************************************************************************)
(* What the signing service promises, over every interleaving of requests, *)
(* workers, crashes and Redis errors that Signer allows.  A property that  *)
(* the code keeps only under some discipline of its callers says so.       *)
(***************************************************************************)
EXTENDS Signer

\* Every copy of job id: the saved one and those handlers and workers hold.
Copies(id) ==
    ({store[id]} \cup {req[r].job : r \in {q \in Requests : req[q].id = id}}
                 \cup {wrk[w].job : w \in {v \in Workers : wrk[v].id = id}}) \ {NoJob}

----------------------------------------------------------------------------
(* Safety.                                                                 *)

\* No copy of a job, saved or about to be, calls its documents READY unless SignAPI
\* has finalized them, and the transient signature values are gone by then.
ReadyIsFinalized ==
    \A id \in Jobs : \A x \in Copies(id) :
        /\ x.doc = "READY" => signapi[id].finalized /\ ~x.sig
        /\ x.state = "READY" => x.doc = "READY"

\* The audit trail never holds signing evidence (signing.applied, emitted by the
\* status handler) for a job that was not finalized after an accepted authorization.
EvidenceIsTrue ==
    \A id \in Jobs :
        seen[id].applied > 0 => signapi[id].finalized /\ seen[id].accepted > 0

\* A worker about to finalize a remotely signed job holds digests the person
\* confirmed in a signature authorization of this very job.
FinalizedIsAuthorized ==
    \A w \in Workers :
        wrk[w].pc = "finalize" /\ ~IsClientSide(wrk[w].job.flow) =>
            \E s \in OAuthStates :
                /\ authz[s].job = wrk[w].id
                /\ authz[s].leg = "sign"
                /\ authz[s].digest = wrk[w].job.digest
                /\ authz[s].approvals > 0

\* A job that can still be signed asks the person for the digests it holds: a summary
\* kept from an earlier calculation never sticks to one, however its callbacks fail.
AsksForItsDigests ==
    \A id \in Jobs : \A x \in Copies(id) :
        x.leg = "sign" /\ x.state # "FAILED" => authz[x.oauth].digest = x.digest

\* signHash is only ever called with a token the provider bound to exactly the
\* digests being signed, however the two authorizations were interleaved.
SignHashBound ==
    \A w \in Workers :
        LET x == wrk[w].job IN
        wrk[w].pc = "sign" /\ IsCSC(x.flow) => x.token = x.digest /\ x.digest > 0

\* Nobody is asked to confirm a signature that finalize must then refuse for want
\* of a timestamp certificate: a remote job past its first leg always has one.
RemoteTimestampable ==
    \A id \in Jobs : \A x \in Copies(id) :
        (x.leg = "sign" \/ x.state \in {"SIGNING", "FINALIZING"}) /\ ~IsClientSide(x.flow)
            => authCertFor(x.flow, x.cert)

\* An OAuth state only ever resolves to the job it was minted for, so a
\* confirmation given for one job never advances another.
IndexOwner == \A s \in OAuthStates : index[s] # NoJob => index[s] = authz[s].job

\* FinalizeSigning is called at most once for a job.  Kept for a remote job whose
\* authorizations are confirmed once each; not for two submits at the same time.
FinalizeAtMostOnce == \A id \in Jobs : signapi[id].calls <= 1

\* A worker about to finalize holds the digests its SignAPI session last calculated.
\* Kept when each authorization is confirmed once.
FinalizesCurrentDigest ==
    \A w \in Workers :
        wrk[w].pc = "finalize" => wrk[w].job.digest = signapi[wrk[w].id].digest


\* A saved card job only moves along the listed transitions, when its caller sends one
\* request at a time: no worker and no failed save ever takes it back.
CardFollowsMachine ==
    [][\A id \in Jobs : Exists(id) /\ Exists(id)' /\ IsClientSide(store[id].flow) =>
          CanTransition(store[id].state, store'[id].state)]_store

\* A READY card job that was not deleted can still be downloaded, when its caller sends
\* one request at a time: its sessions are open.
ReadyDownloadable ==
    \A id \in Jobs :
        Exists(id) /\ IsClientSide(store[id].flow) /\ store[id].state = "READY"
            /\ ~seen[id].deleted => signapi[id].sess = "open"

----------------------------------------------------------------------------
(* The abstract service.                                                   *)

ShownAs ==
    [PREPARING |-> "waiting", AWAITING_AUTHORIZATION |-> "waiting",
     AWAITING_CLIENT_SIGNATURE |-> "waiting", SIGNING |-> "working",
     FINALIZING |-> "working", READY |-> "ready", FAILED |-> "failed"]

Shown(id) == IF Exists(id) THEN ShownAs[store[id].state] ELSE "absent"

Service == INSTANCE SigningService WITH
    status   <- [id \in Jobs |-> Shown(id)],
    consents <- [id \in Jobs |-> seen[id].accepted],
    attempts <- [id \in Jobs |-> signapi[id].calls],
    signed   <- [id \in Jobs |-> signapi[id].finalized],
    reported <- [id \in Jobs |-> seen[id].applied > 0]

\* The orchestrator with its store, its workers and its faults implements the service:
\* every step of it is one step the service may take, or none.
ImplementsService == Service!Spec

----------------------------------------------------------------------------
(* Liveness, under Fairness.                                               *)

Working(id) == Exists(id) /\ store[id].state \in {"SIGNING", "FINALIZING"}

\* A job handed to the workers leaves SIGNING and FINALIZING again, however its
\* requests interleave, unless a process dies or Redis fails on the way.
WorkCompletes == \A id \in Jobs : Working(id) ~> (~Working(id) \/ faults > 0)

----------------------------------------------------------------------------
(* Statements of the repository's documentation that the code does not     *)
(* keep; each is the property of a run that TLC refutes.                   *)

\* README "the terminal signing-evidence event is emitted once".
AuditOnce == \A id \in Jobs : seen[id].applied <= 1

\* CHANGELOG "a deleted job is gone": after DELETE answered, the job does not exist.
DeletedStaysDeleted == \A id \in Jobs : seen[id].deleted => ~Exists(id)
=============================================================================
