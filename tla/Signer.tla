------------------------------- MODULE Signer -------------------------------
(***************************************************************************)
(* The signing orchestrator: the request handlers of routes/signatures.go  *)
(* with the Orchestrator methods they call, and the background workers.    *)
(*                                                                         *)
(* Every replica serves requests and runs one worker, and all share Redis. *)
(* A handler loads its own copy of the job, changes it, calls upstream and *)
(* saves the whole copy back; nothing is locked in between.  Each handler  *)
(* is therefore a small process: `req` and `wrk` hold its program counter  *)
(* and its copy, and a step is the code up to the next shared effect.      *)
(***************************************************************************)
EXTENDS Upstream, FiniteSets

CONSTANTS
    Requests,  \* requests served at the same time
    Workers,   \* background workers, one per replica
    Endpoints  \* bound: which of decline, submit, status and delete happen

ASSUME ProcessesAssumption == IsFiniteSet(Requests) /\ IsFiniteSet(Workers)

VARIABLES
    req,   \* request handlers
    wrk,   \* workers
    seen   \* per job: what the caller was answered and the audit trail got

vars == <<storeVars, upVars, req, wrk, seen>>

\* cbSave: end after the save; cbSaveNext: hand out the next authorize URL;
\* cbSaveDone, submitSave: enqueue the work after the save.
RequestPCs == {"idle", "cbLoad", "cbClear", "cbAdvance", "cbSave", "cbSaveNext", "cbSaveDone",
               "submitSave", "enqueue", "statusEmit", "statusSave", "delete"}
WorkerPCs  == {"idle", "deviceSave", "sign", "saveFinalizing", "finalize", "saveResult"}

RequestType ==
    [pc : RequestPCs, id : Jobs \cup {NoJob}, s : 0..MaxStates, declined : BOOLEAN,
     job : JobType \cup {NoJob}]
WorkerType == [pc : WorkerPCs, id : Jobs \cup {NoJob}, job : JobType \cup {NoJob}]

\* known: Prepare answered with the job id; accepted: signatures accepted or signature
\* legs completed, with whichever of the job's codes; applied, failed: terminal audit events
\* (the counts stop at 2); deleted: DELETE answered 204.
SeenType == [known : BOOLEAN, accepted : Nat, applied : 0..2, failed : 0..2, deleted : BOOLEAN]

TypeOK ==
    /\ StoreTypeOK
    /\ UpstreamTypeOK
    /\ req \in [Requests -> RequestType]
    /\ wrk \in [Workers -> WorkerType]
    /\ seen \in [Jobs -> SeenType]

IdleRequest == [pc |-> "idle", id |-> NoJob, s |-> 0, declined |-> FALSE, job |-> NoJob]
IdleWorker  == [pc |-> "idle", id |-> NoJob, job |-> NoJob]

Init ==
    /\ StoreInit
    /\ UpstreamInit
    /\ req = [r \in Requests |-> IdleRequest]
    /\ wrk = [w \in Workers |-> IdleWorker]
    /\ seen = [id \in Jobs |-> [known |-> FALSE, accepted |-> 0, applied |-> 0,
                                failed |-> 0, deleted |-> FALSE]]

\* A handler goes on with copy x, or ends.
Goto(r, pc, id, x) ==
    req' = [req EXCEPT ![r] = [pc |-> pc, id |-> id, s |-> 0, declined |-> FALSE, job |-> x]]
Respond(r) == req' = [req EXCEPT ![r] = IdleRequest]

GotoWorker(w, pc, id, x) == wrk' = [wrk EXCEPT ![w] = [pc |-> pc, id |-> id, job |-> x]]
Release(w) == wrk' = [wrk EXCEPT ![w] = IdleWorker]

----------------------------------------------------------------------------
(* POST /prepare.  Nothing of the job is shared before its only save, so    *)
(* the handler is one step.  Its answer makes the job id known.            *)

Uploaded(id, d) == signapi' = [signapi EXCEPT ![id].sess = "open", ![id].digest = d]

\* The handler's common part: a fresh id, an admitted request.
PrepareStarts(id, f, cert) ==
    /\ StartSession(id)
    /\ Admitted(f, cert)
    /\ UNCHANGED <<queue, req, wrk>>

PrepareUploadFails(id, f, cert) ==
    /\ PrepareStarts(id, f, cert)
    /\ \E left \in {"none", "open"} : signapi' = [signapi EXCEPT ![id].sess = left]
    /\ Save(id, Fail(NewJob(f)))
    /\ UNCHANGED <<authz, minted, seen>>

\* The card flows: calculate the digests and hand them to the caller.  A failing
\* calculateDigests may have replaced SignAPI's digests (d) and not the job's (e).
PrepareClientSide(id, f, cert) ==
    /\ PrepareStarts(id, f, cert)
    /\ IsClientSide(f)
    /\ \/ \E ok \in BOOLEAN :
            /\ Uploaded(id, 1)
            /\ TrySave(id, Transition(WithCert(NewJob(f), cert, 1), "AWAITING_CLIENT_SIGNATURE"), ok)
            /\ seen' = [seen EXCEPT ![id].known = ok]
       \/ \E d \in {0, 1}, e \in {0, 1} :
            /\ Uploaded(id, d)
            /\ Save(id, Fail(WithCert(NewJob(f), cert, IF d = 0 THEN 0 ELSE e)))
            /\ UNCHANGED seen
    /\ UNCHANGED <<authz, minted>>

\* full: the caller supplied sign identity and both certificates, so a TrustedX
\* flow skips its profile leg; a partial supply is ignored.
BeginAuthorization(f, cert, full, s) ==
    LET x == NewJob(f) IN
    CASE IsCSC(f)           -> AwaitCallback(WithCert(x, cert, 0), FirstLeg(f), s)
      [] ~IsCSC(f) /\ full  -> AwaitCallback(WithCert(x, TRUE, 1), "sign", s)
      [] ~IsCSC(f) /\ ~full -> AwaitCallback(x, FirstLeg(f), s)

PrepareRemote(id, f, cert, full) ==
    /\ PrepareStarts(id, f, cert)
    /\ ~IsClientSide(f)
    /\ full => cert
    /\ CanMint
    /\ \E ok \in BOOLEAN :
         LET x == BeginAuthorization(f, cert, full, NewState) IN
         /\ Uploaded(id, x.digest)
         /\ Mint(id, x.leg, x.digest, ok)
         /\ TrySave(id, Transition(x, "AWAITING_AUTHORIZATION"), ok)
         /\ seen' = [seen EXCEPT ![id].known = ok]

\* A CSC flow fails when the request cannot be pushed, a TrustedX flow when the
\* digests for a supplied identity cannot be calculated.
PrepareBeginFails(id, f, cert, full) ==
    /\ PrepareStarts(id, f, cert)
    /\ ~IsClientSide(f)
    /\ IF IsCSC(f)
       THEN LET x == BeginAuthorization(f, cert, FALSE, NewState) IN
            /\ CanMint
            /\ Uploaded(id, 0)
            /\ Mint(id, x.leg, 0, FALSE)
            /\ Save(id, Fail(x))
       ELSE \E d \in {0, 1}, e \in {0, 1} :
            /\ full /\ cert
            /\ Uploaded(id, d)
            /\ Save(id, Fail(WithCert(NewJob(f), TRUE, IF d = 0 THEN 0 ELSE e)))
            /\ UNCHANGED <<authz, minted>>
    /\ UNCHANGED seen

\* The process dies before the save.
PrepareDies(id, f, cert) ==
    /\ PrepareStarts(id, f, cert)
    /\ Fault
    /\ signapi' = [signapi EXCEPT ![id].sess = "open"]
    /\ UNCHANGED <<store, index, authz, minted, seen>>

----------------------------------------------------------------------------
(* GET /callback.                                                          *)

\* LoadByState, first command: the state key names the job.
CallbackArrives(r, s, declined) ==
    /\ req[r].pc = "idle"
    /\ authz[s].shown
    /\ IF declined THEN "decline" \in Endpoints ELSE authz[s].approvals > 0
    /\ index[s] # NoJob
    /\ req' = [req EXCEPT ![r] = [pc |-> "cbLoad", id |-> index[s], s |-> s,
                                  declined |-> declined, job |-> NoJob]]
    /\ UNCHANGED <<storeVars, upVars, wrk, seen>>

\* LoadByState, second command: load the job as it is by now.
CallbackLoad(r) ==
    /\ req[r].pc = "cbLoad"
    /\ IF Exists(req[r].id)
       THEN req' = [req EXCEPT ![r].pc = "cbClear", ![r].job = store[req[r].id]]
       ELSE Respond(r)
    /\ UNCHANGED <<storeVars, upVars, wrk, seen>>

\* The state is consumed before anything is done about it.
CallbackClear(r) ==
    /\ req[r].pc = "cbClear"
    /\ ClearState(req[r].s)
    /\ req' = [req EXCEPT ![r].pc = "cbAdvance"]
    /\ UNCHANGED <<store, queue, upVars, wrk, seen>>

\* The callback then calls upstream, on its copy.
Advance(r) == req[r].pc = "cbAdvance" /\ UNCHANGED <<storeVars, wrk>>

\* Declined, or the exchange or a later call failed (the code may be spent all the
\* same), or the authorization is not bound to the digests, or the job waits for no
\* callback.  The job is failed whatever its state is.
CallbackFails(r) ==
    LET x == req[r].job
        y == IF req[r].declined THEN x ELSE CodeExchanged(x) IN
    /\ Advance(r)
    /\ Goto(r, "cbSave", req[r].id, Fail(y))
    /\ \/ UNCHANGED authz
       \/ ~req[r].declined /\ CanExchange(x, req[r].s) /\ authz' = SpendCode(req[r].s)
    /\ UNCHANGED <<signapi, minted, seen>>

\* The code is exchanged, at leg l.
Exchange(r, l) ==
    /\ Advance(r)
    /\ ~req[r].declined
    /\ CanExchange(req[r].job, req[r].s)
    /\ req[r].job.leg = l

\* advanceProfile, advanceCredential: identities and certificates, the digests, and
\* the next authorization.
AdvanceFirstLeg(r) ==
    LET x == req[r].job
        id == req[r].id
        d == NextDigest(id) IN
    /\ Exchange(r, FirstLeg(x.flow))
    /\ CalculateDigestEnabled(id)
    /\ CalculateDigest(id)
    /\ CanMint
    /\ minted' = NewState
    /\ authz' = [SpendCode(req[r].s) EXCEPT ![NewState] = Request(id, "sign", Asked(x, d), FALSE)]
    /\ Goto(r, "cbSaveNext", id, FirstLegCompleted(CodeExchanged(x), NewState, d))
    /\ UNCHANGED seen

\* Mutant of AdvanceFirstLegFails: the job stays open for another confirmation.
FailsLeftOpen(r) ==
    LET x == req[r].job
        id == req[r].id IN
    /\ Exchange(r, FirstLeg(x.flow))
    /\ CalculateDigestEnabled(id)
    /\ CalculateDigest(id)
    /\ authz' = SpendCode(req[r].s)
    /\ Goto(r, "cbSave", id, DigestsCalculated(CodeExchanged(x), NextDigest(id)))
    /\ UNCHANGED <<minted, seen>>

\* The same, failing after SignAPI replaced the digests, before or after the job got
\* them; a CSC flow may have minted its next state by then (the push failed).
AdvanceFirstLegFails(r) ==
    LET x == req[r].job
        id == req[r].id
        d == NextDigest(id) IN
    /\ Exchange(r, FirstLeg(x.flow))
    /\ CalculateDigestEnabled(id)
    /\ CalculateDigest(id)
    /\ \/ /\ authz' = SpendCode(req[r].s)
          /\ \E y \in {CodeExchanged(x), DigestsCalculated(CodeExchanged(x), d)} :
               Goto(r, "cbSave", id, Fail(y))
          /\ UNCHANGED minted
       \/ /\ IsCSC(x.flow)
          /\ CanMint
          /\ minted' = NewState
          /\ authz' = [SpendCode(req[r].s) EXCEPT ![NewState] = Request(id, "sign", Asked(x, d), FALSE)]
          /\ Goto(r, "cbSave", id, Fail(FirstLegCompleted(CodeExchanged(x), NewState, d)))
    /\ UNCHANGED seen

\* The signature authorization is complete.
AdvanceSignLeg(r) ==
    LET x == req[r].job
        id == req[r].id IN
    /\ Exchange(r, "sign")
    /\ \E b \in TokenBindings(x, req[r].s) :
         /\ Bound(x, b)
         /\ Goto(r, "cbSaveDone", id, SignLegCompleted(CodeExchanged(x), b))
    /\ authz' = SpendCode(req[r].s)
    /\ seen' = [seen EXCEPT ![id].accepted = @ + 1]
    /\ UNCHANGED <<signapi, minted>>

\* The last save of a failed callback, its error ignored.
CallbackSave(r) ==
    /\ req[r].pc = "cbSave"
    /\ Save(req[r].id, req[r].job)
    /\ Respond(r)
    /\ UNCHANGED <<queue, upVars, wrk, seen>>

\* Another leg follows: only a successful save hands out its URL.
CallbackSaveNext(r) ==
    /\ req[r].pc = "cbSaveNext"
    /\ \E ok \in BOOLEAN :
         /\ TrySave(req[r].id, req[r].job, ok)
         /\ authz' = IF ok THEN [authz EXCEPT ![req[r].job.oauth].shown = TRUE] ELSE authz
    /\ Respond(r)
    /\ UNCHANGED <<queue, signapi, minted, wrk, seen>>

\* Authorization complete, or signatures submitted: save, then enqueue.  A failed
\* save ends the request with an error and enqueues nothing.
SaveForWork(r) ==
    /\ req[r].pc \in {"cbSaveDone", "submitSave"}
    /\ \E ok \in BOOLEAN :
         /\ TrySave(req[r].id, req[r].job, ok)
         /\ IF ok THEN Goto(r, "enqueue", req[r].id, NoJob) ELSE Respond(r)
    /\ UNCHANGED <<queue, upVars, wrk, seen>>

\* A failed enqueue is only logged.
EnqueueWork(r) ==
    /\ req[r].pc = "enqueue"
    /\ EnqueueOK(req[r].id) \/ EnqueueFails
    /\ Respond(r)
    /\ UNCHANGED <<store, index, upVars, wrk, seen>>

----------------------------------------------------------------------------
(* The caller's other requests.  They name a job id Prepare answered.      *)

Called(r, id, endpoint) ==
    endpoint \in Endpoints /\ req[r].pc = "idle" /\ seen[id].known /\ Exists(id)

\* Mutant of SubmitSignatures: the state of the job is not looked at.
SubmitInAnyState(r, id) ==
    /\ Called(r, id, "submit")
    /\ IsClientSide(store[id].flow) /\ Offered(store[id].flow)
    /\ Goto(r, "submitSave", id, [store[id] EXCEPT !.sig = TRUE, !.state = "FINALIZING"])
    /\ seen' = [seen EXCEPT ![id].accepted = @ + 1]
    /\ UNCHANGED <<storeVars, upVars, wrk>>

\* POST /signatures: load, check, attach the signatures.
SubmitSignatures(r, id) ==
    LET x == store[id] IN
    /\ Called(r, id, "submit")
    /\ IsClientSide(x.flow)
    /\ Offered(x.flow)
    /\ x.state = "AWAITING_CLIENT_SIGNATURE"
    /\ Goto(r, "submitSave", id, Transition([x EXCEPT !.sig = TRUE], "FINALIZING"))
    /\ seen' = [seen EXCEPT ![id].accepted = @ + 1]
    /\ UNCHANGED <<storeVars, upVars, wrk>>

\* The audit counts stop at 2: more than one is what they are for.
AtMost2(n) == IF n < 2 THEN n ELSE 2

\* GET /status: load the job, again and again in a long poll.  Only a terminal job that
\* is not marked as audited makes the handler go on.
Status(r, id) ==
    /\ Called(r, id, "status")
    /\ Terminal(store[id].state)
    /\ ~store[id].audited
    /\ Goto(r, "statusEmit", id, store[id])
    /\ UNCHANGED <<storeVars, upVars, wrk, seen>>

\* Mutant of StatusEmit: every terminal job is reported as applied.
AppliedWhateverState(r) ==
    /\ req[r].pc = "statusEmit"
    /\ seen' = [seen EXCEPT ![req[r].id].applied = AtMost2(@ + 1)]
    /\ Goto(r, "statusSave", req[r].id, [req[r].job EXCEPT !.audited = TRUE])
    /\ UNCHANGED <<storeVars, upVars, wrk>>

\* The event of the copy that was loaded, whatever has become of the job by now, and
\* then the save of the mark.
StatusEmit(r) ==
    LET x == req[r].job
        id == req[r].id IN
    /\ req[r].pc = "statusEmit"
    /\ seen' = IF x.state = "READY"
               THEN [seen EXCEPT ![id].applied = AtMost2(@ + 1)]
               ELSE [seen EXCEPT ![id].failed = AtMost2(@ + 1)]
    /\ Goto(r, "statusSave", id, [x EXCEPT !.audited = TRUE])
    /\ UNCHANGED <<storeVars, upVars, wrk>>

StatusSave(r) ==
    /\ req[r].pc = "statusSave"
    /\ Save(req[r].id, req[r].job)
    /\ Respond(r)
    /\ UNCHANGED <<queue, upVars, wrk, seen>>

\* DELETE: load the job, drop its keys, close its sessions.
DeleteJob(r, id) ==
    /\ Called(r, id, "delete")
    /\ Goto(r, "delete", id, store[id])
    /\ UNCHANGED <<storeVars, upVars, wrk, seen>>

DeleteKeys(r) ==
    LET id == req[r].id IN
    /\ req[r].pc = "delete"
    /\ \/ /\ DeleteOK(id, req[r].job)
          /\ CloseLater(id)
          /\ seen' = [seen EXCEPT ![id].deleted = TRUE]
       \/ /\ DeleteFails(id, req[r].job)
          /\ UNCHANGED <<signapi, seen>>
    /\ Respond(r)
    /\ UNCHANGED <<queue, authz, minted, wrk>>

\* The process serving a request dies.
RequestDies(r) ==
    /\ req[r].pc # "idle"
    /\ Fault
    /\ Respond(r)
    /\ UNCHANGED <<store, index, queue, upVars, wrk, seen>>

----------------------------------------------------------------------------
(* The worker: RunJob for one queue item.                                  *)

\* Mutant of WorkerTake: a job that comes back FINALIZING is not resumed.
TakeOnlySigning(w) ==
    /\ wrk[w].pc = "idle"
    /\ \E id \in Jobs :
         /\ DequeueWork(id)
         /\ IF Exists(id) /\ store[id].state = "SIGNING"
            THEN GotoWorker(w, IF DevicePush(store[id].flow) THEN "deviceSave" ELSE "sign",
                            id, store[id])
            ELSE UNCHANGED wrk
    /\ UNCHANGED <<store, index, faults, upVars, req, seen>>

\* BRPOP, then load.  A job in no workable state is left alone.
WorkerTake(w) ==
    /\ wrk[w].pc = "idle"
    /\ \E id \in Jobs :
         /\ DequeueWork(id)
         /\ LET x == store[id] IN
            CASE Exists(id) /\ x.state = "SIGNING" ->
                   GotoWorker(w, IF DevicePush(x.flow) THEN "deviceSave" ELSE "sign", id, x)
              [] Exists(id) /\ x.state = "FINALIZING" -> GotoWorker(w, "finalize", id, x)
              [] OTHER -> UNCHANGED wrk
    /\ UNCHANGED <<store, index, faults, upVars, req, seen>>

\* signDevice publishes the verification code before it pushes to the device.
WorkerDeviceSave(w) ==
    /\ wrk[w].pc = "deviceSave"
    /\ \E ok \in BOOLEAN :
         /\ TrySave(wrk[w].id, wrk[w].job, ok)
         /\ IF ok THEN GotoWorker(w, "sign", wrk[w].id, wrk[w].job)
                  ELSE GotoWorker(w, "saveResult", wrk[w].id, Fail(wrk[w].job))
    /\ UNCHANGED <<queue, upVars, req, seen>>

\* Flow.Sign: server/raw, device/raw with its polling, or signHash.
WorkerSign(w) ==
    LET x == wrk[w].job IN
    /\ wrk[w].pc = "sign"
    /\ \/ SignerAccepts(x) /\ GotoWorker(w, "saveFinalizing", wrk[w].id, Signed(x))
       \/ GotoWorker(w, "saveResult", wrk[w].id,
                     Fail([x EXCEPT !.token = IF IsCSC(x.flow) THEN NoToken ELSE @]))
    /\ UNCHANGED <<storeVars, upVars, req, seen>>

\* Mutant of WorkerSaveFinalizing: the signatures are put on a freshly loaded copy.
SignaturesOnReload(w) ==
    LET x == store[wrk[w].id] IN
    /\ wrk[w].pc = "saveFinalizing"
    /\ Exists(wrk[w].id)
    /\ Save(wrk[w].id, [x EXCEPT !.sig = TRUE, !.state = "FINALIZING"])
    /\ GotoWorker(w, "finalize", wrk[w].id, [x EXCEPT !.sig = TRUE, !.state = "FINALIZING"])
    /\ UNCHANGED <<queue, upVars, req, seen>>

WorkerSaveFinalizing(w) ==
    /\ wrk[w].pc = "saveFinalizing"
    /\ Save(wrk[w].id, wrk[w].job)
    /\ GotoWorker(w, "finalize", wrk[w].id, wrk[w].job)
    /\ UNCHANGED <<queue, upVars, req, seen>>

\* Mutant of WorkerFinalize: the error of FinalizeSigning is dropped.
FinalizeErrorDropped(w) ==
    /\ wrk[w].pc = "finalize"
    /\ \E ok \in BOOLEAN : FinalizeSigning(wrk[w].id, ok)
    /\ GotoWorker(w, "saveResult", wrk[w].id, Finalized(wrk[w].job))
    /\ UNCHANGED <<storeVars, authz, minted, req, seen>>

\* finalize refuses a job without a timestamp certificate, or with a signature value
\* that is missing or does not normalize to DER, before it calls SignAPI.
WorkerFinalize(w) ==
    LET x == wrk[w].job
        id == wrk[w].id
        callable == authCertFor(x.flow, x.cert) /\ x.sig IN
    /\ wrk[w].pc = "finalize"
    /\ \/ /\ callable
          /\ \E ok \in BOOLEAN :
               /\ FinalizeSigning(id, ok)
               /\ GotoWorker(w, "saveResult", id, IF ok THEN Finalized(x) ELSE Fail(x))
       \/ /\ GotoWorker(w, "saveResult", id, Fail(x))
          /\ UNCHANGED signapi
    /\ UNCHANGED <<storeVars, authz, minted, req, seen>>

\* Mutant of WorkerSaveResult: the sessions are closed whatever the result is.
AlwaysCloses(w) ==
    /\ wrk[w].pc = "saveResult"
    /\ Save(wrk[w].id, wrk[w].job)
    /\ CloseLater(wrk[w].id)
    /\ Release(w)
    /\ UNCHANGED <<queue, authz, minted, req, seen>>

\* The result is saved, errors ignored; a failed job's sessions are closed.
WorkerSaveResult(w) ==
    LET x == wrk[w].job IN
    /\ wrk[w].pc = "saveResult"
    /\ Save(wrk[w].id, x)
    /\ IF x.state = "FAILED" THEN CloseLater(wrk[w].id) ELSE UNCHANGED signapi
    /\ Release(w)
    /\ UNCHANGED <<queue, authz, minted, req, seen>>

\* The worker's process dies, and with it the item it had popped.
WorkerDies(w) ==
    /\ wrk[w].pc # "idle"
    /\ Fault
    /\ Release(w)
    /\ UNCHANGED <<store, index, queue, upVars, req, seen>>

----------------------------------------------------------------------------
Prepare ==
    \E id \in Jobs, f \in Flows, cert \in BOOLEAN :
        \/ PrepareUploadFails(id, f, cert)
        \/ PrepareClientSide(id, f, cert)
        \/ PrepareDies(id, f, cert)
        \/ \E full \in BOOLEAN :
             \/ PrepareRemote(id, f, cert, full)
             \/ PrepareBeginFails(id, f, cert, full)

PersonConfirms(s) == Approve(s) /\ UNCHANGED <<storeVars, req, wrk, seen>>

JobExpires(id) == Expire(id) /\ UNCHANGED <<upVars, req, wrk, seen>>

\* What the person, the caller and the environment may do, or not.
Environment ==
    \/ Prepare
    \/ \E r \in Requests, s \in OAuthStates, declined \in BOOLEAN : CallbackArrives(r, s, declined)
    \/ \E r \in Requests, id \in Jobs :
         SubmitSignatures(r, id) \/ Status(r, id) \/ DeleteJob(r, id)
    \/ \E s \in OAuthStates : PersonConfirms(s)
    \/ \E id \in Jobs : JobExpires(id)
    \/ \E r \in Requests : RequestDies(r)
    \/ \E w \in Workers : WorkerDies(w)

\* The next step of a request being served, of a worker, of a background close.
RequestStep(r) ==
    \/ CallbackLoad(r) \/ CallbackClear(r) \/ CallbackFails(r)
    \/ AdvanceFirstLeg(r) \/ AdvanceFirstLegFails(r) \/ AdvanceSignLeg(r)
    \/ CallbackSave(r) \/ CallbackSaveNext(r)
    \/ SaveForWork(r) \/ EnqueueWork(r) \/ StatusEmit(r) \/ StatusSave(r) \/ DeleteKeys(r)

WorkerStep(w) ==
    \/ WorkerTake(w) \/ WorkerDeviceSave(w) \/ WorkerSign(w) \/ WorkerSaveFinalizing(w)
    \/ WorkerFinalize(w) \/ WorkerSaveResult(w)

CloseStep(id) == CloseSession(id) /\ UNCHANGED <<storeVars, req, wrk, seen>>

Next ==
    \/ Environment
    \/ \E r \in Requests : RequestStep(r)
    \/ \E w \in Workers : WorkerStep(w)
    \/ \E id \in Jobs : CloseStep(id)

Spec == Init /\ [][Next]_vars

\* Every call a handler or a worker makes ends: HTTP calls and Redis commands have
\* timeouts, device polling a deadline.  Nothing is assumed of the person or caller.
Fairness ==
    /\ \A r \in Requests : WF_vars(RequestStep(r))
    /\ \A w \in Workers : WF_vars(WorkerStep(w))
    /\ \A id \in Jobs : WF_vars(CloseStep(id))

LiveSpec == Spec /\ Fairness
=============================================================================
