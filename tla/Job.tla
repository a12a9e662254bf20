-------------------------------- MODULE Job --------------------------------
(***************************************************************************)
(* The signing-job aggregate (job/job.go): its flows, its state machine    *)
(* and the operations that change a job held in memory.  A job is a value: *)
(* every handler works on its own copy, loaded from Redis and saved back.  *)
(*                                                                         *)
(* The documents of a job change together (finalize is all or nothing), so *)
(* the batch is one document: `doc` is the state every document has, `sig` *)
(* whether every document carries a transient signature value, `digest`    *)
(* which CalculateDigest run produced the digests (0: none yet).           *)
(***************************************************************************)
EXTENDS Integers

CONSTANTS
    Flows,          \* the flows this instance exercises
    OfferedFlows,   \* the flows the deployment offers (Orchestrator.Offered)
    TSAAccessFlows, \* the flows that use the deployment's timestamp certificate
    NoJob           \* "no such key": what a missing Redis key loads as

\* Flow values keep the names of job.go.
CSCFlows    == {"cscEidScan", "cscEidPlugin"}
ClientFlows == {"webEid", "legacyEid"}
TxFlows     == {"eparakstsMobile", "eidScan", "eparakstsMobileEseal"}
AllFlows    == ClientFlows \cup TxFlows \cup CSCFlows

IsCSC(f)        == f \in CSCFlows
IsClientSide(f) == f \in ClientFlows

\* eidScan signs by pushing to the person's device and polling for the result.
DevicePush(f)   == f = "eidScan"

ASSUME FlowsAssumption ==
    Flows \subseteq AllFlows /\ OfferedFlows \subseteq Flows /\ TSAAccessFlows \subseteq Flows

----------------------------------------------------------------------------
(* The state machine.                                                      *)

JobStates == {"PREPARING", "AWAITING_AUTHORIZATION", "AWAITING_CLIENT_SIGNATURE",
              "SIGNING", "FINALIZING", "READY", "FAILED"}

Terminal(st) == st \in {"READY", "FAILED"}

transitions ==
    {<<"PREPARING", "AWAITING_AUTHORIZATION">>,
     <<"PREPARING", "AWAITING_CLIENT_SIGNATURE">>,
     <<"AWAITING_AUTHORIZATION", "SIGNING">>,
     <<"AWAITING_CLIENT_SIGNATURE", "FINALIZING">>,
     <<"SIGNING", "FINALIZING">>,
     <<"FINALIZING", "READY">>}
    \cup {<<st, "FAILED">> : st \in JobStates \ {"READY", "FAILED"}}

CanTransition(from, to) == from = to \/ <<from, to>> \in transitions

DocStates == {"PENDING", "READY", "FAILED"}

\* PendingLeg: which browser redirect the next callback completes.
Legs == {"none", "profile", "credential", "sign"}

NoToken == -1

\* oauth, pkce: the number of the OAuth state the job waits for, and of the
\* request whose PKCE verifier it holds (0: none).  token: the digests its signing
\* token is bound to (NoToken: no token, 0: bound to no digests of this job).  digest,
\* summary: the digests of its documents, and those DigestsSummary is made from.
JobType ==
    [flow : Flows, state : JobStates, leg : Legs, oauth : Nat, pkce : Nat,
     digest : Nat, summary : Nat, cert : BOOLEAN, token : Nat \cup {NoToken},
     sig : BOOLEAN, doc : DocStates, audited : BOOLEAN]

ASSUME NoJobAssumption == NoJob \notin JobType

\* The job Prepare builds from an admitted request, before any upstream call.
NewJob(f) ==
    [flow |-> f, state |-> "PREPARING", leg |-> "none", oauth |-> 0, pkce |-> 0,
     digest |-> 0, summary |-> 0, cert |-> FALSE, token |-> NoToken,
     sig |-> FALSE, doc |-> "PENDING", audited |-> FALSE]

\* Transition changes nothing when the move is not listed; callers ignore that.
Transition(x, to) ==
    IF CanTransition(x.state, to) THEN [x EXCEPT !.state = to] ELSE x

\* Fail asks no permission: it moves a job to FAILED from every state, and only
\* spares documents that are already READY.
Fail(x) == [x EXCEPT !.state = "FAILED", !.doc = IF @ = "READY" THEN @ ELSE "FAILED"]

\* authCertFor: is there a certificate to request the timestamp with?
authCertFor(f, cert) == f \in TSAAccessFlows \/ cert

Offered(f) == f \in OfferedFlows

\* Mutant of Admitted: a CSC request is not asked for its certificate.
AdmittedWithoutCert(f, cert) == Offered(f) /\ cert \in BOOLEAN

\* Prepare's admission: the flow is offered, and a CSC request brings the
\* certificate its timestamp will need.
Admitted(f, cert) == Offered(f) /\ (IsCSC(f) => authCertFor(f, cert))

----------------------------------------------------------------------------
(* What the orchestrator writes on its copy of the job.                    *)

\* The certificate and the digests known from the request.
WithCert(x, cert, d) == [x EXCEPT !.cert = cert, !.digest = d, !.summary = d]

\* Begin authorization s at leg l; a CSC request also mints a PKCE verifier.
AwaitCallback(x, l, s) ==
    [x EXCEPT !.leg = l, !.oauth = s, !.pkce = IF IsCSC(x.flow) THEN s ELSE @]

\* The first leg of a remote flow: TrustedX resolves the person's identities and
\* certificates, CSC registers a credential.  Both then calculate the digests and
\* ask for the signature authorization.
FirstLeg(f) == IF IsCSC(f) THEN "credential" ELSE "profile"

\* A callback's code was exchanged; a CSC verifier serves one exchange.
CodeExchanged(x) == [x EXCEPT !.pkce = IF IsCSC(x.flow) THEN 0 ELSE @]

\* The first summary a job gets stays, when its digests are calculated again.
Summary(x, d) == IF x.summary = 0 THEN d ELSE x.summary

DigestsCalculated(x, d) ==
    [x EXCEPT !.digest = d, !.summary = Summary(x, d),
              !.cert = IF IsCSC(x.flow) THEN @ ELSE TRUE]

\* What the signature authorization is asked for: by CSC the digests just calculated, by
\* TrustedX the job's summary.
Asked(x, d) == IF IsCSC(x.flow) THEN d ELSE Summary(x, d)

FirstLegCompleted(x, s, d) == AwaitCallback(DigestsCalculated(x, d), "sign", s)

\* Mutant of Bound: the digests the authorization came back with are not compared.
Unbound(x, bound) == IsCSC(x.flow) => bound >= 0

\* lvrtc.Bound: a CSC authorization must be for exactly the job's digests.
Bound(x, bound) == IsCSC(x.flow) => bound = x.digest /\ bound > 0

\* The signature authorization is complete: keep its token and start signing.
SignLegCompleted(x, bound) ==
    Transition([x EXCEPT !.token = bound, !.leg = "none"], "SIGNING")

\* The signer returned a value for every document; a CSC token is spent by then.
Signed(x) ==
    Transition([x EXCEPT !.sig = TRUE, !.token = IF IsCSC(x.flow) THEN NoToken ELSE @],
               "FINALIZING")

\* finalize succeeded: the transient signature values are dropped.
Finalized(x) == Transition([x EXCEPT !.doc = "READY", !.sig = FALSE], "READY")
=============================================================================
