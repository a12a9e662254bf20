---------------------------- MODULE SignerProofs ----------------------------
(***************************************************************************)
(* Theorems about Signer for any number of jobs, requests, workers, OAuth  *)
(* states and faults.                                                      *)
(***************************************************************************)
EXTENDS SignerProperties, TLAPS

----------------------------------------------------------------------------
(* The operations on a job return a job.                                   *)

\* A new job is well typed.
LEMMA NewJobType == ASSUME NEW f \in Flows PROVE NewJob(f) \in JobType
BY DEF NewJob, JobType, JobStates, Legs, DocStates, NoToken

\* Failing a job, from whatever state, gives a job.
LEMMA FailType == ASSUME NEW x \in JobType PROVE Fail(x) \in JobType
BY DEF Fail, JobType, JobStates, DocStates

\* A transition, refused or not, gives a job.
LEMMA TransitionType ==
    ASSUME NEW x \in JobType, NEW to \in JobStates PROVE Transition(x, to) \in JobType
BY DEF Transition, JobType

\* Taking certificate and digests gives a job that differs in nothing else.
LEMMA WithCertType ==
    ASSUME NEW x \in JobType, NEW cert \in BOOLEAN, NEW d \in Nat
    PROVE  /\ WithCert(x, cert, d) \in JobType
           /\ WithCert(x, cert, d).digest = d
<1>1. CASE cert = TRUE BY <1>1 DEF WithCert, JobType
<1>2. CASE cert = FALSE BY <1>2 DEF WithCert, JobType
<1>3. QED BY <1>1, <1>2

\* Beginning an authorization gives a job.
LEMMA AwaitCallbackType ==
    ASSUME NEW x \in JobType, NEW l \in Legs, NEW s \in Nat
    PROVE  /\ AwaitCallback(x, l, s) \in JobType
           /\ AwaitCallback(x, l, s).digest = x.digest
           /\ AwaitCallback(x, l, s).leg = l
BY DEF AwaitCallback, JobType

\* Exchanging a code gives a job.
LEMMA CodeExchangedType == ASSUME NEW x \in JobType PROVE CodeExchanged(x) \in JobType
BY DEF CodeExchanged, JobType

\* Storing calculated digests gives a job.
LEMMA DigestsCalculatedType ==
    ASSUME NEW x \in JobType, NEW d \in Nat PROVE DigestsCalculated(x, d) \in JobType
BY DEF DigestsCalculated, Summary, JobType

\* What an authorization is asked for are digests.
LEMMA AskedType == ASSUME NEW x \in JobType, NEW d \in Nat PROVE Asked(x, d) \in Nat
BY DEF Asked, Summary, JobType

\* Completing the first leg gives a job.
LEMMA FirstLegCompletedType ==
    ASSUME NEW x \in JobType, NEW s \in Nat, NEW d \in Nat
    PROVE  FirstLegCompleted(x, s, d) \in JobType
BY DigestsCalculatedType, AwaitCallbackType DEF FirstLegCompleted, Legs

\* Completing the signature authorization gives a job.
LEMMA SignLegCompletedType ==
    ASSUME NEW x \in JobType, NEW b \in Nat PROVE SignLegCompleted(x, b) \in JobType
<1>1. [x EXCEPT !.token = b, !.leg = "none"] \in JobType BY DEF JobType, Legs
<1>2. QED BY <1>1, TransitionType DEF SignLegCompleted, JobStates

\* Signing gives a job.
LEMMA SignedType == ASSUME NEW x \in JobType PROVE Signed(x) \in JobType
<1>1. [x EXCEPT !.sig = TRUE, !.token = IF IsCSC(x.flow) THEN NoToken ELSE @] \in JobType
  BY DEF JobType, NoToken
<1>2. QED BY <1>1, TransitionType DEF Signed, JobStates

\* Finalizing gives a job.
LEMMA FinalizedType == ASSUME NEW x \in JobType PROVE Finalized(x) \in JobType
<1>1. [x EXCEPT !.doc = "READY", !.sig = FALSE] \in JobType BY DEF JobType, DocStates
<1>2. QED BY <1>1, TransitionType DEF Finalized, JobStates

----------------------------------------------------------------------------
(* Type correctness.  A handler that is not idle works on an existing id,  *)
(* and one that is past its load holds a job.                              *)

HoldingPCs == {"cbClear", "cbAdvance", "cbSave", "cbSaveNext", "cbSaveDone", "submitSave",
               "statusEmit", "statusSave", "delete"}

RequestsOK ==
    /\ req \in [Requests -> RequestType]
    /\ \A r \in Requests :
         /\ req[r].pc # "idle" => req[r].id \in Jobs
         /\ req[r].pc \in HoldingPCs => req[r].job \in JobType
         /\ req[r].pc \in {"cbLoad", "cbClear", "cbAdvance"} => req[r].s \in OAuthStates

WorkersOK ==
    /\ wrk \in [Workers -> WorkerType]
    /\ \A w \in Workers :
         wrk[w].pc # "idle" => wrk[w].id \in Jobs /\ wrk[w].job \in JobType

SeenOK == seen \in [Jobs -> SeenType]

TypeInv == StoreTypeOK /\ UpstreamTypeOK /\ RequestsOK /\ WorkersOK /\ SeenOK

\* The type invariant every instance checks follows from the inductive one.
LEMMA TypeInvImpliesTypeOK == TypeInv => TypeOK
BY DEF TypeInv, TypeOK, RequestsOK, WorkersOK, SeenOK

\* Saving a job, completely, partly or not at all, keeps the store well typed.
LEMMA SaveType ==
    ASSUME StoreTypeOK, NEW id \in Jobs, NEW x \in JobType, Save(id, x), UNCHANGED queue
    PROVE  StoreTypeOK'
<1>1. faults' \in 0..MaxFaults
  BY BoundsAssumption DEF Save, TrySave, SaveOK, SaveFails, Fault, StoreTypeOK
<1>2. store' \in [Jobs -> JobType \cup {NoJob}]
  BY DEF Save, TrySave, SaveOK, SaveFails, SaveJob, StoreTypeOK
<1>3. index' \in [OAuthStates -> Jobs \cup {NoJob}]
  BY DEF Save, TrySave, SaveOK, SaveFails, SaveIndex, StoreTypeOK
<1>4. QED BY <1>1, <1>2, <1>3 DEF StoreTypeOK

\* A save whose result the caller looks at is a save.
LEMMA TrySaveIsSave ==
    ASSUME NEW id, NEW x, NEW ok \in BOOLEAN, TrySave(id, x, ok) PROVE Save(id, x)
BY DEF Save

\* Consuming a state keeps the store well typed.
LEMMA ClearStateType ==
    ASSUME StoreTypeOK, NEW s \in OAuthStates, ClearState(s), UNCHANGED <<store, queue>>
    PROVE  StoreTypeOK'
BY BoundsAssumption DEF StoreTypeOK, ClearState, Fault

\* A fault that loses no data keeps the store well typed.
LEMMA FaultType ==
    ASSUME StoreTypeOK, Fault, UNCHANGED <<store, index, queue>> PROVE StoreTypeOK'
BY BoundsAssumption DEF StoreTypeOK, Fault

\* A request that goes on with a job keeps the requests well typed.
LEMMA GotoType ==
    ASSUME RequestsOK, NEW r \in Requests, NEW id \in Jobs, NEW x,
           NEW pc \in RequestPCs \ {"idle", "cbLoad", "cbClear", "cbAdvance"},
           x \in JobType \/ (pc = "enqueue" /\ x = NoJob),
           Goto(r, pc, id, x)
    PROVE  RequestsOK'
<1>1. [pc |-> pc, id |-> id, s |-> 0, declined |-> FALSE, job |-> x] \in RequestType
  BY BoundsAssumption DEF RequestType
<1>2. req' \in [Requests -> RequestType] BY <1>1 DEF RequestsOK, Goto
<1>3. ASSUME NEW q \in Requests
      PROVE /\ req'[q].pc # "idle" => req'[q].id \in Jobs
            /\ req'[q].pc \in HoldingPCs => req'[q].job \in JobType
            /\ req'[q].pc \in {"cbLoad", "cbClear", "cbAdvance"} => req'[q].s \in OAuthStates
  <2>1. CASE q = r BY <2>1 DEF RequestsOK, Goto, HoldingPCs
  <2>2. CASE q # r
    <3>1. req'[q] = req[q] BY <2>2 DEF RequestsOK, Goto
    <3>2. QED BY <3>1 DEF RequestsOK
  <2>3. QED BY <2>1, <2>2
<1>4. QED BY <1>2, <1>3 DEF RequestsOK

\* A request that ends keeps the requests well typed.
LEMMA RespondType ==
    ASSUME RequestsOK, NEW r \in Requests, Respond(r) PROVE RequestsOK'
<1>1. IdleRequest \in RequestType
  BY BoundsAssumption DEF RequestType, IdleRequest, RequestPCs
<1>2. req' \in [Requests -> RequestType] BY <1>1 DEF RequestsOK, Respond
<1>3. ASSUME NEW q \in Requests
      PROVE /\ req'[q].pc # "idle" => req'[q].id \in Jobs
            /\ req'[q].pc \in HoldingPCs => req'[q].job \in JobType
            /\ req'[q].pc \in {"cbLoad", "cbClear", "cbAdvance"} => req'[q].s \in OAuthStates
  <2>1. CASE q = r BY <2>1 DEF RequestsOK, Respond, HoldingPCs, IdleRequest
  <2>2. CASE q # r
    <3>1. req'[q] = req[q] BY <2>2 DEF RequestsOK, Respond
    <3>2. QED BY <3>1 DEF RequestsOK
  <2>3. QED BY <2>1, <2>2
<1>4. QED BY <1>2, <1>3 DEF RequestsOK

\* A worker that goes on with a job keeps the workers well typed.
LEMMA GotoWorkerType ==
    ASSUME WorkersOK, NEW w \in Workers, NEW id \in Jobs, NEW x \in JobType,
           NEW pc \in WorkerPCs, GotoWorker(w, pc, id, x)
    PROVE  WorkersOK'
BY DEF WorkersOK, GotoWorker, WorkerType

\* A worker that ends keeps the workers well typed.
LEMMA ReleaseType ==
    ASSUME WorkersOK, NEW w \in Workers, Release(w) PROVE WorkersOK'
BY DEF WorkersOK, Release, WorkerType, IdleWorker, WorkerPCs

\* What a step leaves alone stays well typed.
LEMMA SameType ==
    /\ StoreTypeOK /\ UNCHANGED storeVars => StoreTypeOK'
    /\ UpstreamTypeOK /\ UNCHANGED upVars => UpstreamTypeOK'
    /\ RequestsOK /\ UNCHANGED req => RequestsOK'
    /\ WorkersOK /\ UNCHANGED wrk => WorkersOK'
    /\ SeenOK /\ UNCHANGED seen => SeenOK'
<1>1. StoreTypeOK /\ UNCHANGED storeVars => StoreTypeOK' BY DEF StoreTypeOK, storeVars
<1>2. UpstreamTypeOK /\ UNCHANGED upVars => UpstreamTypeOK' BY DEF UpstreamTypeOK, upVars
<1>3. RequestsOK /\ UNCHANGED req => RequestsOK' BY DEF RequestsOK
<1>4. WorkersOK /\ UNCHANGED wrk => WorkersOK' BY DEF WorkersOK
<1>5. SeenOK /\ UNCHANGED seen => SeenOK' BY DEF SeenOK
<1>6. QED BY <1>1, <1>2, <1>3, <1>4, <1>5

\* The initial state is well typed.
LEMMA TypeInit == Init => TypeInv
<1> SUFFICES ASSUME Init PROVE TypeInv OBVIOUS
<1> USE DEF Init
<1>1. StoreTypeOK BY BoundsAssumption DEF StoreInit, StoreTypeOK
<1>2. UpstreamTypeOK
  <2>1. signapi \in [Jobs -> SignAPIType]
    BY UpstreamAssumption DEF UpstreamInit, SignAPIType, Sessions
  <2>2. authz \in [OAuthStates -> AuthzType] BY DEF UpstreamInit, AuthzType, Legs
  <2>3. minted \in 0..MaxStates BY BoundsAssumption DEF UpstreamInit
  <2>4. QED BY <2>1, <2>2, <2>3 DEF UpstreamTypeOK
<1>3. RequestsOK
  BY BoundsAssumption DEF RequestsOK, RequestType, IdleRequest, RequestPCs, HoldingPCs
<1>4. WorkersOK BY DEF WorkersOK, WorkerType, IdleWorker, WorkerPCs
<1>5. SeenOK BY DEF SeenOK, SeenType
<1>6. QED BY <1>1, <1>2, <1>3, <1>4, <1>5 DEF TypeInv

\* Uploading a document and calculating its digests keeps the sessions well typed.
LEMMA UploadedType ==
    ASSUME UpstreamTypeOK, NEW id \in Jobs, NEW d \in 0..MaxDigests, Uploaded(id, d)
    PROVE  signapi' \in [Jobs -> SignAPIType]
BY DEF UpstreamTypeOK, Uploaded, SignAPIType, Sessions

\* Minting an OAuth state keeps the authorizations well typed.
LEMMA MintType ==
    ASSUME UpstreamTypeOK, CanMint, NEW id \in Jobs, NEW l \in Legs, NEW d \in Nat,
           NEW b \in BOOLEAN, Mint(id, l, d, b)
    PROVE  authz' \in [OAuthStates -> AuthzType] /\ minted' \in 0..MaxStates
BY BoundsAssumption DEF UpstreamTypeOK, Mint, CanMint, NewState, Request, AuthzType, OAuthStates

\* Calculating the digests again keeps the sessions well typed.
LEMMA CalculateDigestType ==
    ASSUME UpstreamTypeOK, NEW id \in Jobs, CalculateDigestEnabled(id), CalculateDigest(id)
    PROVE  signapi' \in [Jobs -> SignAPIType] /\ NextDigest(id) \in Nat
<1>1. signapi[id] \in SignAPIType BY DEF UpstreamTypeOK
<1>2. NextDigest(id) \in 0..MaxDigests
  BY <1>1, UpstreamAssumption DEF SignAPIType, NextDigest, CalculateDigestEnabled
<1>3. QED BY <1>1, <1>2 DEF UpstreamTypeOK, CalculateDigest, SignAPIType

\* Exchanging a code keeps the authorizations well typed.
LEMMA SpendCodeType ==
    ASSUME UpstreamTypeOK, NEW s \in OAuthStates, NEW x, CanExchange(x, s)
    PROVE  SpendCode(s) \in [OAuthStates -> AuthzType]
BY DEF UpstreamTypeOK, CanExchange, SpendCode, AuthzType

\* Handing the sessions to the background close keeps them well typed.
LEMMA CloseLaterType ==
    ASSUME UpstreamTypeOK, NEW id \in Jobs, CloseLater(id)
    PROVE  signapi' \in [Jobs -> SignAPIType]
BY DEF UpstreamTypeOK, CloseLater, SignAPIType, Sessions

\* Counting a finalize call, with or without effect, gives a session record.
LEMMA FinalizeCallType ==
    ASSUME NEW z \in SignAPIType
    PROVE  /\ [z EXCEPT !.calls = @ + 1, !.finalized = TRUE] \in SignAPIType
           /\ [z EXCEPT !.calls = @ + 1, !.finalized = @] \in SignAPIType
<1>1. z.calls + 1 \in Nat BY DEF SignAPIType
<1> DEFINE n == z.calls + 1
<1>2. n \in Nat BY <1>1
<1> HIDE DEF n
<1>3. /\ [z EXCEPT !.calls = n, !.finalized = TRUE] \in SignAPIType
      /\ [z EXCEPT !.calls = n, !.finalized = z.finalized] \in SignAPIType
  BY <1>2 DEF SignAPIType
<1>4. QED BY <1>3 DEF n

\* A finalize call keeps the sessions well typed, whether or not it took effect.
LEMMA FinalizeSigningType ==
    ASSUME UpstreamTypeOK, NEW id \in Jobs, NEW ok \in BOOLEAN, FinalizeSigning(id, ok)
    PROVE  signapi' \in [Jobs -> SignAPIType]
<1>1. PICK applied \in BOOLEAN :
        signapi' = [signapi EXCEPT ![id].calls = @ + 1,
                                   ![id].finalized = IF applied THEN TRUE ELSE @]
  BY DEF FinalizeSigning
<1> DEFINE y == [signapi[id] EXCEPT !.calls = @ + 1, !.finalized = IF applied THEN TRUE ELSE @]
<1>2. signapi[id] \in SignAPIType BY DEF UpstreamTypeOK
<1>3. y \in SignAPIType
  <2>1. CASE applied
    <3>1. y = [signapi[id] EXCEPT !.calls = @ + 1, !.finalized = TRUE] BY <2>1, Zenon
    <3> HIDE DEF y
    <3>2. QED BY <3>1, <1>2, FinalizeCallType
  <2>2. CASE ~applied
    <3>1. y = [signapi[id] EXCEPT !.calls = @ + 1, !.finalized = @] BY <2>2, Zenon
    <3> HIDE DEF y
    <3>2. QED BY <3>1, <1>2, FinalizeCallType
  <2>3. QED BY <2>1, <2>2
<1>4. signapi' = [signapi EXCEPT ![id] = y] BY <1>1
<1> HIDE DEF y
<1>5. QED BY <1>3, <1>4 DEF UpstreamTypeOK

\* Counting an accepted authorization keeps the caller's view well typed.
LEMMA AcceptedType ==
    ASSUME SeenOK, NEW id \in Jobs, seen' = [seen EXCEPT ![id].accepted = @ + 1]
    PROVE  SeenOK'
<1> DEFINE y == [seen[id] EXCEPT !.accepted = @ + 1]
           n == seen[id].accepted + 1
<1>1. seen[id] \in SeenType BY DEF SeenOK
<1>2. n \in Nat BY <1>1 DEF SeenType
<1>3. y = [seen[id] EXCEPT !.accepted = n] OBVIOUS
<1>4. seen' = [seen EXCEPT ![id] = y] OBVIOUS
<1> HIDE DEF y, n
<1>5. y \in SeenType BY <1>1, <1>2, <1>3 DEF SeenType
<1>6. QED BY <1>4, <1>5 DEF SeenOK

\* Counting an audit event keeps the caller's view well typed.
LEMMA AuditedType ==
    ASSUME SeenOK, NEW id \in Jobs,
           \/ seen' = [seen EXCEPT ![id].applied = AtMost2(@ + 1)]
           \/ seen' = [seen EXCEPT ![id].failed = AtMost2(@ + 1)]
    PROVE  SeenOK'
<1>1. seen[id] \in SeenType BY DEF SeenOK
<1>2. AtMost2(seen[id].applied + 1) \in 0..2 /\ AtMost2(seen[id].failed + 1) \in 0..2
  BY <1>1 DEF SeenType, AtMost2
<1> DEFINE a == AtMost2(seen[id].applied + 1)
           f == AtMost2(seen[id].failed + 1)
<1>3. seen' = [seen EXCEPT ![id].applied = a] \/ seen' = [seen EXCEPT ![id].failed = f]
  OBVIOUS
<1>4. a \in 0..2 /\ f \in 0..2 BY <1>2
<1> HIDE DEF a, f
<1>5. QED BY <1>3, <1>4 DEF SeenOK, SeenType

\* The job a begun authorization leaves on the copy is well typed.
LEMMA BeginAuthorizationType ==
    ASSUME NEW f \in Flows, NEW cert \in BOOLEAN, NEW full \in BOOLEAN, NEW s \in Nat
    PROVE  /\ BeginAuthorization(f, cert, full, s) \in JobType
           /\ BeginAuthorization(f, cert, full, s).digest \in {0, 1}
           /\ BeginAuthorization(f, cert, full, s).leg \in Legs
<1> DEFINE x == NewJob(f)
<1>1. x \in JobType /\ x.digest = 0 BY NewJobType DEF NewJob
<1>2. /\ WithCert(x, cert, 0) \in JobType /\ WithCert(x, cert, 0).digest = 0
      /\ WithCert(x, TRUE, 1) \in JobType /\ WithCert(x, TRUE, 1).digest = 1
  <2> HIDE DEF x
  <2>1. 0 \in Nat /\ 1 \in Nat /\ TRUE \in BOOLEAN OBVIOUS
  <2>2. QED BY <1>1, <2>1, WithCertType, Zenon
<1>3. FirstLeg(f) \in Legs /\ "sign" \in Legs BY DEF FirstLeg, Legs
<1> HIDE DEF x
<1>4. CASE IsCSC(f)
  <2>1. BeginAuthorization(f, cert, full, s) = AwaitCallback(WithCert(x, cert, 0), FirstLeg(f), s)
    BY <1>4 DEF BeginAuthorization, x
  <2>2. QED BY <2>1, <1>1, <1>2, <1>3, AwaitCallbackType
<1>5. CASE ~IsCSC(f) /\ full
  <2>1. BeginAuthorization(f, cert, full, s)
          = AwaitCallback(WithCert(x, TRUE, 1), "sign", s)
    BY <1>5 DEF BeginAuthorization, x
  <2> DEFINE y == WithCert(x, TRUE, 1)
  <2>2. y \in JobType /\ y.digest = 1 BY <1>2
  <2>3. BeginAuthorization(f, cert, full, s) = AwaitCallback(y, "sign", s) BY <2>1
  <2> HIDE DEF y
  <2>4. QED BY <2>2, <2>3, <1>3, AwaitCallbackType
<1>6. CASE ~IsCSC(f) /\ ~full
  <2>1. BeginAuthorization(f, cert, full, s) = AwaitCallback(x, FirstLeg(f), s)
    BY <1>6 DEF BeginAuthorization, x
  <2>2. QED BY <2>1, <1>1, <1>3, AwaitCallbackType
<1>7. QED BY <1>4, <1>5, <1>6

\* Every outcome of Prepare keeps the types.
LEMMA PrepareType == ASSUME TypeInv, Prepare PROVE TypeInv'
<1> USE DEF TypeInv
<1>1. PICK id \in Jobs, f \in Flows, cert \in BOOLEAN :
        \/ PrepareUploadFails(id, f, cert)
        \/ PrepareClientSide(id, f, cert)
        \/ PrepareDies(id, f, cert)
        \/ \E full \in BOOLEAN :
             \/ PrepareRemote(id, f, cert, full)
             \/ PrepareBeginFails(id, f, cert, full)
  BY DEF Prepare
<1>2. 0 \in 0..MaxDigests /\ 1 \in 0..MaxDigests BY UpstreamAssumption
<1>3. NewState \in Nat BY BoundsAssumption DEF NewState, UpstreamTypeOK
<1>4. NewJob(f) \in JobType BY NewJobType
<1>5. \A ok \in BOOLEAN : seen' = [seen EXCEPT ![id].known = ok] => SeenOK'
  BY DEF SeenOK, SeenType
<1>6. CASE PrepareUploadFails(id, f, cert)
  <2> USE <1>6 DEF PrepareUploadFails, PrepareStarts
  <2>1. StoreTypeOK' BY <1>4, FailType, SaveType
  <2>2. UpstreamTypeOK' BY DEF UpstreamTypeOK, SignAPIType, Sessions
  <2>3. QED BY <2>1, <2>2, SameType
<1>7. CASE PrepareClientSide(id, f, cert)
  <2>1. \A d \in {0, 1} : WithCert(NewJob(f), cert, d) \in JobType
    BY <1>4, WithCertType
  <2>2. Transition(WithCert(NewJob(f), cert, 1), "AWAITING_CLIENT_SIGNATURE") \in JobType
    BY <2>1, TransitionType DEF JobStates
  <2>3. StoreTypeOK'
    <3>1. CASE \E ok \in BOOLEAN : TrySave(id, Transition(WithCert(NewJob(f), cert, 1),
                                                  "AWAITING_CLIENT_SIGNATURE"), ok)
      BY <1>7, <2>2, <3>1, SaveType, TrySaveIsSave DEF PrepareClientSide, PrepareStarts
    <3>2. ASSUME NEW e \in {0, 1}, Save(id, Fail(WithCert(NewJob(f), cert, e))) PROVE StoreTypeOK'
      BY <1>7, <2>1, <3>2, FailType, SaveType DEF PrepareClientSide, PrepareStarts
    <3>3. QED BY <1>7, <3>1, <3>2 DEF PrepareClientSide
  <2>4. UpstreamTypeOK'
    BY <1>7, <1>2, UploadedType DEF PrepareClientSide, UpstreamTypeOK
  <2>5. SeenOK' BY <1>7, <1>5, SameType DEF PrepareClientSide
  <2>6. QED BY <1>7, <2>3, <2>4, <2>5, SameType DEF PrepareClientSide, PrepareStarts
<1>8. CASE PrepareDies(id, f, cert)
  <2> USE <1>8 DEF PrepareDies, PrepareStarts
  <2>1. StoreTypeOK' BY FaultType
  <2>2. UpstreamTypeOK' BY DEF UpstreamTypeOK, SignAPIType, Sessions
  <2>3. QED BY <2>1, <2>2, SameType
<1>9. ASSUME NEW full \in BOOLEAN, PrepareRemote(id, f, cert, full) PROVE TypeInv'
  <2> DEFINE x == BeginAuthorization(f, cert, full, NewState)
  <2>1. x \in JobType /\ x.digest \in {0, 1} /\ x.leg \in Legs
    BY <1>3, BeginAuthorizationType
  <2>2. Transition(x, "AWAITING_AUTHORIZATION") \in JobType
    BY <2>1, TransitionType DEF JobStates
  <2> HIDE DEF x
  <2>3. PICK ok \in BOOLEAN :
          /\ Uploaded(id, x.digest)
          /\ Mint(id, x.leg, x.digest, ok)
          /\ TrySave(id, Transition(x, "AWAITING_AUTHORIZATION"), ok)
          /\ seen' = [seen EXCEPT ![id].known = ok]
    BY <1>9 DEF PrepareRemote, x
  <2>4. StoreTypeOK' BY <1>9, <2>2, <2>3, SaveType, TrySaveIsSave DEF PrepareRemote, PrepareStarts
  <2>5. UpstreamTypeOK'
    BY <1>9, <1>2, <2>1, <2>3, UploadedType, MintType DEF PrepareRemote, UpstreamTypeOK
  <2>6. QED BY <1>9, <1>5, <2>3, <2>4, <2>5, SameType DEF PrepareRemote, PrepareStarts
<1>10. ASSUME NEW full \in BOOLEAN, PrepareBeginFails(id, f, cert, full) PROVE TypeInv'
  <2>1. CASE IsCSC(f)
    <3> DEFINE x == BeginAuthorization(f, cert, FALSE, NewState)
    <3>1. x \in JobType /\ x.leg \in Legs BY <1>3, BeginAuthorizationType
    <3> HIDE DEF x
    <3>2. CanMint /\ Uploaded(id, 0) /\ Mint(id, x.leg, 0, FALSE) /\ Save(id, Fail(x))
      BY <1>10, <2>1 DEF PrepareBeginFails, x
    <3>3. StoreTypeOK' BY <1>10, <3>1, <3>2, FailType, SaveType DEF PrepareBeginFails, PrepareStarts
    <3>4. UpstreamTypeOK' BY <1>2, <3>1, <3>2, UploadedType, MintType DEF UpstreamTypeOK
    <3>5. QED BY <1>10, <3>3, <3>4, SameType DEF PrepareBeginFails, PrepareStarts
  <2>2. CASE ~IsCSC(f)
    <3>1. PICK d \in {0, 1}, e \in {0, 1} :
            /\ Uploaded(id, d)
            /\ Save(id, Fail(WithCert(NewJob(f), TRUE, e)))
            /\ UNCHANGED <<authz, minted>>
      BY <1>10, <2>2 DEF PrepareBeginFails
    <3>2. WithCert(NewJob(f), TRUE, e) \in JobType BY <1>4, WithCertType
    <3>3. StoreTypeOK' BY <1>10, <3>1, <3>2, FailType, SaveType DEF PrepareBeginFails, PrepareStarts
    <3>4. UpstreamTypeOK' BY <1>2, <3>1, UploadedType DEF UpstreamTypeOK
    <3>5. QED BY <1>10, <3>3, <3>4, SameType DEF PrepareBeginFails, PrepareStarts
  <2>3. QED BY <2>1, <2>2
<1>11. QED BY <1>1, <1>6, <1>7, <1>8, <1>9, <1>10

\* Every step of a request keeps the types.
LEMMA RequestStepType ==
    ASSUME TypeInv, NEW r \in Requests, RequestStep(r) PROVE TypeInv'
<1> USE DEF TypeInv
<1> DEFINE id == req[r].id
           x == req[r].job
           s == req[r].s
<1>0. id \in Jobs \cup {NoJob} /\ (req[r].pc # "idle" => id \in Jobs)
  BY DEF RequestsOK, RequestType
<1>h. req[r].pc \in HoldingPCs => x \in JobType BY DEF RequestsOK
<1>s. req[r].pc \in {"cbLoad", "cbClear", "cbAdvance"} => s \in OAuthStates BY DEF RequestsOK
<1>n. NewState \in Nat BY BoundsAssumption DEF NewState, UpstreamTypeOK
<1>c. ASSUME req[r].pc = "cbAdvance" PROVE CodeExchanged(x) \in JobType
  BY <1>c, <1>h, CodeExchangedType DEF HoldingPCs
<1> HIDE DEF id, x, s
<1>1. CASE CallbackLoad(r)
  <2>1. CASE Exists(id)
    <3>1. store[id] \in JobType
      BY <1>1, <2>1, <1>0 DEF CallbackLoad, StoreTypeOK, Exists, id
    <3>2. req' = [req EXCEPT ![r].pc = "cbClear", ![r].job = store[id]] /\ req[r].pc = "cbLoad"
      BY <1>1, <2>1 DEF CallbackLoad, id
    <3>3. RequestsOK'
      BY <3>1, <3>2 DEF RequestsOK, RequestType, RequestPCs, HoldingPCs
    <3>4. QED BY <1>1, <3>3, SameType DEF CallbackLoad
  <2>2. CASE ~Exists(id) BY <1>1, <2>2, RespondType, SameType DEF CallbackLoad, id
  <2>3. QED BY <2>1, <2>2
<1>16. CASE CallbackClear(r)
  <2>1. StoreTypeOK' BY <1>16, <1>s, ClearStateType DEF CallbackClear, s
  <2>2. RequestsOK'
    BY <1>16 DEF CallbackClear, RequestsOK, RequestType, RequestPCs, HoldingPCs
  <2>3. QED BY <1>16, <2>1, <2>2, SameType DEF CallbackClear
<1>2. ASSUME Advance(r)
      PROVE  /\ StoreTypeOK' /\ WorkersOK'
             /\ x \in JobType /\ CodeExchanged(x) \in JobType /\ s \in OAuthStates /\ id \in Jobs
  <2>1. x \in JobType /\ CodeExchanged(x) \in JobType /\ s \in OAuthStates /\ id \in Jobs
    BY <1>2, <1>0, <1>h, <1>s, <1>c DEF Advance, HoldingPCs
  <2>2. QED BY <1>2, <2>1, SameType DEF Advance
<1>3. CASE CallbackFails(r)
  <2> DEFINE y == IF req[r].declined THEN x ELSE CodeExchanged(x)
  <2>1. Advance(r) /\ Goto(r, "cbSave", id, Fail(y)) BY <1>3 DEF CallbackFails, x, id
  <2>2. y \in JobType BY <2>1, <1>2
  <2> HIDE DEF y
  <2>3. RequestsOK' BY <2>1, <2>2, <1>2, FailType, GotoType DEF RequestPCs
  <2>4. UpstreamTypeOK'
    BY <1>3, <2>1, <1>2, SpendCodeType DEF CallbackFails, UpstreamTypeOK, s, x
  <2>5. QED BY <1>3, <1>2, <2>1, <2>3, <2>4, SameType DEF CallbackFails
<1>4. ASSUME NEW l, Exchange(r, l)
      PROVE  Advance(r) /\ CanExchange(x, s)
  BY <1>4 DEF Exchange, x, s
<1> DEFINE d == NextDigest(id)
<1> HIDE DEF d
<1>5. ASSUME NEW l, Exchange(r, l), CanMint, NEW q \in Nat, minted' = NewState,
             signapi' \in [Jobs -> SignAPIType],
             authz' = [SpendCode(s) EXCEPT ![NewState] = Request(id, "sign", q, FALSE)]
      PROVE  UpstreamTypeOK'
  <2>1. SpendCode(s) \in [OAuthStates -> AuthzType] BY <1>5, <1>4, <1>2, SpendCodeType
  <2>2. Request(id, "sign", q, FALSE) \in AuthzType BY <1>5, <1>4, <1>2 DEF Request, AuthzType, Legs
  <2>3. minted' \in 0..MaxStates
    BY <1>5, BoundsAssumption DEF CanMint, NewState, UpstreamTypeOK
  <2>4. authz' \in [OAuthStates -> AuthzType] BY <1>5, <2>1, <2>2
  <2>5. QED BY <1>5, <2>3, <2>4 DEF UpstreamTypeOK
<1>6. CASE AdvanceFirstLeg(r)
  <2>1. /\ Exchange(r, FirstLeg(x.flow))
        /\ CalculateDigestEnabled(id) /\ CalculateDigest(id)
        /\ CanMint /\ minted' = NewState
        /\ authz' = [SpendCode(s) EXCEPT ![NewState] = Request(id, "sign", Asked(x, d), FALSE)]
        /\ Goto(r, "cbSaveNext", id, FirstLegCompleted(CodeExchanged(x), NewState, d))
        /\ UNCHANGED seen
    BY <1>6 DEF AdvanceFirstLeg, x, id, s, d
  <2>2. Advance(r) BY <2>1, <1>4
  <2>3. d \in Nat /\ signapi' \in [Jobs -> SignAPIType]
    BY <2>1, <2>2, <1>2, CalculateDigestType DEF d
  <2>4. UpstreamTypeOK'
    <3>1. Asked(x, d) \in Nat BY <2>2, <2>3, <1>2, AskedType
    <3>2. QED BY <2>1, <2>3, <3>1, <1>5
  <2>5. RequestsOK' BY <2>1, <2>2, <2>3, <1>2, <1>n, FirstLegCompletedType, GotoType DEF RequestPCs
  <2>6. QED BY <2>1, <2>2, <1>2, <2>4, <2>5, SameType
<1>7. CASE AdvanceFirstLegFails(r)
  <2>1. /\ Exchange(r, FirstLeg(x.flow))
        /\ CalculateDigestEnabled(id) /\ CalculateDigest(id)
        /\ UNCHANGED seen
    BY <1>7 DEF AdvanceFirstLegFails, x, id
  <2>2. Advance(r) /\ CanExchange(x, s) BY <2>1, <1>4
  <2>3. d \in Nat /\ signapi' \in [Jobs -> SignAPIType]
    BY <2>1, <2>2, <1>2, CalculateDigestType DEF d
  <2>4. CASE /\ authz' = SpendCode(s)
             /\ \E y \in {CodeExchanged(x), DigestsCalculated(CodeExchanged(x), d)} :
                  Goto(r, "cbSave", id, Fail(y))
             /\ UNCHANGED minted
    <3>1. UpstreamTypeOK' BY <2>2, <2>3, <2>4, <1>2, SpendCodeType DEF UpstreamTypeOK
    <3>2. \A y \in {CodeExchanged(x), DigestsCalculated(CodeExchanged(x), d)} : Fail(y) \in JobType
      BY <2>2, <2>3, <1>2, DigestsCalculatedType, FailType
    <3>3. RequestsOK' BY <2>2, <2>4, <3>2, <1>2, GotoType DEF RequestPCs
    <3>4. QED BY <2>1, <2>2, <1>2, <3>1, <3>3, SameType
  <2>5. CASE /\ CanMint
             /\ minted' = NewState
             /\ authz' = [SpendCode(s) EXCEPT ![NewState] = Request(id, "sign", Asked(x, d), FALSE)]
             /\ Goto(r, "cbSave", id, Fail(FirstLegCompleted(CodeExchanged(x), NewState, d)))
    <3>1. UpstreamTypeOK'
      <4>1. Asked(x, d) \in Nat BY <2>2, <2>3, <1>2, AskedType
      <4>2. QED BY <2>1, <2>3, <2>5, <4>1, <1>5
    <3>2. Fail(FirstLegCompleted(CodeExchanged(x), NewState, d)) \in JobType
      BY <2>2, <2>3, <1>2, <1>n, FirstLegCompletedType, FailType
    <3>3. RequestsOK' BY <2>2, <2>5, <3>2, <1>2, GotoType DEF RequestPCs
    <3>4. QED BY <2>1, <2>2, <1>2, <3>1, <3>3, SameType
  <2>6. QED BY <1>7, <2>4, <2>5 DEF AdvanceFirstLegFails, x, id, s, d
<1>8. CASE AdvanceSignLeg(r)
  <2>1. PICK b \in TokenBindings(x, s) :
          Goto(r, "cbSaveDone", id, SignLegCompleted(CodeExchanged(x), b))
    BY <1>8 DEF AdvanceSignLeg, x, id, s
  <2>2. Advance(r) /\ CanExchange(x, s) BY <1>8, <1>4 DEF AdvanceSignLeg
  <2>3. b \in Nat BY <2>1, <2>2, <1>2 DEF TokenBindings, UpstreamTypeOK, AuthzType
  <2>4. RequestsOK'
    BY <2>1, <2>2, <2>3, <1>2, SignLegCompletedType, GotoType DEF RequestPCs
  <2>5. UpstreamTypeOK'
    BY <1>8, <2>2, <1>2, SpendCodeType DEF AdvanceSignLeg, UpstreamTypeOK, s
  <2>6. SeenOK' BY <1>8, <2>2, <1>2, AcceptedType DEF AdvanceSignLeg, id
  <2>7. QED BY <2>2, <1>2, <2>4, <2>5, <2>6
<1>9. CASE CallbackSave(r)
  BY <1>9, <1>0, <1>h, SaveType, RespondType, SameType DEF CallbackSave, HoldingPCs, id, x
<1>10. CASE CallbackSaveNext(r)
  <2>1. id \in Jobs /\ x \in JobType BY <1>10, <1>0, <1>h DEF CallbackSaveNext, HoldingPCs
  <2>2. PICK ok \in BOOLEAN :
          /\ TrySave(id, x, ok)
          /\ authz' = IF ok THEN [authz EXCEPT ![x.oauth].shown = TRUE] ELSE authz
    BY <1>10 DEF CallbackSaveNext, id, x
  <2>3. StoreTypeOK' BY <1>10, <2>1, <2>2, SaveType, TrySaveIsSave DEF CallbackSaveNext
  <2>4. [authz EXCEPT ![x.oauth].shown = TRUE] \in [OAuthStates -> AuthzType]
    BY DEF UpstreamTypeOK, AuthzType
  <2>5. UpstreamTypeOK' BY <1>10, <2>2, <2>4 DEF CallbackSaveNext, UpstreamTypeOK
  <2>6. QED BY <1>10, <2>3, <2>5, RespondType, SameType DEF CallbackSaveNext
<1>11. CASE SaveForWork(r)
  <2>1. id \in Jobs /\ x \in JobType BY <1>11, <1>0, <1>h DEF SaveForWork, HoldingPCs
  <2>2. PICK ok \in BOOLEAN :
          /\ TrySave(id, x, ok)
          /\ IF ok THEN Goto(r, "enqueue", id, NoJob) ELSE Respond(r)
    BY <1>11 DEF SaveForWork, id, x
  <2>3. StoreTypeOK' BY <1>11, <2>1, <2>2, SaveType, TrySaveIsSave DEF SaveForWork
  <2>4. RequestsOK' BY <2>1, <2>2, GotoType, RespondType DEF RequestPCs
  <2>5. QED BY <1>11, <2>3, <2>4, SameType DEF SaveForWork
<1>12. CASE EnqueueWork(r)
  <2>1. id \in Jobs BY <1>12, <1>0 DEF EnqueueWork
  <2>2. CASE EnqueueFails BY <1>12, <2>2, FaultType, RespondType, SameType DEF EnqueueWork, EnqueueFails
  <2>3. CASE EnqueueOK(id)
    <3>1. Append(queue, id) \in Seq(Jobs) BY <2>1 DEF StoreTypeOK
    <3>2. StoreTypeOK' BY <1>12, <2>3, <3>1 DEF EnqueueWork, EnqueueOK, StoreTypeOK
    <3>3. QED BY <1>12, <3>2, RespondType, SameType DEF EnqueueWork
  <2>4. QED BY <1>12, <2>2, <2>3 DEF EnqueueWork, id
<1>13. CASE StatusSave(r)
  BY <1>13, <1>0, <1>h, SaveType, RespondType, SameType DEF StatusSave, HoldingPCs, id, x
<1>17. CASE StatusEmit(r)
  <2> DEFINE y == [x EXCEPT !.audited = TRUE]
  <2>1. id \in Jobs /\ x \in JobType BY <1>17, <1>0, <1>h DEF StatusEmit, HoldingPCs
  <2>2. y \in JobType BY <2>1 DEF JobType
  <2>3. Goto(r, "statusSave", id, y) BY <1>17 DEF StatusEmit, id, x
  <2> HIDE DEF y
  <2>4. RequestsOK' BY <2>1, <2>2, <2>3, GotoType DEF RequestPCs
  <2>5. SeenOK' BY <1>17, <2>1, AuditedType DEF StatusEmit, id, x
  <2>6. QED BY <1>17, <2>4, <2>5, SameType DEF StatusEmit
<1>14. CASE DeleteKeys(r)
  <2>1. id \in Jobs BY <1>14, <1>0 DEF DeleteKeys
  <2>2. StoreTypeOK'
    BY <1>14, <2>1, BoundsAssumption
    DEF DeleteKeys, DeleteOK, DeleteFails, DeleteIndex, Fault, StoreTypeOK, id
  <2>3. UpstreamTypeOK'
    BY <1>14, <2>1, CloseLaterType DEF DeleteKeys, UpstreamTypeOK, id
  <2>4. SeenOK' BY <1>14, <2>1 DEF DeleteKeys, SeenOK, SeenType, id
  <2>5. QED BY <1>14, <2>2, <2>3, <2>4, RespondType, SameType DEF DeleteKeys
<1>15. QED
  BY <1>1, <1>3, <1>6, <1>7, <1>8, <1>9, <1>10, <1>11, <1>12, <1>13, <1>14, <1>16,
     <1>17 DEF RequestStep

\* Every step of a worker keeps the types.
LEMMA WorkerStepType ==
    ASSUME TypeInv, NEW w \in Workers, WorkerStep(w) PROVE TypeInv'
<1> USE DEF TypeInv
<1> DEFINE id == wrk[w].id
           x == wrk[w].job
<1>0. wrk[w].pc # "idle" => id \in Jobs /\ x \in JobType BY DEF WorkersOK
<1> HIDE DEF id, x
<1>1. CASE WorkerTake(w)
  <2>1. PICK i \in Jobs :
          /\ DequeueWork(i)
          /\ CASE Exists(i) /\ store[i].state = "SIGNING" ->
                    GotoWorker(w, IF DevicePush(store[i].flow) THEN "deviceSave" ELSE "sign",
                               i, store[i])
               [] Exists(i) /\ store[i].state = "FINALIZING" ->
                    GotoWorker(w, "finalize", i, store[i])
               [] OTHER -> UNCHANGED wrk
    BY <1>1 DEF WorkerTake
  <2>2. Exists(i) => store[i] \in JobType BY DEF Exists, StoreTypeOK
  <2>3. WorkersOK'
    <3>1. CASE Exists(i) /\ store[i].state = "SIGNING"
      BY <2>1, <2>2, <3>1, GotoWorkerType DEF WorkerPCs
    <3>2. CASE Exists(i) /\ store[i].state = "FINALIZING"
      BY <2>1, <2>2, <3>2, GotoWorkerType DEF WorkerPCs
    <3>3. CASE ~(Exists(i) /\ store[i].state \in {"SIGNING", "FINALIZING"})
      BY <2>1, <3>3, SameType
    <3>4. QED BY <3>1, <3>2, <3>3
  <2>4. queue' \in Seq(Jobs) BY <2>1 DEF DequeueWork, StoreTypeOK
  <2>5. StoreTypeOK' BY <1>1, <2>4 DEF WorkerTake, StoreTypeOK
  <2>6. QED BY <1>1, <2>3, <2>5, SameType DEF WorkerTake
<1>2. CASE WorkerDeviceSave(w)
  <2>1. id \in Jobs /\ x \in JobType /\ Fail(x) \in JobType
    BY <1>2, <1>0, FailType DEF WorkerDeviceSave
  <2>2. PICK ok \in BOOLEAN :
          /\ TrySave(id, x, ok)
          /\ IF ok THEN GotoWorker(w, "sign", id, x)
                   ELSE GotoWorker(w, "saveResult", id, Fail(x))
    BY <1>2 DEF WorkerDeviceSave, id, x
  <2>3. StoreTypeOK' BY <1>2, <2>1, <2>2, SaveType, TrySaveIsSave DEF WorkerDeviceSave
  <2>4. WorkersOK' BY <2>1, <2>2, GotoWorkerType DEF WorkerPCs
  <2>5. QED BY <1>2, <2>3, <2>4, SameType DEF WorkerDeviceSave
<1>3. CASE WorkerSign(w)
  <2> DEFINE y == [x EXCEPT !.token = IF IsCSC(x.flow) THEN NoToken ELSE @]
  <2>1. id \in Jobs /\ x \in JobType /\ y \in JobType
    BY <1>3, <1>0 DEF WorkerSign, JobType, NoToken
  <2>2. \/ GotoWorker(w, "saveFinalizing", id, Signed(x))
        \/ GotoWorker(w, "saveResult", id, Fail(y))
    BY <1>3 DEF WorkerSign, id, x
  <2> HIDE DEF y
  <2>3. WorkersOK' BY <2>1, <2>2, SignedType, FailType, GotoWorkerType DEF WorkerPCs
  <2>4. QED BY <1>3, <2>3, SameType DEF WorkerSign
<1>4. CASE WorkerSaveFinalizing(w)
  <2>1. id \in Jobs /\ x \in JobType BY <1>4, <1>0 DEF WorkerSaveFinalizing
  <2>2. StoreTypeOK' BY <1>4, <2>1, SaveType DEF WorkerSaveFinalizing, id, x
  <2>3. WorkersOK' BY <1>4, <2>1, GotoWorkerType DEF WorkerSaveFinalizing, WorkerPCs, id, x
  <2>4. QED BY <1>4, <2>2, <2>3, SameType DEF WorkerSaveFinalizing
<1>5. CASE WorkerFinalize(w)
  <2>1. id \in Jobs /\ x \in JobType BY <1>5, <1>0 DEF WorkerFinalize
  <2>2. Fail(x) \in JobType /\ Finalized(x) \in JobType BY <2>1, FailType, FinalizedType
  <2>3. CASE \E ok \in BOOLEAN :
               /\ FinalizeSigning(id, ok)
               /\ GotoWorker(w, "saveResult", id, IF ok THEN Finalized(x) ELSE Fail(x))
    <3>1. PICK ok \in BOOLEAN :
            /\ FinalizeSigning(id, ok)
            /\ GotoWorker(w, "saveResult", id, IF ok THEN Finalized(x) ELSE Fail(x))
      BY <2>3
    <3>2. UpstreamTypeOK' BY <1>5, <2>1, <3>1, FinalizeSigningType DEF WorkerFinalize, UpstreamTypeOK
    <3>3. WorkersOK' BY <2>1, <2>2, <3>1, GotoWorkerType DEF WorkerPCs
    <3>4. QED BY <1>5, <3>2, <3>3, SameType DEF WorkerFinalize
  <2>4. CASE GotoWorker(w, "saveResult", id, Fail(x)) /\ UNCHANGED signapi
    <3>1. UpstreamTypeOK' BY <1>5, <2>4 DEF WorkerFinalize, UpstreamTypeOK
    <3>2. WorkersOK' BY <2>1, <2>2, <2>4, GotoWorkerType DEF WorkerPCs
    <3>3. QED BY <1>5, <3>1, <3>2, SameType DEF WorkerFinalize
  <2>5. QED BY <1>5, <2>3, <2>4 DEF WorkerFinalize, id, x
<1>6. CASE WorkerSaveResult(w)
  <2>1. id \in Jobs /\ x \in JobType BY <1>6, <1>0 DEF WorkerSaveResult
  <2>2. StoreTypeOK' BY <1>6, <2>1, SaveType DEF WorkerSaveResult, id, x
  <2>3. UpstreamTypeOK'
    BY <1>6, <2>1, CloseLaterType DEF WorkerSaveResult, UpstreamTypeOK, id
  <2>4. QED BY <1>6, <2>2, <2>3, ReleaseType, SameType DEF WorkerSaveResult
<1>7. QED BY <1>1, <1>2, <1>3, <1>4, <1>5, <1>6 DEF WorkerStep

\* What the person, the caller and failures do keeps the types.
LEMMA EnvironmentType == ASSUME TypeInv, Environment PROVE TypeInv'
<1> USE DEF TypeInv
<1>1. CASE Prepare BY <1>1, PrepareType
<1>2. ASSUME NEW r \in Requests, NEW s \in OAuthStates, NEW declined \in BOOLEAN,
             CallbackArrives(r, s, declined)
      PROVE  TypeInv'
  <2> DEFINE q == [pc |-> "cbLoad", id |-> index[s], s |-> s, declined |-> declined, job |-> NoJob]
  <2>1. index[s] \in Jobs BY <1>2 DEF CallbackArrives, StoreTypeOK
  <2>2. s \in 0..MaxStates BY BoundsAssumption DEF OAuthStates
  <2>3. q \in RequestType BY <2>1, <2>2 DEF RequestType, RequestPCs
  <2>4. /\ q.pc # "idle" => q.id \in Jobs
        /\ q.pc \in HoldingPCs => q.job \in JobType
        /\ q.pc \in {"cbLoad", "cbClear", "cbAdvance"} => q.s \in OAuthStates
    BY <2>1 DEF HoldingPCs
  <2>5. req' = [req EXCEPT ![r] = q] BY <1>2 DEF CallbackArrives
  <2> HIDE DEF q
  <2>6. RequestsOK' BY <2>3, <2>4, <2>5 DEF RequestsOK
  <2>7. QED BY <1>2, <2>6, SameType DEF CallbackArrives
<1>3. ASSUME NEW r \in Requests, NEW id \in Jobs, SubmitSignatures(r, id) PROVE TypeInv'
  <2> DEFINE y == [store[id] EXCEPT !.sig = TRUE]
  <2>1. store[id] \in JobType BY <1>3 DEF SubmitSignatures, Called, Exists, StoreTypeOK
  <2>2. y \in JobType BY <2>1 DEF JobType
  <2>3. Goto(r, "submitSave", id, Transition(y, "FINALIZING")) BY <1>3 DEF SubmitSignatures
  <2> HIDE DEF y
  <2>4. RequestsOK' BY <2>2, <2>3, TransitionType, GotoType DEF RequestPCs, JobStates
  <2>5. QED BY <1>3, <2>4, AcceptedType, SameType DEF SubmitSignatures
<1>4. ASSUME NEW r \in Requests, NEW id \in Jobs, Status(r, id) PROVE TypeInv'
  <2>1. store[id] \in JobType BY <1>4 DEF Status, Called, Exists, StoreTypeOK
  <2>2. RequestsOK' BY <1>4, <2>1, GotoType DEF Status, RequestPCs
  <2>3. QED BY <1>4, <2>2, SameType DEF Status
<1>5. ASSUME NEW r \in Requests, NEW id \in Jobs, DeleteJob(r, id) PROVE TypeInv'
  <2>1. store[id] \in JobType BY <1>5 DEF DeleteJob, Called, Exists, StoreTypeOK
  <2>2. RequestsOK' BY <1>5, <2>1, GotoType DEF DeleteJob, RequestPCs
  <2>3. QED BY <1>5, <2>2, SameType DEF DeleteJob
<1>6. ASSUME NEW s \in OAuthStates, PersonConfirms(s) PROVE TypeInv'
  <2>1. UpstreamTypeOK' BY <1>6 DEF PersonConfirms, Approve, UpstreamTypeOK, AuthzType
  <2>2. QED BY <1>6, <2>1, SameType DEF PersonConfirms
<1>7. ASSUME NEW id \in Jobs, JobExpires(id) PROVE TypeInv'
  <2>1. StoreTypeOK' BY <1>7, BoundsAssumption DEF JobExpires, Expire, Fault, StoreTypeOK
  <2>2. QED BY <1>7, <2>1, SameType DEF JobExpires
<1>8. ASSUME NEW r \in Requests, RequestDies(r) PROVE TypeInv'
  BY <1>8, FaultType, RespondType, SameType DEF RequestDies
<1>9. ASSUME NEW w \in Workers, WorkerDies(w) PROVE TypeInv'
  BY <1>9, FaultType, ReleaseType, SameType DEF WorkerDies
<1>10. QED BY <1>1, <1>2, <1>3, <1>4, <1>5, <1>6, <1>7, <1>8, <1>9 DEF Environment

\* The end of a background close keeps the types.
LEMMA CloseStepType == ASSUME TypeInv, NEW id \in Jobs, CloseStep(id) PROVE TypeInv'
<1> USE DEF TypeInv
<1>1. UpstreamTypeOK'
  BY DEF CloseStep, CloseSession, UpstreamTypeOK, SignAPIType, Sessions
<1>2. QED BY <1>1, SameType DEF CloseStep

\* Every step keeps the types.
LEMMA TypeStep == TypeInv /\ [Next]_vars => TypeInv'
<1> SUFFICES ASSUME TypeInv, [Next]_vars PROVE TypeInv' OBVIOUS
<1>1. CASE UNCHANGED vars BY <1>1, SameType DEF vars, TypeInv
<1>2. CASE Next BY <1>2, EnvironmentType, RequestStepType, WorkerStepType, CloseStepType DEF Next
<1>3. QED BY <1>1, <1>2

\* Type correctness: whatever the interleaving of requests, workers, crashes and Redis
\* errors, every key, job copy, session and authorization has its declared type.
THEOREM TypeCorrect == Spec => []TypeOK
<1>1. Spec => []TypeInv BY TypeInit, TypeStep, PTL DEF Spec
<1>2. QED BY <1>1, TypeInvImpliesTypeOK, PTL
=============================================================================
