---------------------------- MODULE SafetyProofs ----------------------------
(***************************************************************************)
(* The safety properties of SignerProperties that need no discipline of    *)
(* the caller, for every value of the constants.                           *)
(*                                                                         *)
(* The handlers share nothing but Redis and the upstream services, and a   *)
(* save writes a whole copy.  So the invariant is a statement about every  *)
(* copy of a job, in Redis or in a handler's memory: what it says of the   *)
(* copy alone (Consistent) and what the outside world must have done for   *)
(* the copy to say what it says (Backed).  The world only grows, so a copy *)
(* that was backed when it was made stays backed, however old it is when   *)
(* it is saved: that is why no interleaving can break the properties.      *)
(***************************************************************************)
EXTENDS SignerProofs

\* What a copy of a job says by itself.
Consistent(x) ==
    /\ x.state = "READY" => x.doc = "READY"
    /\ ~Terminal(x.state) => x.doc = "PENDING"
    /\ x.doc = "READY" => ~x.sig
    /\ x.state \in {"SIGNING", "FINALIZING", "AWAITING_CLIENT_SIGNATURE"} => x.leg = "none"
    /\ IsCSC(x.flow) /\ x.state = "SIGNING" => x.token = x.digest /\ x.digest > 0
    /\ x.leg \in {"profile", "credential"} /\ x.state # "FAILED" => x.summary = 0

\* A remote job past its first leg can be timestamped; a CSC job from the start.
Stampable(x) ==
    /\ ~IsClientSide(x.flow)
    /\ \/ x.leg = "sign"
       \/ x.leg # "none" /\ IsCSC(x.flow)
       \/ x.state \in {"SIGNING", "FINALIZING"}
    => authCertFor(x.flow, x.cert)

\* The person confirmed digests d for job id, in authorizations az.
Confirmed(id, d, az) ==
    \E s \in OAuthStates :
        az[s].job = id /\ az[s].leg = "sign" /\ az[s].digest = d /\ az[s].approvals > 0

\* What the sessions sa, the accepted authorizations sn and the authorizations az must
\* hold for a copy x of job id.
Backed(x, id, sa, sn, az) ==
    /\ x.doc = "READY" => sa[id].finalized
    /\ x.state \in {"SIGNING", "FINALIZING", "READY"} => sn[id].accepted > 0
    /\ ~IsClientSide(x.flow) /\ x.token > 0 => Confirmed(id, x.token, az)
    /\ ~IsClientSide(x.flow) /\ x.state = "FINALIZING" => Confirmed(id, x.digest, az)
    /\ x.oauth \in OAuthStates => az[x.oauth].job = id
    /\ x.leg = "sign" /\ x.state # "FAILED" =>
         x.oauth \in OAuthStates /\ az[x.oauth].digest = x.digest

Sound(x, id, sa, sn, az) == Consistent(x) /\ Stampable(x) /\ Backed(x, id, sa, sn, az)

StoreSound ==
    \A id \in Jobs : store[id] # NoJob => Sound(store[id], id, signapi, seen, authz)

RequestsSound ==
    \A r \in Requests :
        /\ req[r].pc \in HoldingPCs => Sound(req[r].job, req[r].id, signapi, seen, authz)
        /\ req[r].pc \notin HoldingPCs => req[r].job = NoJob
        /\ req[r].pc \in {"cbLoad", "cbClear", "cbAdvance"} => authz[req[r].s].job = req[r].id

WorkersSound ==
    \A w \in Workers :
        /\ wrk[w].pc # "idle" => Sound(wrk[w].job, wrk[w].id, signapi, seen, authz)
        /\ wrk[w].pc = "idle" => wrk[w].job = NoJob
        /\ wrk[w].pc \in {"deviceSave", "sign"} => wrk[w].job.state = "SIGNING"
        /\ wrk[w].pc \in {"saveFinalizing", "finalize"} => wrk[w].job.state = "FINALIZING"

\* Codes come from confirmations, only signature authorizations are bound to digests,
\* and a state that was not minted belongs to no job.
AuthzSound ==
    \A s \in OAuthStates :
        /\ authz[s].codes <= authz[s].approvals
        /\ authz[s].digest > 0 => authz[s].leg = "sign"
        /\ s > minted => authz[s].job = NoJob

Safe ==
    StoreSound /\ RequestsSound /\ WorkersSound /\ AuthzSound /\ IndexOwner /\ EvidenceIsTrue

----------------------------------------------------------------------------
(* The world only grows.                                                   *)

SessionsGrow == \A id \in Jobs : signapi[id].finalized => signapi'[id].finalized

SeenGrows == \A id \in Jobs : seen[id].accepted > 0 => seen'[id].accepted > 0

AuthzGrows ==
    \A s \in OAuthStates : authz[s].job # NoJob =>
        /\ authz'[s].job = authz[s].job
        /\ authz'[s].leg = authz[s].leg
        /\ authz'[s].digest = authz[s].digest
        /\ authz[s].approvals > 0 => authz'[s].approvals > 0

Grows == SessionsGrow /\ SeenGrows /\ AuthzGrows

\* A confirmation the person gave stays given.
LEMMA ConfirmedGrows ==
    ASSUME AuthzGrows, NEW id \in Jobs, NEW d, Confirmed(id, d, authz)
    PROVE  Confirmed(id, d, authz')
BY JobsAssumption DEF AuthzGrows, Confirmed

\* A copy that was sound stays sound however much the world grows meanwhile.
LEMMA SoundGrows ==
    ASSUME Grows, NEW id \in Jobs, NEW x, Sound(x, id, signapi, seen, authz)
    PROVE  Sound(x, id, signapi', seen', authz')
<1>1. /\ x.doc = "READY" => signapi'[id].finalized
      /\ x.state \in {"SIGNING", "FINALIZING", "READY"} => seen'[id].accepted > 0
  BY DEF Grows, SessionsGrow, SeenGrows, Sound, Backed
<1>2. /\ x.oauth \in OAuthStates => authz'[x.oauth].job = id
      /\ x.leg = "sign" /\ x.state # "FAILED" =>
           x.oauth \in OAuthStates /\ authz'[x.oauth].digest = x.digest
  BY JobsAssumption DEF Grows, AuthzGrows, Sound, Backed
<1>3. /\ ~IsClientSide(x.flow) /\ x.token > 0 => Confirmed(id, x.token, authz')
      /\ ~IsClientSide(x.flow) /\ x.state = "FINALIZING" => Confirmed(id, x.digest, authz')
  BY ConfirmedGrows DEF Grows, Sound, Backed
<1>4. QED BY <1>1, <1>2, <1>3 DEF Sound, Backed

----------------------------------------------------------------------------
(* What handlers do to their copy keeps it sound, in a given world.        *)

\* A failed copy claims nothing the copy did not claim before.
LEMMA FailSound ==
    ASSUME NEW x \in JobType, NEW id, NEW sa, NEW sn, NEW az, Sound(x, id, sa, sn, az)
    PROVE  Sound(Fail(x), id, sa, sn, az)
<1> DEFINE y == Fail(x)
<1>1. /\ y.state = "FAILED" /\ (y.doc = "READY" => x.doc = "READY")
      /\ y.flow = x.flow /\ y.leg = x.leg /\ y.oauth = x.oauth /\ y.digest = x.digest
      /\ y.summary = x.summary /\ y.cert = x.cert /\ y.token = x.token /\ y.sig = x.sig
  BY DEF Fail, JobType
<1> HIDE DEF y
<1>2. Consistent(y) BY <1>1 DEF Sound, Consistent, Terminal
<1>3. Stampable(y) BY <1>1 DEF Sound, Stampable
<1>4. Backed(y, id, sa, sn, az) BY <1>1 DEF Sound, Backed
<1>5. QED BY <1>2, <1>3, <1>4 DEF Sound, y

\* Exchanging a code changes nothing the invariant speaks of.
LEMMA CodeExchangedSound ==
    ASSUME NEW x \in JobType, NEW id, NEW sa, NEW sn, NEW az, Sound(x, id, sa, sn, az)
    PROVE  Sound(CodeExchanged(x), id, sa, sn, az)
<1> DEFINE y == CodeExchanged(x)
<1>1. /\ y.state = x.state /\ y.doc = x.doc
      /\ y.flow = x.flow /\ y.leg = x.leg /\ y.oauth = x.oauth /\ y.digest = x.digest
      /\ y.summary = x.summary /\ y.cert = x.cert /\ y.token = x.token /\ y.sig = x.sig
  BY DEF CodeExchanged, JobType
<1> HIDE DEF y
<1>2. Consistent(y) BY <1>1 DEF Sound, Consistent
<1>3. Stampable(y) BY <1>1 DEF Sound, Stampable
<1>4. Backed(y, id, sa, sn, az) BY <1>1 DEF Sound, Backed
<1>5. QED BY <1>2, <1>3, <1>4 DEF Sound, y

\* The exchange does not change what is asked for.
LEMMA AskedExchanged ==
    ASSUME NEW x \in JobType, NEW d PROVE Asked(x, d) = Asked(CodeExchanged(x), d)
BY DEF Asked, Summary, CodeExchanged, JobType

\* Completing the first leg: the copy waits for authorization s of its own job, and has
\* a timestamp certificate by now.
LEMMA FirstLegCompletedSound ==
    ASSUME NEW x \in JobType, NEW id, NEW sa, NEW sn, NEW az, Sound(x, id, sa, sn, az),
           x.leg = FirstLeg(x.flow), NEW s \in OAuthStates, NEW d \in Nat,
           az[s].job = id, az[s].digest = Asked(x, d)
    PROVE  Sound(FirstLegCompleted(x, s, d), id, sa, sn, az)
<1> DEFINE y == FirstLegCompleted(x, s, d)
<1>1. /\ y.state = x.state /\ y.doc = x.doc /\ y.flow = x.flow /\ y.leg = "sign"
      /\ y.oauth = s /\ y.digest = d /\ y.token = x.token /\ y.sig = x.sig
  BY DEF FirstLegCompleted, AwaitCallback, DigestsCalculated, JobType
<1>2. y.cert = IF IsCSC(x.flow) THEN x.cert ELSE TRUE
  BY DEF FirstLegCompleted, AwaitCallback, DigestsCalculated, JobType
<1> HIDE DEF y
<1>3. x.leg # "none" /\ x.leg \in {"profile", "credential"} BY DEF FirstLeg
<1>4. x.state \notin {"SIGNING", "FINALIZING", "AWAITING_CLIENT_SIGNATURE"}
  BY <1>3 DEF Sound, Consistent
<1>5. Consistent(y) BY <1>1, <1>4 DEF Sound, Consistent
<1>6. Stampable(y)
  <2>1. CASE IsCSC(x.flow) BY <2>1, <1>1, <1>2, <1>3 DEF Sound, Stampable
  <2>2. CASE ~IsCSC(x.flow) BY <2>2, <1>1, <1>2 DEF Stampable, authCertFor
  <2>3. QED BY <2>1, <2>2
<1>7. x.state # "FAILED" => az[s].digest = d BY <1>3 DEF Sound, Consistent, Asked, Summary
<1>8. Backed(y, id, sa, sn, az) BY <1>1, <1>4, <1>7 DEF Sound, Backed
<1>9. QED BY <1>5, <1>6, <1>8 DEF Sound, y

\* A failed copy may hold digests no authorization was asked for.
LEMMA DigestsCalculatedSound ==
    ASSUME NEW x \in JobType, NEW id, NEW sa, NEW sn, NEW az, Sound(x, id, sa, sn, az),
           NEW d \in Nat
    PROVE  Sound(Fail(DigestsCalculated(x, d)), id, sa, sn, az)
<1> DEFINE z == DigestsCalculated(x, d)
           y == Fail(z)
<1>0. /\ z \in JobType /\ z.doc = x.doc /\ z.flow = x.flow /\ z.leg = x.leg /\ z.oauth = x.oauth
      /\ z.token = x.token /\ z.sig = x.sig
      /\ z.cert = IF IsCSC(x.flow) THEN x.cert ELSE TRUE
  BY DigestsCalculatedType DEF DigestsCalculated, JobType
<1> HIDE DEF z
<1>1. /\ y.state = "FAILED" /\ (y.doc = "READY" => z.doc = "READY")
      /\ y.flow = z.flow /\ y.leg = z.leg /\ y.oauth = z.oauth
      /\ y.cert = z.cert /\ y.token = z.token /\ y.sig = z.sig
  BY <1>0 DEF Fail, JobType
<1> HIDE DEF y
<1>2. Consistent(y) BY <1>0, <1>1 DEF Sound, Consistent, Terminal
<1>3. Stampable(y)
  <2>1. CASE IsCSC(x.flow) BY <2>1, <1>0, <1>1 DEF Sound, Stampable
  <2>2. CASE ~IsCSC(x.flow) BY <2>2, <1>0, <1>1 DEF Stampable, authCertFor
  <2>3. QED BY <2>1, <2>2
<1>4. Backed(y, id, sa, sn, az) BY <1>0, <1>1 DEF Sound, Backed
<1>5. QED BY <1>2, <1>3, <1>4 DEF Sound, y, z

\* Completing the signature authorization with a token bound to b: the person confirmed b.
LEMMA SignLegCompletedSound ==
    ASSUME NEW x \in JobType, NEW id, NEW sa, NEW sn, NEW az, Sound(x, id, sa, sn, az),
           x.leg = "sign", NEW b \in Nat, Bound(x, b), b > 0 => Confirmed(id, b, az),
           sn[id].accepted > 0
    PROVE  Sound(SignLegCompleted(x, b), id, sa, sn, az)
<1> DEFINE z == [x EXCEPT !.token = b, !.leg = "none"]
           y == SignLegCompleted(x, b)
<1>0. /\ z \in JobType /\ z.state = x.state /\ z.doc = x.doc /\ z.flow = x.flow /\ z.leg = "none"
      /\ z.oauth = x.oauth /\ z.token = b /\ z.sig = x.sig /\ z.digest = x.digest
      /\ z.cert = x.cert
  BY DEF JobType, Legs
<1>1. y = Transition(z, "SIGNING") BY DEF SignLegCompleted
<1> HIDE DEF z, y
<1>2. /\ y.doc = x.doc /\ y.flow = x.flow /\ y.leg = "none" /\ y.oauth = x.oauth
      /\ y.token = b /\ y.sig = x.sig /\ y.digest = x.digest /\ y.cert = x.cert
  BY <1>0, <1>1 DEF Transition, JobType
<1>3. x.state \notin {"SIGNING", "FINALIZING", "AWAITING_CLIENT_SIGNATURE"}
  BY DEF Sound, Consistent
<1>4. y.state = x.state \/ (y.state = "SIGNING" /\ x.state = "AWAITING_AUTHORIZATION")
  <2>1. x.state \in JobStates BY DEF JobType
  <2>2. QED BY <2>1, <1>0, <1>1, <1>3 DEF Transition, CanTransition, transitions, JobStates, JobType
<1>5. Consistent(y) BY <1>2, <1>3, <1>4 DEF Sound, Consistent, Terminal, Bound
<1>6. Stampable(y) BY <1>2, <1>3, <1>4 DEF Sound, Stampable
<1>7. Backed(y, id, sa, sn, az) BY <1>2, <1>3, <1>4 DEF Sound, Backed
<1>8. QED BY <1>5, <1>6, <1>7 DEF Sound, y

\* Signing a copy that is SIGNING: what is signed is what its token was confirmed for.
LEMMA SignedSound ==
    ASSUME NEW x \in JobType, NEW id, NEW sa, NEW sn, NEW az, Sound(x, id, sa, sn, az),
           x.state = "SIGNING", SignerAccepts(x)
    PROVE  Sound(Signed(x), id, sa, sn, az) /\ Signed(x).state = "FINALIZING"
<1> DEFINE z == [x EXCEPT !.sig = TRUE, !.token = IF IsCSC(x.flow) THEN NoToken ELSE @]
           y == Signed(x)
<1>0. /\ z \in JobType /\ z.state = x.state /\ z.doc = x.doc /\ z.flow = x.flow
      /\ z.leg = x.leg /\ z.oauth = x.oauth /\ z.digest = x.digest /\ z.cert = x.cert
      /\ z.token \in {x.token, NoToken}
  BY DEF JobType, NoToken
<1>1. y = Transition(z, "FINALIZING") BY DEF Signed
<1> HIDE DEF z, y
<1>2. /\ y.state = "FINALIZING" /\ y.doc = x.doc /\ y.flow = x.flow /\ y.leg = x.leg
      /\ y.oauth = x.oauth /\ y.digest = x.digest /\ y.cert = x.cert
      /\ y.token \in {x.token, NoToken}
  BY <1>0, <1>1 DEF Transition, CanTransition, transitions, JobType
<1>3. x.doc = "PENDING" /\ x.leg = "none" BY DEF Sound, Consistent, Terminal
<1>4. ~IsClientSide(x.flow) => Confirmed(id, x.digest, az)
  BY DEF Sound, Consistent, Backed, SignerAccepts
<1>5. Consistent(y) BY <1>2, <1>3 DEF Consistent, Terminal
<1>6. Stampable(y) BY <1>2, <1>3 DEF Sound, Stampable
<1>7. Backed(y, id, sa, sn, az) BY <1>2, <1>3, <1>4 DEF Sound, Backed, NoToken
<1>8. QED BY <1>2, <1>5, <1>6, <1>7 DEF Sound, y

\* Finalizing a copy that is FINALIZING, once SignAPI has finalized.
LEMMA FinalizedSound ==
    ASSUME NEW x \in JobType, NEW id, NEW sa, NEW sn, NEW az, Sound(x, id, sa, sn, az),
           x.state = "FINALIZING", sa[id].finalized
    PROVE  Sound(Finalized(x), id, sa, sn, az)
<1> DEFINE z == [x EXCEPT !.doc = "READY", !.sig = FALSE]
           y == Finalized(x)
<1>0. /\ z \in JobType /\ z.state = x.state /\ z.doc = "READY" /\ z.flow = x.flow
      /\ z.leg = x.leg /\ z.oauth = x.oauth /\ z.digest = x.digest /\ z.cert = x.cert
      /\ z.token = x.token /\ z.sig = FALSE
  BY DEF JobType, DocStates
<1>1. y = Transition(z, "READY") BY DEF Finalized
<1> HIDE DEF z, y
<1>2. /\ y.state = "READY" /\ y.doc = "READY" /\ y.flow = x.flow /\ y.leg = x.leg
      /\ y.oauth = x.oauth /\ y.token = x.token /\ y.sig = FALSE
  BY <1>0, <1>1 DEF Transition, CanTransition, transitions, JobType
<1>3. x.leg = "none" BY DEF Sound, Consistent
<1>5. Consistent(y) BY <1>2, <1>3 DEF Consistent, Terminal
<1>6. Stampable(y) BY <1>2, <1>3 DEF Stampable
<1>7. Backed(y, id, sa, sn, az) BY <1>2, <1>3 DEF Sound, Backed
<1>8. QED BY <1>5, <1>6, <1>7 DEF Sound, y

\* Setting only the audit mark of a copy.
LEMMA AuditedSound ==
    ASSUME NEW x \in JobType, NEW id, NEW sa, NEW sn, NEW az, Sound(x, id, sa, sn, az)
    PROVE  Sound([x EXCEPT !.audited = TRUE], id, sa, sn, az)
<1> DEFINE y == [x EXCEPT !.audited = TRUE]
<1>1. /\ y.state = x.state /\ y.doc = x.doc
      /\ y.flow = x.flow /\ y.leg = x.leg /\ y.oauth = x.oauth /\ y.digest = x.digest
      /\ y.summary = x.summary /\ y.cert = x.cert /\ y.token = x.token /\ y.sig = x.sig
  BY DEF JobType
<1> HIDE DEF y
<1>2. Consistent(y) BY <1>1 DEF Sound, Consistent
<1>3. Stampable(y) BY <1>1 DEF Sound, Stampable
<1>4. Backed(y, id, sa, sn, az) BY <1>1 DEF Sound, Backed
<1>5. QED BY <1>2, <1>3, <1>4 DEF Sound, y

\* Submitting the signatures of a card job that waits for them.
LEMMA SubmittedSound ==
    ASSUME NEW x \in JobType, NEW id, NEW sa, NEW sn, NEW az, Sound(x, id, sa, sn, az),
           IsClientSide(x.flow), x.state = "AWAITING_CLIENT_SIGNATURE", sn[id].accepted > 0
    PROVE  Sound(Transition([x EXCEPT !.sig = TRUE], "FINALIZING"), id, sa, sn, az)
<1> DEFINE z == [x EXCEPT !.sig = TRUE]
           y == Transition(z, "FINALIZING")
<1>0. /\ z \in JobType /\ z.state = x.state /\ z.doc = x.doc /\ z.flow = x.flow
      /\ z.leg = x.leg /\ z.oauth = x.oauth
  BY DEF JobType
<1> HIDE DEF z
<1>2. /\ y.state = "FINALIZING" /\ y.doc = x.doc /\ y.flow = x.flow /\ y.leg = x.leg
      /\ y.oauth = x.oauth
  BY <1>0 DEF Transition, CanTransition, transitions, JobType
<1> HIDE DEF y
<1>3. x.doc = "PENDING" /\ x.leg = "none" BY DEF Sound, Consistent, Terminal
<1>5. Consistent(y) BY <1>2, <1>3 DEF Consistent, Terminal
<1>6. Stampable(y) BY <1>2 DEF Stampable
<1>7. Backed(y, id, sa, sn, az) BY <1>2, <1>3 DEF Sound, Backed
<1>8. QED BY <1>5, <1>6, <1>7 DEF Sound, y, z

\* A job without leg, token and OAuth state that is not being signed claims nothing.
LEMMA FreshSound ==
    ASSUME NEW x \in JobType, NEW id, NEW sa, NEW sn, NEW az,
           x.doc # "READY", x.token = NoToken,
           x.state \in {"PREPARING", "AWAITING_AUTHORIZATION", "AWAITING_CLIENT_SIGNATURE", "FAILED"},
           x.state # "FAILED" => x.doc = "PENDING",
           x.state = "AWAITING_CLIENT_SIGNATURE" => x.leg = "none",
           x.leg = "sign" \/ (x.leg # "none" /\ IsCSC(x.flow)) => authCertFor(x.flow, x.cert),
           x.oauth \in OAuthStates => az[x.oauth].job = id,
           x.leg \in {"profile", "credential"} => x.summary = 0,
           x.leg = "sign" => x.oauth \in OAuthStates /\ az[x.oauth].digest = x.digest
    PROVE  Sound(x, id, sa, sn, az)
<1>1. Consistent(x) BY DEF Consistent, Terminal
<1>2. Stampable(x) BY DEF Stampable
<1>3. Backed(x, id, sa, sn, az) BY DEF Backed, NoToken
<1>4. QED BY <1>1, <1>2, <1>3 DEF Sound

----------------------------------------------------------------------------
(* Every effect on the world makes it grow.                                *)

\* No effect on the sessions takes a finalization back.
LEMMA SessionsStep ==
    ASSUME UpstreamTypeOK, NEW id \in Jobs,
           \/ UNCHANGED signapi
           \/ \E d : Uploaded(id, d)
           \/ \E e : signapi' = [signapi EXCEPT ![id].sess = e]
           \/ CalculateDigest(id)
           \/ CloseLater(id)
           \/ \E ok \in BOOLEAN : FinalizeSigning(id, ok)
    PROVE  SessionsGrow
<1> SUFFICES ASSUME NEW i \in Jobs, signapi[i].finalized PROVE signapi'[i].finalized
  BY DEF SessionsGrow
<1>0. signapi[i] \in SignAPIType /\ signapi[id] \in SignAPIType BY DEF UpstreamTypeOK
<1>1. CASE UNCHANGED signapi BY <1>1
<1>2. ASSUME NEW d, Uploaded(id, d) PROVE signapi'[i].finalized
  BY <1>0, <1>2 DEF Uploaded, SignAPIType, UpstreamTypeOK
<1>3. ASSUME NEW e, signapi' = [signapi EXCEPT ![id].sess = e] PROVE signapi'[i].finalized
  BY <1>0, <1>3 DEF SignAPIType, UpstreamTypeOK
<1>4. CASE CalculateDigest(id) BY <1>0, <1>4 DEF CalculateDigest, SignAPIType, UpstreamTypeOK
<1>5. CASE CloseLater(id) BY <1>0, <1>5 DEF CloseLater, SignAPIType, UpstreamTypeOK
<1>6. ASSUME NEW ok \in BOOLEAN, FinalizeSigning(id, ok) PROVE signapi'[i].finalized
  <2>1. PICK a \in BOOLEAN :
          signapi' = [signapi EXCEPT ![id].calls = @ + 1,
                                     ![id].finalized = IF a THEN TRUE ELSE @]
    BY <1>6 DEF FinalizeSigning
  <2>2. CASE i = id
    <3>1. CASE a BY <2>1, <2>2, <3>1, <1>0 DEF SignAPIType, UpstreamTypeOK
    <3>2. CASE ~a BY <2>1, <2>2, <3>2, <1>0 DEF SignAPIType, UpstreamTypeOK
    <3>3. QED BY <3>1, <3>2
  <2>3. CASE i # id BY <2>1, <2>3 DEF UpstreamTypeOK
  <2>4. QED BY <2>2, <2>3
<1>7. QED BY <1>1, <1>2, <1>3, <1>4, <1>5, <1>6

\* A successful finalize call finalizes.
LEMMA FinalizeFinalizes ==
    ASSUME UpstreamTypeOK, NEW id \in Jobs, FinalizeSigning(id, TRUE)
    PROVE  signapi'[id].finalized
<1>1. signapi' = [signapi EXCEPT ![id].calls = @ + 1, ![id].finalized = TRUE]
  BY DEF FinalizeSigning
<1>2. QED BY <1>1 DEF UpstreamTypeOK, SignAPIType

\* Nothing takes an acceptance back, and only StatusEmit counts signing evidence.
LEMMA SeenStep ==
    ASSUME SeenOK, NEW id \in Jobs,
           \/ UNCHANGED seen
           \/ \E ok \in BOOLEAN : seen' = [seen EXCEPT ![id].known = ok]
           \/ seen' = [seen EXCEPT ![id].accepted = @ + 1]
           \/ seen' = [seen EXCEPT ![id].failed = AtMost2(@ + 1)]
           \/ seen' = [seen EXCEPT ![id].deleted = TRUE]
    PROVE  SeenGrows /\ \A i \in Jobs : seen'[i].applied = seen[i].applied
<1> SUFFICES ASSUME NEW i \in Jobs
             PROVE  /\ seen[i].accepted > 0 => seen'[i].accepted > 0
                    /\ seen'[i].applied = seen[i].applied
  BY DEF SeenGrows
<1>0. seen[i] \in SeenType /\ seen[id] \in SeenType BY DEF SeenOK
<1>1. CASE UNCHANGED seen BY <1>1
<1>2. ASSUME NEW ok \in BOOLEAN, seen' = [seen EXCEPT ![id].known = ok]
      PROVE  seen'[i].accepted = seen[i].accepted /\ seen'[i].applied = seen[i].applied
  BY <1>2, <1>0 DEF SeenType, SeenOK
<1>3. CASE seen' = [seen EXCEPT ![id].accepted = @ + 1]
  <2>1. CASE i = id
    <3>1. seen'[id].accepted = seen[id].accepted + 1 /\ seen'[id].applied = seen[id].applied
      BY <1>3, <1>0 DEF SeenType, SeenOK
    <3>2. seen[id].accepted \in Nat BY <1>0 DEF SeenType
    <3>3. QED BY <2>1, <3>1, <3>2
  <2>2. CASE i # id BY <2>2, <1>3 DEF SeenOK
  <2>3. QED BY <2>1, <2>2
<1>4. CASE seen' = [seen EXCEPT ![id].failed = AtMost2(@ + 1)]
  BY <1>4, <1>0 DEF SeenType, SeenOK
<1>5. CASE seen' = [seen EXCEPT ![id].deleted = TRUE]
  BY <1>5, <1>0 DEF SeenType, SeenOK
<1>6. QED BY <1>1, <1>2, <1>3, <1>4, <1>5

\* The signing evidence stays true while the world grows.
LEMMA EvidenceKept ==
    ASSUME EvidenceIsTrue, SessionsGrow, SeenGrows,
           \A i \in Jobs : seen'[i].applied = seen[i].applied
    PROVE  EvidenceIsTrue'
BY DEF EvidenceIsTrue, SessionsGrow, SeenGrows

\* What happens to authorizations leaves every one of them what it was asked for.
LEMMA MintGrows ==
    ASSUME UpstreamTypeOK, AuthzSound, CanMint, NEW id \in Jobs, NEW l \in Legs, NEW d \in Nat,
           d > 0 => l = "sign", NEW b \in BOOLEAN, Mint(id, l, d, b)
    PROVE  /\ AuthzGrows /\ AuthzSound' /\ NewState \in OAuthStates
           /\ authz'[NewState].job = id /\ authz'[NewState].digest = d
<1>1. NewState \in OAuthStates /\ NewState > minted /\ minted' = NewState
  BY BoundsAssumption DEF UpstreamTypeOK, NewState, OAuthStates, CanMint, Mint
<1>2. authz' = [authz EXCEPT ![NewState] = Request(id, l, d, b)] BY DEF Mint
<1>3. authz[NewState].job = NoJob BY <1>1 DEF AuthzSound
<1>4. /\ authz'[NewState] = Request(id, l, d, b)
      /\ \A s \in OAuthStates : s # NewState => authz'[s] = authz[s]
  BY <1>1, <1>2 DEF UpstreamTypeOK
<1>5. AuthzGrows BY <1>3, <1>4 DEF AuthzGrows
<1>6. AuthzSound'
  <2> SUFFICES ASSUME NEW s \in OAuthStates
               PROVE  /\ authz'[s].codes <= authz'[s].approvals
                      /\ authz'[s].digest > 0 => authz'[s].leg = "sign"
                      /\ s > minted' => authz'[s].job = NoJob
    BY DEF AuthzSound
  <2>1. CASE s = NewState BY <2>1, <1>1, <1>4, BoundsAssumption DEF Request, OAuthStates
  <2>2. CASE s # NewState
    BY <2>2, <1>1, <1>4, BoundsAssumption DEF AuthzSound, NewState, UpstreamTypeOK, OAuthStates
  <2>3. QED BY <2>1, <2>2
<1>7. QED BY <1>1, <1>4, <1>5, <1>6 DEF Request

\* Exchanging a code, then minting the next authorization of the same job or not.
LEMMA SpendGrows ==
    ASSUME UpstreamTypeOK, AuthzSound, NEW s \in OAuthStates, NEW x, CanExchange(x, s),
           authz' = SpendCode(s), UNCHANGED minted
    PROVE  AuthzGrows /\ AuthzSound'
<1>1. authz[s] \in AuthzType /\ authz[s].codes > 0 BY DEF UpstreamTypeOK, CanExchange
<1>2. /\ authz'[s] = [authz[s] EXCEPT !.codes = @ - 1]
      /\ \A t \in OAuthStates : t # s => authz'[t] = authz[t]
  BY DEF UpstreamTypeOK, SpendCode
<1>3. /\ authz'[s].job = authz[s].job /\ authz'[s].leg = authz[s].leg
      /\ authz'[s].digest = authz[s].digest /\ authz'[s].approvals = authz[s].approvals
      /\ authz'[s].codes = authz[s].codes - 1
  BY <1>1, <1>2 DEF AuthzType
<1>4. AuthzGrows BY <1>2, <1>3 DEF AuthzGrows
<1>5. authz'[s].codes <= authz'[s].approvals BY <1>1, <1>3 DEF AuthzSound, AuthzType
<1>6. QED BY <1>2, <1>3, <1>4, <1>5 DEF AuthzSound

\* The exchange of a code and the mint of the next authorization, in one step.
LEMMA SpendMintGrows ==
    ASSUME UpstreamTypeOK, AuthzSound, NEW s \in OAuthStates, NEW x, CanExchange(x, s), CanMint,
           NEW id \in Jobs, NEW d \in Nat, minted' = NewState,
           authz' = [SpendCode(s) EXCEPT ![NewState] = Request(id, "sign", d, FALSE)]
    PROVE  /\ AuthzGrows /\ AuthzSound' /\ NewState \in OAuthStates
           /\ authz'[NewState].job = id /\ authz'[NewState].digest = d
<1>0. authz[s] \in AuthzType /\ authz[s].codes > 0 BY DEF UpstreamTypeOK, CanExchange
<1>1. NewState \in OAuthStates /\ NewState > minted
  BY BoundsAssumption DEF UpstreamTypeOK, NewState, OAuthStates, CanMint
<1>3. authz[NewState].job = NoJob BY <1>1 DEF AuthzSound
<1>4. /\ authz'[NewState] = Request(id, "sign", d, FALSE)
      /\ \A t \in OAuthStates : t # NewState => authz'[t] = SpendCode(s)[t]
  BY <1>1, <1>0, SpendCodeType
<1>5. /\ SpendCode(s)[s] = [authz[s] EXCEPT !.codes = @ - 1]
      /\ \A t \in OAuthStates : t # s => SpendCode(s)[t] = authz[t]
  BY DEF UpstreamTypeOK, SpendCode
<1>6. /\ SpendCode(s)[s].job = authz[s].job /\ SpendCode(s)[s].leg = authz[s].leg
      /\ SpendCode(s)[s].digest = authz[s].digest
      /\ SpendCode(s)[s].approvals = authz[s].approvals
      /\ SpendCode(s)[s].codes = authz[s].codes - 1
  BY <1>0, <1>5 DEF AuthzType
<1>7. AuthzGrows BY <1>3, <1>4, <1>5, <1>6 DEF AuthzGrows
<1>8. SpendCode(s)[s].codes <= SpendCode(s)[s].approvals BY <1>0, <1>6 DEF AuthzSound, AuthzType
<1>9. AuthzSound'
  <2> SUFFICES ASSUME NEW t \in OAuthStates
               PROVE  /\ authz'[t].codes <= authz'[t].approvals
                      /\ authz'[t].digest > 0 => authz'[t].leg = "sign"
                      /\ t > minted' => authz'[t].job = NoJob
    BY DEF AuthzSound
  <2>0. t > minted' => t > minted
    BY <1>1, BoundsAssumption DEF UpstreamTypeOK, OAuthStates, NewState
  <2>1. CASE t = NewState BY <2>1, <1>1, <1>4, BoundsAssumption DEF Request, OAuthStates
  <2>2. CASE t # NewState /\ t = s BY <2>2, <2>0, <1>4, <1>6, <1>8 DEF AuthzSound
  <2>3. CASE t # NewState /\ t # s BY <2>3, <2>0, <1>4, <1>5 DEF AuthzSound
  <2>4. QED BY <2>1, <2>2, <2>3
<1>10. QED BY <1>1, <1>4, <1>7, <1>9 DEF Request

\* A confirmation, and handing out an authorize URL.
LEMMA ApproveGrows ==
    ASSUME UpstreamTypeOK, AuthzSound, NEW s \in OAuthStates, Approve(s)
    PROVE  AuthzGrows /\ AuthzSound'
<1>1. authz[s] \in AuthzType BY DEF UpstreamTypeOK
<1>2. /\ authz'[s] = [authz[s] EXCEPT !.approvals = @ + 1, !.codes = @ + 1]
      /\ \A t \in OAuthStates : t # s => authz'[t] = authz[t]
      /\ UNCHANGED minted
  BY DEF UpstreamTypeOK, Approve
<1>3. /\ authz'[s].job = authz[s].job /\ authz'[s].leg = authz[s].leg
      /\ authz'[s].digest = authz[s].digest /\ authz'[s].approvals = authz[s].approvals + 1
      /\ authz'[s].codes = authz[s].codes + 1
  BY <1>1, <1>2 DEF AuthzType
<1>4. authz'[s].codes <= authz'[s].approvals /\ authz'[s].approvals > 0
  BY <1>1, <1>3 DEF AuthzSound, AuthzType
<1>5. AuthzGrows BY <1>2, <1>3, <1>4 DEF AuthzGrows
<1>6. QED BY <1>2, <1>3, <1>4, <1>5 DEF AuthzSound

\* Handing out the authorize URL of an authorization.
LEMMA ShownGrows ==
    ASSUME UpstreamTypeOK, AuthzSound, NEW s,
           authz' = authz \/ authz' = [authz EXCEPT ![s].shown = TRUE], UNCHANGED minted
    PROVE  AuthzGrows /\ AuthzSound'
<1>1. ASSUME NEW t \in OAuthStates
      PROVE /\ authz'[t].job = authz[t].job /\ authz'[t].leg = authz[t].leg
            /\ authz'[t].digest = authz[t].digest /\ authz'[t].approvals = authz[t].approvals
            /\ authz'[t].codes = authz[t].codes
  <2>1. authz[t] \in AuthzType BY DEF UpstreamTypeOK
  <2>2. CASE t = s /\ authz' # authz
    <3>1. authz'[t] = [authz[t] EXCEPT !.shown = TRUE] BY <2>2 DEF UpstreamTypeOK
    <3>2. QED BY <2>1, <3>1 DEF AuthzType
  <2>3. CASE ~(t = s /\ authz' # authz)
    <3>1. authz'[t] = authz[t] BY <2>3 DEF UpstreamTypeOK
    <3>2. QED BY <3>1
  <2>4. QED BY <2>2, <2>3
<1>2. AuthzGrows BY <1>1 DEF AuthzGrows
<1>3. QED BY <1>1, <1>2 DEF AuthzSound

----------------------------------------------------------------------------
(* What is left alone stays sound, and so does what receives a sound copy. *)

\* Store, requests, workers and index a step leaves alone.
LEMMA KeptSound ==
    ASSUME TypeInv, Safe, Grows
    PROVE  /\ UNCHANGED store => StoreSound'
           /\ UNCHANGED req => RequestsSound'
           /\ UNCHANGED wrk => WorkersSound'
           /\ UNCHANGED index => IndexOwner'
<1>1. ASSUME UNCHANGED store PROVE StoreSound'
  BY <1>1, SoundGrows DEF Safe, StoreSound
<1>2. ASSUME UNCHANGED req PROVE RequestsSound'
  <2> SUFFICES ASSUME NEW r \in Requests
               PROVE  /\ req[r].pc \in HoldingPCs => Sound(req[r].job, req[r].id, signapi', seen', authz')
                      /\ req[r].pc \notin HoldingPCs => req[r].job = NoJob
                      /\ req[r].pc \in {"cbLoad", "cbClear", "cbAdvance"} => authz'[req[r].s].job = req[r].id
    BY <1>2 DEF RequestsSound
  <2>1. req[r].pc # "idle" => req[r].id \in Jobs BY DEF TypeInv, RequestsOK
  <2>2. req[r].pc \in {"cbLoad", "cbClear", "cbAdvance"} =>
          req[r].s \in OAuthStates /\ authz[req[r].s].job = req[r].id
    BY DEF TypeInv, RequestsOK, Safe, RequestsSound
  <2>3. req[r].pc \in {"cbLoad", "cbClear", "cbAdvance"} => authz'[req[r].s].job = req[r].id
    BY <2>1, <2>2, JobsAssumption DEF Grows, AuthzGrows
  <2>4. QED BY <2>1, <2>3, SoundGrows DEF Safe, RequestsSound, HoldingPCs
<1>3. ASSUME UNCHANGED wrk PROVE WorkersSound'
  <2>1. \A w \in Workers : wrk[w].pc # "idle" => wrk[w].id \in Jobs BY DEF TypeInv, WorkersOK
  <2>2. QED BY <1>3, <2>1, SoundGrows DEF Safe, WorkersSound
<1>4. ASSUME UNCHANGED index PROVE IndexOwner'
  BY <1>4 DEF Safe, IndexOwner, Grows, AuthzGrows
<1>5. QED BY <1>1, <1>2, <1>3, <1>4

\* Saving a sound copy, completely, partly or not at all.
LEMMA SaveSound ==
    ASSUME TypeInv, Safe, Grows, NEW id \in Jobs, NEW x \in JobType,
           Sound(x, id, signapi', seen', authz'), Save(id, x)
    PROVE  StoreSound' /\ IndexOwner'
<1>1. store' = store \/ store' = [store EXCEPT ![id] = x]
  BY DEF Save, TrySave, SaveOK, SaveFails, SaveJob
<1>2. index' = index \/ (x.oauth # 0 /\ index' = [index EXCEPT ![x.oauth] = id])
  BY DEF Save, TrySave, SaveOK, SaveFails, SaveIndex
<1>3. StoreSound'
  <2>1. CASE store' = store BY <2>1, KeptSound
  <2>2. CASE store' = [store EXCEPT ![id] = x]
    <3>1. ASSUME NEW i \in Jobs, store'[i] # NoJob
          PROVE  Sound(store'[i], i, signapi', seen', authz')
      <4>1. CASE i = id BY <2>2, <4>1 DEF TypeInv, StoreTypeOK
      <4>2. CASE i # id
        <5>1. store'[i] = store[i] BY <2>2, <4>2 DEF TypeInv, StoreTypeOK
        <5>2. QED BY <3>1, <5>1, SoundGrows DEF Safe, StoreSound
      <4>3. QED BY <4>1, <4>2
    <3>2. QED BY <3>1 DEF StoreSound
  <2>3. QED BY <1>1, <2>1, <2>2
<1>4. IndexOwner'
  <2>1. CASE index' = index BY <2>1, KeptSound
  <2>2. CASE index' = [index EXCEPT ![x.oauth] = id]
    <3>1. ASSUME NEW s \in OAuthStates, index'[s] # NoJob PROVE index'[s] = authz'[s].job
      <4>1. CASE s = x.oauth BY <2>2, <4>1 DEF TypeInv, StoreTypeOK, Sound, Backed
      <4>2. CASE s # x.oauth
        <5>1. index'[s] = index[s] BY <2>2, <4>2 DEF TypeInv, StoreTypeOK
        <5>2. QED BY <3>1, <5>1 DEF Safe, IndexOwner, Grows, AuthzGrows
      <4>3. QED BY <4>1, <4>2
    <3>2. QED BY <3>1 DEF IndexOwner
  <2>3. QED BY <1>2, <2>1, <2>2
<1>5. QED BY <1>3, <1>4

\* One request changes: it is sound if its new state is.
LEMMA RequestChanged ==
    ASSUME TypeInv, Safe, Grows, NEW r \in Requests, NEW q, req' = [req EXCEPT ![r] = q],
           q.pc \in HoldingPCs => Sound(q.job, q.id, signapi', seen', authz'),
           q.pc \notin HoldingPCs => q.job = NoJob,
           q.pc \in {"cbLoad", "cbClear", "cbAdvance"} => authz'[q.s].job = q.id
    PROVE  RequestsSound'
<1> SUFFICES ASSUME NEW p \in Requests
             PROVE  /\ req'[p].pc \in HoldingPCs => Sound(req'[p].job, req'[p].id, signapi', seen', authz')
                    /\ req'[p].pc \notin HoldingPCs => req'[p].job = NoJob
                    /\ req'[p].pc \in {"cbLoad", "cbClear", "cbAdvance"} => authz'[req'[p].s].job = req'[p].id
  BY DEF RequestsSound
<1>1. CASE p = r
  <2>1. req'[p] = q BY <1>1 DEF TypeInv, RequestsOK
  <2>2. QED BY <2>1
<1>2. CASE p # r
  <2>0. req'[p] = req[p] BY <1>2 DEF TypeInv, RequestsOK
  <2>1. req[p].pc # "idle" => req[p].id \in Jobs BY DEF TypeInv, RequestsOK
  <2>2. req[p].pc \in {"cbLoad", "cbClear", "cbAdvance"} =>
          req[p].s \in OAuthStates /\ authz[req[p].s].job = req[p].id
    BY DEF TypeInv, RequestsOK, Safe, RequestsSound
  <2>3. req[p].pc \in {"cbLoad", "cbClear", "cbAdvance"} => authz'[req[p].s].job = req[p].id
    BY <2>1, <2>2, JobsAssumption DEF Grows, AuthzGrows
  <2>4. req[p].pc \in HoldingPCs => Sound(req[p].job, req[p].id, signapi', seen', authz')
    BY <2>1, SoundGrows DEF Safe, RequestsSound, HoldingPCs
  <2>5. req[p].pc \notin HoldingPCs => req[p].job = NoJob BY DEF Safe, RequestsSound
  <2>6. QED BY <2>0, <2>3, <2>4, <2>5
<1>3. QED BY <1>1, <1>2

\* A request goes on with a sound copy, or ends.
LEMMA GotoSound ==
    ASSUME TypeInv, Safe, Grows, NEW r \in Requests, NEW id, NEW x,
           NEW pc \in RequestPCs \ {"cbLoad", "cbClear", "cbAdvance"},
           pc \in HoldingPCs => Sound(x, id, signapi', seen', authz'),
           pc \notin HoldingPCs => x = NoJob,
           Goto(r, pc, id, x)
    PROVE  RequestsSound'
<1> DEFINE q == [pc |-> pc, id |-> id, s |-> 0, declined |-> FALSE, job |-> x]
<1>1. req' = [req EXCEPT ![r] = q] BY DEF Goto
<1>2. q.pc = pc /\ q.id = id /\ q.job = x OBVIOUS
<1> HIDE DEF q
<1>3. QED BY <1>1, <1>2, RequestChanged

\* A request that ends holds nothing.
LEMMA RespondSound ==
    ASSUME TypeInv, Safe, Grows, NEW r \in Requests, Respond(r) PROVE RequestsSound'
<1>1. req' = [req EXCEPT ![r] = IdleRequest] BY DEF Respond
<1>2. IdleRequest.pc = "idle" /\ IdleRequest.job = NoJob BY DEF IdleRequest
<1>3. QED BY <1>1, <1>2, RequestChanged DEF HoldingPCs

\* A worker goes on with a sound copy in the state its next step needs.
LEMMA GotoWorkerSound ==
    ASSUME TypeInv, Safe, Grows, NEW w \in Workers, NEW id, NEW x, NEW pc \in WorkerPCs \ {"idle"},
           Sound(x, id, signapi', seen', authz'),
           pc \in {"deviceSave", "sign"} => x.state = "SIGNING",
           pc \in {"saveFinalizing", "finalize"} => x.state = "FINALIZING",
           GotoWorker(w, pc, id, x)
    PROVE  WorkersSound'
<1>0. \A v \in Workers : wrk[v].pc # "idle" => wrk[v].id \in Jobs BY DEF TypeInv, WorkersOK
<1>1. wrk'[w].pc = pc /\ wrk'[w].id = id /\ wrk'[w].job = x
  BY DEF GotoWorker, TypeInv, WorkersOK
<1>2. \A v \in Workers : v # w => wrk'[v] = wrk[v] BY DEF GotoWorker, TypeInv, WorkersOK
<1> SUFFICES ASSUME NEW v \in Workers
             PROVE  /\ wrk'[v].pc # "idle" => Sound(wrk'[v].job, wrk'[v].id, signapi', seen', authz')
                    /\ wrk'[v].pc = "idle" => wrk'[v].job = NoJob
                    /\ wrk'[v].pc \in {"deviceSave", "sign"} => wrk'[v].job.state = "SIGNING"
                    /\ wrk'[v].pc \in {"saveFinalizing", "finalize"} => wrk'[v].job.state = "FINALIZING"
  BY DEF WorkersSound
<1>3. CASE v = w BY <1>1, <1>3
<1>4. CASE v # w BY <1>0, <1>2, <1>4, SoundGrows DEF Safe, WorkersSound
<1>5. QED BY <1>3, <1>4

\* A worker that ends holds nothing.
LEMMA ReleaseSound ==
    ASSUME TypeInv, Safe, Grows, NEW w \in Workers, Release(w) PROVE WorkersSound'
<1>0. \A v \in Workers : wrk[v].pc # "idle" => wrk[v].id \in Jobs BY DEF TypeInv, WorkersOK
<1>1. wrk'[w].pc = "idle" /\ wrk'[w].job = NoJob BY DEF Release, TypeInv, WorkersOK, IdleWorker
<1>2. \A v \in Workers : v # w => wrk'[v] = wrk[v] BY DEF Release, TypeInv, WorkersOK
<1>3. \A v \in Workers : v # w /\ wrk[v].pc # "idle" =>
        Sound(wrk[v].job, wrk[v].id, signapi', seen', authz')
  BY <1>0, SoundGrows DEF Safe, WorkersSound
<1>4. QED BY <1>1, <1>2, <1>3 DEF Safe, WorkersSound

\* A step that touches neither upstream nor the caller's view.
LEMMA WorldKept ==
    ASSUME TypeInv, Safe, UNCHANGED <<upVars, seen>>
    PROVE  Grows /\ AuthzSound' /\ EvidenceIsTrue'
<1>1. Grows BY DEF Grows, SessionsGrow, SeenGrows, AuthzGrows, upVars
<1>2. AuthzSound' BY DEF AuthzSound, Safe, upVars
<1>3. EvidenceIsTrue' BY DEF EvidenceIsTrue, Safe, upVars
<1>4. QED BY <1>1, <1>2, <1>3

\* A step that touches the sessions only.
LEMMA SessionsOnly ==
    ASSUME TypeInv, Safe, SessionsGrow, UNCHANGED <<authz, minted, seen>>
    PROVE  Grows /\ AuthzSound' /\ EvidenceIsTrue'
<1>1. Grows BY DEF Grows, SeenGrows, AuthzGrows
<1>2. AuthzSound' BY DEF AuthzSound, Safe
<1>3. EvidenceIsTrue' BY DEF EvidenceIsTrue, SessionsGrow, Safe
<1>4. QED BY <1>1, <1>2, <1>3

\* A step that touches the authorizations only.
LEMMA AuthzOnly ==
    ASSUME TypeInv, Safe, AuthzGrows, AuthzSound', UNCHANGED <<signapi, seen>>
    PROVE  Grows /\ AuthzSound' /\ EvidenceIsTrue'
<1>1. Grows BY DEF Grows, SessionsGrow, SeenGrows
<1>2. EvidenceIsTrue' BY DEF EvidenceIsTrue, Safe
<1>3. QED BY <1>1, <1>2

----------------------------------------------------------------------------
(* The invariant.                                                          *)

\* Nothing is claimed initially.
LEMMA SafeInit == Init => Safe
<1> SUFFICES ASSUME Init PROVE Safe OBVIOUS
<1> USE DEF Init
<1>1. StoreSound BY DEF StoreInit, StoreSound
<1>2. RequestsSound BY DEF RequestsSound, IdleRequest, HoldingPCs
<1>3. WorkersSound BY DEF WorkersSound, IdleWorker
<1>4. AuthzSound BY DEF AuthzSound, UpstreamInit
<1>5. IndexOwner BY DEF IndexOwner, StoreInit
<1>6. EvidenceIsTrue BY DEF EvidenceIsTrue
<1>7. QED BY <1>1, <1>2, <1>3, <1>4, <1>5, <1>6 DEF Safe

\* Every step of a request keeps the invariant.
LEMMA RequestStepSafe ==
    ASSUME TypeInv, Safe, NEW r \in Requests, RequestStep(r) PROVE Safe'
<1> DEFINE id == req[r].id
           x == req[r].job
           s == req[r].s
           e == CodeExchanged(x)
           d == NextDigest(id)
<1>0. req[r].pc # "idle" => id \in Jobs BY DEF TypeInv, RequestsOK
<1>h. req[r].pc \in HoldingPCs => x \in JobType /\ Sound(x, id, signapi, seen, authz)
  BY DEF TypeInv, RequestsOK, Safe, RequestsSound
<1>s. req[r].pc \in {"cbLoad", "cbClear", "cbAdvance"} => s \in OAuthStates /\ authz[s].job = id
  BY DEF TypeInv, RequestsOK, Safe, RequestsSound
<1>t. /\ UpstreamTypeOK /\ StoreTypeOK /\ SeenOK /\ AuthzSound /\ EvidenceIsTrue
  BY DEF TypeInv, Safe
<1>g. \A l : Exchange(r, l) => Advance(r) /\ CanExchange(x, s) /\ x.leg = l BY DEF Exchange
<1>l. x \in JobType => e.leg = x.leg /\ e.flow = x.flow /\ e.digest = x.digest
  BY DEF CodeExchanged, JobType
<1> HIDE DEF id, x, s, e, d
<1>a. ASSUME Advance(r)
      PROVE  /\ id \in Jobs /\ x \in JobType /\ Sound(x, id, signapi, seen, authz)
             /\ e \in JobType /\ Sound(e, id, signapi, seen, authz)
             /\ s \in OAuthStates /\ authz[s].job = id
             /\ UNCHANGED <<store, index, wrk>>
  <2>1. /\ id \in Jobs /\ x \in JobType /\ Sound(x, id, signapi, seen, authz)
        /\ s \in OAuthStates /\ authz[s].job = id
    BY <1>a, <1>0, <1>h, <1>s DEF Advance, HoldingPCs
  <2>2. QED BY <1>a, <2>1, CodeExchangedType, CodeExchangedSound DEF Advance, storeVars, e
<1>1. CASE CallbackLoad(r)
  <2>1. Grows /\ AuthzSound' /\ EvidenceIsTrue' BY <1>1, WorldKept DEF CallbackLoad
  <2>2. StoreSound' /\ WorkersSound' /\ IndexOwner'
    BY <1>1, <2>1, KeptSound DEF CallbackLoad, storeVars
  <2>3. RequestsSound'
    <3>1. CASE Exists(id)
      <4> DEFINE q == [req[r] EXCEPT !.pc = "cbClear", !.job = store[id]]
      <4>0. req[r] \in RequestType BY DEF TypeInv, RequestsOK
      <4>1. req' = [req EXCEPT ![r] = q] BY <1>1, <3>1 DEF CallbackLoad, id
      <4>2. q.pc = "cbClear" /\ q.job = store[id] /\ q.id = id /\ q.s = s
        BY <4>0 DEF RequestType, id, s
      <4> HIDE DEF q
      <4>3. id \in Jobs /\ authz[s].job = id /\ s \in OAuthStates
        BY <1>1, <1>0, <1>s DEF CallbackLoad
      <4>4. Sound(store[id], id, signapi', seen', authz')
        BY <4>3, <3>1, <2>1, SoundGrows DEF Safe, StoreSound, Exists
      <4>5. authz'[s].job = id BY <4>3, <2>1, JobsAssumption DEF Grows, AuthzGrows
      <4>6. QED BY <2>1, <4>1, <4>2, <4>4, <4>5, RequestChanged DEF HoldingPCs
    <3>2. CASE ~Exists(id) BY <1>1, <2>1, <3>2, RespondSound DEF CallbackLoad, id
    <3>3. QED BY <3>1, <3>2
  <2>4. QED BY <2>1, <2>2, <2>3 DEF Safe
<1>2. CASE CallbackClear(r)
  <2>1. Grows /\ AuthzSound' /\ EvidenceIsTrue' BY <1>2, WorldKept DEF CallbackClear
  <2>2. StoreSound' /\ WorkersSound' BY <1>2, <2>1, KeptSound DEF CallbackClear
  <2>3. IndexOwner'
    BY <1>2, <1>t, <2>1 DEF CallbackClear, ClearState, StoreTypeOK, Safe, IndexOwner, Grows, AuthzGrows
  <2>4. RequestsSound'
    <3> DEFINE q == [req[r] EXCEPT !.pc = "cbAdvance"]
    <3>0. req[r] \in RequestType BY DEF TypeInv, RequestsOK
    <3>1. req' = [req EXCEPT ![r] = q] BY <1>2 DEF CallbackClear
    <3>2. q.pc = "cbAdvance" /\ q.job = x /\ q.id = id /\ q.s = s
      BY <3>0 DEF RequestType, id, s, x
    <3> HIDE DEF q
    <3>3. /\ id \in Jobs /\ authz[s].job = id /\ s \in OAuthStates
          /\ Sound(x, id, signapi, seen, authz)
      BY <1>2, <1>0, <1>s, <1>h DEF CallbackClear, HoldingPCs
    <3>4. Sound(x, id, signapi', seen', authz') BY <3>3, <2>1, SoundGrows
    <3>5. authz'[s].job = id BY <3>3, <2>1, JobsAssumption DEF Grows, AuthzGrows
    <3>6. QED BY <2>1, <3>1, <3>2, <3>4, <3>5, RequestChanged DEF HoldingPCs
  <2>5. QED BY <2>1, <2>2, <2>3, <2>4 DEF Safe
<1>3. CASE CallbackFails(r)
  <2> DEFINE y == IF req[r].declined THEN x ELSE e
  <2>0. Advance(r) /\ Goto(r, "cbSave", id, Fail(y)) BY <1>3 DEF CallbackFails, x, id, e
  <2>1. Grows /\ AuthzSound' /\ EvidenceIsTrue'
    <3>1. UNCHANGED <<signapi, minted, seen>> BY <1>3 DEF CallbackFails
    <3>2. authz' = authz \/ (CanExchange(x, s) /\ authz' = SpendCode(s))
      BY <1>3 DEF CallbackFails, x, s
    <3>3. AuthzGrows /\ AuthzSound' BY <3>1, <3>2, <2>0, <1>a, <1>t, SpendGrows, ShownGrows
    <3>4. QED BY <3>1, <3>3, AuthzOnly
  <2>2. y \in JobType /\ Sound(y, id, signapi, seen, authz) BY <2>0, <1>a
  <2> HIDE DEF y
  <2>3. Sound(Fail(y), id, signapi', seen', authz')
    BY <2>0, <2>1, <2>2, <1>a, SoundGrows, FailSound
  <2>4. RequestsSound' BY <2>0, <2>1, <2>3, GotoSound DEF RequestPCs, HoldingPCs
  <2>5. StoreSound' /\ WorkersSound' /\ IndexOwner' BY <2>0, <2>1, <1>a, KeptSound
  <2>6. QED BY <2>1, <2>4, <2>5 DEF Safe
<1>4. CASE AdvanceFirstLeg(r)
  <2>0. /\ Exchange(r, FirstLeg(x.flow))
        /\ CalculateDigestEnabled(id) /\ CalculateDigest(id)
        /\ CanMint /\ minted' = NewState
        /\ authz' = [SpendCode(s) EXCEPT ![NewState] = Request(id, "sign", Asked(x, d), FALSE)]
        /\ Goto(r, "cbSaveNext", id, FirstLegCompleted(e, NewState, d))
        /\ UNCHANGED seen
    BY <1>4 DEF AdvanceFirstLeg, x, id, s, d, e
  <2>1. Advance(r) /\ CanExchange(x, s) /\ x.leg = FirstLeg(x.flow) BY <2>0, <1>g
  <2>2. d \in Nat BY <2>0, <2>1, <1>a, <1>t, CalculateDigestType DEF d
  <2>3. /\ AuthzGrows /\ AuthzSound' /\ NewState \in OAuthStates
        /\ authz'[NewState].job = id /\ authz'[NewState].digest = Asked(x, d)
    <3>1. Asked(x, d) \in Nat BY <2>1, <2>2, <1>a, AskedType
    <3>2. QED BY <2>0, <2>1, <3>1, <1>a, <1>t, SpendMintGrows
  <2>4. Grows /\ AuthzSound' /\ EvidenceIsTrue'
    <3>1. SessionsGrow BY <2>0, <2>1, <1>a, <1>t, SessionsStep
    <3>2. SeenGrows /\ \A i \in Jobs : seen'[i].applied = seen[i].applied BY <2>0 DEF SeenGrows
    <3>3. QED BY <2>3, <3>1, <3>2, <1>t, EvidenceKept DEF Grows
  <2>5. Sound(e, id, signapi', seen', authz') /\ e \in JobType
    BY <2>1, <2>4, <1>a, SoundGrows
  <2>6. Asked(x, d) = Asked(e, d) BY <2>1, <1>a, AskedExchanged DEF e
  <2>7. Sound(FirstLegCompleted(e, NewState, d), id, signapi', seen', authz')
    BY <2>1, <2>2, <2>3, <2>5, <2>6, <1>a, <1>l, FirstLegCompletedSound
  <2>8. RequestsSound' BY <2>0, <2>4, <2>7, GotoSound DEF RequestPCs, HoldingPCs
  <2>9. StoreSound' /\ WorkersSound' /\ IndexOwner' BY <2>1, <2>4, <1>a, KeptSound
  <2>10. QED BY <2>4, <2>8, <2>9 DEF Safe
<1>5. CASE AdvanceFirstLegFails(r)
  <2>0. /\ Exchange(r, FirstLeg(x.flow))
        /\ CalculateDigestEnabled(id) /\ CalculateDigest(id)
        /\ UNCHANGED seen
    BY <1>5 DEF AdvanceFirstLegFails, x, id
  <2>1. Advance(r) /\ CanExchange(x, s) /\ x.leg = FirstLeg(x.flow) BY <2>0, <1>g
  <2>2. d \in Nat BY <2>0, <2>1, <1>a, <1>t, CalculateDigestType DEF d
  <2>3. /\ SessionsGrow /\ SeenGrows
        /\ AuthzGrows => Grows /\ EvidenceIsTrue'
    <3>1. SessionsGrow BY <2>0, <2>1, <1>a, <1>t, SessionsStep
    <3>2. SeenGrows /\ \A i \in Jobs : seen'[i].applied = seen[i].applied BY <2>0 DEF SeenGrows
    <3>3. QED BY <3>1, <3>2, <1>t, EvidenceKept DEF Grows
  <2>4. CASE /\ authz' = SpendCode(s)
             /\ \E y \in {e, DigestsCalculated(e, d)} : Goto(r, "cbSave", id, Fail(y))
             /\ UNCHANGED minted
    <3>1. AuthzGrows /\ AuthzSound' BY <2>1, <2>4, <1>a, <1>t, SpendGrows
    <3>2. Grows /\ EvidenceIsTrue' BY <2>3, <3>1
    <3>3. Sound(e, id, signapi', seen', authz') /\ e \in JobType
      BY <2>1, <3>2, <1>a, SoundGrows
    <3>4. /\ Sound(Fail(e), id, signapi', seen', authz')
          /\ Sound(Fail(DigestsCalculated(e, d)), id, signapi', seen', authz')
      BY <2>2, <3>3, FailSound, DigestsCalculatedSound
    <3>5. RequestsSound' BY <2>4, <3>2, <3>4, GotoSound DEF RequestPCs, HoldingPCs
    <3>6. StoreSound' /\ WorkersSound' /\ IndexOwner' BY <2>1, <3>2, <1>a, KeptSound
    <3>7. QED BY <3>1, <3>2, <3>5, <3>6 DEF Safe
  <2>5. CASE /\ CanMint
             /\ minted' = NewState
             /\ authz' = [SpendCode(s) EXCEPT ![NewState] = Request(id, "sign", Asked(x, d), FALSE)]
             /\ Goto(r, "cbSave", id, Fail(FirstLegCompleted(e, NewState, d)))
    <3>1. /\ AuthzGrows /\ AuthzSound' /\ NewState \in OAuthStates
          /\ authz'[NewState].job = id /\ authz'[NewState].digest = Asked(x, d)
      <4>1. Asked(x, d) \in Nat BY <2>1, <2>2, <1>a, AskedType
      <4>2. QED BY <2>1, <2>5, <4>1, <1>a, <1>t, SpendMintGrows
    <3>2. Grows /\ EvidenceIsTrue' BY <2>3, <3>1
    <3>3. Sound(e, id, signapi', seen', authz') /\ e \in JobType
      BY <2>1, <3>2, <1>a, SoundGrows
    <3>4. Asked(x, d) = Asked(e, d) /\ NewState \in Nat
      BY <2>1, <1>a, BoundsAssumption, AskedExchanged DEF e, TypeInv, UpstreamTypeOK, NewState
    <3>5. /\ FirstLegCompleted(e, NewState, d) \in JobType
          /\ Sound(FirstLegCompleted(e, NewState, d), id, signapi', seen', authz')
      BY <2>1, <2>2, <3>1, <3>3, <3>4, <1>a, <1>l, FirstLegCompletedSound, FirstLegCompletedType
    <3>6. Sound(Fail(FirstLegCompleted(e, NewState, d)), id, signapi', seen', authz')
      BY <3>5, FailSound
    <3>7. RequestsSound' BY <2>5, <3>2, <3>6, GotoSound DEF RequestPCs, HoldingPCs
    <3>8. StoreSound' /\ WorkersSound' /\ IndexOwner' BY <2>1, <3>2, <1>a, KeptSound
    <3>9. QED BY <3>1, <3>2, <3>7, <3>8 DEF Safe
  <2>6. QED BY <1>5, <2>4, <2>5 DEF AdvanceFirstLegFails, x, id, s, d, e
<1>6. CASE AdvanceSignLeg(r)
  <2>0. PICK b \in TokenBindings(x, s) :
          Bound(x, b) /\ Goto(r, "cbSaveDone", id, SignLegCompleted(e, b))
    BY <1>6 DEF AdvanceSignLeg, x, id, s, e
  <2>1. /\ Exchange(r, "sign") /\ authz' = SpendCode(s)
        /\ seen' = [seen EXCEPT ![id].accepted = @ + 1] /\ UNCHANGED <<signapi, minted>>
    BY <1>6 DEF AdvanceSignLeg, s, id
  <2>2. Advance(r) /\ CanExchange(x, s) /\ x.leg = "sign" BY <2>1, <1>g
  <2>3. AuthzGrows /\ AuthzSound' BY <2>1, <2>2, <1>a, <1>t, SpendGrows
  <2>4. Grows /\ EvidenceIsTrue'
    <3>1. SessionsGrow BY <2>1 DEF SessionsGrow
    <3>2. SeenGrows /\ \A i \in Jobs : seen'[i].applied = seen[i].applied
      BY <2>1, <2>2, <1>a, <1>t, SeenStep
    <3>3. QED BY <2>3, <3>1, <3>2, <1>t, EvidenceKept DEF Grows
  <2>5. b \in Nat /\ (b > 0 => b = authz[s].digest)
    BY <2>0, <2>2, <1>a, <1>t DEF TokenBindings, UpstreamTypeOK, AuthzType
  <2>6. b > 0 => Confirmed(id, b, authz')
    <3>1. authz[s].codes > 0 /\ authz[s].codes <= authz[s].approvals /\ authz[s] \in AuthzType
      BY <2>2, <1>a, <1>t DEF CanExchange, AuthzSound, UpstreamTypeOK
    <3>2. authz[s].approvals > 0 BY <3>1 DEF AuthzType
    <3>3. b > 0 => authz[s].leg = "sign" BY <2>2, <2>5, <1>a, <1>t DEF AuthzSound
    <3>4. b > 0 => Confirmed(id, b, authz) BY <2>2, <2>5, <3>2, <3>3, <1>a DEF Confirmed
    <3>5. QED BY <2>2, <2>3, <3>4, <1>a, ConfirmedGrows
  <2>7. Sound(e, id, signapi', seen', authz') /\ e \in JobType
    BY <2>2, <2>4, <1>a, SoundGrows
  <2>8. seen'[id].accepted > 0 BY <2>1, <2>2, <1>a, <1>t DEF SeenOK, SeenType
  <2>9. Bound(e, b) BY <2>0, <2>2, <1>a, <1>l DEF Bound
  <2>10. Sound(SignLegCompleted(e, b), id, signapi', seen', authz')
    BY <2>2, <2>5, <2>6, <2>7, <2>8, <2>9, <1>a, <1>l, SignLegCompletedSound
  <2>11. RequestsSound' BY <2>0, <2>4, <2>10, GotoSound DEF RequestPCs, HoldingPCs
  <2>12. StoreSound' /\ WorkersSound' /\ IndexOwner' BY <2>2, <2>4, <1>a, KeptSound
  <2>13. QED BY <2>3, <2>4, <2>11, <2>12 DEF Safe
<1>7. CASE CallbackSave(r) \/ StatusSave(r)
  <2>0. /\ req[r].pc \in {"cbSave", "statusSave"} /\ Save(id, x) /\ Respond(r)
        /\ UNCHANGED <<upVars, seen, wrk>>
    BY <1>7 DEF CallbackSave, StatusSave, id, x
  <2>1. Grows /\ AuthzSound' /\ EvidenceIsTrue' BY <2>0, WorldKept
  <2>2. id \in Jobs /\ x \in JobType /\ Sound(x, id, signapi', seen', authz')
    BY <2>0, <2>1, <1>0, <1>h, SoundGrows DEF HoldingPCs
  <2>3. StoreSound' /\ IndexOwner' BY <2>0, <2>1, <2>2, SaveSound
  <2>4. RequestsSound' /\ WorkersSound' BY <2>0, <2>1, RespondSound, KeptSound
  <2>5. QED BY <2>1, <2>3, <2>4 DEF Safe
<1>12. CASE StatusEmit(r)
  <2> DEFINE y == [x EXCEPT !.audited = TRUE]
  <2>0. /\ req[r].pc = "statusEmit" /\ Goto(r, "statusSave", id, y)
        /\ seen' = IF x.state = "READY"
                   THEN [seen EXCEPT ![id].applied = AtMost2(@ + 1)]
                   ELSE [seen EXCEPT ![id].failed = AtMost2(@ + 1)]
        /\ UNCHANGED <<store, index, signapi, authz, minted, wrk>>
    BY <1>12 DEF StatusEmit, storeVars, upVars, id, x
  <2>a. id \in Jobs /\ x \in JobType /\ Sound(x, id, signapi, seen, authz)
    BY <2>0, <1>0, <1>h DEF HoldingPCs
  <2>1. SeenGrows /\ EvidenceIsTrue'
    <3>1. CASE x.state = "READY"
      <4>1. signapi[id].finalized /\ seen[id].accepted > 0
        BY <2>a, <3>1 DEF Sound, Backed, Consistent
      <4>2. \A i \in Jobs : seen'[i].accepted = seen[i].accepted
                            /\ (i # id => seen'[i].applied = seen[i].applied)
        BY <2>0, <2>a, <3>1, <1>t DEF SeenOK, SeenType
      <4>3. QED BY <2>0, <4>1, <4>2, <1>t DEF SeenGrows, EvidenceIsTrue
    <3>2. CASE x.state # "READY"
      <4>1. SeenGrows /\ \A i \in Jobs : seen'[i].applied = seen[i].applied
        BY <2>0, <2>a, <3>2, <1>t, SeenStep
      <4>2. SessionsGrow BY <2>0 DEF SessionsGrow
      <4>3. QED BY <4>1, <4>2, <1>t, EvidenceKept
    <3>3. QED BY <3>1, <3>2
  <2>2. AuthzGrows /\ AuthzSound' BY <2>0, <1>t, ShownGrows
  <2>3. Grows BY <2>0, <2>1, <2>2 DEF Grows, SessionsGrow
  <2>4. Sound(x, id, signapi', seen', authz') BY <2>a, <2>3, SoundGrows
  <2>5. Sound(y, id, signapi', seen', authz') BY <2>a, <2>4, AuditedSound
  <2> HIDE DEF y
  <2>6. RequestsSound' BY <2>0, <2>a, <2>3, <2>5, GotoSound DEF RequestPCs, HoldingPCs
  <2>7. StoreSound' /\ WorkersSound' /\ IndexOwner' BY <2>0, <2>3, KeptSound
  <2>8. QED BY <2>1, <2>2, <2>6, <2>7 DEF Safe
<1>8. CASE CallbackSaveNext(r)
  <2>0. PICK ok \in BOOLEAN :
          /\ TrySave(id, x, ok)
          /\ authz' = IF ok THEN [authz EXCEPT ![x.oauth].shown = TRUE] ELSE authz
    BY <1>8 DEF CallbackSaveNext, id, x
  <2>1. req[r].pc = "cbSaveNext" /\ Respond(r) /\ UNCHANGED <<signapi, minted, wrk, seen>>
    BY <1>8 DEF CallbackSaveNext
  <2>2. AuthzGrows /\ AuthzSound' BY <2>0, <2>1, <1>t, ShownGrows
  <2>3. Grows /\ EvidenceIsTrue' BY <2>1, <2>2, AuthzOnly
  <2>4. id \in Jobs /\ x \in JobType /\ Sound(x, id, signapi', seen', authz')
    BY <2>1, <2>3, <1>0, <1>h, SoundGrows DEF HoldingPCs
  <2>5. StoreSound' /\ IndexOwner' BY <2>0, <2>3, <2>4, TrySaveIsSave, SaveSound
  <2>6. RequestsSound' /\ WorkersSound' BY <2>1, <2>3, RespondSound, KeptSound
  <2>7. QED BY <2>2, <2>3, <2>5, <2>6 DEF Safe
<1>9. CASE SaveForWork(r)
  <2>0. PICK ok \in BOOLEAN :
          /\ TrySave(id, x, ok)
          /\ IF ok THEN Goto(r, "enqueue", id, NoJob) ELSE Respond(r)
    BY <1>9 DEF SaveForWork, id, x
  <2>1. Grows /\ AuthzSound' /\ EvidenceIsTrue' BY <1>9, WorldKept DEF SaveForWork
  <2>2. id \in Jobs /\ x \in JobType /\ Sound(x, id, signapi', seen', authz')
    BY <1>9, <2>1, <1>0, <1>h, SoundGrows DEF SaveForWork, HoldingPCs
  <2>3. StoreSound' /\ IndexOwner' BY <2>0, <2>1, <2>2, TrySaveIsSave, SaveSound
  <2>4. RequestsSound' BY <2>0, <2>1, GotoSound, RespondSound DEF RequestPCs, HoldingPCs
  <2>5. WorkersSound' BY <1>9, <2>1, KeptSound DEF SaveForWork
  <2>6. QED BY <2>1, <2>3, <2>4, <2>5 DEF Safe
<1>10. CASE EnqueueWork(r)
  <2>1. Grows /\ AuthzSound' /\ EvidenceIsTrue' BY <1>10, WorldKept DEF EnqueueWork
  <2>2. StoreSound' /\ IndexOwner' /\ WorkersSound' /\ RequestsSound'
    BY <1>10, <2>1, KeptSound, RespondSound DEF EnqueueWork
  <2>3. QED BY <2>1, <2>2 DEF Safe
<1>11. CASE DeleteKeys(r)
  <2>0. /\ req[r].pc = "delete" /\ Respond(r) /\ UNCHANGED <<authz, minted, wrk>>
        /\ \/ DeleteOK(id, x) /\ CloseLater(id) /\ seen' = [seen EXCEPT ![id].deleted = TRUE]
           \/ DeleteFails(id, x) /\ UNCHANGED <<signapi, seen>>
    BY <1>11 DEF DeleteKeys, id, x
  <2>1. id \in Jobs BY <2>0, <1>0
  <2>2. SessionsGrow BY <2>0, <2>1, <1>t, SessionsStep
  <2>3. SeenGrows /\ \A i \in Jobs : seen'[i].applied = seen[i].applied
    BY <2>0, <2>1, <1>t, SeenStep
  <2>4. AuthzGrows /\ AuthzSound' BY <2>0, <1>t, ShownGrows
  <2>5. Grows /\ EvidenceIsTrue' BY <2>2, <2>3, <2>4, <1>t, EvidenceKept DEF Grows
  <2>6. store' = store \/ store' = [store EXCEPT ![id] = NoJob]
    BY <2>0 DEF DeleteOK, DeleteFails
  <2>7. index' = index \/ index' = [index EXCEPT ![x.oauth] = NoJob]
    BY <2>0 DEF DeleteOK, DeleteFails, DeleteIndex
  <2>8. StoreSound' BY <2>5, <2>6, <1>t, SoundGrows DEF Safe, StoreSound, StoreTypeOK
  <2>9. IndexOwner' BY <2>5, <2>7, <1>t DEF Safe, IndexOwner, StoreTypeOK, Grows, AuthzGrows
  <2>10. RequestsSound' /\ WorkersSound' BY <2>0, <2>5, RespondSound, KeptSound
  <2>11. QED BY <2>4, <2>5, <2>8, <2>9, <2>10 DEF Safe
<1>13. QED
  BY <1>1, <1>2, <1>3, <1>4, <1>5, <1>6, <1>7, <1>8, <1>9, <1>10, <1>11, <1>12 DEF RequestStep

\* Every step of a worker keeps the invariant.
LEMMA WorkerStepSafe ==
    ASSUME TypeInv, Safe, NEW w \in Workers, WorkerStep(w) PROVE Safe'
<1> DEFINE id == wrk[w].id
           x == wrk[w].job
<1>h. wrk[w].pc # "idle" => id \in Jobs /\ x \in JobType /\ Sound(x, id, signapi, seen, authz)
  BY DEF TypeInv, WorkersOK, Safe, WorkersSound
<1>s. /\ wrk[w].pc \in {"deviceSave", "sign"} => x.state = "SIGNING"
      /\ wrk[w].pc \in {"saveFinalizing", "finalize"} => x.state = "FINALIZING"
  BY DEF Safe, WorkersSound
<1>t. UpstreamTypeOK BY DEF TypeInv
<1> HIDE DEF id, x
<1>1. CASE WorkerTake(w)
  <2>0. PICK i \in Jobs :
          CASE Exists(i) /\ store[i].state = "SIGNING" ->
                 GotoWorker(w, IF DevicePush(store[i].flow) THEN "deviceSave" ELSE "sign",
                            i, store[i])
            [] Exists(i) /\ store[i].state = "FINALIZING" ->
                 GotoWorker(w, "finalize", i, store[i])
            [] OTHER -> UNCHANGED wrk
    BY <1>1 DEF WorkerTake
  <2>1. Grows /\ AuthzSound' /\ EvidenceIsTrue' BY <1>1, WorldKept DEF WorkerTake
  <2>2. StoreSound' /\ RequestsSound' /\ IndexOwner' BY <1>1, <2>1, KeptSound DEF WorkerTake
  <2>3. Exists(i) => Sound(store[i], i, signapi', seen', authz')
    BY <2>1, SoundGrows DEF Safe, StoreSound, Exists
  <2>4. WorkersSound'
    <3>1. CASE Exists(i) /\ store[i].state = "SIGNING" BY <2>0, <2>1, <2>3, <3>1, GotoWorkerSound DEF WorkerPCs
    <3>2. CASE Exists(i) /\ store[i].state = "FINALIZING" BY <2>0, <2>1, <2>3, <3>2, GotoWorkerSound DEF WorkerPCs
    <3>3. CASE ~(Exists(i) /\ store[i].state \in {"SIGNING", "FINALIZING"})
      BY <2>0, <2>1, <3>3, KeptSound
    <3>4. QED BY <3>1, <3>2, <3>3
  <2>5. QED BY <2>1, <2>2, <2>4 DEF Safe
<1>2. CASE WorkerDeviceSave(w)
  <2>0. PICK ok \in BOOLEAN :
          /\ TrySave(id, x, ok)
          /\ IF ok THEN GotoWorker(w, "sign", id, x) ELSE GotoWorker(w, "saveResult", id, Fail(x))
    BY <1>2 DEF WorkerDeviceSave, id, x
  <2>1. Grows /\ AuthzSound' /\ EvidenceIsTrue' BY <1>2, WorldKept DEF WorkerDeviceSave
  <2>2. id \in Jobs /\ x \in JobType /\ x.state = "SIGNING" /\ Sound(x, id, signapi', seen', authz')
    BY <1>2, <2>1, <1>h, <1>s, SoundGrows DEF WorkerDeviceSave
  <2>3. StoreSound' /\ IndexOwner' BY <2>0, <2>1, <2>2, TrySaveIsSave, SaveSound
  <2>4. Sound(Fail(x), id, signapi', seen', authz') BY <2>2, FailSound
  <2>5. WorkersSound' BY <2>0, <2>1, <2>2, <2>4, GotoWorkerSound DEF WorkerPCs
  <2>6. RequestsSound' BY <1>2, <2>1, KeptSound DEF WorkerDeviceSave
  <2>7. QED BY <2>1, <2>3, <2>5, <2>6 DEF Safe
<1>3. CASE WorkerSign(w)
  <2> DEFINE y == [x EXCEPT !.token = IF IsCSC(x.flow) THEN NoToken ELSE @]
  <2>0. \/ SignerAccepts(x) /\ GotoWorker(w, "saveFinalizing", id, Signed(x))
        \/ GotoWorker(w, "saveResult", id, Fail(y))
    BY <1>3 DEF WorkerSign, id, x
  <2>1. Grows /\ AuthzSound' /\ EvidenceIsTrue' BY <1>3, WorldKept DEF WorkerSign
  <2>2. id \in Jobs /\ x \in JobType /\ x.state = "SIGNING" /\ Sound(x, id, signapi', seen', authz')
    BY <1>3, <2>1, <1>h, <1>s, SoundGrows DEF WorkerSign
  <2>3. StoreSound' /\ RequestsSound' /\ IndexOwner'
    BY <1>3, <2>1, KeptSound DEF WorkerSign, storeVars
  <2>4. Sound(Fail(y), id, signapi', seen', authz')
    <3>1. /\ y.flow = x.flow /\ y.doc = x.doc /\ y.leg = x.leg /\ y.oauth = x.oauth
          /\ y.sig = x.sig /\ y.cert = x.cert /\ y.token \in {x.token, NoToken} /\ y \in JobType
      BY <2>2 DEF JobType, NoToken
    <3> HIDE DEF y
    <3> DEFINE z == Fail(y)
    <3>2. /\ z.state = "FAILED" /\ z.doc \in {x.doc, "FAILED"} /\ z.flow = x.flow
          /\ z.leg = x.leg /\ z.oauth = x.oauth /\ z.sig = x.sig /\ z.cert = x.cert
          /\ z.token \in {x.token, NoToken}
      BY <3>1 DEF Fail, JobType
    <3> HIDE DEF z
    <3>3. x.leg = "none" /\ x.doc = "PENDING" BY <2>2 DEF Sound, Consistent, Terminal
    <3>4. Consistent(z) BY <3>2, <3>3 DEF Consistent, Terminal
    <3>5. Stampable(z) BY <3>2, <3>3 DEF Stampable
    <3>6. Backed(z, id, signapi', seen', authz') BY <2>2, <3>2, <3>3 DEF Sound, Backed, NoToken
    <3>7. QED BY <3>4, <3>5, <3>6 DEF Sound, z
  <2>5. CASE SignerAccepts(x) /\ GotoWorker(w, "saveFinalizing", id, Signed(x))
    <3>1. Sound(Signed(x), id, signapi', seen', authz') /\ Signed(x).state = "FINALIZING"
      BY <2>2, <2>5, SignedSound
    <3>2. WorkersSound' BY <2>1, <2>5, <3>1, GotoWorkerSound DEF WorkerPCs
    <3>3. QED BY <2>1, <2>3, <3>2 DEF Safe
  <2>6. CASE GotoWorker(w, "saveResult", id, Fail(y))
    <3> HIDE DEF y
    <3>1. WorkersSound' BY <2>1, <2>4, <2>6, GotoWorkerSound DEF WorkerPCs
    <3>2. QED BY <2>1, <2>3, <3>1 DEF Safe
  <2>7. QED BY <2>0, <2>5, <2>6
<1>4. CASE WorkerSaveFinalizing(w)
  <2>0. Save(id, x) /\ GotoWorker(w, "finalize", id, x) BY <1>4 DEF WorkerSaveFinalizing, id, x
  <2>1. Grows /\ AuthzSound' /\ EvidenceIsTrue' BY <1>4, WorldKept DEF WorkerSaveFinalizing
  <2>2. /\ id \in Jobs /\ x \in JobType /\ x.state = "FINALIZING"
        /\ Sound(x, id, signapi', seen', authz')
    BY <1>4, <2>1, <1>h, <1>s, SoundGrows DEF WorkerSaveFinalizing
  <2>3. StoreSound' /\ IndexOwner' BY <2>0, <2>1, <2>2, SaveSound
  <2>4. WorkersSound' BY <2>0, <2>1, <2>2, GotoWorkerSound DEF WorkerPCs
  <2>5. RequestsSound' BY <1>4, <2>1, KeptSound DEF WorkerSaveFinalizing
  <2>6. QED BY <2>1, <2>3, <2>4, <2>5 DEF Safe
<1>5. CASE WorkerFinalize(w)
  <2>0. /\ id \in Jobs /\ x \in JobType /\ x.state = "FINALIZING"
        /\ Sound(x, id, signapi, seen, authz)
    BY <1>5, <1>h, <1>s DEF WorkerFinalize
  <2>1. CASE \E ok \in BOOLEAN :
               /\ FinalizeSigning(id, ok)
               /\ GotoWorker(w, "saveResult", id, IF ok THEN Finalized(x) ELSE Fail(x))
    <3>0. PICK ok \in BOOLEAN :
            /\ FinalizeSigning(id, ok)
            /\ GotoWorker(w, "saveResult", id, IF ok THEN Finalized(x) ELSE Fail(x))
      BY <2>1
    <3>1. SessionsGrow BY <2>0, <3>0, <1>t, SessionsStep
    <3>2. Grows /\ AuthzSound' /\ EvidenceIsTrue' BY <1>5, <3>1, SessionsOnly DEF WorkerFinalize
    <3>3. Sound(x, id, signapi', seen', authz') BY <2>0, <3>2, SoundGrows
    <3>4. WorkersSound'
      <4>1. CASE ok = TRUE
        <5>1. signapi'[id].finalized BY <2>0, <3>0, <4>1, <1>t, FinalizeFinalizes
        <5>2. Sound(Finalized(x), id, signapi', seen', authz')
          BY <2>0, <3>3, <5>1, FinalizedSound
        <5>3. GotoWorker(w, "saveResult", id, Finalized(x)) BY <3>0, <4>1
        <5>4. QED BY <3>2, <5>2, <5>3, GotoWorkerSound DEF WorkerPCs
      <4>2. CASE ok = FALSE
        <5>1. Sound(Fail(x), id, signapi', seen', authz') BY <2>0, <3>3, FailSound
        <5>2. GotoWorker(w, "saveResult", id, Fail(x)) BY <3>0, <4>2
        <5>3. QED BY <3>2, <5>1, <5>2, GotoWorkerSound DEF WorkerPCs
      <4>3. QED BY <4>1, <4>2
    <3>5. StoreSound' /\ RequestsSound' /\ IndexOwner'
      BY <1>5, <3>2, KeptSound DEF WorkerFinalize, storeVars
    <3>6. QED BY <3>2, <3>4, <3>5 DEF Safe
  <2>2. CASE GotoWorker(w, "saveResult", id, Fail(x)) /\ UNCHANGED signapi
    <3>1. Grows /\ AuthzSound' /\ EvidenceIsTrue'
      BY <1>5, <2>2, WorldKept DEF WorkerFinalize, upVars
    <3>2. Sound(Fail(x), id, signapi', seen', authz') BY <2>0, <3>1, SoundGrows, FailSound
    <3>3. WorkersSound' BY <2>2, <3>1, <3>2, GotoWorkerSound DEF WorkerPCs
    <3>4. StoreSound' /\ RequestsSound' /\ IndexOwner'
      BY <1>5, <3>1, KeptSound DEF WorkerFinalize, storeVars
    <3>5. QED BY <3>1, <3>3, <3>4 DEF Safe
  <2>3. QED BY <1>5, <2>1, <2>2 DEF WorkerFinalize, id, x
<1>6. CASE WorkerSaveResult(w)
  <2>0. /\ wrk[w].pc = "saveResult" /\ Save(id, x) /\ Release(w)
        /\ CloseLater(id) \/ UNCHANGED signapi
        /\ UNCHANGED <<authz, minted, req, seen>>
    BY <1>6 DEF WorkerSaveResult, id, x
  <2>1. id \in Jobs /\ x \in JobType /\ Sound(x, id, signapi, seen, authz) BY <2>0, <1>h
  <2>2. SessionsGrow BY <2>0, <2>1, <1>t, SessionsStep
  <2>3. Grows /\ AuthzSound' /\ EvidenceIsTrue' BY <2>0, <2>2, SessionsOnly
  <2>4. Sound(x, id, signapi', seen', authz') BY <2>1, <2>3, SoundGrows
  <2>5. StoreSound' /\ IndexOwner' BY <2>0, <2>1, <2>3, <2>4, SaveSound
  <2>6. RequestsSound' /\ WorkersSound' BY <2>0, <2>3, KeptSound, ReleaseSound
  <2>7. QED BY <2>3, <2>5, <2>6 DEF Safe
<1>7. QED BY <1>1, <1>2, <1>3, <1>4, <1>5, <1>6 DEF WorkerStep

\* The job Prepare saves when it fails, whatever it had got.
LEMMA PreparedFailedSound ==
    ASSUME NEW f \in Flows, NEW cert \in BOOLEAN, NEW d \in Nat,
           NEW id, NEW sa, NEW sn, NEW az
    PROVE  /\ Sound(Fail(NewJob(f)), id, sa, sn, az)
           /\ Sound(Fail(WithCert(NewJob(f), cert, d)), id, sa, sn, az)
<1> DEFINE y == Fail(NewJob(f))
           z == WithCert(NewJob(f), cert, d)
<1>0. ~(0 \in OAuthStates) BY BoundsAssumption DEF OAuthStates
<1>1. /\ y.state = "FAILED" /\ y.doc = "FAILED" /\ y.token = NoToken /\ y.leg = "none" /\ y.oauth = 0
  BY DEF Fail, NewJob
<1>2. y \in JobType BY NewJobType, FailType
<1>3. Sound(y, id, sa, sn, az)
  <2> HIDE DEF y
  <2>1. QED BY <1>0, <1>1, <1>2, FreshSound
<1>4. z \in JobType BY NewJobType, WithCertType
<1>5. z.doc = "PENDING" /\ z.token = NoToken /\ z.leg = "none" /\ z.oauth = 0
  BY DEF WithCert, NewJob
<1> HIDE DEF z
<1> DEFINE v == Fail(z)
<1>6. v \in JobType BY <1>4, FailType
<1>7. /\ v.state = "FAILED" /\ v.doc = "FAILED" /\ v.token = NoToken /\ v.leg = "none" /\ v.oauth = 0
  BY <1>4, <1>5 DEF Fail, JobType
<1> HIDE DEF v
<1>8. Sound(v, id, sa, sn, az) BY <1>0, <1>6, <1>7, FreshSound
<1>9. QED BY <1>3, <1>8 DEF v, z

\* A begun authorization: an admitted CSC request brings the certificate its timestamp
\* needs, and only a signature authorization is bound to digests.
LEMMA BeginAuthorizationLeg ==
    ASSUME NEW f \in Flows, NEW cert \in BOOLEAN, NEW full \in BOOLEAN, NEW s \in Nat
    PROVE  LET x == BeginAuthorization(f, cert, full, s) IN
           /\ x.digest > 0 => x.leg = "sign"
           /\ x.leg # "sign" => x.summary = 0
           /\ IsCSC(f) => x.digest = 0
<1> DEFINE x == BeginAuthorization(f, cert, full, s)
<1>1. CASE IsCSC(f)
  <2>1. x.digest = 0 /\ x.summary = 0
    BY <1>1 DEF BeginAuthorization, AwaitCallback, WithCert, NewJob
  <2>2. QED BY <2>1
<1>2. CASE ~IsCSC(f) /\ full
  <2>1. x.leg = "sign" BY <1>2 DEF BeginAuthorization, AwaitCallback, WithCert, NewJob
  <2>2. QED BY <1>2, <2>1
<1>3. CASE ~IsCSC(f) /\ ~full
  <2>1. x.digest = 0 /\ x.summary = 0
    BY <1>3 DEF BeginAuthorization, AwaitCallback, NewJob
  <2>2. QED BY <2>1
<1>4. QED BY <1>1, <1>2, <1>3

\* An admitted authorization that began is sound, saved or failed.
LEMMA BeginAuthorizationSound ==
    ASSUME NEW f \in Flows, NEW cert \in BOOLEAN, NEW full \in BOOLEAN, NEW s \in Nat,
           Admitted(f, cert), NEW id, NEW sa, NEW sn, NEW az,
           s \in OAuthStates, az[s].job = id,
           az[s].digest = BeginAuthorization(f, cert, full, s).digest
    PROVE  LET x == BeginAuthorization(f, cert, full, s) IN
           /\ Sound(Fail(x), id, sa, sn, az)
           /\ Sound(Transition(x, "AWAITING_AUTHORIZATION"), id, sa, sn, az)
<1> DEFINE x == BeginAuthorization(f, cert, full, s)
           y == Transition(x, "AWAITING_AUTHORIZATION")
<1>0. x \in JobType BY BeginAuthorizationType
<1>1. /\ x.state = "PREPARING" /\ x.doc = "PENDING" /\ x.token = NoToken /\ x.oauth = s
      /\ x.flow = f
  <2>1. CASE IsCSC(f)
    BY <2>1 DEF BeginAuthorization, AwaitCallback, WithCert, NewJob
  <2>2. CASE ~IsCSC(f) /\ full BY <2>2 DEF BeginAuthorization, AwaitCallback, WithCert, NewJob
  <2>3. CASE ~IsCSC(f) /\ ~full BY <2>3 DEF BeginAuthorization, AwaitCallback, NewJob
  <2>4. QED BY <2>1, <2>2, <2>3
<1>2. x.leg = "sign" \/ (x.leg # "none" /\ IsCSC(f)) => authCertFor(f, x.cert)
  <2>1. CASE IsCSC(f)
    <3>1. x.cert = cert
      BY <2>1 DEF BeginAuthorization, AwaitCallback, WithCert, NewJob
    <3>2. authCertFor(f, cert) BY <2>1 DEF Admitted
    <3>3. QED BY <3>1, <3>2
  <2>2. CASE ~IsCSC(f) /\ full
    <3>1. x.cert = TRUE /\ x.leg = "sign"
      BY <2>2 DEF BeginAuthorization, AwaitCallback, WithCert, NewJob
    <3>2. QED BY <3>1 DEF authCertFor
  <2>3. CASE ~IsCSC(f) /\ ~full
    <3>1. x.leg = "profile"
      BY <2>3 DEF BeginAuthorization, AwaitCallback, NewJob, FirstLeg
    <3>2. QED BY <2>3, <3>1
  <2>4. QED BY <2>1, <2>2, <2>3
<1>9. x.leg # "sign" => x.summary = 0 BY BeginAuthorizationLeg
<1>10. az[s].digest = x.digest OBVIOUS
<1> HIDE DEF x
<1>3. Sound(x, id, sa, sn, az) BY <1>0, <1>1, <1>2, <1>9, <1>10, FreshSound
<1>4. Sound(Fail(x), id, sa, sn, az) BY <1>0, <1>3, FailSound
<1>5. /\ y.state = "AWAITING_AUTHORIZATION" /\ y.doc = "PENDING" /\ y.token = NoToken
      /\ y.oauth = s /\ y.flow = f /\ y.leg = x.leg /\ y.cert = x.cert
      /\ y.summary = x.summary /\ y.digest = x.digest
  BY <1>0, <1>1 DEF Transition, CanTransition, transitions, JobType
<1>6. y \in JobType BY <1>0, TransitionType DEF JobStates
<1> HIDE DEF y
<1>7. Sound(y, id, sa, sn, az) BY <1>1, <1>2, <1>5, <1>6, <1>9, <1>10, FreshSound
<1>8. QED BY <1>4, <1>7 DEF x, y

\* A card job as Prepare saves it, waiting for its signatures.
LEMMA ClientSideSound ==
    ASSUME NEW f \in Flows, NEW cert \in BOOLEAN, NEW id, NEW sa, NEW sn, NEW az
    PROVE  LET y == Transition(WithCert(NewJob(f), cert, 1), "AWAITING_CLIENT_SIGNATURE") IN
           y \in JobType /\ Sound(y, id, sa, sn, az)
<1> DEFINE x == WithCert(NewJob(f), cert, 1)
           y == Transition(x, "AWAITING_CLIENT_SIGNATURE")
<1>0. x \in JobType BY NewJobType, WithCertType
<1>1. /\ x.state = "PREPARING" /\ x.doc = "PENDING" /\ x.token = NoToken /\ x.leg = "none"
      /\ x.oauth = 0
  BY DEF WithCert, NewJob
<1> HIDE DEF x
<1>2. y \in JobType BY <1>0, TransitionType DEF JobStates
<1>3. /\ y.state = "AWAITING_CLIENT_SIGNATURE" /\ y.doc = "PENDING" /\ y.token = NoToken
      /\ y.leg = "none" /\ y.oauth = 0
  BY <1>0, <1>1 DEF Transition, CanTransition, transitions, JobType
<1>4. ~(0 \in OAuthStates) BY BoundsAssumption DEF OAuthStates
<1> HIDE DEF y
<1>5. Sound(y, id, sa, sn, az) BY <1>2, <1>3, <1>4, FreshSound
<1>6. QED BY <1>2, <1>5 DEF x, y

\* Every outcome of Prepare keeps the invariant.
LEMMA PrepareSafe == ASSUME TypeInv, Safe, Prepare PROVE Safe'
<1>1. PICK id \in Jobs, f \in Flows, cert \in BOOLEAN :
        \/ PrepareUploadFails(id, f, cert)
        \/ PrepareClientSide(id, f, cert)
        \/ PrepareDies(id, f, cert)
        \/ \E full \in BOOLEAN :
             \/ PrepareRemote(id, f, cert, full)
             \/ PrepareBeginFails(id, f, cert, full)
  BY DEF Prepare
<1>t. UpstreamTypeOK /\ SeenOK /\ AuthzSound /\ EvidenceIsTrue BY DEF TypeInv, Safe
<1>n. NewState \in Nat BY BoundsAssumption DEF NewState, TypeInv, UpstreamTypeOK
<1>j. /\ Fail(NewJob(f)) \in JobType
      /\ \A c \in BOOLEAN, d \in {0, 1} : Fail(WithCert(NewJob(f), c, d)) \in JobType
  <2>1. \A c \in BOOLEAN, d \in {0, 1} : WithCert(NewJob(f), c, d) \in JobType
    BY NewJobType, WithCertType
  <2>2. QED BY <2>1, NewJobType, FailType
<1>2. CASE PrepareUploadFails(id, f, cert)
  <2>0. /\ \E e : signapi' = [signapi EXCEPT ![id].sess = e]
        /\ Save(id, Fail(NewJob(f))) /\ UNCHANGED <<authz, minted, seen, req, wrk>>
    BY <1>2 DEF PrepareUploadFails, PrepareStarts
  <2>1. SessionsGrow BY <2>0, <1>t, SessionsStep
  <2>2. Grows /\ AuthzSound' /\ EvidenceIsTrue' BY <2>0, <2>1, SessionsOnly
  <2>3. Sound(Fail(NewJob(f)), id, signapi', seen', authz')
    BY PreparedFailedSound
  <2>4. StoreSound' /\ IndexOwner' BY <2>0, <2>2, <2>3, <1>j, SaveSound
  <2>5. RequestsSound' /\ WorkersSound' BY <2>0, <2>2, KeptSound
  <2>6. QED BY <2>2, <2>4, <2>5 DEF Safe
<1>3. CASE PrepareClientSide(id, f, cert)
  <2> DEFINE y == Transition(WithCert(NewJob(f), cert, 1), "AWAITING_CLIENT_SIGNATURE")
  <2>0. UNCHANGED <<authz, minted, req, wrk>> BY <1>3 DEF PrepareClientSide, PrepareStarts
  <2>1. CASE \E ok \in BOOLEAN :
               /\ Uploaded(id, 1)
               /\ TrySave(id, y, ok)
               /\ seen' = [seen EXCEPT ![id].known = ok]
    <3>1. SessionsGrow BY <2>1, <1>t, SessionsStep
    <3>2. SeenGrows /\ \A i \in Jobs : seen'[i].applied = seen[i].applied BY <2>1, <1>t, SeenStep
    <3>3. AuthzGrows /\ AuthzSound' BY <2>0, <1>t, ShownGrows
    <3>4. Grows /\ EvidenceIsTrue' BY <3>1, <3>2, <3>3, <1>t, EvidenceKept DEF Grows
    <3>5. y \in JobType /\ Sound(y, id, signapi', seen', authz') BY ClientSideSound
    <3> HIDE DEF y
    <3>6. Save(id, y) BY <2>1, TrySaveIsSave
    <3>7. StoreSound' /\ IndexOwner' BY <3>4, <3>5, <3>6, SaveSound
    <3>8. RequestsSound' /\ WorkersSound' BY <2>0, <3>4, KeptSound
    <3>9. QED BY <3>3, <3>4, <3>7, <3>8 DEF Safe
  <2>2. ASSUME NEW d \in {0, 1}, NEW e \in {0, 1}, Uploaded(id, d), UNCHANGED seen,
               Save(id, Fail(WithCert(NewJob(f), cert, e)))
        PROVE  Safe'
    <3>1. SessionsGrow BY <2>2, <1>t, SessionsStep
    <3>2. Grows /\ AuthzSound' /\ EvidenceIsTrue' BY <2>0, <2>2, <3>1, SessionsOnly
    <3>3. Sound(Fail(WithCert(NewJob(f), cert, e)), id, signapi', seen', authz')
      BY PreparedFailedSound
    <3>4. StoreSound' /\ IndexOwner' BY <2>2, <3>2, <3>3, <1>j, SaveSound
    <3>5. RequestsSound' /\ WorkersSound' BY <2>0, <3>2, KeptSound
    <3>6. QED BY <3>2, <3>4, <3>5 DEF Safe
  <2>3. QED BY <1>3, <2>1, <2>2 DEF PrepareClientSide
<1>4. CASE PrepareDies(id, f, cert)
  <2>0. /\ signapi' = [signapi EXCEPT ![id].sess = "open"]
        /\ UNCHANGED <<store, index, authz, minted, seen, req, wrk>>
    BY <1>4 DEF PrepareDies, PrepareStarts
  <2>1. SessionsGrow BY <2>0, <1>t, SessionsStep
  <2>2. Grows /\ AuthzSound' /\ EvidenceIsTrue' BY <2>0, <2>1, SessionsOnly
  <2>3. QED BY <2>0, <2>2, KeptSound DEF Safe
<1>5. ASSUME NEW full \in BOOLEAN, PrepareRemote(id, f, cert, full) PROVE Safe'
  <2> DEFINE x == BeginAuthorization(f, cert, full, NewState)
  <2>0. PICK ok \in BOOLEAN :
          /\ Uploaded(id, x.digest)
          /\ Mint(id, x.leg, x.digest, ok)
          /\ TrySave(id, Transition(x, "AWAITING_AUTHORIZATION"), ok)
          /\ seen' = [seen EXCEPT ![id].known = ok]
    BY <1>5 DEF PrepareRemote
  <2>1. CanMint /\ Admitted(f, cert) /\ UNCHANGED <<req, wrk>>
    BY <1>5 DEF PrepareRemote, PrepareStarts
  <2>2. x \in JobType /\ x.leg \in Legs /\ x.digest \in Nat
    BY <1>n, BeginAuthorizationType
  <2>3. x.digest > 0 => x.leg = "sign" BY <1>n, BeginAuthorizationLeg
  <2>4. /\ AuthzGrows /\ AuthzSound' /\ NewState \in OAuthStates
        /\ authz'[NewState].job = id /\ authz'[NewState].digest = x.digest
    <3> HIDE DEF x
    <3>1. QED BY <2>0, <2>1, <2>2, <2>3, <1>t, MintGrows
  <2>5. Sound(Transition(x, "AWAITING_AUTHORIZATION"), id, signapi', seen', authz')
    BY <2>1, <2>4, <1>n, BeginAuthorizationSound
  <2> HIDE DEF x
  <2>6. SessionsGrow BY <2>0, <1>t, SessionsStep
  <2>7. SeenGrows /\ \A i \in Jobs : seen'[i].applied = seen[i].applied BY <2>0, <1>t, SeenStep
  <2>8. Grows /\ EvidenceIsTrue' BY <2>4, <2>6, <2>7, <1>t, EvidenceKept DEF Grows
  <2>9. Transition(x, "AWAITING_AUTHORIZATION") \in JobType BY <2>2, TransitionType DEF JobStates
  <2>10. StoreSound' /\ IndexOwner' BY <2>0, <2>5, <2>8, <2>9, TrySaveIsSave, SaveSound
  <2>11. RequestsSound' /\ WorkersSound' BY <2>1, <2>8, KeptSound
  <2>12. QED BY <2>4, <2>8, <2>10, <2>11 DEF Safe
<1>6. ASSUME NEW full \in BOOLEAN, PrepareBeginFails(id, f, cert, full) PROVE Safe'
  <2>0. Admitted(f, cert) /\ UNCHANGED <<req, wrk, seen>>
    BY <1>6 DEF PrepareBeginFails, PrepareStarts
  <2>1. CASE IsCSC(f)
    <3> DEFINE x == BeginAuthorization(f, cert, FALSE, NewState)
    <3>1. CanMint /\ Uploaded(id, 0) /\ Mint(id, x.leg, 0, FALSE) /\ Save(id, Fail(x))
      BY <1>6, <2>1 DEF PrepareBeginFails
    <3>2. x \in JobType /\ x.leg \in Legs BY <1>n, BeginAuthorizationType
    <3>3. /\ AuthzGrows /\ AuthzSound' /\ NewState \in OAuthStates
          /\ authz'[NewState].job = id /\ authz'[NewState].digest = 0
      <4> HIDE DEF x
      <4>1. 0 \in Nat /\ ~(0 > 0) /\ FALSE \in BOOLEAN OBVIOUS
      <4>2. QED BY <3>1, <3>2, <4>1, <1>t, MintGrows, Zenon
    <3>4. Sound(Fail(x), id, signapi', seen', authz')
      <4>1. x.digest = 0 BY <2>1, <1>n, BeginAuthorizationLeg
      <4>2. QED BY <2>0, <3>3, <4>1, <1>n, BeginAuthorizationSound
    <3> HIDE DEF x
    <3>5. SessionsGrow BY <3>1, <1>t, SessionsStep
    <3>6. SeenGrows /\ \A i \in Jobs : seen'[i].applied = seen[i].applied BY <2>0, <1>t, SeenStep
    <3>7. Grows /\ EvidenceIsTrue' BY <3>3, <3>5, <3>6, <1>t, EvidenceKept DEF Grows
    <3>8. StoreSound' /\ IndexOwner' BY <3>1, <3>2, <3>4, <3>7, FailType, SaveSound
    <3>9. RequestsSound' /\ WorkersSound' BY <2>0, <3>7, KeptSound
    <3>10. QED BY <3>3, <3>7, <3>8, <3>9 DEF Safe
  <2>2. CASE ~IsCSC(f)
    <3>1. PICK d \in {0, 1}, e \in {0, 1} :
            /\ Uploaded(id, d)
            /\ Save(id, Fail(WithCert(NewJob(f), TRUE, e)))
            /\ UNCHANGED <<authz, minted>>
      BY <1>6, <2>2 DEF PrepareBeginFails
    <3>2. SessionsGrow BY <3>1, <1>t, SessionsStep
    <3>3. Grows /\ AuthzSound' /\ EvidenceIsTrue' BY <2>0, <3>1, <3>2, SessionsOnly
    <3>4. Sound(Fail(WithCert(NewJob(f), TRUE, e)), id, signapi', seen', authz')
      BY PreparedFailedSound
    <3>5. StoreSound' /\ IndexOwner' BY <3>1, <3>3, <3>4, <1>j, SaveSound
    <3>6. RequestsSound' /\ WorkersSound' BY <2>0, <3>3, KeptSound
    <3>7. QED BY <3>3, <3>5, <3>6 DEF Safe
  <2>3. QED BY <2>1, <2>2
<1>7. QED BY <1>1, <1>2, <1>3, <1>4, <1>5, <1>6

\* What the person, the caller and failures do keeps the invariant.
LEMMA EnvironmentSafe == ASSUME TypeInv, Safe, Environment PROVE Safe'
<1>t. UpstreamTypeOK /\ StoreTypeOK /\ SeenOK /\ AuthzSound /\ EvidenceIsTrue BY DEF TypeInv, Safe
<1>x. \A i \in Jobs : Exists(i) => store[i] \in JobType /\ Sound(store[i], i, signapi, seen, authz)
  BY DEF TypeInv, StoreTypeOK, Exists, Safe, StoreSound
<1>1. CASE Prepare BY <1>1, PrepareSafe
<1>2. ASSUME NEW r \in Requests, NEW s \in OAuthStates, NEW declined \in BOOLEAN,
             CallbackArrives(r, s, declined)
      PROVE  Safe'
  <2> DEFINE q == [pc |-> "cbLoad", id |-> index[s], s |-> s, declined |-> declined, job |-> NoJob]
  <2>1. Grows /\ AuthzSound' /\ EvidenceIsTrue' BY <1>2, WorldKept DEF CallbackArrives
  <2>2. StoreSound' /\ WorkersSound' /\ IndexOwner'
    BY <1>2, <2>1, KeptSound DEF CallbackArrives, storeVars
  <2>3. authz'[s].job = index[s] BY <1>2, <2>1 DEF CallbackArrives, Safe, IndexOwner, Grows, AuthzGrows
  <2>4. req' = [req EXCEPT ![r] = q] BY <1>2 DEF CallbackArrives
  <2>5. q.pc = "cbLoad" /\ q.s = s /\ q.id = index[s] /\ q.job = NoJob OBVIOUS
  <2> HIDE DEF q
  <2>6. RequestsSound' BY <2>1, <2>3, <2>4, <2>5, RequestChanged DEF HoldingPCs
  <2>7. QED BY <2>1, <2>2, <2>6 DEF Safe
<1>3. ASSUME NEW r \in Requests, NEW id \in Jobs, SubmitSignatures(r, id) PROVE Safe'
  <2> DEFINE y == Transition([store[id] EXCEPT !.sig = TRUE], "FINALIZING")
  <2>0. /\ Exists(id) /\ IsClientSide(store[id].flow)
        /\ store[id].state = "AWAITING_CLIENT_SIGNATURE" /\ Goto(r, "submitSave", id, y)
        /\ seen' = [seen EXCEPT ![id].accepted = @ + 1]
        /\ UNCHANGED <<store, index, signapi, authz, minted, wrk>>
    BY <1>3 DEF SubmitSignatures, Called, storeVars, upVars
  <2>1. SeenGrows /\ \A i \in Jobs : seen'[i].applied = seen[i].applied BY <2>0, <1>t, SeenStep
  <2>2. SessionsGrow BY <2>0 DEF SessionsGrow
  <2>3. AuthzGrows /\ AuthzSound' BY <2>0, <1>t, ShownGrows
  <2>4. Grows /\ EvidenceIsTrue' BY <2>1, <2>2, <2>3, <1>t, EvidenceKept DEF Grows
  <2>5. seen'[id].accepted > 0 BY <2>0, <1>t DEF SeenOK, SeenType
  <2>6. Sound(store[id], id, signapi', seen', authz') BY <2>0, <2>4, <1>x, SoundGrows
  <2>7. Sound(y, id, signapi', seen', authz') BY <2>0, <2>5, <2>6, <1>x, SubmittedSound
  <2> HIDE DEF y
  <2>8. RequestsSound' BY <2>0, <2>4, <2>7, GotoSound DEF RequestPCs, HoldingPCs
  <2>9. StoreSound' /\ WorkersSound' /\ IndexOwner' BY <2>0, <2>4, KeptSound
  <2>10. QED BY <2>3, <2>4, <2>8, <2>9 DEF Safe
<1>4. ASSUME NEW r \in Requests, NEW id \in Jobs, Status(r, id) PROVE Safe'
  <2>1. Grows /\ AuthzSound' /\ EvidenceIsTrue' BY <1>4, WorldKept DEF Status
  <2>2. Sound(store[id], id, signapi', seen', authz')
    BY <1>4, <2>1, <1>x, SoundGrows DEF Status, Called
  <2>3. RequestsSound' BY <1>4, <2>1, <2>2, GotoSound DEF Status, RequestPCs, HoldingPCs
  <2>4. StoreSound' /\ WorkersSound' /\ IndexOwner'
    BY <1>4, <2>1, KeptSound DEF Status, storeVars
  <2>5. QED BY <2>1, <2>3, <2>4 DEF Safe
<1>5. ASSUME NEW r \in Requests, NEW id \in Jobs, DeleteJob(r, id) PROVE Safe'
  <2>1. Grows /\ AuthzSound' /\ EvidenceIsTrue' BY <1>5, WorldKept DEF DeleteJob
  <2>2. Sound(store[id], id, signapi', seen', authz')
    BY <1>5, <2>1, <1>x, SoundGrows DEF DeleteJob, Called
  <2>3. RequestsSound' BY <1>5, <2>1, <2>2, GotoSound DEF DeleteJob, RequestPCs, HoldingPCs
  <2>4. StoreSound' /\ WorkersSound' /\ IndexOwner'
    BY <1>5, <2>1, KeptSound DEF DeleteJob, storeVars
  <2>5. QED BY <2>1, <2>3, <2>4 DEF Safe
<1>6. ASSUME NEW s \in OAuthStates, PersonConfirms(s) PROVE Safe'
  <2>0. /\ UNCHANGED <<store, index, req, wrk, seen, signapi>> /\ Approve(s)
    BY <1>6 DEF PersonConfirms, Approve, storeVars
  <2>1. AuthzGrows /\ AuthzSound' BY <2>0, <1>t, ApproveGrows
  <2>2. Grows /\ EvidenceIsTrue' BY <2>0, <2>1, AuthzOnly
  <2>3. QED BY <2>0, <2>1, <2>2, KeptSound DEF Safe
<1>7. ASSUME NEW id \in Jobs, JobExpires(id) PROVE Safe'
  <2>0. /\ store' = [store EXCEPT ![id] = NoJob] /\ UNCHANGED <<index, upVars, req, wrk, seen>>
    BY <1>7 DEF JobExpires, Expire
  <2>1. Grows /\ AuthzSound' /\ EvidenceIsTrue' BY <2>0, WorldKept
  <2>2. StoreSound' BY <2>0, <2>1, <1>t, SoundGrows DEF Safe, StoreSound, StoreTypeOK
  <2>3. RequestsSound' /\ WorkersSound' /\ IndexOwner' BY <2>0, <2>1, KeptSound
  <2>4. QED BY <2>1, <2>2, <2>3 DEF Safe
<1>8. ASSUME NEW r \in Requests, RequestDies(r) PROVE Safe'
  <2>1. Grows /\ AuthzSound' /\ EvidenceIsTrue' BY <1>8, WorldKept DEF RequestDies
  <2>2. QED BY <1>8, <2>1, KeptSound, RespondSound DEF RequestDies, Safe
<1>9. ASSUME NEW w \in Workers, WorkerDies(w) PROVE Safe'
  <2>1. Grows /\ AuthzSound' /\ EvidenceIsTrue' BY <1>9, WorldKept DEF WorkerDies
  <2>2. QED BY <1>9, <2>1, KeptSound, ReleaseSound DEF WorkerDies, Safe
<1>10. QED BY <1>1, <1>2, <1>3, <1>4, <1>5, <1>6, <1>7, <1>8, <1>9 DEF Environment

\* Every step keeps the invariant.
LEMMA SafeStep == TypeInv /\ Safe /\ [Next]_vars => Safe'
<1> SUFFICES ASSUME TypeInv, Safe, [Next]_vars PROVE Safe' OBVIOUS
<1>1. CASE UNCHANGED vars
  <2>1. Grows /\ AuthzSound' /\ EvidenceIsTrue' BY <1>1, WorldKept DEF vars
  <2>2. QED BY <1>1, <2>1, KeptSound DEF vars, storeVars, Safe
<1>2. ASSUME NEW id \in Jobs, CloseStep(id) PROVE Safe'
  <2>0. /\ \E e : signapi' = [signapi EXCEPT ![id].sess = e]
        /\ UNCHANGED <<authz, minted, store, index, req, wrk, seen>>
    BY <1>2 DEF CloseStep, CloseSession, storeVars
  <2>1. SessionsGrow BY <2>0, SessionsStep DEF TypeInv
  <2>2. Grows /\ AuthzSound' /\ EvidenceIsTrue' BY <2>0, <2>1, SessionsOnly
  <2>3. QED BY <2>0, <2>2, KeptSound DEF Safe
<1>3. QED BY <1>1, <1>2, EnvironmentSafe, RequestStepSafe, WorkerStepSafe DEF Next

----------------------------------------------------------------------------
(* The theorems.                                                           *)

\* The invariant holds in every reachable state, with the types.
LEMMA AlwaysSafe == Spec => [](TypeInv /\ Safe)
<1>1. Init => TypeInv /\ Safe BY TypeInit, SafeInit
<1>2. TypeInv /\ Safe /\ [Next]_vars => (TypeInv /\ Safe)' BY TypeStep, SafeStep
<1>3. QED BY <1>1, <1>2, PTL DEF Spec

\* Every copy of a job, saved or held, is sound.
LEMMA CopiesSound ==
    ASSUME TypeInv, Safe, NEW id \in Jobs, NEW x \in Copies(id)
    PROVE  Sound(x, id, signapi, seen, authz)
<1>1. CASE x = store[id] BY <1>1 DEF Copies, Safe, StoreSound
<1>2. ASSUME NEW r \in Requests, x = req[r].job, req[r].id = id PROVE Sound(x, id, signapi, seen, authz)
  BY <1>2 DEF Copies, Safe, RequestsSound
<1>3. ASSUME NEW w \in Workers, x = wrk[w].job, wrk[w].id = id PROVE Sound(x, id, signapi, seen, authz)
  BY <1>3 DEF Copies, Safe, WorkersSound
<1>4. QED BY <1>1, <1>2, <1>3 DEF Copies

\* No copy of a job claims READY documents that SignAPI has not finalized: no race of
\* callbacks, submits, workers, deletes, crashes and Redis errors makes one.
THEOREM ReadyJobsAreFinalized == Spec => []ReadyIsFinalized
<1>1. TypeInv /\ Safe => ReadyIsFinalized
  BY CopiesSound DEF ReadyIsFinalized, Sound, Consistent, Backed
<1>2. QED BY <1>1, AlwaysSafe, PTL

\* The audit trail holds signing evidence only for jobs that were finalized after an
\* accepted authorization or submission.
THEOREM EvidenceIsAlwaysTrue == Spec => []EvidenceIsTrue
<1>1. Safe => EvidenceIsTrue BY DEF Safe
<1>2. QED BY <1>1, AlwaysSafe, PTL

\* A remotely signed job is finalized only with digests the person confirmed in a
\* signature authorization of that very job.
THEOREM FinalizedIsAlwaysAuthorized == Spec => []FinalizedIsAuthorized
<1>1. TypeInv /\ Safe => FinalizedIsAuthorized
  <2> SUFFICES ASSUME TypeInv, Safe, NEW w \in Workers, wrk[w].pc = "finalize",
                      ~IsClientSide(wrk[w].job.flow)
               PROVE  Confirmed(wrk[w].id, wrk[w].job.digest, authz)
    BY DEF FinalizedIsAuthorized, Confirmed
  <2>1. QED BY DEF Safe, WorkersSound, Sound, Backed
<1>2. QED BY <1>1, AlwaysSafe, PTL

\* A job that can still be signed asks the person for exactly the digests it holds.
THEOREM AlwaysAsksForItsDigests == Spec => []AsksForItsDigests
<1>1. TypeInv /\ Safe => AsksForItsDigests
  BY CopiesSound DEF AsksForItsDigests, Sound, Backed
<1>2. QED BY <1>1, AlwaysSafe, PTL

\* signHash is called only with a token bound to exactly the digests being signed.
THEOREM SignHashAlwaysBound == Spec => []SignHashBound
<1>1. Safe => SignHashBound BY DEF Safe, WorkersSound, Sound, Consistent, SignHashBound
<1>2. QED BY <1>1, AlwaysSafe, PTL

\* A remote job past its first leg has a certificate to request the timestamp with.
THEOREM RemoteAlwaysTimestampable == Spec => []RemoteTimestampable
<1>1. TypeInv /\ Safe => RemoteTimestampable
  BY CopiesSound DEF RemoteTimestampable, Sound, Stampable
<1>2. QED BY <1>1, AlwaysSafe, PTL

\* An OAuth state resolves to no other job than the one it was minted for.
THEOREM StatesKeepTheirJob == Spec => []IndexOwner
<1>1. Safe => IndexOwner BY DEF Safe
<1>2. QED BY <1>1, AlwaysSafe, PTL
=============================================================================
