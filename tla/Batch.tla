------------------------------- MODULE Batch -------------------------------
(***************************************************************************)
(* One job, document by document: which digest, which signature value and  *)
(* which SignAPI session belong together, on the way through Prepare, the  *)
(* identity selection, CalculateDigest, the four ways to sign and          *)
(* finalize; next to it one validate or archive request with a session of  *)
(* its own (signing/orchestrator.go, flows.go, csc.go, operations.go,      *)
(* ecdsa.go).                                                              *)
(*                                                                         *)
(* The job's own steps follow one another here, and Redis is in order:     *)
(* their races and Redis' errors are Signer's.  Any upstream call may      *)
(* fail.                                                                   *)
(***************************************************************************)
EXTENDS Job, Identities, FiniteSets

CONSTANTS
    DocumentIds,    \* the ids a caller may give its documents
    MaxDocuments,   \* bound: documents in a batch
    IdentityLists,  \* the answers of the platform's users/me
    MaxSessions     \* bound: SignAPI sessions, which bounds the other requests

ASSUME BatchAssumption ==
    /\ MaxDocuments \in Nat \ {0} /\ MaxSessions \in Nat
    /\ IdentityLists \subseteq Seq(IdentityType)

VARIABLES
    flow, st, leg,  \* the job: its flow, state and pending leg
    cert,           \* it carries an authentication certificate
    docs,           \* its documents
    algo,           \* SignAlgo: the digest algorithm its signing is asked for
    form,           \* the form CalculateDigest was asked for
    ids, chosen,    \* while identities are selected: the list, and the choice from it
    worked,         \* the job reached the worker
    open,           \* the sessions that are open at SignAPI
    used,           \* the sessions started so far
    closing,        \* handed to closeLater, and not closed yet
    left,           \* closes that failed
    applied,        \* what FinalizeSigning got: session -> the digest that was signed
    op              \* the validate or archive request, and the session it works on

jobVars  == <<flow, st, leg, cert, docs, algo, form, ids, chosen, worked>>
sessVars == <<open, used, closing, left>>
vars     == <<jobVars, sessVars, applied, op>>

Sessions == 1..MaxSessions

\* A session's digest is the session's number, and 0 stands for none: SignAPI's digests
\* of different sessions differ.  Its algorithm follows from what was registered.
Contents == {"file", "hash"}
DigestAlgo(content) == IF content = "file" THEN "sha384" ELSE "sha256"

\* pdf: PAdES; create and parallel: the two operations on a container.
Forms == {"pdf", "create", "parallel"}

\* How a signature value arrives: DER, possibly as long as a raw value can be; raw r||s,
\* which may start like DER but does not parse; raw with a zero; neither; no value.
Encodings == {"der", "derOfWidth", "raw", "rawZero", "bad"}
NoValue   == [of |-> 0, enc |-> "none"]
Values    == [of : Sessions \cup {0}, enc : Encodings \cup {"none"}]

InputType    == [id : DocumentIds, content : Contents, form : Forms]
DocumentType == [in : InputType, session : Sessions \cup {0}, digest : Sessions \cup {0},
                 value : Values, ready : BOOLEAN]

TypeOK ==
    /\ flow \in Flows
    /\ st \in JobStates \cup {"none", "UPLOADED", "DELETED"}
    /\ leg \in Legs \cup {"selected"}
    /\ cert \in BOOLEAN /\ worked \in BOOLEAN
    /\ docs \in Seq(DocumentType) /\ Len(docs) <= MaxDocuments
    /\ algo \in {"", "sha256", "sha384"}
    /\ form \in Forms \cup {""}
    /\ ids \in IdentityLists \cup {<<>>}
    /\ chosen \in [sign : Nat, auth : Nat, sealID : Nat]
    /\ open \subseteq used /\ closing \subseteq used /\ left \subseteq used
    /\ used \subseteq Sessions
    /\ \A s \in DOMAIN applied : s \in Sessions /\ applied[s] \in Sessions
    /\ op \in [kind : {"none", "validate", "archive", "archiveJob"},
               pc : {"upload", "call", "download", "done"}, session : Sessions \cup {0}]

NoChoice == [sign |-> 0, auth |-> 0, sealID |-> 0]
NoOp     == [kind |-> "none", pc |-> "done", session |-> 0]

Init ==
    /\ flow \in Flows
    /\ st = "none"
    /\ leg = "none"
    /\ cert = FALSE
    /\ docs = <<>>
    /\ algo = "" /\ form = ""
    /\ ids = <<>> /\ chosen = NoChoice
    /\ worked = FALSE
    /\ open = {} /\ used = {} /\ closing = {} /\ left = {}
    /\ applied = <<>>
    /\ op = NoOp

----------------------------------------------------------------------------
(* Documents and sessions.                                                 *)

\* validateBatch: eidScan takes a single document, and PAdES is not mixed with containers.
ValidBatch(in, f) ==
    /\ Len(in) > 0
    /\ Len(in) > 1 => ~DevicePush(f)
    /\ \A i \in DOMAIN in : in[i].form = "pdf" <=> in[1].form = "pdf"

JobSessions == {docs[i].session : i \in DOMAIN docs} \ {0}

\* StartSession: a session nobody has, or an error.
Fresh(s) == s \in Sessions \ used /\ \A q \in Sessions \ used : s <= q

Started(s) == used' = used \cup {s} /\ open' = open \cup {s}

\* closeLater: the closes of these sessions go to the background.
closeLater(S) == closing' = closing \cup S

\* closeSession: best effort, one session at a time.
closeSession ==
    /\ \E s \in closing :
         /\ closing' = closing \ {s}
         /\ \/ open' = open \ {s} /\ UNCHANGED left
            \/ left' = left \cup {s} /\ UNCHANGED open
    /\ UNCHANGED <<jobVars, used, applied, op>>

Failed(S) == st' = "FAILED" /\ closeLater(S)

----------------------------------------------------------------------------
(* Prepare.                                                                *)

NewDocument(in) == [in |-> in, session |-> 0, digest |-> 0, value |-> NoValue, ready |-> FALSE]

\* cert: the request carries an authentication certificate.  For a TrustedX flow it counts
\* only next to the signing identity (BeginSupplied); BeginAuthorization drops it.
Prepare ==
    /\ st = "none"
    /\ \E n \in 1..MaxDocuments : \E in \in [1..n -> InputType], c \in BOOLEAN :
         /\ ValidBatch(in, flow)
         /\ Admitted(flow, c)
         /\ docs' = [i \in 1..n |-> NewDocument(in[i])]
         /\ cert' = c
    /\ st' = "PREPARING"
    /\ UNCHANGED <<flow, leg, algo, form, ids, chosen, worked, sessVars, applied, op>>

\* createSessionsAndUpload, one document after the other: an error ends Prepare, and
\* the sessions so far stay open.
Upload ==
    /\ st = "PREPARING"
    /\ \E i \in DOMAIN docs :
         /\ docs[i].session = 0 /\ \A k \in 1..(i - 1) : docs[k].session # 0
         /\ \/ \E s \in Sessions :
                 /\ Fresh(s) /\ Started(s)
                 /\ docs' = [docs EXCEPT ![i].session = s]
                 /\ st' \in {IF i = Len(docs) THEN "UPLOADED" ELSE st, "FAILED"}
            \/ st' = "FAILED" /\ UNCHANGED <<docs, open, used>>
    /\ UNCHANGED <<flow, leg, cert, algo, form, ids, chosen, worked, closing, left, applied, op>>

\* Mutant of DigestOf: the results are taken in the order of the documents.
DigestByPosition(i, results) == IF i \in DOMAIN results THEN results[i] ELSE 0

\* bySession: the result that names the document's session.
DigestOf(i, results) ==
    IF \E k \in DOMAIN results : results[k] = docs[i].session THEN docs[i].session ELSE 0

\* calculateDigests: an error, or results that name the sessions in any order and may
\* miss some; the documents before the first one missed keep what they got.
calculateDigests(succeed) ==
    /\ form' = docs[1].in.form
    /\ \/ st' = "FAILED" /\ UNCHANGED <<leg, docs, algo, ids, chosen>>
       \/ \E k \in 0..Len(docs) : \E results \in [1..k -> JobSessions] :
            LET got(i) == \A m \in 1..i : DigestOf(m, results) # 0 IN
            /\ docs' = [i \in DOMAIN docs |->
                          [docs[i] EXCEPT !.digest = IF got(i) THEN DigestOf(i, results) ELSE @]]
            /\ algo' = IF got(1) THEN DigestAlgo(docs[1].in.content) ELSE algo
            /\ ids' = <<>> /\ chosen' = NoChoice
            /\ IF got(Len(docs)) THEN succeed ELSE st' = "FAILED" /\ UNCHANGED leg

AwaitAuthorization(l) == st' = "AWAITING_AUTHORIZATION" /\ leg' = l

\* Prepare for a card: the digests are calculated and handed back.
PrepareCard ==
    /\ st = "UPLOADED" /\ IsClientSide(flow)
    /\ calculateDigests(st' = "AWAITING_CLIENT_SIGNATURE" /\ UNCHANGED leg)
    /\ UNCHANGED <<flow, cert, worked, sessVars, applied, op>>

\* BeginAuthorization: with the person's identity supplied, straight to the signature
\* authorization; otherwise to the first leg.
BeginSupplied ==
    /\ st = "UPLOADED" /\ flow \in TxFlows /\ cert
    /\ calculateDigests(AwaitAuthorization("sign"))
    /\ UNCHANGED <<flow, cert, worked, sessVars, applied, op>>

BeginAuthorization ==
    /\ st = "UPLOADED" /\ ~IsClientSide(flow)
    /\ AwaitAuthorization(FirstLeg(flow)) \/ (st' = "FAILED" /\ UNCHANGED leg)
    /\ cert' = (cert /\ IsCSC(flow))
    /\ UNCHANGED <<flow, docs, algo, form, ids, chosen, worked, sessVars, applied, op>>

----------------------------------------------------------------------------
(* The callbacks.                                                          *)

\* The person declines, or a call of the leg fails: the sessions stay open.
CallbackFails ==
    /\ st = "AWAITING_AUTHORIZATION"
    /\ st' = "FAILED"
    /\ ids' = <<>> /\ chosen' = NoChoice
    /\ UNCHANGED <<flow, leg, cert, docs, algo, form, worked, sessVars, applied, op>>

SelectSigning(list, sealID) ==
    CASE flow = "eidScan"              -> SelectEIDScanSigning(list)
      [] flow = "eparakstsMobileEseal" -> SelectSealSigning(list, sealID)
      [] flow = "eparakstsMobile"      -> SelectMobileSigning(list)

\* advanceProfile: the identities, and the certificates of the two that were chosen.
SelectIdentities ==
    /\ st = "AWAITING_AUTHORIZATION" /\ leg = "profile"
    /\ \E list \in IdentityLists : \E sealID \in 0..(Len(list) + 1) :
         LET sign == SelectSigning(list, sealID)
             auth == SelectAuthIdentity(list, flow = "eidScan") IN
         /\ sealID # 0 => flow = "eparakstsMobileEseal"
         /\ sign > 0 /\ auth > 0
         /\ ids' = list
         /\ chosen' = [sign |-> sign, auth |-> auth, sealID |-> sealID]
    /\ leg' = "selected"
    /\ cert' = TRUE
    /\ UNCHANGED <<flow, st, docs, algo, form, worked, sessVars, applied, op>>

AdvanceProfile ==
    /\ st = "AWAITING_AUTHORIZATION" /\ leg = "selected"
    /\ calculateDigests(AwaitAuthorization("sign"))
    /\ UNCHANGED <<flow, cert, worked, sessVars, applied, op>>

\* Mutant of OneAlgorithm: the first digest names the algorithm of the batch.
FirstAlgorithm == docs[1].digest \in Sessions \cup {0}

\* digestAlgorithmOID: a batch of digests of different lengths is refused.
OneAlgorithm ==
    \A i \in DOMAIN docs : DigestAlgo(docs[i].in.content) = DigestAlgo(docs[1].in.content)

\* advanceCredential: the digests with the new credential's certificate, and an
\* authorization for exactly them.
AdvanceCredential ==
    /\ st = "AWAITING_AUTHORIZATION" /\ leg = "credential"
    /\ calculateDigests(\/ OneAlgorithm /\ AwaitAuthorization("sign")
                        \/ st' = "FAILED" /\ UNCHANGED leg)
    /\ UNCHANGED <<flow, cert, worked, sessVars, applied, op>>

\* The signature authorization is complete: the job goes to the worker.
AdvanceSign ==
    /\ st = "AWAITING_AUTHORIZATION" /\ leg = "sign"
    /\ st' = "SIGNING" /\ leg' = "none" /\ worked' = TRUE
    /\ UNCHANGED <<flow, cert, docs, algo, form, ids, chosen, sessVars, applied, op>>

----------------------------------------------------------------------------
(* The signature values.                                                   *)

\* Documents 1..n of the batch get these values, the others keep theirs.
WithValues(n, vals) ==
    docs' = [i \in DOMAIN docs |-> IF i <= n THEN [docs[i] EXCEPT !.value = vals[i]] ELSE docs[i]]

\* signServerBatch: the provider signs in the order asked; only the count is compared.
\* signDevice: its single document.
signServer ==
    /\ st = "SIGNING" /\ flow \in TxFlows
    /\ \/ \E enc \in [DOMAIN docs -> Encodings] :
            /\ WithValues(Len(docs), [i \in DOMAIN docs |-> [of |-> docs[i].digest, enc |-> enc[i]]])
            /\ st' = "FINALIZING" /\ UNCHANGED closing
       \/ Failed(JobSessions) /\ UNCHANGED docs
    /\ UNCHANGED <<flow, leg, cert, algo, form, ids, chosen, worked, open, used, left, applied, op>>

\* csc.VerifySignature against the credential's certificate: a digest that does not have
\* the length of the algorithm asked for has no signature that verifies.
Verified(value, i) ==
    /\ DigestAlgo(docs[i].in.content) = algo
    /\ value.of = docs[i].digest /\ value.enc \notin {"bad", "rawZero"}

\* cscFlow.Sign: signHash may answer any signatures; each is verified before it is kept,
\* and the first that is missing or wrong ends the signing.
signHash ==
    /\ st = "SIGNING" /\ IsCSC(flow)
    /\ \/ \E k \in 0..Len(docs) : \E out \in [1..k -> [of : JobSessions, enc : Encodings]] :
            LET kept(n) == n <= k /\ \A i \in 1..n : Verified(out[i], i) IN
            \E n \in 0..Len(docs) :
              /\ kept(n) /\ ~kept(n + 1)
              /\ WithValues(n, out)
              /\ IF n = Len(docs) THEN st' = "FINALIZING" /\ UNCHANGED closing
                                  ELSE Failed(JobSessions)
       \/ Failed(JobSessions) /\ UNCHANGED docs
    /\ UNCHANGED <<flow, leg, cert, algo, form, ids, chosen, worked, open, used, left, applied, op>>

\* The signatures a caller submits: for some of the digests it was handed, by the id
\* each came with, in any order and perhaps twice; 0 is an id the job does not have.
Submission == [of : 0..Len(docs), enc : Encodings]

IdOf(s) == docs[s.of].in.id

\* Job.Doc: the first document with that id.
IsDoc(i, id) == docs[i].in.id = id /\ \A k \in 1..(i - 1) : docs[k].in.id # id

\* Mutant of Complete: the signatures are counted.
CountMatches(sigs) == Len(sigs) = Len(docs)

\* want is empty at the end: every id was named.
Complete(sigs) == \A i \in DOMAIN docs : \E k \in DOMAIN sigs : IdOf(sigs[k]) = docs[i].in.id

\* SubmitSignatures: a later value for the same id replaces the earlier one.  A refused
\* submission changes nothing.
SubmitSignatures ==
    /\ st = "AWAITING_CLIENT_SIGNATURE"
    /\ \E n \in 0..MaxDocuments : \E sigs \in [1..n -> Submission] :
         /\ \A k \in 1..n : sigs[k].of # 0
         /\ Complete(sigs)
         /\ docs' = [i \in DOMAIN docs |->
              LET mine == {k \in 1..n : IsDoc(i, IdOf(sigs[k]))} IN
              IF mine = {} THEN docs[i]
              ELSE LET last == sigs[Max(mine)] IN
                   [docs[i] EXCEPT !.value = [of |-> docs[last.of].digest, enc |-> last.enc]]]
    /\ st' = "FINALIZING"
    /\ worked' = TRUE
    /\ UNCHANGED <<flow, leg, cert, algo, form, ids, chosen, sessVars, applied, op>>

----------------------------------------------------------------------------
(* finalize and what follows.                                              *)

ParsesAsDER(enc) == enc \in {"der", "derOfWidth"}
P1363Width(enc)  == enc \in {"derOfWidth", "raw", "rawZero"}

\* The halves of a value as r and s: the digest they sign, or 0 if they are no signature.
Split(value) == IF value.enc = "raw" THEN value.of ELSE 0

\* Mutant of normalizeToDER: the width is looked at first.
WidthFirst(value) ==
    IF P1363Width(value.enc) /\ value.enc # "rawZero" THEN {Split(value)}
    ELSE IF ParsesAsDER(value.enc) THEN {value.of} ELSE {}

\* The signature to hand on, by the digest it is for, or nothing: DER is recognized
\* first, and only then a raw value by its width.
normalizeToDER(value) ==
    IF ParsesAsDER(value.enc) THEN {value.of}
    ELSE IF P1363Width(value.enc) /\ value.enc # "rawZero" THEN {Split(value)} ELSE {}

Normalized(i) == normalizeToDER(docs[i].value)

\* Mutant of FinalizeFails: the sessions of a job that cannot be finalized stay open.
FinalizeFailsOnly ==
    /\ st = "FINALIZING"
    /\ st' = "FAILED"
    /\ UNCHANGED <<flow, leg, cert, docs, algo, form, ids, chosen, worked, sessVars, applied, op>>

\* No certificate for the timestamp, a value that is no signature, or SignAPI refuses.
FinalizeFails ==
    /\ st = "FINALIZING"
    /\ Failed(JobSessions)
    /\ UNCHANGED <<flow, leg, cert, docs, algo, form, ids, chosen, worked, open, used, left, applied, op>>

\* One FinalizeSigning for all: each session with its document's value.
Finalize ==
    /\ st = "FINALIZING"
    /\ authCertFor(flow, cert)
    /\ \A i \in DOMAIN docs : Normalized(i) # {}
    /\ applied' = [s \in JobSessions |->
                     LET i == CHOOSE k \in DOMAIN docs : docs[k].session = s
                     IN CHOOSE d \in Normalized(i) : TRUE]
    /\ docs' = [i \in DOMAIN docs |-> [docs[i] EXCEPT !.value = NoValue, !.ready = TRUE]]
    /\ st' = "READY"
    /\ UNCHANGED <<flow, leg, cert, algo, form, ids, chosen, worked, sessVars, op>>

\* DeleteJob, while no worker has the job.
DeleteJob ==
    /\ st \in {"AWAITING_AUTHORIZATION", "AWAITING_CLIENT_SIGNATURE", "READY", "FAILED"}
    /\ leg # "selected"
    /\ closeLater(JobSessions)
    /\ st' = "DELETED"
    /\ leg' = "none" /\ cert' = FALSE /\ docs' = <<>> /\ algo' = "" /\ form' = "" /\ worked' = FALSE
    /\ UNCHANGED <<flow, ids, chosen, open, used, left, applied, op>>

----------------------------------------------------------------------------
(* Validate, ArchiveUpload and ArchiveJobDocument.                         *)

StartOperation ==
    /\ op.kind = "none"
    /\ \E s \in Sessions, kind \in {"validate", "archive"} :
         /\ Fresh(s) /\ Started(s)
         /\ op' = [kind |-> kind, pc |-> "upload", session |-> s]
    /\ UNCHANGED <<jobVars, closing, left, applied>>

\* An archive timestamp for a READY document, in the job's own session.
ArchiveJobDocument ==
    /\ op.kind = "none"
    /\ authCertFor(flow, cert)
    /\ \E i \in DOMAIN docs :
         /\ IsDoc(i, docs[i].in.id) /\ docs[i].ready
         /\ op' = [kind |-> "archiveJob", pc |-> "call", session |-> docs[i].session]
    /\ UNCHANGED <<jobVars, sessVars, applied>>

\* The next call of the operation: an archive request also downloads the result.
OperationCall ==
    /\ \/ op.pc = "upload" /\ op' = [op EXCEPT !.pc = "call"]
       \/ op.pc = "call" /\ op.kind # "validate" /\ op' = [op EXCEPT !.pc = "download"]
    /\ UNCHANGED <<jobVars, sessVars, applied>>

\* Mutant of OperationReturns: the job's session is closed like one's own.
ClosesAnySession ==
    /\ op.pc # "done"
    /\ closeLater({op.session})
    /\ op' = [op EXCEPT !.pc = "done"]
    /\ UNCHANGED <<jobVars, open, used, left, applied>>

\* It returns, after its last call or because one failed; the deferred closeLater runs
\* for a session of its own.
OperationReturns ==
    /\ op.pc # "done"
    /\ closeLater(IF op.kind = "archiveJob" THEN {} ELSE {op.session})
    /\ op' = [op EXCEPT !.pc = "done"]
    /\ UNCHANGED <<jobVars, open, used, left, applied>>

----------------------------------------------------------------------------
Next ==
    \/ Prepare \/ Upload \/ PrepareCard \/ BeginSupplied \/ BeginAuthorization
    \/ CallbackFails \/ SelectIdentities \/ AdvanceProfile \/ AdvanceCredential \/ AdvanceSign
    \/ signServer \/ signHash \/ SubmitSignatures \/ Finalize \/ FinalizeFails \/ DeleteJob
    \/ StartOperation \/ ArchiveJobDocument \/ OperationCall \/ OperationReturns \/ closeSession

Spec == Init /\ [][Next]_vars

----------------------------------------------------------------------------
(* Properties.                                                             *)

\* Every signature FinalizeSigning applies to a session is one over that session's
\* digest, whatever order CalculateDigest and signHash answer in, however a signature is
\* encoded, and when documents share an id or are submitted twice.
RightSignature == \A s \in DOMAIN applied : applied[s] = s

Distinct == \A i, k \in DOMAIN docs : docs[i].in.id = docs[k].in.id => i = k

\* A submission that SubmitSignatures accepts leaves nothing for finalize to miss: with
\* distinct ids every document has a value, whatever was repeated.
AcceptedIsComplete ==
    IsClientSide(flow) /\ st = "FINALIZING" /\ Distinct =>
        \A i \in DOMAIN docs : docs[i].value # NoValue

\* Nobody is asked to confirm a signing that cannot end well: from the signature
\* authorization to the signing every document has its own session's digest, calculated as
\* PAdES exactly if it asked for that, the session is open, the timestamp has a certificate
\* to be asked for with, and a signature of a CSC job can pass its verification.
NeverAskedInVain ==
    (st = "AWAITING_AUTHORIZATION" /\ leg = "sign") \/ st = "SIGNING" =>
        /\ authCertFor(flow, cert)
        /\ \A i \in DOMAIN docs :
             /\ docs[i].digest = docs[i].session
             /\ form = "pdf" <=> docs[i].in.form = "pdf"
             /\ docs[i].session \in open \ (closing \cup left)
             /\ IsCSC(flow) => Verified([of |-> docs[i].digest, enc |-> "der"], i)

\* An open session belongs to a request that still runs, to a job that can be deleted and
\* did not fail in the worker, or is on its way to be closed.
SessionsOwned ==
    \A s \in open :
        \/ s \in closing \cup left
        \/ op.pc # "done" /\ op.kind # "archiveJob" /\ s = op.session
        \/ s \in JobSessions /\ (st = "FAILED" => ~worked)

\* The containers of a READY job can be fetched until the job is deleted, again after an
\* archive timestamp and next to other requests: neither these nor the closes that still
\* wait in the background close its sessions.
ReadyKeepsSessions == st = "READY" => JobSessions \subseteq open \ (closing \cup left)

\* The identities of a signing: a seal is never guessed, the signing identity is enabled
\* or a described card, and the timestamp is asked for with an identity of the flow's own
\* kind whenever the person has one.
IdentitiesFit ==
    leg = "selected" /\ ids # <<>> =>
        /\ flow = "eparakstsMobileEseal" =>
             IF chosen.sealID # 0 THEN chosen.sign = chosen.sealID
             ELSE \A i \in DOMAIN ids : IsSeal(ids[i]) => i = chosen.sign
        /\ ids[chosen.sign].enabled \/ (flow = "eidScan" /\ ids[chosen.sign].desc = "eid:sign")
        /\ (\E i \in DOMAIN ids : IsPrimaryAuth(ids[i], flow = "eidScan")) =>
             IsPrimaryAuth(ids[chosen.auth], flow = "eidScan")
=============================================================================
