---------------------------- MODULE BatchProofs ----------------------------
(***************************************************************************)
(* Batch for any number of documents, sessions and identities.  The batch  *)
(* is followed from the sessions to the signatures: no two documents share *)
(* a session, a document's digest is its own session's, and what carries a *)
(* signature value into finalize carries its own, or finalize is refused.  *)
(***************************************************************************)
EXTENDS Batch, TLAPS, FiniteSetTheorems

----------------------------------------------------------------------------
(* The inductive invariant.                                                *)

\* What the pending leg and the state say of the flow.
LegsFit ==
    /\ leg \in {"profile", "selected"} => flow \in TxFlows
    /\ st = "AWAITING_CLIENT_SIGNATURE" => IsClientSide(flow)
    /\ st = "none" => leg = "none" /\ docs = <<>>
    /\ st = "DELETED" => leg = "none" /\ docs = <<>>

\* A job that was admitted has documents, and a batch in which PAdES is not mixed.
BatchKept ==
    /\ st \notin {"none", "DELETED"} => docs # <<>>
    /\ \A i \in DOMAIN docs : docs[i].in.form = "pdf" <=> docs[1].in.form = "pdf"

\* The certificate of the timestamp: admission asks a CSC request for it, and no job gets
\* past the first leg without one.
CertKept ==
    /\ IsCSC(flow) /\ st \notin {"none", "DELETED"} => authCertFor(flow, cert)
    /\ (st = "AWAITING_AUTHORIZATION" /\ leg \in {"credential", "selected", "sign"})
         \/ st = "SIGNING" => authCertFor(flow, cert)

\* Every document has a session to itself, and after the upload one it is.
SessionsApart ==
    /\ \A i, k \in DOMAIN docs : docs[i].session = docs[k].session /\ docs[i].session # 0 => i = k
    /\ JobSessions \subseteq used
    /\ st \notin {"none", "PREPARING", "FAILED", "DELETED"} =>
         \A i \in DOMAIN docs : docs[i].session # 0

\* A document's digest is its own session's, calculated in the first document's form.
DigestsOwn ==
    /\ \A i \in DOMAIN docs : docs[i].digest \in {0, docs[i].session}
    /\ \A i \in DOMAIN docs : docs[i].digest # 0 => form = docs[1].in.form
    /\ (leg = "sign" /\ st = "AWAITING_AUTHORIZATION")
         \/ st \in {"AWAITING_CLIENT_SIGNATURE", "SIGNING", "FINALIZING"} =>
         \A i \in DOMAIN docs : docs[i].digest = docs[i].session

\* Signature values exist only for finalize: a document of the batch is left without one,
\* or every document has one over its own digest.
ValuesOwn ==
    /\ st \notin {"FINALIZING", "FAILED"} => \A i \in DOMAIN docs : docs[i].value = NoValue
    /\ st = "FINALIZING" =>
         \/ \E i \in DOMAIN docs : docs[i].value = NoValue
         \/ \A i \in DOMAIN docs : docs[i].value.of = docs[i].digest

\* A request that works on a session of its own shares it with no document.
OperationApart ==
    /\ op.kind = "none" => op.pc = "done"
    /\ op.pc # "done" /\ op.kind # "archiveJob" => op.session \in used \ JobSessions

\* The sessions of a job stay open until it fails or is deleted, and only the worker
\* closes those of a job that fails.
SessionsKept ==
    /\ worked => st \in {"SIGNING", "FINALIZING", "READY", "FAILED"}
    /\ st # "FAILED" => JobSessions \subseteq open \ (closing \cup left)

BatchInv ==
    /\ TypeOK /\ LegsFit /\ BatchKept /\ CertKept /\ SessionsApart /\ DigestsOwn /\ ValuesOwn
    /\ OperationApart /\ SessionsKept

\* A CSC job is authorized, and signed, under the algorithm of every digest.
AlgorithmFits ==
    IsCSC(flow) /\ (leg = "sign" \/ st \in {"SIGNING", "FINALIZING", "READY"}) =>
        \A i \in DOMAIN docs : DigestAlgo(docs[i].in.content) = algo

----------------------------------------------------------------------------
(* Facts about the operators.                                              *)

\* A set of naturals that is not empty has a least element: the smallest initial segment
\* of the naturals that ends in the set ends there.
LEMMA MinIsLeast ==
    ASSUME NEW S \in SUBSET Nat, S # {}
    PROVE  Min(S) \in S /\ \A k \in S : Min(S) <= k
<1> DEFINE T == {0..k : k \in S}
<1>1. T \subseteq FiniteSubsetsOf(Nat)
  <2>1. \A k \in S : 0..k \subseteq Nat /\ IsFiniteSet(0..k) BY FS_Interval
  <2>2. QED BY <2>1, Zenon DEF FiniteSubsetsOf
<1>2. T # {} OBVIOUS
<1>3. PICK u \in T : \A w \in T : ~(<<w, u>> \in StrictSubsetOrdering(Nat))
  <2> HIDE DEF T
  <2> QED BY <1>1, <1>2, FS_StrictSubsetOrderingWellFounded, WFMin
<1>4. PICK m \in S : u = 0..m OBVIOUS
<1>5. ASSUME NEW k \in S PROVE m <= k
  <2>1. 0..k \in T OBVIOUS
  <2>2. ~(<<0..k, 0..m>> \in StrictSubsetOrdering(Nat)) BY <1>3, <1>4, <2>1
  <2>3. CASE k < m
    <3>1. 0..k \subseteq 0..m /\ 0..k # 0..m
      <4>1. m \in 0..m /\ m \notin 0..k BY <2>3
      <4>2. QED BY <2>3, <4>1
    <3>2. QED BY <2>2, <3>1 DEF StrictSubsetOrdering
  <2>4. QED BY <2>3
<1>6. QED BY <1>5 DEF Min

\* One that is bounded has a greatest element.
LEMMA MaxIsMember ==
    ASSUME NEW n \in Nat, NEW S \in SUBSET (1..n), S # {}
    PROVE  Max(S) \in S
<1> DEFINE T == {n - k : k \in S}
<1>1. T \in SUBSET Nat BY DEF T
<1>2. PICK k \in S : TRUE OBVIOUS
<1>3. n - k \in T OBVIOUS
<1>4. T # {} BY <1>3
<1>5. Min(T) \in T /\ \A t \in T : Min(T) <= t BY <1>1, <1>4, MinIsLeast
<1>6. PICK m \in S : Min(T) = n - m BY <1>5
<1>7. ASSUME NEW j \in S PROVE m >= j
  <2>1. n - j \in T OBVIOUS
  <2>2. n - m <= n - j BY <1>5, <1>6, <2>1
  <2>3. QED BY <2>2
<1>8. QED BY <1>7 DEF Max

\* A function on 1..n is a sequence of length n.
LEMMA IsSequence ==
    ASSUME NEW T, NEW n \in Nat, NEW f \in [1..n -> T]
    PROVE  f \in Seq(T) /\ Len(f) = n /\ DOMAIN f = 1..n
OBVIOUS

\* The empty sequence, and one that is not.
LEMMA EmptySequence ==
    ASSUME NEW T
    PROVE  <<>> \in Seq(T) /\ Len(<<>>) = 0 /\ DOMAIN <<>> = {}
OBVIOUS

LEMMA NonEmptySequence ==
    ASSUME NEW T, NEW s \in Seq(T), s # <<>>
    PROVE  1 \in DOMAIN s /\ s[1] \in T
OBVIOUS

\* What a value is turned into is the digest the value signs, or nothing.
LEMMA NormalizesToItself ==
    ASSUME NEW v \in Values
    PROVE  normalizeToDER(v) \subseteq {v.of} /\ normalizeToDER(NoValue) = {}
BY DEF Values, Encodings, NoValue, normalizeToDER, ParsesAsDER, P1363Width, Split

\* What the type of the documents says of each.
LEMMA Documents ==
    ASSUME TypeOK
    PROVE  /\ docs \in Seq(DocumentType) /\ Len(docs) \in Nat /\ DOMAIN docs = 1..Len(docs)
           /\ \A i \in DOMAIN docs :
                /\ docs[i] \in DocumentType /\ docs[i].value \in Values
                /\ docs[i].session \in Sessions \cup {0} /\ docs[i].digest \in Sessions \cup {0}
           /\ JobSessions \subseteq Sessions /\ 0 \notin JobSessions
<1>1. docs \in Seq(DocumentType) BY DEF TypeOK
<1>2. Len(docs) \in Nat /\ DOMAIN docs = 1..Len(docs) BY <1>1
<1>3. \A i \in DOMAIN docs : docs[i] \in DocumentType BY <1>1
<1>4. \A i \in DOMAIN docs :
        /\ docs[i].value \in Values
        /\ docs[i].session \in Sessions \cup {0} /\ docs[i].digest \in Sessions \cup {0}
  BY <1>3 DEF DocumentType
<1>5. JobSessions \subseteq Sessions /\ 0 \notin JobSessions BY <1>4 DEF JobSessions
<1>6. QED BY <1>1, <1>2, <1>3, <1>4, <1>5

\* The documents are the same ones, in the same sessions.
SameDocuments ==
    /\ docs' \in Seq(DocumentType) /\ Len(docs') = Len(docs) /\ DOMAIN docs' = DOMAIN docs
    /\ \A i \in DOMAIN docs : docs'[i].in = docs[i].in /\ docs'[i].session = docs[i].session

LEMMA SameSessions == SameDocuments => JobSessions' = JobSessions
BY DEF SameDocuments, JobSessions

\* Mapping each document to one with the same input and session keeps the documents.
LEMMA DocumentsKept ==
    ASSUME docs \in Seq(DocumentType), docs' = [i \in DOMAIN docs |-> docs'[i]],
           \A i \in DOMAIN docs : /\ docs'[i] \in DocumentType
                                  /\ docs'[i].in = docs[i].in
                                  /\ docs'[i].session = docs[i].session
    PROVE  SameDocuments
<1>1. Len(docs) \in Nat /\ DOMAIN docs = 1..Len(docs) OBVIOUS
<1>2. docs' \in [1..Len(docs) -> DocumentType] BY <1>1
<1>3. QED BY <1>1, <1>2, IsSequence DEF SameDocuments

\* What every answer of CalculateDigest leaves behind.
Calculated ==
    /\ SameDocuments
    /\ form' = docs[1].in.form
    /\ algo' \in {algo, DigestAlgo(docs[1].in.content)}
    /\ \A i \in DOMAIN docs : /\ docs'[i].digest \in {docs[i].digest, docs[i].session}
                              /\ docs'[i].value = docs[i].value
    /\ \/ ids' = ids /\ chosen' = chosen
       \/ ids' = <<>> /\ chosen' = NoChoice

\* It did not answer for every document.
Uncalculated == Calculated /\ st' = "FAILED" /\ leg' = leg

\* It did: every digest is the one of the document's session.
AllCalculated ==
    /\ Calculated
    /\ algo' = DigestAlgo(docs[1].in.content)
    /\ \A i \in DOMAIN docs : docs'[i].digest = docs[i].session
    /\ ids' = <<>>

\* An answer of CalculateDigest, by the documents it has a digest for.
LEMMA Answered ==
    ASSUME TypeOK, docs # <<>>, NEW k \in 0..Len(docs), NEW results \in [1..k -> JobSessions],
           form' = docs[1].in.form,
           docs' = [i \in DOMAIN docs |->
                      [docs[i] EXCEPT !.digest =
                         IF \A m \in 1..i : DigestOf(m, results) # 0
                         THEN DigestOf(i, results) ELSE @]],
           algo' = IF \A m \in 1..1 : DigestOf(m, results) # 0
                   THEN DigestAlgo(docs[1].in.content) ELSE algo,
           ids' = <<>>, chosen' = NoChoice
    PROVE  /\ Calculated
           /\ (\A m \in 1..Len(docs) : DigestOf(m, results) # 0) => AllCalculated
<1>1. docs \in Seq(DocumentType) BY DEF TypeOK
<1>2. Len(docs) \in Nat \ {0} /\ DOMAIN docs = 1..Len(docs) BY <1>1
<1>3. ASSUME NEW i \in DOMAIN docs PROVE DigestOf(i, results) \in {0, docs[i].session}
  BY DEF DigestOf
<1>4. ASSUME NEW i \in DOMAIN docs
      PROVE  /\ docs'[i] \in DocumentType
             /\ docs'[i].in = docs[i].in /\ docs'[i].session = docs[i].session
             /\ docs'[i].digest \in {docs[i].digest, docs[i].session}
             /\ docs'[i].value = docs[i].value
             /\ (\A m \in 1..i : DigestOf(m, results) # 0) => docs'[i].digest = docs[i].session
  <2>1. docs[i] \in DocumentType BY <1>1
  <2>2. DigestOf(i, results) \in {0, docs[i].session} BY <1>3
  <2>3. i \in 1..i BY <1>2
  <2>4. docs'[i] = [docs[i] EXCEPT !.digest =
                      IF \A m \in 1..i : DigestOf(m, results) # 0
                      THEN DigestOf(i, results) ELSE @]
    OBVIOUS
  <2>5. QED BY <2>1, <2>2, <2>3, <2>4 DEF DocumentType
<1>5. SameDocuments BY <1>1, <1>4, DocumentsKept
<1>6. Calculated BY <1>4, <1>5 DEF Calculated
<1>7. ASSUME \A m \in 1..Len(docs) : DigestOf(m, results) # 0 PROVE AllCalculated
  <2>1. \A i \in DOMAIN docs : \A m \in 1..i : DigestOf(m, results) # 0 BY <1>2, <1>7
  <2>2. \A m \in 1..1 : DigestOf(m, results) # 0 BY <1>2, <1>7
  <2>3. QED BY <1>4, <1>6, <2>1, <2>2 DEF AllCalculated
<1>8. QED BY <1>6, <1>7

\* A step with calculateDigests: at the end of Prepare, or in a callback.
Calculating ==
    /\ st \in {"UPLOADED", "AWAITING_AUTHORIZATION"} /\ docs # <<>>
    /\ IsCSC(flow) => leg # "sign"
    /\ UNCHANGED <<flow, cert, worked, sessVars, applied, op>>
    /\ \/ Uncalculated
       \/ AllCalculated /\ IsClientSide(flow) /\ st' = "AWAITING_CLIENT_SIGNATURE" /\ leg' = leg
       \/ /\ AllCalculated /\ (IsCSC(flow) => OneAlgorithm) /\ authCertFor(flow, cert)
          /\ AwaitAuthorization("sign")

LEMMA CalculatingSteps ==
    ASSUME TypeOK, LegsFit, BatchKept, CertKept,
           PrepareCard \/ BeginSupplied \/ AdvanceProfile \/ AdvanceCredential
    PROVE  Calculating
<1> USE DEF ClientFlows, TxFlows, CSCFlows, IsClientSide, IsCSC
<1>1. ASSUME UNCHANGED <<leg, docs, algo, ids, chosen>>, form' = docs[1].in.form, st' = "FAILED"
      PROVE  Uncalculated
  BY <1>1 DEF Uncalculated, Calculated, SameDocuments, TypeOK
<1>2. /\ docs # <<>>
      /\ st \in {"UPLOADED", "AWAITING_AUTHORIZATION"}
      /\ UNCHANGED <<flow, cert, worked, sessVars, applied, op>>
      /\ IsCSC(flow) => leg # "sign"
  BY DEF PrepareCard, BeginSupplied, AdvanceProfile, AdvanceCredential, LegsFit, BatchKept
<1>3. CASE PrepareCard
  BY <1>1, <1>2, <1>3, Answered DEF PrepareCard, calculateDigests, Uncalculated, Calculating
<1>4. CASE BeginSupplied
  BY <1>1, <1>2, <1>4, Answered
  DEF BeginSupplied, calculateDigests, Uncalculated, Calculating, authCertFor
<1>5. CASE AdvanceProfile
  BY <1>1, <1>2, <1>5, Answered
  DEF AdvanceProfile, calculateDigests, Uncalculated, Calculating, LegsFit, CertKept
<1>6. CASE AdvanceCredential
  BY <1>1, <1>2, <1>6, Answered
  DEF AdvanceCredential, calculateDigests, Uncalculated, Calculating, CertKept
<1>7. QED BY <1>3, <1>4, <1>5, <1>6

\* The documents and their digests are the same ones: only values changed.
OnlyValues == SameDocuments /\ \A i \in DOMAIN docs : docs'[i].digest = docs[i].digest

\* The values the worker gets: one over each document's digest, or the job fails.
Signing ==
    /\ st = "SIGNING" /\ ~IsClientSide(flow)
    /\ UNCHANGED <<flow, leg, cert, algo, form, ids, chosen, worked, open, used, left, applied, op>>
    /\ OnlyValues
    /\ \/ /\ st' = "FINALIZING" /\ UNCHANGED closing
          /\ \A i \in DOMAIN docs : docs'[i].value.of = docs[i].digest
       \/ Failed(JobSessions)

\* Values for the first documents of the batch.
LEMMA ValuesWritten ==
    ASSUME TypeOK, NEW n \in 0..Len(docs), NEW vals,
           \A i \in 1..n : vals[i] \in Values, WithValues(n, vals)
    PROVE  OnlyValues /\ \A i \in 1..n : docs'[i].value = vals[i]
<1>1. docs \in Seq(DocumentType) BY DEF TypeOK
<1>2. Len(docs) \in Nat /\ DOMAIN docs = 1..Len(docs) BY <1>1
<1>3. ASSUME NEW i \in DOMAIN docs
      PROVE  /\ docs'[i] \in DocumentType
             /\ docs'[i].in = docs[i].in /\ docs'[i].session = docs[i].session
             /\ docs'[i].digest = docs[i].digest
             /\ i \in 1..n => docs'[i].value = vals[i]
  <2>1. docs[i] \in DocumentType BY <1>1
  <2>2. docs'[i] = IF i <= n THEN [docs[i] EXCEPT !.value = vals[i]] ELSE docs[i]
    BY DEF WithValues
  <2>3. QED BY <1>2, <2>1, <2>2 DEF DocumentType
<1>4. docs' = [i \in DOMAIN docs |-> docs'[i]] BY DEF WithValues
<1>5. SameDocuments BY <1>1, <1>3, <1>4, DocumentsKept
<1>6. QED BY <1>2, <1>3, <1>5 DEF OnlyValues

LEMMA SigningSteps ==
    ASSUME TypeOK, signServer \/ signHash
    PROVE  Signing
<1> USE DEF ClientFlows, TxFlows, CSCFlows, IsClientSide, IsCSC
<1>1. docs \in Seq(DocumentType) BY DEF TypeOK
<1>2. Len(docs) \in Nat /\ DOMAIN docs = 1..Len(docs) BY <1>1
<1>3. UNCHANGED docs => OnlyValues BY <1>1 DEF OnlyValues, SameDocuments
<1>4. CASE signServer
  <2>1. ASSUME NEW enc \in [DOMAIN docs -> Encodings],
               WithValues(Len(docs), [i \in DOMAIN docs |-> [of |-> docs[i].digest, enc |-> enc[i]]])
        PROVE  OnlyValues /\ \A i \in DOMAIN docs : docs'[i].value.of = docs[i].digest
    <3> DEFINE vals == [i \in DOMAIN docs |-> [of |-> docs[i].digest, enc |-> enc[i]]]
    <3>1. \A i \in 1..Len(docs) : vals[i] \in Values /\ vals[i].of = docs[i].digest
      BY Documents DEF Values
    <3>2. Len(docs) \in 0..Len(docs) BY <1>2
    <3>3. WithValues(Len(docs), vals) BY <2>1
    <3> HIDE DEF vals
    <3>4. QED BY <1>2, <3>1, <3>2, <3>3, ValuesWritten
  <2>2. QED BY <1>3, <1>4, <2>1 DEF signServer, Signing
<1>5. CASE signHash
  <2>1. ASSUME NEW k \in 0..Len(docs), NEW out \in [1..k -> [of : JobSessions, enc : Encodings]],
               NEW n \in 0..Len(docs), n <= k, \A i \in 1..n : Verified(out[i], i),
               WithValues(n, out)
        PROVE  /\ OnlyValues
               /\ n = Len(docs) => \A i \in DOMAIN docs : docs'[i].value.of = docs[i].digest
    <3>1. JobSessions \subseteq Sessions BY Documents
    <3>2. \A i \in 1..n : out[i] \in Values /\ out[i].of = docs[i].digest
      BY <1>2, <2>1, <3>1 DEF Values, Verified
    <3>3. OnlyValues /\ \A i \in 1..n : docs'[i].value = out[i] BY <2>1, <3>2, ValuesWritten
    <3>4. QED BY <1>2, <3>2, <3>3
  <2>2. QED BY <1>3, <1>5, <2>1 DEF signHash, Signing
<1>6. QED BY <1>4, <1>5

\* The values a caller submits: with one for every id, a document without a value is left
\* only where two share an id, and else each has the last one submitted for it.
LEMMA Submits ==
    ASSUME TypeOK, ValuesOwn, SubmitSignatures
    PROVE  /\ OnlyValues
           /\ \/ \E i \in DOMAIN docs : docs'[i].value = NoValue
              \/ \A i \in DOMAIN docs : docs'[i].value.of = docs[i].digest
           /\ Distinct => \A i \in DOMAIN docs : docs'[i].value # NoValue
<1>1. /\ docs \in Seq(DocumentType) /\ Len(docs) \in Nat /\ DOMAIN docs = 1..Len(docs)
      /\ \A i \in DOMAIN docs :
           /\ docs[i] \in DocumentType /\ docs[i].value = NoValue
           /\ docs[i].digest \in Sessions \cup {0}
  BY Documents DEF ValuesOwn, SubmitSignatures
<1>2. PICK n \in 0..MaxDocuments : \E sigs \in [1..n -> Submission] :
         /\ \A k \in 1..n : sigs[k].of # 0
         /\ Complete(sigs)
         /\ docs' = [i \in DOMAIN docs |->
              LET mine == {k \in 1..n : IsDoc(i, IdOf(sigs[k]))} IN
              IF mine = {} THEN docs[i]
              ELSE LET last == sigs[Max(mine)] IN
                   [docs[i] EXCEPT !.value = [of |-> docs[last.of].digest, enc |-> last.enc]]]
  BY DEF SubmitSignatures
<1>3. PICK sigs \in [1..n -> Submission] :
         /\ \A k \in 1..n : sigs[k].of # 0
         /\ Complete(sigs)
         /\ docs' = [i \in DOMAIN docs |->
              LET mine == {k \in 1..n : IsDoc(i, IdOf(sigs[k]))} IN
              IF mine = {} THEN docs[i]
              ELSE LET last == sigs[Max(mine)] IN
                   [docs[i] EXCEPT !.value = [of |-> docs[last.of].digest, enc |-> last.enc]]]
  BY <1>2
<1> DEFINE mine(i) == {k \in 1..n : IsDoc(i, IdOf(sigs[k]))}
<1>4. n \in Nat BY BatchAssumption
<1>5. ASSUME NEW i \in DOMAIN docs, mine(i) # {}
      PROVE  \E k \in mine(i) :
               /\ sigs[k].of \in DOMAIN docs /\ sigs[k].enc \in Encodings
               /\ docs'[i] = [docs[i] EXCEPT !.value = [of |-> docs[sigs[k].of].digest,
                                                        enc |-> sigs[k].enc]]
  <2>1. mine(i) \in SUBSET (1..n) OBVIOUS
  <2>2. Max(mine(i)) \in mine(i) BY <1>4, <1>5, <2>1, MaxIsMember
  <2>3. PICK k \in mine(i) : k = Max(mine(i)) BY <2>2
  <2>4. sigs[k] \in Submission /\ sigs[k].of # 0 BY <1>3
  <2>5. sigs[k].of \in DOMAIN docs /\ sigs[k].enc \in Encodings BY <1>1, <2>4 DEF Submission
  <2>6. docs'[i] = [docs[i] EXCEPT !.value = [of |-> docs[sigs[k].of].digest, enc |-> sigs[k].enc]]
    BY <1>3, <1>5, <2>3
  <2>7. QED BY <2>5, <2>6
<1>6. ASSUME NEW i \in DOMAIN docs, mine(i) = {}
      PROVE  docs'[i] = docs[i]
  BY <1>3, <1>6
<1> HIDE DEF mine
<1>7. ASSUME NEW i \in DOMAIN docs
      PROVE  /\ docs'[i] \in DocumentType
             /\ docs'[i].in = docs[i].in /\ docs'[i].session = docs[i].session
             /\ docs'[i].digest = docs[i].digest
  <2>1. CASE mine(i) = {} BY <1>1, <1>6, <2>1
  <2>2. CASE mine(i) # {}
    <3>1. PICK k \in mine(i) :
               /\ sigs[k].of \in DOMAIN docs /\ sigs[k].enc \in Encodings
               /\ docs'[i] = [docs[i] EXCEPT !.value = [of |-> docs[sigs[k].of].digest,
                                                        enc |-> sigs[k].enc]]
      BY <1>5, <2>2
    <3>2. [of |-> docs[sigs[k].of].digest, enc |-> sigs[k].enc] \in Values
      BY <1>1, <3>1 DEF Values
    <3>3. QED BY <1>1, <3>1, <3>2 DEF DocumentType
  <2>3. QED BY <2>1, <2>2
<1>8. docs' = [i \in DOMAIN docs |-> docs'[i]] BY <1>3
<1>9. OnlyValues
  <2>1. SameDocuments BY <1>1, <1>7, <1>8, DocumentsKept
  <2>2. QED BY <1>7, <2>1 DEF OnlyValues
<1>10. ASSUME NEW i \in DOMAIN docs, NEW j \in DOMAIN docs, docs[i].in.id = docs[j].in.id,
              mine(i) # {}, mine(j) # {}
       PROVE  i = j
  BY <1>1, <1>10 DEF mine, IsDoc
<1>11. ASSUME \A i \in DOMAIN docs : mine(i) # {}, NEW i \in DOMAIN docs
       PROVE  docs'[i].value.of = docs[i].digest
  <2>1. PICK k \in mine(i) :
             /\ sigs[k].of \in DOMAIN docs
             /\ docs'[i] = [docs[i] EXCEPT !.value = [of |-> docs[sigs[k].of].digest,
                                                      enc |-> sigs[k].enc]]
    BY <1>5, <1>11
  <2>2. docs[i].in.id = docs[sigs[k].of].in.id BY DEF mine, IsDoc, IdOf
  <2>3. sigs[k].of = i BY <1>10, <1>11, <2>1, <2>2
  <2>4. QED BY <1>1, <2>1, <2>3 DEF DocumentType
<1>12. (\E i \in DOMAIN docs : docs'[i].value = NoValue)
       \/ \A i \in DOMAIN docs : docs'[i].value.of = docs[i].digest
  BY <1>1, <1>6, <1>11
<1>13. ASSUME Distinct, NEW i \in DOMAIN docs PROVE docs'[i].value # NoValue
  <2>1. PICK k \in 1..n : IdOf(sigs[k]) = docs[i].in.id BY <1>3 DEF Complete
  <2>2. IsDoc(i, IdOf(sigs[k])) BY <1>1, <1>13, <2>1 DEF Distinct, IsDoc
  <2>3. mine(i) # {} BY <2>2 DEF mine
  <2>4. PICK m \in mine(i) :
             /\ sigs[m].enc \in Encodings
             /\ docs'[i] = [docs[i] EXCEPT !.value = [of |-> docs[sigs[m].of].digest,
                                                      enc |-> sigs[m].enc]]
    BY <1>5, <2>3
  <2>5. QED BY <1>1, <2>4 DEF DocumentType, NoValue, Encodings
<1>14. QED BY <1>9, <1>12, <1>13

\* A batch that finalize accepts: every session gets the signature over its own digest.
LEMMA Finalizes ==
    ASSUME TypeOK, SessionsApart, DigestsOwn, ValuesOwn, Finalize
    PROVE  /\ OnlyValues
           /\ \A i \in DOMAIN docs : docs'[i].value = NoValue
           /\ DOMAIN applied' = JobSessions /\ \A s \in JobSessions : applied'[s] = s
<1>1. /\ docs \in Seq(DocumentType)
      /\ \A i \in DOMAIN docs : docs[i] \in DocumentType /\ docs[i].value \in Values
  BY Documents
<1>2. ASSUME NEW i \in DOMAIN docs
      PROVE  /\ docs'[i] \in DocumentType /\ docs'[i].value = NoValue
             /\ docs'[i].in = docs[i].in /\ docs'[i].session = docs[i].session
             /\ docs'[i].digest = docs[i].digest
  <2>1. docs'[i] = [docs[i] EXCEPT !.value = NoValue, !.ready = TRUE] BY DEF Finalize
  <2>2. NoValue \in Values BY DEF NoValue, Values
  <2>3. QED BY <1>1, <2>1, <2>2 DEF DocumentType
<1>3. docs' = [i \in DOMAIN docs |-> docs'[i]] BY DEF Finalize
<1>4. OnlyValues
  <2>1. SameDocuments BY <1>1, <1>2, <1>3, DocumentsKept
  <2>2. QED BY <1>2, <2>1 DEF OnlyValues
<1>5. ASSUME NEW i \in DOMAIN docs
      PROVE  Normalized(i) = {docs[i].session}
  <2>1. \A k \in DOMAIN docs : Normalized(k) # {} BY DEF Finalize
  <2>2. \A k \in DOMAIN docs : docs[k].value # NoValue
    BY <1>1, <2>1, NormalizesToItself DEF Normalized
  <2>3. docs[i].value.of = docs[i].session
    BY <2>2 DEF Finalize, ValuesOwn, DigestsOwn
  <2>4. QED BY <1>1, <2>1, <2>3, NormalizesToItself DEF Normalized
<1>6. ASSUME NEW s \in JobSessions PROVE applied'[s] = s
  <2> DEFINE i == CHOOSE k \in DOMAIN docs : docs[k].session = s
  <2>1. \E k \in DOMAIN docs : docs[k].session = s BY DEF JobSessions
  <2>2. i \in DOMAIN docs /\ docs[i].session = s BY <2>1
  <2>3. applied'[s] = CHOOSE d \in Normalized(i) : TRUE BY DEF Finalize
  <2> HIDE DEF i
  <2>4. Normalized(i) = {s} BY <1>5, <2>2
  <2>5. QED BY <2>3, <2>4
<1>7. DOMAIN applied' = JobSessions BY DEF Finalize
<1>8. QED BY <1>2, <1>4, <1>6, <1>7

\* Prepare admits a batch of new documents.
LEMMA Prepares ==
    ASSUME Prepare
    PROVE  /\ docs' \in Seq(DocumentType) /\ 1 <= Len(docs') /\ Len(docs') <= MaxDocuments
           /\ DOMAIN docs' = 1..Len(docs')
           /\ \A i \in DOMAIN docs' :
                /\ docs'[i].session = 0 /\ docs'[i].digest = 0 /\ docs'[i].value = NoValue
                /\ docs'[i].in.form = "pdf" <=> docs'[1].in.form = "pdf"
           /\ cert' \in BOOLEAN /\ (IsCSC(flow) => authCertFor(flow, cert'))
<1>1. PICK n \in 1..MaxDocuments : \E in \in [1..n -> InputType], c \in BOOLEAN :
         /\ ValidBatch(in, flow) /\ Admitted(flow, c)
         /\ docs' = [i \in 1..n |-> NewDocument(in[i])] /\ cert' = c
  BY DEF Prepare
<1>2. PICK in \in [1..n -> InputType] :
         /\ ValidBatch(in, flow) /\ docs' = [i \in 1..n |-> NewDocument(in[i])]
         /\ cert' \in BOOLEAN /\ (IsCSC(flow) => authCertFor(flow, cert'))
  BY <1>1 DEF Admitted
<1>3. n \in Nat /\ 1 \in 1..n BY BatchAssumption
<1>4. \A i \in 1..n : NewDocument(in[i]) \in DocumentType
  BY DEF NewDocument, DocumentType, NoValue, Values
<1>5. docs' \in Seq(DocumentType) /\ Len(docs') = n /\ DOMAIN docs' = 1..n
  <2>1. docs' \in [1..n -> DocumentType] BY <1>2, <1>4
  <2>2. QED BY <1>3, <2>1, IsSequence
<1>6. \A i \in 1..n : docs'[i] = NewDocument(in[i]) BY <1>2
<1>7. \A i \in 1..n : in[i].form = "pdf" <=> in[1].form = "pdf" BY <1>2 DEF ValidBatch
<1>8. QED BY <1>1, <1>2, <1>3, <1>5, <1>6, <1>7 DEF NewDocument

\* An upload gives the first document without a session one that nobody had, or fails.
LEMMA Uploads ==
    ASSUME TypeOK, Upload
    PROVE  \/ st' = "FAILED" /\ UNCHANGED <<docs, open, used>>
           \/ \E i \in DOMAIN docs, s \in Sessions \ used :
                /\ used' = used \cup {s} /\ open' = open \cup {s}
                /\ docs[i].session = 0
                /\ docs' \in Seq(DocumentType) /\ Len(docs') = Len(docs) /\ DOMAIN docs' = DOMAIN docs
                /\ \A k \in DOMAIN docs :
                     /\ docs'[k].in = docs[k].in /\ docs'[k].digest = docs[k].digest
                     /\ docs'[k].value = docs[k].value
                     /\ docs'[k].session = IF k = i THEN s ELSE docs[k].session
                /\ JobSessions' = JobSessions \cup {s}
                /\ st' \in {"PREPARING", "UPLOADED", "FAILED"}
                /\ st' = "UPLOADED" => \A k \in DOMAIN docs : docs'[k].session # 0
<1>1. /\ docs \in Seq(DocumentType) /\ Len(docs) \in Nat /\ DOMAIN docs = 1..Len(docs)
      /\ \A k \in DOMAIN docs : docs[k] \in DocumentType
  BY Documents
<1>2. SUFFICES ASSUME NEW i \in DOMAIN docs, NEW s \in Sessions,
                      docs[i].session = 0, \A k \in 1..(i - 1) : docs[k].session # 0,
                      Fresh(s), Started(s), docs' = [docs EXCEPT ![i].session = s],
                      st' \in {IF i = Len(docs) THEN "UPLOADED" ELSE st, "FAILED"}
               PROVE  /\ s \in Sessions \ used
                      /\ used' = used \cup {s} /\ open' = open \cup {s}
                      /\ docs' \in Seq(DocumentType) /\ Len(docs') = Len(docs)
                      /\ DOMAIN docs' = DOMAIN docs
                      /\ \A k \in DOMAIN docs :
                           /\ docs'[k].in = docs[k].in /\ docs'[k].digest = docs[k].digest
                           /\ docs'[k].value = docs[k].value
                           /\ docs'[k].session = IF k = i THEN s ELSE docs[k].session
                      /\ JobSessions' = JobSessions \cup {s}
                      /\ st' \in {"PREPARING", "UPLOADED", "FAILED"}
                      /\ st' = "UPLOADED" => \A k \in DOMAIN docs : docs'[k].session # 0
  BY DEF Upload
<1>3. s \in 1..MaxSessions /\ s # 0 BY BatchAssumption DEF Sessions
<1>4. ASSUME NEW k \in DOMAIN docs
      PROVE  /\ docs'[k] \in DocumentType
             /\ docs'[k].in = docs[k].in /\ docs'[k].digest = docs[k].digest
             /\ docs'[k].value = docs[k].value
             /\ docs'[k].session = IF k = i THEN s ELSE docs[k].session
  <2>1. docs'[k] = IF k = i THEN [docs[k] EXCEPT !.session = s] ELSE docs[k] BY <1>1, <1>2
  <2>2. QED BY <1>1, <2>1 DEF DocumentType
<1>5. docs' \in Seq(DocumentType) /\ Len(docs') = Len(docs) /\ DOMAIN docs' = DOMAIN docs
  <2>1. docs' \in [1..Len(docs) -> DocumentType] BY <1>1, <1>2, <1>4
  <2>2. QED BY <1>1, <2>1, IsSequence
<1>6. JobSessions' = JobSessions \cup {s}
  BY <1>2, <1>3, <1>4, <1>5 DEF JobSessions
<1>7. st = "PREPARING" BY DEF Upload
<1>8. st' = "UPLOADED" => \A k \in DOMAIN docs : docs'[k].session # 0
  BY <1>1, <1>2, <1>3, <1>4, <1>7
<1>9. QED BY <1>2, <1>4, <1>5, <1>6, <1>7, <1>8 DEF Fresh, Started

\* The first identity that passes a test passes it.
LEMMA MobileSelected ==
    ASSUME NEW list \in Seq(IdentityType), SelectMobileSigning(list) > 0
    PROVE  SelectMobileSigning(list) \in DOMAIN list /\ list[SelectMobileSigning(list)].enabled
<1> DEFINE I == {i \in 1..Len(list) : /\ hasLabel(list[i], {"serverid", "contentCommitment"})
                                      /\ list[i].enabled /\ hasAccess(list[i], "sign")}
<1>1. SelectMobileSigning(list) = IF I # {} THEN Min(I) ELSE 0
  BY DEF SelectMobileSigning, SelectInSeq
<1>2. I \in SUBSET Nat OBVIOUS
<1>3. I # {} => Min(I) \in I BY <1>2, MinIsLeast
<1>4. QED BY <1>1, <1>3

LEMMA EIDScanSelected ==
    ASSUME NEW list \in Seq(IdentityType), SelectEIDScanSigning(list) > 0
    PROVE  /\ SelectEIDScanSigning(list) \in DOMAIN list
           /\ \/ list[SelectEIDScanSigning(list)].enabled
              \/ list[SelectEIDScanSigning(list)].desc = "eid:sign"
<1> DEFINE I == {i \in 1..Len(list) :
                   \/ list[i].desc = "eid:sign"
                   \/ hasLabel(list[i], {"eid", "contentCommitment"}) /\ list[i].enabled}
<1>1. SelectEIDScanSigning(list) = IF I # {} THEN Min(I) ELSE 0
  BY DEF SelectEIDScanSigning, SelectInSeq
<1>2. I \in SUBSET Nat OBVIOUS
<1>3. I # {} => Min(I) \in I BY <1>2, MinIsLeast
<1>4. QED BY <1>1, <1>3

\* A seal is the one asked for, or the only one.
LEMMA SealSelected ==
    ASSUME NEW list \in Seq(IdentityType), NEW sealID \in Nat, SelectSealSigning(list, sealID) > 0
    PROVE  /\ SelectSealSigning(list, sealID) \in DOMAIN list
           /\ IsSeal(list[SelectSealSigning(list, sealID)])
           /\ sealID # 0 => SelectSealSigning(list, sealID) = sealID
           /\ sealID = 0 =>
                \A i \in DOMAIN list : IsSeal(list[i]) => i = SelectSealSigning(list, sealID)
<1> DEFINE seals == {i \in DOMAIN list : IsSeal(list[i])}
<1>1. SelectSealSigning(list, sealID) =
        IF seals = {} THEN 0
        ELSE IF sealID # 0 THEN (IF sealID \in seals THEN sealID ELSE 0)
        ELSE IF \E i \in seals : seals = {i} THEN CHOOSE i \in seals : TRUE ELSE -1
  BY DEF SelectSealSigning, NotFound, Ambiguous
<1>2. seals # {} BY <1>1
<1>3. CASE sealID # 0 BY <1>1, <1>2, <1>3
<1>4. CASE sealID = 0
  <2>1. PICK i \in seals : seals = {i} BY <1>1, <1>2, <1>4
  <2>2. SelectSealSigning(list, sealID) = i BY <1>1, <1>2, <1>4, <2>1
  <2>3. QED BY <1>4, <2>1, <2>2
<1>5. QED BY <1>3, <1>4

\* An identity of the flow's own kind is taken before any other.
LEMMA AuthSelected ==
    ASSUME NEW list \in Seq(IdentityType), NEW eidScan \in BOOLEAN,
           SelectAuthIdentity(list, eidScan) > 0
    PROVE  /\ SelectAuthIdentity(list, eidScan) \in DOMAIN list
           /\ (\E i \in DOMAIN list : IsPrimaryAuth(list[i], eidScan)) =>
                IsPrimaryAuth(list[SelectAuthIdentity(list, eidScan)], eidScan)
<1> DEFINE P == {i \in 1..Len(list) : IsPrimaryAuth(list[i], eidScan)}
           A == {i \in 1..Len(list) : IsAuth(list[i])}
<1>1. SelectAuthIdentity(list, eidScan) =
        LET primary == IF P # {} THEN Min(P) ELSE 0
        IN  IF primary # 0 THEN primary ELSE IF A # {} THEN Min(A) ELSE 0
  BY DEF SelectAuthIdentity, SelectInSeq
<1>2. P \in SUBSET Nat /\ A \in SUBSET Nat OBVIOUS
<1>3. (P # {} => Min(P) \in P) /\ (A # {} => Min(A) \in A) BY <1>2, MinIsLeast
<1>4. DOMAIN list = 1..Len(list) OBVIOUS
<1>5. QED BY <1>1, <1>3, <1>4

LEMMA Selects ==
    ASSUME TypeOK, LegsFit, SelectIdentities
    PROVE  /\ ids' \in IdentityLists /\ chosen' \in [sign : Nat, auth : Nat, sealID : Nat]
           /\ IdentitiesFit'
<1>1. PICK list \in IdentityLists : \E sealID \in 0..(Len(list) + 1) :
         LET sign == SelectSigning(list, sealID)
             auth == SelectAuthIdentity(list, flow = "eidScan") IN
         /\ sign > 0 /\ auth > 0
         /\ ids' = list
         /\ chosen' = [sign |-> sign, auth |-> auth, sealID |-> sealID]
  BY DEF SelectIdentities
<1>2. PICK sealID \in 0..(Len(list) + 1) :
         LET sign == SelectSigning(list, sealID)
             auth == SelectAuthIdentity(list, flow = "eidScan") IN
         /\ sign > 0 /\ auth > 0
         /\ ids' = list
         /\ chosen' = [sign |-> sign, auth |-> auth, sealID |-> sealID]
  BY <1>1
<1>3. list \in Seq(IdentityType) /\ Len(list) \in Nat /\ DOMAIN list = 1..Len(list)
  <2>1. list \in Seq(IdentityType) BY BatchAssumption
  <2>2. QED BY <2>1
<1>4. sealID \in Nat BY <1>3
<1>5. flow \in TxFlows /\ flow' = flow BY DEF SelectIdentities, LegsFit
<1> DEFINE sign == SelectSigning(list, sealID)
           auth == SelectAuthIdentity(list, flow = "eidScan")
<1>6. /\ sign \in DOMAIN list
      /\ flow = "eparakstsMobileEseal" =>
           IF sealID # 0 THEN sign = sealID
           ELSE \A i \in DOMAIN list : IsSeal(list[i]) => i = sign
      /\ list[sign].enabled \/ (flow = "eidScan" /\ list[sign].desc = "eid:sign")
  <2>1. CASE flow = "eidScan"
    <3>1. sign = SelectEIDScanSigning(list) BY <2>1 DEF SelectSigning
    <3>2. QED BY <1>2, <1>3, <2>1, <3>1, EIDScanSelected
  <2>2. CASE flow = "eparakstsMobileEseal"
    <3>1. sign = SelectSealSigning(list, sealID) BY <2>2 DEF SelectSigning
    <3>2. QED BY <1>2, <1>3, <1>4, <2>2, <3>1, SealSelected DEF IsSeal
  <2>3. CASE flow = "eparakstsMobile"
    <3>1. sign = SelectMobileSigning(list) BY <2>3 DEF SelectSigning
    <3>2. QED BY <1>2, <1>3, <2>3, <3>1, MobileSelected
  <2>4. QED BY <1>5, <2>1, <2>2, <2>3 DEF TxFlows
<1>7. /\ auth \in DOMAIN list
      /\ (\E i \in DOMAIN list : IsPrimaryAuth(list[i], flow = "eidScan")) =>
           IsPrimaryAuth(list[auth], flow = "eidScan")
  <2>1. (flow = "eidScan") \in BOOLEAN OBVIOUS
  <2>2. auth > 0 BY <1>2
  <2>3. QED BY <1>3, <2>1, <2>2, AuthSelected
<1>8. ids' = list /\ chosen' = [sign |-> sign, auth |-> auth, sealID |-> sealID] BY <1>2
<1> HIDE DEF sign, auth
<1>9. chosen' \in [sign : Nat, auth : Nat, sealID : Nat] BY <1>3, <1>4, <1>6, <1>7, <1>8
<1>10. chosen'.sign = sign /\ chosen'.auth = auth /\ chosen'.sealID = sealID BY <1>8
<1>11. IdentitiesFit' BY <1>5, <1>6, <1>7, <1>8, <1>10 DEF IdentitiesFit
<1>12. QED BY <1>8, <1>9, <1>11

----------------------------------------------------------------------------
(* The steps.                                                              *)

\* The steps of Next, with those that calculate digests and those of the worker's signing
\* by what they do.
Step ==
    \/ Prepare \/ Upload \/ Calculating \/ BeginAuthorization \/ CallbackFails
    \/ SelectIdentities \/ AdvanceSign \/ Signing \/ SubmitSignatures \/ Finalize
    \/ FinalizeFails \/ DeleteJob \/ StartOperation \/ ArchiveJobDocument \/ OperationCall
    \/ OperationReturns \/ closeSession \/ UNCHANGED vars

LEMMA NextIsStep == BatchInv /\ [Next]_vars => Step
BY CalculatingSteps, SigningSteps DEF BatchInv, Next, Step

\* The sessions, the other request and closeLater keep their types.
SessionTypes ==
    /\ open \subseteq used /\ closing \subseteq used /\ left \subseteq used
    /\ used \subseteq Sessions
    /\ op \in [kind : {"none", "validate", "archive", "archiveJob"},
               pc : {"upload", "call", "download", "done"}, session : Sessions \cup {0}]

LEMMA SessionTypesStep == BatchInv /\ Step => SessionTypes'
<1> SUFFICES ASSUME BatchInv, Step PROVE SessionTypes' OBVIOUS
<1> USE DEF SessionTypes
<1>1. /\ TypeOK /\ SessionTypes /\ JobSessions \subseteq used
      /\ op.pc # "done" /\ op.kind # "archiveJob" => op.session \in used
      /\ \A i \in DOMAIN docs : docs[i].session \in Sessions \cup {0}
  BY Documents DEF BatchInv, TypeOK, SessionsApart, OperationApart
<1>2. CASE Upload
  <2>1. op' = op /\ closing' = closing /\ left' = left BY <1>2 DEF Upload
  <2>2. QED BY <1>1, <1>2, <2>1, Uploads
<1>3. CASE Prepare \/ BeginAuthorization \/ CallbackFails \/ SelectIdentities \/ AdvanceSign
           \/ SubmitSignatures \/ Finalize \/ UNCHANGED vars
  BY <1>1, <1>3
  DEF Prepare, BeginAuthorization, CallbackFails, SelectIdentities, AdvanceSign,
      SubmitSignatures, Finalize, sessVars, vars
<1>4. CASE Calculating BY <1>1, <1>4 DEF Calculating, sessVars
<1>5. CASE Signing BY <1>1, <1>5 DEF Signing, Failed, closeLater
<1>6. CASE FinalizeFails \/ DeleteJob
  BY <1>1, <1>6 DEF FinalizeFails, DeleteJob, Failed, closeLater
<1>7. CASE StartOperation BY <1>1, <1>7 DEF StartOperation, Fresh, Started
<1>8. CASE ArchiveJobDocument BY <1>1, <1>8 DEF ArchiveJobDocument, sessVars
<1>9. CASE OperationCall BY <1>1, <1>9 DEF OperationCall, sessVars
<1>10. CASE OperationReturns BY <1>1, <1>10 DEF OperationReturns, closeLater
<1>11. CASE closeSession BY <1>1, <1>11 DEF closeSession
<1>12. QED
  BY <1>2, <1>3, <1>4, <1>5, <1>6, <1>7, <1>8, <1>9, <1>10, <1>11 DEF Step

\* So does the job.
JobTypes ==
    /\ flow \in Flows
    /\ st \in JobStates \cup {"none", "UPLOADED", "DELETED"}
    /\ leg \in Legs \cup {"selected"}
    /\ cert \in BOOLEAN /\ worked \in BOOLEAN
    /\ docs \in Seq(DocumentType) /\ Len(docs) <= MaxDocuments
    /\ algo \in {"", "sha256", "sha384"}
    /\ form \in Forms \cup {""}
    /\ ids \in IdentityLists \cup {<<>>}
    /\ chosen \in [sign : Nat, auth : Nat, sealID : Nat]
    /\ \A s \in DOMAIN applied : s \in Sessions /\ applied[s] \in Sessions

LEMMA JobTypesStep == BatchInv /\ Step => JobTypes'
<1> SUFFICES ASSUME BatchInv, Step PROVE JobTypes' OBVIOUS
<1>1. TypeOK /\ JobTypes BY DEF BatchInv, TypeOK, JobTypes
<1>2. /\ JobStates \cup {"none", "UPLOADED", "DELETED"}
           = {"PREPARING", "AWAITING_AUTHORIZATION", "AWAITING_CLIENT_SIGNATURE", "SIGNING",
              "FINALIZING", "READY", "FAILED", "none", "UPLOADED", "DELETED"}
      /\ Legs \cup {"selected"} = {"none", "profile", "credential", "sign", "selected"}
      /\ NoChoice \in [sign : Nat, auth : Nat, sealID : Nat]
  BY DEF JobStates, Legs, NoChoice
<1>0. MaxDocuments \in Nat /\ Len(<<>>) <= MaxDocuments /\ <<>> \in Seq(DocumentType)
  <2>1. MaxDocuments \in Nat BY BatchAssumption
  <2>2. QED BY <2>1, EmptySequence
<1> USE <1>1, <1>2 DEF JobTypes
<1>3. CASE Prepare
  BY <1>3, Prepares DEF Prepare
<1>4. CASE Upload
  <2>1. JobTypes /\ UNCHANGED <<flow, leg, cert, algo, form, ids, chosen, worked, applied>>
    BY <1>4 DEF Upload
  <2>2. QED BY <1>4, <2>1, Uploads
<1>5. CASE Calculating
  <2>1. docs[1] \in DocumentType BY <1>5, NonEmptySequence DEF Calculating
  <2>2. docs[1].in.form \in Forms BY <2>1 DEF DocumentType, InputType
  <2>3. DigestAlgo(docs[1].in.content) \in {"sha256", "sha384"} BY DEF DigestAlgo
  <2>4. SameDocuments /\ form' = docs[1].in.form
        /\ algo' \in {algo, DigestAlgo(docs[1].in.content)}
        /\ ((ids' = ids /\ chosen' = chosen) \/ (ids' = <<>> /\ chosen' = NoChoice))
    BY <1>5 DEF Calculating, Uncalculated, AllCalculated, Calculated
  <2>5. st' \in {"FAILED", "AWAITING_CLIENT_SIGNATURE", "AWAITING_AUTHORIZATION"}
        /\ leg' \in {leg, "sign"}
    BY <1>5 DEF Calculating, Uncalculated, AwaitAuthorization
  <2>6. UNCHANGED <<flow, cert, worked, applied>> BY <1>5 DEF Calculating
  <2>7. QED BY <2>2, <2>3, <2>4, <2>5, <2>6 DEF SameDocuments
<1>6. CASE BeginAuthorization
  BY <1>6 DEF BeginAuthorization, AwaitAuthorization, FirstLeg
<1>7. CASE CallbackFails BY <1>7 DEF CallbackFails
<1>8. CASE SelectIdentities
  BY <1>8, Selects DEF SelectIdentities, BatchInv
<1>9. CASE AdvanceSign BY <1>9 DEF AdvanceSign
<1>10. CASE Signing BY <1>10 DEF Signing, OnlyValues, SameDocuments, Failed
<1>11. CASE SubmitSignatures
  <2>1. OnlyValues BY <1>11, Submits DEF BatchInv
  <2>2. QED BY <1>11, <2>1 DEF SubmitSignatures, OnlyValues, SameDocuments
<1>12. CASE Finalize
  <2>1. /\ OnlyValues
        /\ DOMAIN applied' = JobSessions /\ \A s \in JobSessions : applied'[s] = s
    BY <1>12, Finalizes DEF BatchInv
  <2>2. JobSessions \subseteq Sessions BY Documents
  <2>3. \A s \in DOMAIN applied' : s \in Sessions /\ applied'[s] \in Sessions BY <2>1, <2>2
  <2>4. UNCHANGED <<flow, leg, cert, algo, form, ids, chosen, worked>> /\ st' = "READY"
    BY <1>12 DEF Finalize
  <2>5. QED BY <2>1, <2>3, <2>4 DEF OnlyValues, SameDocuments
<1>13. CASE FinalizeFails BY <1>13 DEF FinalizeFails, Failed
<1>14. CASE DeleteJob
  BY <1>0, <1>14 DEF DeleteJob
<1>15. CASE UNCHANGED <<jobVars, applied>> BY <1>15 DEF jobVars
<1>16. QED
  BY <1>3, <1>4, <1>5, <1>6, <1>7, <1>8, <1>9, <1>10, <1>11, <1>12, <1>13, <1>14, <1>15
  DEF Step, StartOperation, ArchiveJobDocument, OperationCall, OperationReturns, closeSession,
      vars

LEMMA TypeStep == BatchInv /\ Step => TypeOK'
BY SessionTypesStep, JobTypesStep DEF SessionTypes, JobTypes, TypeOK

\* Every document keeps a session to itself.
LEMMA SessionsApartStep == BatchInv /\ Step => SessionsApart'
<1> SUFFICES ASSUME BatchInv, Step PROVE SessionsApart' OBVIOUS
<1>1. TypeOK /\ SessionsApart BY DEF BatchInv
<1>2. ASSUME SameDocuments, used \subseteq used',
             st' \notin {"none", "PREPARING", "FAILED", "DELETED"} =>
               st \notin {"none", "PREPARING", "FAILED", "DELETED"}
      PROVE  SessionsApart'
  <2>1. JobSessions' = JobSessions BY <1>2, SameSessions
  <2>2. QED BY <1>1, <1>2, <2>1 DEF SessionsApart, SameDocuments
<1>3. CASE Prepare
  <2>1. \A i \in DOMAIN docs' : docs'[i].session = 0 BY <1>3, Prepares
  <2>2. JobSessions' = {} BY <2>1 DEF JobSessions
  <2>3. QED BY <1>3, <2>1, <2>2 DEF Prepare, SessionsApart
<1>4. CASE Upload
  <2>1. CASE UNCHANGED <<docs, open, used>> /\ st' = "FAILED"
    <3>1. SameDocuments BY <2>1, Documents, <1>1 DEF SameDocuments
    <3>2. QED BY <1>2, <2>1, <3>1
  <2>2. CASE ~(UNCHANGED <<docs, open, used>> /\ st' = "FAILED")
    <3>1. PICK i \in DOMAIN docs, s \in Sessions \ used :
                /\ used' = used \cup {s}
                /\ DOMAIN docs' = DOMAIN docs
                /\ \A k \in DOMAIN docs :
                     docs'[k].session = IF k = i THEN s ELSE docs[k].session
                /\ JobSessions' = JobSessions \cup {s}
                /\ st' \in {"PREPARING", "UPLOADED", "FAILED"}
                /\ st' = "UPLOADED" => \A k \in DOMAIN docs : docs'[k].session # 0
      BY <1>1, <1>4, <2>2, Uploads
    <3>2. \A k \in DOMAIN docs : docs[k].session # 0 => docs[k].session \in used
      BY <1>1 DEF SessionsApart, JobSessions
    <3>3. QED BY <1>1, <3>1, <3>2 DEF SessionsApart
  <2>3. QED BY <2>1, <2>2
<1>5. CASE Calculating
  BY <1>2, <1>5 DEF Calculating, Uncalculated, AllCalculated, Calculated, sessVars
<1>6. CASE Signing BY <1>2, <1>6 DEF Signing, OnlyValues
<1>7. CASE SubmitSignatures
  <2>1. SameDocuments BY <1>7, Submits DEF OnlyValues, BatchInv
  <2>2. QED BY <1>2, <1>7, <2>1 DEF SubmitSignatures, sessVars
<1>8. CASE Finalize
  <2>1. SameDocuments BY <1>8, Finalizes DEF OnlyValues, BatchInv
  <2>2. QED BY <1>2, <1>8, <2>1 DEF Finalize, sessVars
<1>9. CASE DeleteJob
  <2>1. DOMAIN docs' = {} /\ st' = "DELETED" BY <1>9, EmptySequence DEF DeleteJob
  <2>2. JobSessions' = {} BY <2>1 DEF JobSessions
  <2>3. QED BY <2>1, <2>2 DEF SessionsApart
<1>10. CASE \/ BeginAuthorization \/ CallbackFails \/ SelectIdentities \/ AdvanceSign
            \/ FinalizeFails \/ StartOperation \/ ArchiveJobDocument \/ OperationCall
            \/ OperationReturns \/ closeSession \/ UNCHANGED vars
  <2>1. docs' = docs /\ used \subseteq used'
    BY <1>10
    DEF BeginAuthorization, CallbackFails, SelectIdentities, AdvanceSign, FinalizeFails,
        StartOperation, Started, ArchiveJobDocument, OperationCall, OperationReturns,
        closeSession, vars, jobVars, sessVars
  <2>2. SameDocuments BY <2>1, Documents, <1>1 DEF SameDocuments
  <2>3. st' \notin {"none", "PREPARING", "FAILED", "DELETED"} =>
          st \notin {"none", "PREPARING", "FAILED", "DELETED"}
    BY <1>10
    DEF BeginAuthorization, CallbackFails, SelectIdentities, AdvanceSign, FinalizeFails, Failed,
        AwaitAuthorization, StartOperation, ArchiveJobDocument, OperationCall, OperationReturns,
        closeSession, vars, jobVars
  <2>4. QED BY <1>2, <2>1, <2>2, <2>3
<1>11. QED BY <1>3, <1>4, <1>5, <1>6, <1>7, <1>8, <1>9, <1>10 DEF Step

\* Only an upload and DeleteJob change which sessions the job has.
LEMMA JobSessionsStep ==
    ASSUME BatchInv, Step
    PROVE  /\ ~Upload /\ ~DeleteJob => JobSessions' = JobSessions
           /\ DeleteJob => JobSessions' = {}
           /\ Upload => \/ st' = "FAILED" /\ UNCHANGED <<open, used>> /\ JobSessions' = JobSessions
                        \/ \E s \in Sessions \ used : /\ used' = used \cup {s}
                                                       /\ open' = open \cup {s}
                                                       /\ JobSessions' = JobSessions \cup {s}
<1>1. TypeOK BY DEF BatchInv
<1>2. CASE Prepare
  <2>1. DOMAIN docs = {} BY <1>2, EmptySequence DEF Prepare, BatchInv, LegsFit
  <2>2. \A i \in DOMAIN docs' : docs'[i].session = 0 BY <1>2, Prepares
  <2>3. JobSessions' = {} /\ JobSessions = {} BY <2>1, <2>2 DEF JobSessions
  <2>4. ~Upload /\ ~DeleteJob BY <1>2 DEF Prepare, Upload, DeleteJob
  <2>5. QED BY <2>3, <2>4
<1>3. CASE Upload
  <2>1. ~DeleteJob BY <1>3 DEF Upload, DeleteJob
  <2>2. CASE UNCHANGED <<docs, open, used>> /\ st' = "FAILED"
    BY <1>3, <2>1, <2>2 DEF JobSessions
  <2>3. CASE ~(UNCHANGED <<docs, open, used>> /\ st' = "FAILED")
    BY <1>1, <1>3, <2>1, <2>3, Uploads
  <2>4. QED BY <2>2, <2>3
<1>4. CASE DeleteJob
  <2>1. DOMAIN docs' = {} BY <1>4, EmptySequence DEF DeleteJob
  <2>2. JobSessions' = {} BY <2>1 DEF JobSessions
  <2>3. ~Upload BY <1>4 DEF Upload, DeleteJob
  <2>4. QED BY <1>4, <2>2, <2>3
<1>5. CASE Calculating \/ Signing \/ SubmitSignatures \/ Finalize
  <2>1. SameDocuments
    BY <1>5, Submits, Finalizes
    DEF BatchInv, Calculating, Uncalculated, AllCalculated, Calculated, Signing, OnlyValues
  <2>2. ~Upload /\ ~DeleteJob
    BY <1>5
    DEF Calculating, Signing, SubmitSignatures, Finalize, Uncalculated, AwaitAuthorization,
        Failed, Upload, DeleteJob
  <2>3. QED BY <2>1, <2>2, SameSessions
<1>6. CASE \/ BeginAuthorization \/ CallbackFails \/ SelectIdentities \/ AdvanceSign
           \/ FinalizeFails \/ StartOperation \/ ArchiveJobDocument \/ OperationCall
           \/ OperationReturns \/ closeSession \/ UNCHANGED vars
  <2>1. docs' = docs
    BY <1>6
    DEF BeginAuthorization, CallbackFails, SelectIdentities, AdvanceSign, FinalizeFails,
        StartOperation, ArchiveJobDocument, OperationCall, OperationReturns,
        closeSession, vars, jobVars
  <2>2. JobSessions' = JobSessions BY <2>1 DEF JobSessions
  <2>3. QED BY <1>3, <1>4, <2>2
<1>7. QED BY <1>2, <1>3, <1>4, <1>5, <1>6 DEF Step

\* A request with a session of its own shares it with no document.
LEMMA OperationApartStep == BatchInv /\ Step => OperationApart'
<1> SUFFICES ASSUME BatchInv, Step PROVE OperationApart' OBVIOUS
<1>1. TypeOK /\ OperationApart /\ JobSessions \subseteq used
  BY DEF BatchInv, SessionsApart
<1>2. CASE Upload
  <2>1. op' = op BY <1>2 DEF Upload
  <2>2. QED BY <1>1, <1>2, <2>1, JobSessionsStep DEF OperationApart
<1>3. CASE DeleteJob
  <2>1. op' = op /\ used' = used BY <1>3 DEF DeleteJob
  <2>2. QED BY <1>1, <1>3, <2>1, JobSessionsStep DEF OperationApart
<1>4. CASE StartOperation \/ ArchiveJobDocument \/ OperationCall \/ OperationReturns
  <2>1. op'.kind # op.kind \/ op'.pc # op.pc
    <3>1. op \in [kind : {"none", "validate", "archive", "archiveJob"},
                 pc : {"upload", "call", "download", "done"}, session : Sessions \cup {0}]
      BY <1>1 DEF TypeOK
    <3>2. CASE StartOperation BY <3>2 DEF StartOperation
    <3>3. CASE ArchiveJobDocument BY <3>3 DEF ArchiveJobDocument
    <3>4. CASE OperationCall BY <3>1, <3>4 DEF OperationCall
    <3>5. CASE OperationReturns BY <3>1, <3>5 DEF OperationReturns
    <3>6. QED BY <1>4, <3>2, <3>3, <3>4, <3>5
  <2>2. ~Upload /\ ~DeleteJob BY <2>1 DEF Upload, DeleteJob
  <2>3. JobSessions' = JobSessions BY <2>2, JobSessionsStep
  <2>4. CASE StartOperation BY <1>1, <2>3, <2>4 DEF StartOperation, Fresh, Started, OperationApart
  <2>5. CASE ArchiveJobDocument BY <2>5 DEF ArchiveJobDocument, OperationApart
  <2>6. CASE OperationCall BY <1>1, <2>3, <2>6 DEF OperationCall, sessVars, OperationApart, TypeOK
  <2>7. CASE OperationReturns BY <1>1, <2>3, <2>7 DEF OperationReturns, OperationApart, TypeOK
  <2>8. QED BY <1>4, <2>4, <2>5, <2>6, <2>7
<1>5. CASE op' = op /\ used' = used /\ ~Upload /\ ~DeleteJob
  BY <1>1, <1>5, JobSessionsStep DEF OperationApart
<1>6. QED
  BY <1>2, <1>3, <1>4, <1>5
  DEF Step, Prepare, Calculating, BeginAuthorization, CallbackFails, SelectIdentities,
      AdvanceSign, Signing, SubmitSignatures, Finalize, FinalizeFails, closeSession, vars,
      sessVars

\* The sessions of a job stay open until it fails or is deleted.
LEMMA SessionsKeptStep == BatchInv /\ Step => SessionsKept'
<1> SUFFICES ASSUME BatchInv, Step PROVE SessionsKept' OBVIOUS
<1>1. /\ TypeOK /\ SessionsKept /\ OperationApart /\ JobSessions \subseteq used
      /\ open \subseteq used /\ closing \subseteq used /\ left \subseteq used
  BY DEF BatchInv, SessionsApart, TypeOK
<1>2. worked' => st' \in {"SIGNING", "FINALIZING", "READY", "FAILED"}
  BY <1>1
  DEF Step, SessionsKept, Prepare, Upload, Calculating, Uncalculated, AwaitAuthorization,
      BeginAuthorization, CallbackFails, SelectIdentities, AdvanceSign, Signing, Failed,
      SubmitSignatures, Finalize, FinalizeFails, DeleteJob, StartOperation, ArchiveJobDocument,
      OperationCall, OperationReturns, closeSession, vars, jobVars
<1>3. st' # "FAILED" => JobSessions' \subseteq open' \ (closing' \cup left')
  <2>1. CASE Upload
    <3>1. closing' = closing /\ left' = left /\ st # "FAILED" BY <2>1 DEF Upload
    <3>2. QED BY <1>1, <2>1, <3>1, JobSessionsStep DEF SessionsKept
  <2>2. CASE DeleteJob BY <2>2, JobSessionsStep
  <2>3. CASE ~Upload /\ ~DeleteJob
    <3>1. JobSessions' = JobSessions BY <2>3, JobSessionsStep
    <3>2. CASE /\ open \subseteq open' /\ closing' = closing /\ left' = left
               /\ st' # "FAILED" => st # "FAILED"
      BY <1>1, <3>1, <3>2 DEF SessionsKept
    <3>3. CASE Signing BY <1>1, <3>1, <3>3 DEF Signing, Failed, SessionsKept
    <3>4. CASE FinalizeFails BY <3>4 DEF FinalizeFails, Failed
    <3>5. CASE OperationReturns
      BY <1>1, <3>1, <3>5 DEF OperationReturns, closeLater, OperationApart, SessionsKept, jobVars
    <3>6. CASE closeSession BY <1>1, <3>1, <3>6 DEF closeSession, SessionsKept, jobVars
    <3>7. QED
      BY <2>3, <3>2, <3>3, <3>4, <3>5, <3>6
      DEF Step, Prepare, Calculating, BeginAuthorization, CallbackFails, SelectIdentities,
          AdvanceSign, SubmitSignatures, Finalize, StartOperation, Started, ArchiveJobDocument,
          OperationCall, vars, jobVars, sessVars
  <2>4. QED BY <2>1, <2>2, <2>3
<1>4. QED BY <1>2, <1>3 DEF SessionsKept

\* No session is left behind by a request that ended or a worker that gave up.
LEMMA SessionsOwnedStep == BatchInv /\ SessionsOwned /\ Step => SessionsOwned'
<1> SUFFICES ASSUME BatchInv, SessionsOwned, Step PROVE SessionsOwned' OBVIOUS
<1>1. TypeOK /\ SessionsKept /\ OperationApart
  BY DEF BatchInv
<1>2. CASE Upload
  <2>1. /\ UNCHANGED <<closing, left, op, worked>> /\ ~worked
    BY <1>1, <1>2 DEF Upload, SessionsKept
  <2>2. QED BY <1>2, <2>1, JobSessionsStep DEF SessionsOwned
<1>3. CASE DeleteJob
  BY <1>3 DEF DeleteJob, closeLater, SessionsOwned
<1>4. CASE ~Upload /\ ~DeleteJob
  <2>1. JobSessions' = JobSessions BY <1>4, JobSessionsStep
  <2>2. CASE UNCHANGED <<open, closing, left, op>> /\ (st' = "FAILED" => ~worked')
    BY <2>1, <2>2 DEF SessionsOwned
  <2>3. CASE Signing \/ FinalizeFails
    BY <2>1, <2>3 DEF Signing, FinalizeFails, Failed, closeLater, SessionsOwned
  <2>4. CASE StartOperation
    BY <1>1, <2>1, <2>4 DEF StartOperation, Started, OperationApart, SessionsOwned, jobVars
  <2>5. CASE ArchiveJobDocument
    BY <1>1, <2>1, <2>5 DEF ArchiveJobDocument, OperationApart, SessionsOwned, jobVars, sessVars
  <2>6. CASE OperationCall
    BY <1>1, <2>1, <2>6 DEF OperationCall, TypeOK, SessionsOwned, jobVars, sessVars
  <2>7. CASE OperationReturns
    BY <1>1, <2>1, <2>7 DEF OperationReturns, closeLater, TypeOK, SessionsOwned, jobVars
  <2>8. CASE closeSession
    BY <1>1, <2>1, <2>8 DEF closeSession, SessionsOwned, jobVars
  <2>9. CASE UNCHANGED vars BY <2>1, <2>9 DEF vars, jobVars, sessVars, SessionsOwned
  <2>10. CASE \/ Prepare \/ Calculating \/ BeginAuthorization \/ CallbackFails
              \/ SelectIdentities \/ AdvanceSign \/ SubmitSignatures \/ Finalize
    <3>1. UNCHANGED <<open, closing, left, op>>
      BY <2>10
      DEF Prepare, Calculating, BeginAuthorization, CallbackFails, SelectIdentities,
          AdvanceSign, SubmitSignatures, Finalize, sessVars
    <3>2. st' = "FAILED" => ~worked'
      BY <1>1, <2>10
      DEF SessionsKept, Prepare, Calculating, Uncalculated, AwaitAuthorization,
          BeginAuthorization, CallbackFails, SelectIdentities, AdvanceSign, SubmitSignatures,
          Finalize
    <3>3. QED BY <2>2, <3>1, <3>2
  <2>11. QED
    BY <1>4, <2>3, <2>4, <2>5, <2>6, <2>7, <2>8, <2>9, <2>10 DEF Step
<1>5. QED BY <1>2, <1>3, <1>4

\* The legs fit the flow.
LEMMA LegsFitStep == BatchInv /\ Step => LegsFit'
<1> SUFFICES ASSUME BatchInv, Step PROVE LegsFit' OBVIOUS
<1>1. TypeOK /\ LegsFit BY DEF BatchInv
<1>2. CASE Prepare BY <1>1, <1>2 DEF Prepare, LegsFit
<1>3. CASE Upload
  <2>1. st' \in {"PREPARING", "UPLOADED", "FAILED"} /\ leg' = leg /\ flow' = flow
    BY <1>3 DEF Upload
  <2>2. QED BY <1>1, <2>1 DEF LegsFit
<1>4. CASE Calculating
  BY <1>1, <1>4
  DEF Calculating, Uncalculated, AwaitAuthorization, LegsFit
<1>5. CASE BeginAuthorization
  <2>1. flow \in AllFlows BY <1>1, FlowsAssumption DEF TypeOK
  <2>2. QED
    BY <1>1, <1>5, <2>1
    DEF BeginAuthorization, AwaitAuthorization, FirstLeg, LegsFit, AllFlows, IsCSC, IsClientSide
<1>6. CASE CallbackFails \/ SelectIdentities \/ AdvanceSign
  BY <1>1, <1>6 DEF CallbackFails, SelectIdentities, AdvanceSign, LegsFit
<1>7. CASE Signing \/ FinalizeFails
  BY <1>1, <1>7 DEF Signing, FinalizeFails, Failed, LegsFit
<1>8. CASE SubmitSignatures BY <1>1, <1>8 DEF SubmitSignatures, LegsFit
<1>9. CASE Finalize BY <1>1, <1>9 DEF Finalize, LegsFit
<1>10. CASE DeleteJob BY <1>10 DEF DeleteJob, LegsFit
<1>11. CASE UNCHANGED jobVars BY <1>1, <1>11 DEF jobVars, LegsFit
<1>12. QED
  BY <1>2, <1>3, <1>4, <1>5, <1>6, <1>7, <1>8, <1>9, <1>10, <1>11
  DEF Step, StartOperation, ArchiveJobDocument, OperationCall, OperationReturns, closeSession,
      vars

\* What a step does to the documents' inputs, digests and values: nothing but Prepare and
\* DeleteJob changes the batch.
SameInputs ==
    /\ docs' \in Seq(DocumentType) /\ DOMAIN docs' = DOMAIN docs /\ Len(docs') = Len(docs)
    /\ \A i \in DOMAIN docs : docs'[i].in = docs[i].in

LEMMA InputsStep == BatchInv /\ Step => Prepare \/ DeleteJob \/ SameInputs
<1> SUFFICES ASSUME BatchInv, Step, ~Prepare, ~DeleteJob PROVE SameInputs OBVIOUS
<1>1. TypeOK BY DEF BatchInv
<1>2. docs' = docs => SameInputs BY <1>1, Documents DEF SameInputs
<1>3. SameDocuments => SameInputs BY DEF SameDocuments, SameInputs
<1>4. CASE Upload BY <1>1, <1>2, <1>4, Uploads DEF SameInputs
<1>5. CASE Calculating \/ Signing \/ SubmitSignatures \/ Finalize
  BY <1>3, <1>5, Submits, Finalizes
  DEF BatchInv, Calculating, Uncalculated, AllCalculated, Calculated, Signing, OnlyValues
<1>6. QED
  BY <1>2, <1>4, <1>5
  DEF Step, BeginAuthorization, CallbackFails, SelectIdentities, AdvanceSign, FinalizeFails,
      StartOperation, ArchiveJobDocument, OperationCall, OperationReturns, closeSession, vars,
      jobVars

LEMMA BatchKeptStep == BatchInv /\ Step => BatchKept'
<1> SUFFICES ASSUME BatchInv, Step PROVE BatchKept' OBVIOUS
<1>1. TypeOK /\ BatchKept /\ LegsFit BY DEF BatchInv
<1>2. CASE Prepare
  <2>1. docs' # <<>> BY <1>2, Prepares, EmptySequence
  <2>2. QED BY <1>2, <2>1, Prepares DEF BatchKept
<1>3. CASE DeleteJob
  <2>1. DOMAIN docs' = {} /\ st' = "DELETED" BY <1>3, EmptySequence DEF DeleteJob
  <2>2. QED BY <2>1 DEF BatchKept
<1>4. CASE SameInputs /\ ~Prepare /\ ~DeleteJob
  <2>1. st' \notin {"none", "DELETED"} => st \notin {"none", "DELETED"}
    BY <1>4
    DEF Step, Upload, Calculating, BeginAuthorization, CallbackFails, SelectIdentities,
        AdvanceSign, Signing, SubmitSignatures, Finalize, FinalizeFails, StartOperation,
        ArchiveJobDocument, OperationCall, OperationReturns, closeSession, vars, jobVars
  <2>2. docs # <<>> => docs' # <<>>
    <3>1. docs \in Seq(DocumentType) BY <1>1, Documents
    <3>2. docs # <<>> => 1 \in DOMAIN docs BY <3>1, NonEmptySequence
    <3>3. QED BY <1>4, <3>2, EmptySequence DEF SameInputs
  <2>3. docs \in Seq(DocumentType) /\ DOMAIN docs = 1..Len(docs) BY <1>1, Documents
  <2>4. \A i \in DOMAIN docs : 1 \in DOMAIN docs BY <2>3
  <2>5. QED BY <1>1, <1>4, <2>1, <2>2, <2>4 DEF BatchKept, SameInputs
<1>5. QED BY <1>2, <1>3, <1>4, InputsStep

\* No job gets past its first leg without the certificate of the timestamp.
LEMMA CertKeptStep == BatchInv /\ Step => CertKept'
<1> SUFFICES ASSUME BatchInv, Step PROVE CertKept' OBVIOUS
<1>1. TypeOK /\ CertKept BY DEF BatchInv
<1>2. CASE Prepare BY <1>2, Prepares DEF Prepare, CertKept
<1>3. CASE Calculating
  BY <1>1, <1>3 DEF Calculating, Uncalculated, AwaitAuthorization, CertKept
<1>4. CASE BeginAuthorization
  BY <1>1, <1>4 DEF BeginAuthorization, AwaitAuthorization, FirstLeg, authCertFor, CertKept
<1>5. CASE SelectIdentities BY <1>5 DEF SelectIdentities, authCertFor, CertKept
<1>6. CASE DeleteJob BY <1>6 DEF DeleteJob, CertKept
<1>7. CASE Upload
  <2>1. st = "PREPARING" /\ st' \in {"PREPARING", "UPLOADED", "FAILED"} BY <1>7 DEF Upload
  <2>2. flow' = flow /\ cert' = cert BY <1>7 DEF Upload
  <2>3. QED BY <1>1, <2>1, <2>2 DEF CertKept
<1>8. CASE \/ CallbackFails \/ AdvanceSign \/ Signing \/ SubmitSignatures \/ Finalize
           \/ FinalizeFails \/ UNCHANGED jobVars
  BY <1>1, <1>8
  DEF CallbackFails, AdvanceSign, Signing, Failed, SubmitSignatures, Finalize, FinalizeFails,
      jobVars, CertKept
<1>9. QED
  BY <1>2, <1>3, <1>4, <1>5, <1>6, <1>7, <1>8
  DEF Step, StartOperation, ArchiveJobDocument, OperationCall, OperationReturns, closeSession,
      vars

\* A document's digest stays its own session's.
LEMMA DigestsOwnStep == BatchInv /\ Step => DigestsOwn'
<1> SUFFICES ASSUME BatchInv, Step PROVE DigestsOwn' OBVIOUS
<1>1. TypeOK /\ DigestsOwn /\ SessionsApart /\ LegsFit BY DEF BatchInv
<1>2. \A i \in DOMAIN docs : 1 \in DOMAIN docs BY <1>1, Documents
<1>3. CASE Prepare
  <2>1. \A i \in DOMAIN docs' : docs'[i].session = 0 /\ docs'[i].digest = 0
    BY <1>3, Prepares
  <2>2. QED BY <1>3, <2>1 DEF Prepare, DigestsOwn
<1>4. CASE Upload
  <2>1. st' \in {"PREPARING", "UPLOADED", "FAILED"} /\ form' = form BY <1>4 DEF Upload
  <2>2. QED BY <1>1, <1>2, <1>4, <2>1, Uploads DEF DigestsOwn
<1>5. CASE Calculating
  <2>1. Calculated BY <1>5 DEF Calculating, Uncalculated, AllCalculated
  <2>2. AllCalculated \/ st' = "FAILED" BY <1>5 DEF Calculating, Uncalculated
  <2>3. QED
    BY <1>1, <1>2, <2>1, <2>2
    DEF Calculated, AllCalculated, SameDocuments, DigestsOwn
<1>6. CASE OnlyValues /\ form' = form /\ (st \in {"AWAITING_CLIENT_SIGNATURE", "SIGNING", "FINALIZING"})
  BY <1>1, <1>2, <1>6 DEF OnlyValues, SameDocuments, DigestsOwn
<1>7. CASE Signing \/ SubmitSignatures \/ Finalize
  <2>1. OnlyValues BY <1>7, Submits, Finalizes DEF Signing, BatchInv
  <2>2. QED BY <1>6, <1>7, <2>1 DEF Signing, SubmitSignatures, Finalize
<1>8. CASE DeleteJob
  <2>1. DOMAIN docs' = {} BY <1>8, EmptySequence DEF DeleteJob
  <2>2. QED BY <2>1 DEF DigestsOwn
<1>9. CASE BeginAuthorization
  BY <1>1, <1>9 DEF BeginAuthorization, AwaitAuthorization, FirstLeg, DigestsOwn
<1>10. CASE CallbackFails \/ SelectIdentities \/ AdvanceSign \/ FinalizeFails
  BY <1>1, <1>10
  DEF CallbackFails, SelectIdentities, AdvanceSign, FinalizeFails, Failed, DigestsOwn
<1>11. CASE UNCHANGED jobVars BY <1>1, <1>11 DEF jobVars, DigestsOwn
<1>12. QED
  BY <1>3, <1>4, <1>5, <1>7, <1>8, <1>9, <1>10, <1>11
  DEF Step, StartOperation, ArchiveJobDocument, OperationCall, OperationReturns, closeSession,
      vars

\* A value that reaches finalize is the document's own, or a document has none.
LEMMA ValuesOwnStep == BatchInv /\ Step => ValuesOwn'
<1> SUFFICES ASSUME BatchInv, Step PROVE ValuesOwn' OBVIOUS
<1>1. TypeOK /\ ValuesOwn BY DEF BatchInv
<1>2. CASE Prepare
  <2>1. \A i \in DOMAIN docs' : docs'[i].value = NoValue BY <1>2, Prepares
  <2>2. QED BY <1>2, <2>1 DEF Prepare, ValuesOwn
<1>3. CASE Upload
  <2>1. st' \in {"PREPARING", "UPLOADED", "FAILED"} /\ st = "PREPARING" BY <1>3 DEF Upload
  <2>2. QED BY <1>1, <1>3, <2>1, Uploads DEF ValuesOwn
<1>4. CASE Calculating
  <2>1. Calculated BY <1>4 DEF Calculating, Uncalculated, AllCalculated
  <2>2. st' # "FINALIZING" /\ st \notin {"FINALIZING", "FAILED"}
    BY <1>4 DEF Calculating, Uncalculated, AwaitAuthorization
  <2>3. QED BY <1>1, <2>1, <2>2 DEF Calculated, SameDocuments, ValuesOwn
<1>5. CASE Signing
  BY <1>1, <1>5 DEF Signing, Failed, OnlyValues, SameDocuments, ValuesOwn
<1>6. CASE SubmitSignatures
  <2>1. st' = "FINALIZING" BY <1>6 DEF SubmitSignatures
  <2>2. QED BY <1>1, <1>6, <2>1, Submits DEF OnlyValues, SameDocuments, ValuesOwn
<1>7. CASE Finalize
  <2>1. OnlyValues /\ \A i \in DOMAIN docs : docs'[i].value = NoValue
    BY <1>7, Finalizes DEF BatchInv
  <2>2. st' = "READY" BY <1>7 DEF Finalize
  <2>3. QED BY <2>1, <2>2 DEF OnlyValues, SameDocuments, ValuesOwn
<1>8. CASE DeleteJob
  <2>1. DOMAIN docs' = {} /\ st' = "DELETED" BY <1>8, EmptySequence DEF DeleteJob
  <2>2. QED BY <2>1 DEF ValuesOwn
<1>9. CASE BeginAuthorization \/ CallbackFails \/ SelectIdentities \/ AdvanceSign \/ FinalizeFails
  BY <1>1, <1>9
  DEF BeginAuthorization, AwaitAuthorization, CallbackFails, SelectIdentities, AdvanceSign,
      FinalizeFails, Failed, ValuesOwn
<1>10. CASE UNCHANGED jobVars BY <1>1, <1>10 DEF jobVars, ValuesOwn
<1>11. QED
  BY <1>2, <1>3, <1>4, <1>5, <1>6, <1>7, <1>8, <1>9, <1>10
  DEF Step, StartOperation, ArchiveJobDocument, OperationCall, OperationReturns, closeSession,
      vars

\* Only finalize applies signatures, and it applies the right ones.
LEMMA RightSignatureStep == BatchInv /\ RightSignature /\ Step => RightSignature'
<1> SUFFICES ASSUME BatchInv, RightSignature, Step PROVE RightSignature' OBVIOUS
<1>1. CASE Finalize BY <1>1, Finalizes DEF BatchInv, RightSignature
<1>2. CASE applied' = applied BY <1>2 DEF RightSignature
<1>3. QED
  BY <1>1, <1>2
  DEF Step, Prepare, Upload, Calculating, BeginAuthorization, CallbackFails, SelectIdentities,
      AdvanceSign, Signing, SubmitSignatures, FinalizeFails, DeleteJob, StartOperation,
      ArchiveJobDocument, OperationCall, OperationReturns, closeSession, vars

\* Only a submission that names every id brings a card job to finalize.
LEMMA AcceptedIsCompleteStep == BatchInv /\ AcceptedIsComplete /\ Step => AcceptedIsComplete'
<1> SUFFICES ASSUME BatchInv, AcceptedIsComplete, Step PROVE AcceptedIsComplete' OBVIOUS
<1>1. CASE SubmitSignatures
  <2>1. /\ SameDocuments
        /\ Distinct => \A i \in DOMAIN docs : docs'[i].value # NoValue
    BY <1>1, Submits DEF BatchInv, OnlyValues
  <2>2. Distinct' => Distinct BY <2>1 DEF SameDocuments, Distinct
  <2>3. QED BY <2>1, <2>2 DEF SameDocuments, AcceptedIsComplete
<1>2. CASE Signing BY <1>2 DEF Signing, AcceptedIsComplete
<1>3. CASE UNCHANGED jobVars BY <1>3 DEF jobVars, AcceptedIsComplete, Distinct
<1>4. CASE st' # "FINALIZING" BY <1>4 DEF AcceptedIsComplete
<1>5. QED
  BY <1>1, <1>2, <1>3, <1>4
  DEF Step, Prepare, Upload, Calculating, Uncalculated, AwaitAuthorization, BeginAuthorization,
      CallbackFails, SelectIdentities, AdvanceSign, Finalize, FinalizeFails, Failed, DeleteJob,
      StartOperation, ArchiveJobDocument, OperationCall, OperationReturns, closeSession, vars

\* A CSC job is authorized for digests of one length, and keeps its documents from there on.
LEMMA AlgorithmFitsStep == BatchInv /\ AlgorithmFits /\ Step => AlgorithmFits'
<1> SUFFICES ASSUME BatchInv, AlgorithmFits, Step PROVE AlgorithmFits' OBVIOUS
<1>1. TypeOK /\ LegsFit /\ DigestsOwn BY DEF BatchInv
<1>2. ASSUME SameInputs, UNCHANGED <<flow, leg, algo>>,
             st' \in {"SIGNING", "FINALIZING", "READY"} => st \in {"SIGNING", "FINALIZING", "READY"}
      PROVE  AlgorithmFits'
  BY <1>2 DEF SameInputs, AlgorithmFits
<1>3. CASE Prepare BY <1>1, <1>3 DEF Prepare, LegsFit, AlgorithmFits
<1>4. CASE DeleteJob BY <1>4 DEF DeleteJob, AlgorithmFits
<1>5. CASE Calculating
  <2>1. CASE Uncalculated
    BY <1>5, <2>1 DEF Calculating, Uncalculated, AlgorithmFits
  <2>2. CASE IsClientSide(flow)
    BY <1>5, <2>2
    DEF Calculating, IsClientSide, IsCSC, ClientFlows, CSCFlows, AlgorithmFits
  <2>3. CASE AllCalculated /\ (IsCSC(flow) => OneAlgorithm)
    BY <1>5, <2>3
    DEF Calculating, AllCalculated, Calculated, SameDocuments, OneAlgorithm, AlgorithmFits
  <2>4. QED BY <1>5, <2>1, <2>2, <2>3 DEF Calculating
<1>6. CASE AdvanceSign BY <1>6 DEF AdvanceSign, AlgorithmFits
<1>7. CASE SubmitSignatures
  BY <1>1, <1>7
  DEF SubmitSignatures, LegsFit, IsClientSide, IsCSC, ClientFlows, CSCFlows, AlgorithmFits
<1>8. CASE SelectIdentities
  BY <1>8 DEF SelectIdentities, AlgorithmFits
<1>9. CASE BeginAuthorization
  BY <1>9 DEF BeginAuthorization, AwaitAuthorization, FirstLeg, AlgorithmFits
<1>10. CASE \/ Upload \/ CallbackFails \/ Signing \/ Finalize \/ FinalizeFails
            \/ UNCHANGED jobVars
  <2>1. SameInputs
    <3>1. (~Prepare /\ ~DeleteJob) \/ docs' = docs
      BY <1>10
      DEF Prepare, DeleteJob, Upload, CallbackFails, Signing, Failed, Finalize, FinalizeFails,
          jobVars
    <3>2. docs' = docs => SameInputs BY <1>1, Documents DEF SameInputs
    <3>3. QED BY <3>1, <3>2, InputsStep
  <2>2. UNCHANGED <<flow, leg, algo>>
    BY <1>10 DEF Upload, CallbackFails, Signing, Finalize, FinalizeFails, jobVars
  <2>3. st' \in {"SIGNING", "FINALIZING", "READY"} => st \in {"SIGNING", "FINALIZING", "READY"}
    BY <1>10 DEF Upload, CallbackFails, Signing, Failed, Finalize, FinalizeFails, jobVars
  <2>4. QED BY <1>2, <2>1, <2>2, <2>3
<1>11. QED
  BY <1>3, <1>4, <1>5, <1>6, <1>7, <1>8, <1>9, <1>10
  DEF Step, StartOperation, ArchiveJobDocument, OperationCall, OperationReturns, closeSession,
      vars

\* The choice of identities stays what it was while it is used.
LEMMA IdentitiesFitStep == BatchInv /\ IdentitiesFit /\ Step => IdentitiesFit'
<1> SUFFICES ASSUME BatchInv, IdentitiesFit, Step PROVE IdentitiesFit' OBVIOUS
<1>1. CASE SelectIdentities BY <1>1, Selects DEF BatchInv
<1>2. CASE flow' = flow /\ leg' = leg /\ ids' = ids /\ chosen' = chosen BY <1>2 DEF IdentitiesFit
<1>3. CASE leg' # "selected" \/ ids' = <<>> BY <1>3 DEF IdentitiesFit
<1>4. CASE Calculating
  BY <1>2, <1>3, <1>4
  DEF Calculating, Uncalculated, AllCalculated, Calculated, AwaitAuthorization
<1>5. CASE BeginAuthorization
  BY <1>2, <1>3, <1>5 DEF BeginAuthorization, AwaitAuthorization, FirstLeg
<1>6. QED
  BY <1>1, <1>2, <1>3, <1>4, <1>5
  DEF Step, Prepare, Upload, CallbackFails, AdvanceSign, Signing, SubmitSignatures, Finalize,
      FinalizeFails, DeleteJob, StartOperation, ArchiveJobDocument, OperationCall,
      OperationReturns, closeSession, vars, jobVars

----------------------------------------------------------------------------
(* The theorems.                                                           *)

BatchSafe ==
    /\ BatchInv /\ RightSignature /\ AcceptedIsComplete /\ AlgorithmFits
    /\ SessionsOwned /\ IdentitiesFit

LEMMA BatchInit == Init => BatchSafe
<1> SUFFICES ASSUME Init PROVE BatchSafe OBVIOUS
<1>1. /\ <<>> \in Seq(DocumentType) /\ Len(<<>>) = 0 /\ DOMAIN <<>> = {} BY EmptySequence
<1>2. Len(<<>>) <= MaxDocuments
  <2>1. MaxDocuments \in Nat BY BatchAssumption
  <2>2. QED BY <2>1, EmptySequence
<1>3. DOMAIN docs = {} /\ DOMAIN applied = {} /\ JobSessions = {} BY <1>1 DEF Init, JobSessions
<1>4. TypeOK
  <2>1. SessionTypes BY DEF Init, SessionTypes, NoOp
  <2>2. docs \in Seq(DocumentType) /\ Len(docs) <= MaxDocuments BY <1>1, <1>2, Zenon DEF Init
  <2>3. NoChoice \in [sign : Nat, auth : Nat, sealID : Nat] BY DEF NoChoice
  <2>4. QED BY <1>3, <2>1, <2>2, <2>3 DEF Init, SessionTypes, TypeOK, Legs
<1>5. BatchInv
  BY <1>3, <1>4
  DEF Init, BatchInv, LegsFit, BatchKept, CertKept, SessionsApart, DigestsOwn, ValuesOwn,
      OperationApart, SessionsKept, NoOp
<1>6. QED
  BY <1>3, <1>5
  DEF Init, BatchSafe, RightSignature, AcceptedIsComplete, AlgorithmFits, SessionsOwned,
      IdentitiesFit

LEMMA BatchStep == BatchSafe /\ [Next]_vars => BatchSafe'
<1> SUFFICES ASSUME BatchSafe, [Next]_vars PROVE BatchSafe' OBVIOUS
<1>1. BatchInv /\ Step BY NextIsStep DEF BatchSafe
<1>2. BatchInv'
  BY <1>1, TypeStep, LegsFitStep, BatchKeptStep, CertKeptStep, SessionsApartStep, DigestsOwnStep,
     ValuesOwnStep, OperationApartStep, SessionsKeptStep
  DEF BatchInv
<1>3. QED
  BY <1>1, <1>2, RightSignatureStep, AcceptedIsCompleteStep, AlgorithmFitsStep,
     SessionsOwnedStep, IdentitiesFitStep
  DEF BatchSafe

LEMMA AlwaysBatchSafe == Spec => []BatchSafe
BY BatchInit, BatchStep, PTL DEF Spec

\* A job's documents, sessions, digests and values keep their types on every path.
THEOREM BatchTypeCorrect == Spec => []TypeOK
<1>1. BatchSafe => TypeOK BY DEF BatchSafe, BatchInv
<1>2. QED BY <1>1, AlwaysBatchSafe, PTL

\* FinalizeSigning applies to every session the signature over that session's digest, for
\* a batch of any size, whatever order CalculateDigest and signHash answer in, however the
\* values are encoded, and when documents share an id.
THEOREM AlwaysRightSignature == Spec => []RightSignature
<1>1. BatchSafe => RightSignature BY DEF BatchSafe
<1>2. QED BY <1>1, AlwaysBatchSafe, PTL

\* A submission SubmitSignatures accepts leaves no document of a batch with distinct ids
\* without a value, whatever it repeats.
THEOREM AcceptedSubmissionsAreComplete == Spec => []AcceptedIsComplete
<1>1. BatchSafe => AcceptedIsComplete BY DEF BatchSafe
<1>2. QED BY <1>1, AlwaysBatchSafe, PTL

\* What a person is asked to confirm can be signed and finalized.
LEMMA AskedCanEnd == BatchSafe => NeverAskedInVain
<1> SUFFICES ASSUME BatchSafe, (st = "AWAITING_AUTHORIZATION" /\ leg = "sign") \/ st = "SIGNING"
             PROVE  /\ authCertFor(flow, cert)
                    /\ \A i \in DOMAIN docs :
                         /\ docs[i].digest = docs[i].session
                         /\ form = "pdf" <=> docs[i].in.form = "pdf"
                         /\ docs[i].session \in open \ (closing \cup left)
                         /\ IsCSC(flow) => Verified([of |-> docs[i].digest, enc |-> "der"], i)
  BY DEF NeverAskedInVain
<1>1. /\ BatchKept /\ CertKept /\ SessionsApart /\ DigestsOwn /\ SessionsKept
      /\ AlgorithmFits
  BY DEF BatchSafe, BatchInv
<1>2. authCertFor(flow, cert) BY <1>1 DEF CertKept
<1>3. ASSUME NEW i \in DOMAIN docs
      PROVE  /\ docs[i].digest = docs[i].session
             /\ form = "pdf" <=> docs[i].in.form = "pdf"
             /\ docs[i].session \in open \ (closing \cup left)
  <2>1. docs[i].session # 0 BY <1>1 DEF SessionsApart
  <2>2. docs[i].session \in JobSessions BY <2>1 DEF JobSessions
  <2>3. docs[i].digest = docs[i].session BY <1>1 DEF DigestsOwn
  <2>4. form = docs[1].in.form BY <1>1, <2>1, <2>3 DEF DigestsOwn
  <2>5. form = "pdf" <=> docs[i].in.form = "pdf" BY <1>1, <2>4 DEF BatchKept
  <2>6. QED BY <1>1, <2>2, <2>3, <2>5 DEF SessionsKept
<1>4. ASSUME NEW i \in DOMAIN docs, IsCSC(flow)
      PROVE  Verified([of |-> docs[i].digest, enc |-> "der"], i)
  BY <1>1, <1>4 DEF AlgorithmFits, Verified
<1>5. QED BY <1>2, <1>3, <1>4

\* For a batch of any size, nobody is asked to confirm a signing that cannot end well: the
\* digests, the open sessions, the certificate of the timestamp and, for a CSC job, the one
\* algorithm are all there, next to any validate or archive request.
THEOREM PersonNeverAskedInVain == Spec => []NeverAskedInVain
BY AlwaysBatchSafe, AskedCanEnd, PTL

\* No open session is left behind by a validate or archive request, or by a worker.
THEOREM SessionsAlwaysOwned == Spec => []SessionsOwned
<1>1. BatchSafe => SessionsOwned BY DEF BatchSafe
<1>2. QED BY <1>1, AlwaysBatchSafe, PTL

\* No validate or archive request, and no close that waits in the background, closes the
\* sessions of a READY job.
THEOREM ReadyAlwaysKeepsSessions == Spec => []ReadyKeepsSessions
<1>1. BatchSafe => ReadyKeepsSessions
  BY DEF BatchSafe, BatchInv, SessionsKept, ReadyKeepsSessions
<1>2. QED BY <1>1, AlwaysBatchSafe, PTL

\* The identities chosen from a list of any length fit the flow.
THEOREM IdentitiesAlwaysFit == Spec => []IdentitiesFit
<1>1. BatchSafe => IdentitiesFit BY DEF BatchSafe
<1>2. QED BY <1>1, AlwaysBatchSafe, PTL
=============================================================================
