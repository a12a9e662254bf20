--------------------------- MODULE ServiceProofs ---------------------------
(***************************************************************************)
(* Signer implements SigningService, for every value of the constants.     *)
(*                                                                         *)
(* That a job is shown as worked on only with consent, and as ready only   *)
(* when it is signed, is what Safe says of the saved copy.  That a consent *)
(* pays for one attempt needs counting: a consent puts one unit of work on *)
(* the way, and the unit is with the request that will push it, on the     *)
(* list, or with the worker that popped it, until FinalizeSigning uses it  *)
(* up or it is lost.                                                       *)
(***************************************************************************)
EXTENDS SafetyProofs, FiniteSetTheorems

\* Where a unit of work for job id is.
Pushes(q, id) == q.id = id /\ q.pc \in {"cbSaveDone", "submitSave", "enqueue"}
Tries(v, id)  == v.id = id /\ v.pc \in {"deviceSave", "sign", "saveFinalizing", "finalize"}

Pushing(id) == {r \in Requests : Pushes(req[r], id)}
Queued(id)  == {i \in DOMAIN queue : queue[i] = id}
Trying(id)  == {w \in Workers : Tries(wrk[w], id)}

\* The units of work that are on the way.
Load(id) == Cardinality(Pushing(id)) + Cardinality(Queued(id)) + Cardinality(Trying(id))

\* Every consent pays for one unit of work or one attempt.
Paid == \A id \in Jobs : signapi[id].calls + Load(id) <= seen[id].accepted

----------------------------------------------------------------------------
(* Counting.                                                               *)

\* How the size of a finite set changes when at most one element comes or goes.
LEMMA OneElement ==
    ASSUME NEW S, IsFiniteSet(S), NEW T \in SUBSET S, NEW U \in SUBSET S, NEW e,
           T \ {e} = U \ {e}
    PROVE  /\ Cardinality(T) \in Nat /\ Cardinality(U) \in Nat
           /\ Cardinality(U) <= Cardinality(T) + 1
           /\ (e \notin U \/ e \in T) => Cardinality(U) <= Cardinality(T)
           /\ (e \notin U /\ e \in T) => Cardinality(U) + 1 <= Cardinality(T)
<1>1. IsFiniteSet(T) /\ IsFiniteSet(U) BY FS_Subset
<1>2. /\ Cardinality(T) \in Nat /\ Cardinality(U) \in Nat
      /\ Cardinality(T \ {e}) \in Nat
  BY <1>1, FS_CardinalityType, FS_RemoveElement
<1>3. Cardinality(T \ {e}) = IF e \in T THEN Cardinality(T) - 1 ELSE Cardinality(T)
  BY <1>1, FS_RemoveElement
<1>4. Cardinality(U \ {e}) = IF e \in U THEN Cardinality(U) - 1 ELSE Cardinality(U)
  BY <1>1, FS_RemoveElement
<1>5. QED BY <1>2, <1>3, <1>4

\* A request changes: at most its own unit of work comes or goes.
LEMMA RequestLoad ==
    ASSUME RequestsOK, NEW r \in Requests, NEW q, req' = [req EXCEPT ![r] = q], NEW id \in Jobs
    PROVE  /\ Cardinality(Pushing(id)) \in Nat /\ Cardinality(Pushing(id))' \in Nat
           /\ Cardinality(Pushing(id))' <= Cardinality(Pushing(id)) + 1
           /\ ~Pushes(q, id) \/ Pushes(req[r], id) =>
                Cardinality(Pushing(id))' <= Cardinality(Pushing(id))
           /\ ~Pushes(q, id) /\ Pushes(req[r], id) =>
                Cardinality(Pushing(id))' + 1 <= Cardinality(Pushing(id))
<1>1. Pushing(id) \in SUBSET Requests /\ Pushing(id)' \in SUBSET Requests BY DEF Pushing
<1>2. \A p \in Requests : req'[p] = IF p = r THEN q ELSE req[p] BY DEF RequestsOK
<1>3. Pushing(id) \ {r} = Pushing(id)' \ {r} BY <1>2 DEF Pushing
<1>4. /\ r \in Pushing(id) <=> Pushes(req[r], id)
      /\ r \in Pushing(id)' <=> Pushes(q, id)
  BY <1>2 DEF Pushing
<1>5. QED BY <1>1, <1>3, <1>4, OneElement, ProcessesAssumption

\* A worker changes, likewise.
LEMMA WorkerLoad ==
    ASSUME WorkersOK, NEW w \in Workers, NEW v, wrk' = [wrk EXCEPT ![w] = v], NEW id \in Jobs
    PROVE  /\ Cardinality(Trying(id)) \in Nat /\ Cardinality(Trying(id))' \in Nat
           /\ Cardinality(Trying(id))' <= Cardinality(Trying(id)) + 1
           /\ ~Tries(v, id) \/ Tries(wrk[w], id) =>
                Cardinality(Trying(id))' <= Cardinality(Trying(id))
           /\ ~Tries(v, id) /\ Tries(wrk[w], id) =>
                Cardinality(Trying(id))' + 1 <= Cardinality(Trying(id))
<1>1. Trying(id) \in SUBSET Workers /\ Trying(id)' \in SUBSET Workers BY DEF Trying
<1>2. \A p \in Workers : wrk'[p] = IF p = w THEN v ELSE wrk[p] BY DEF WorkersOK
<1>3. Trying(id) \ {w} = Trying(id)' \ {w} BY <1>2 DEF Trying
<1>4. /\ w \in Trying(id) <=> Tries(wrk[w], id)
      /\ w \in Trying(id)' <=> Tries(v, id)
  BY <1>2 DEF Trying
<1>5. QED BY <1>1, <1>3, <1>4, OneElement, ProcessesAssumption

\* The work list is finite.
LEMMA QueuedFinite ==
    ASSUME NEW q \in Seq(Jobs), NEW id
    PROVE  IsFiniteSet({i \in DOMAIN q : q[i] = id})
<1>1. DOMAIN q = 1..Len(q) /\ Len(q) \in Nat OBVIOUS
<1>2. IsFiniteSet(1..Len(q)) BY <1>1, FS_Interval
<1>3. QED BY <1>1, <1>2, FS_Subset

\* A push puts one item of its job on the list.
LEMMA PushLoad ==
    ASSUME StoreTypeOK, NEW j \in Jobs, queue' = Append(queue, j), NEW id \in Jobs
    PROVE  /\ Cardinality(Queued(id)) \in Nat /\ Cardinality(Queued(id))' \in Nat
           /\ Cardinality(Queued(id))' <= Cardinality(Queued(id)) + 1
           /\ id # j => Cardinality(Queued(id))' <= Cardinality(Queued(id))
<1>1. /\ queue \in Seq(Jobs) /\ Len(queue) \in Nat
      /\ DOMAIN queue = 1..Len(queue) /\ DOMAIN queue' = 1..(Len(queue) + 1)
      /\ \A i \in 1..Len(queue) : queue'[i] = queue[i]
      /\ queue'[Len(queue) + 1] = j
  BY DEF StoreTypeOK
<1>2. /\ Queued(id) \in SUBSET (1..(Len(queue) + 1)) /\ Queued(id)' \in SUBSET (1..(Len(queue) + 1))
      /\ Queued(id) \ {Len(queue) + 1} = Queued(id)' \ {Len(queue) + 1}
      /\ id # j => Len(queue) + 1 \notin Queued(id)'
  BY <1>1 DEF Queued
<1>3. IsFiniteSet(1..(Len(queue) + 1)) BY <1>1, FS_Interval
<1>4. QED BY <1>2, <1>3, OneElement

\* A pop takes one item of its job off the list.
LEMMA PopLoad ==
    ASSUME StoreTypeOK, NEW j \in Jobs, DequeueWork(j), NEW id \in Jobs
    PROVE  /\ Cardinality(Queued(id)) \in Nat /\ Cardinality(Queued(id))' \in Nat
           /\ Cardinality(Queued(id))' <= Cardinality(Queued(id))
           /\ id = j => Cardinality(Queued(id))' + 1 <= Cardinality(Queued(id))
<1>1. /\ queue \in Seq(Jobs) /\ Len(queue) \in Nat /\ Len(queue) > 0
      /\ queue' \in Seq(Jobs)
      /\ DOMAIN queue = 1..Len(queue) /\ DOMAIN queue' = 1..(Len(queue) - 1)
      /\ \A i \in 1..(Len(queue) - 1) : queue'[i] = queue[i + 1]
      /\ queue[1] = j
  BY DEF StoreTypeOK, DequeueWork
<1> DEFINE T == Queued(id) \ {1}
           f == [i \in Queued(id)' |-> i + 1]
<1>2. IsFiniteSet(Queued(id)) /\ IsFiniteSet(Queued(id)')
  BY <1>1, QueuedFinite DEF Queued
<1>3. /\ IsFiniteSet(T)
      /\ Cardinality(T) = IF 1 \in Queued(id) THEN Cardinality(Queued(id)) - 1
                                              ELSE Cardinality(Queued(id))
  BY <1>2, FS_RemoveElement
<1>4. Queued(id)' \subseteq Int /\ \A i \in Queued(id)' : i + 1 \in T
  BY <1>1 DEF Queued
<1>5. f \in Injection(Queued(id)', T)
  BY <1>4 DEF Injection, IsInjective
<1>6. Cardinality(Queued(id)') <= Cardinality(T)
  BY <1>3, <1>5, FS_Injection
<1>7. Cardinality(Queued(id)) \in Nat /\ Cardinality(Queued(id)') \in Nat
  BY <1>2, FS_CardinalityType
<1>8. id = j => 1 \in Queued(id) BY <1>1 DEF Queued
<1>9. QED BY <1>3, <1>6, <1>7, <1>8

----------------------------------------------------------------------------
(* Steps of the service.                                                   *)

\* Nobody consents, attempts, signs or reports.
SameSessions ==
    \A id \in Jobs :
        /\ signapi'[id].calls = signapi[id].calls
        /\ signapi'[id].finalized = signapi[id].finalized

SameSeen ==
    \A id \in Jobs :
        /\ seen'[id].accepted = seen[id].accepted
        /\ seen'[id].applied = seen[id].applied

Quiet == SameSessions /\ SameSeen

\* At most one job key is written.
OneKey == store' = store \/ \E j \in Jobs : \E x : store' = [store EXCEPT ![j] = x]

\* What a quiet step leaves alone of the service's state.
LEMMA QuietView ==
    ASSUME Quiet
    PROVE  /\ [id \in Jobs |-> seen[id].accepted]' = [id \in Jobs |-> seen[id].accepted]
           /\ [id \in Jobs |-> signapi[id].calls]' = [id \in Jobs |-> signapi[id].calls]
           /\ [id \in Jobs |-> signapi[id].finalized]' = [id \in Jobs |-> signapi[id].finalized]
           /\ [id \in Jobs |-> seen[id].applied > 0]' = [id \in Jobs |-> seen[id].applied > 0]
BY DEF Quiet, SameSessions, SameSeen

\* A quiet step that writes at most one job shows that job's new state, or nothing.
LEMMA QuietStep ==
    ASSUME TypeInv, TypeInv', Safe', Quiet, OneKey
    PROVE  [Service!Next]_(Service!vars)
<1>1. CASE store' = store
  <2>1. [id \in Jobs |-> Shown(id)]' = [id \in Jobs |-> Shown(id)]
    BY <1>1 DEF Shown, Exists
  <2>2. QED BY <2>1, QuietView DEF Service!vars
<1>2. ASSUME NEW j \in Jobs, NEW x, store' = [store EXCEPT ![j] = x]
      PROVE  Service!Next
  <2>1. \A id \in Jobs : id # j => store'[id] = store[id]
    BY <1>2 DEF TypeInv, StoreTypeOK
  <2>2. [id \in Jobs |-> Shown(id)]' = [[id \in Jobs |-> Shown(id)] EXCEPT ![j] = Shown(j)']
    BY <2>1 DEF Shown, Exists
  <2>3. Shown(j)' \in Service!Statuses
    <3>1. store'[j] = NoJob \/ store'[j].state \in JobStates
      BY DEF TypeInv, StoreTypeOK, JobType
    <3>2. QED BY <3>1 DEF Shown, Exists, ShownAs, JobStates, Service!Statuses
  <2>4. /\ Shown(j)' = "working" => store'[j] # NoJob /\ store'[j].state \in {"SIGNING", "FINALIZING"}
        /\ Shown(j)' = "ready" => store'[j] # NoJob /\ store'[j].state = "READY"
    <3>1. store'[j] = NoJob \/ store'[j].state \in JobStates
      BY DEF TypeInv, StoreTypeOK, JobType
    <3>2. QED BY <3>1 DEF Shown, Exists, ShownAs, JobStates
  <2>5. store'[j] # NoJob =>
          /\ store'[j].state \in {"SIGNING", "FINALIZING"} => seen'[j].accepted > 0
          /\ store'[j].state = "READY" => signapi'[j].finalized
    BY DEF Safe, StoreSound, Sound, Consistent, Backed
  <2>6. Service!Show(j, Shown(j)')
    <3>1. /\ Shown(j)' = "working" => [id \in Jobs |-> seen[id].accepted][j] > 0
          /\ Shown(j)' = "ready" => [id \in Jobs |-> signapi[id].finalized][j]
      BY <2>4, <2>5 DEF Quiet, SameSessions, SameSeen
    <3>2. QED BY <2>2, <3>1, QuietView DEF Service!Show
  <2>7. QED BY <2>3, <2>6 DEF Service!Next
<1>3. QED BY <1>1, <1>2 DEF OneKey

\* An accepted authorization or submission is a consent.
LEMMA ConsentStep ==
    ASSUME TypeInv, NEW j \in Jobs, seen' = [seen EXCEPT ![j].accepted = @ + 1],
           UNCHANGED <<store, signapi>>
    PROVE  Service!Next
<1>1. /\ \A id \in Jobs : seen'[id].applied = seen[id].applied
      /\ \A id \in Jobs : id # j => seen'[id].accepted = seen[id].accepted
      /\ seen'[j].accepted = seen[j].accepted + 1
  BY DEF TypeInv, SeenOK, SeenType
<1>2. [id \in Jobs |-> seen[id].accepted]' =
        [[id \in Jobs |-> seen[id].accepted] EXCEPT ![j] = @ + 1]
  BY <1>1
<1>3. /\ [id \in Jobs |-> Shown(id)]' = [id \in Jobs |-> Shown(id)]
      /\ [id \in Jobs |-> signapi[id].calls]' = [id \in Jobs |-> signapi[id].calls]
      /\ [id \in Jobs |-> signapi[id].finalized]' = [id \in Jobs |-> signapi[id].finalized]
      /\ [id \in Jobs |-> seen[id].applied > 0]' = [id \in Jobs |-> seen[id].applied > 0]
  BY <1>1 DEF Shown, Exists
<1>4. Service!Consent(j) BY <1>2, <1>3 DEF Service!Consent
<1>5. QED BY <1>4 DEF Service!Next

\* A call of FinalizeSigning is an attempt, if a consent is left to pay for it.
LEMMA AttemptStep ==
    ASSUME TypeInv, NEW j \in Jobs, NEW ok \in BOOLEAN, FinalizeSigning(j, ok),
           signapi[j].calls < seen[j].accepted, UNCHANGED <<store, seen>>
    PROVE  Service!Next
<1>1. PICK applied \in BOOLEAN :
        signapi' = [signapi EXCEPT ![j].calls = @ + 1,
                                   ![j].finalized = IF applied THEN TRUE ELSE @]
  BY DEF FinalizeSigning
<1>2. /\ \A id \in Jobs : id # j => signapi'[id] = signapi[id]
      /\ signapi'[j].calls = signapi[j].calls + 1
      /\ signapi'[j].finalized = IF applied THEN TRUE ELSE signapi[j].finalized
  BY <1>1 DEF TypeInv, UpstreamTypeOK, SignAPIType
<1>3. [id \in Jobs |-> signapi[id].calls]' =
        [[id \in Jobs |-> signapi[id].calls] EXCEPT ![j] = @ + 1]
  BY <1>2
<1>4. [id \in Jobs |-> signapi[id].finalized]' =
        [[id \in Jobs |-> signapi[id].finalized] EXCEPT ![j] = signapi'[j].finalized]
  BY <1>2
<1>5. signapi'[j].finalized \in {[id \in Jobs |-> signapi[id].finalized][j], TRUE}
  BY <1>2
<1>6. /\ [id \in Jobs |-> Shown(id)]' = [id \in Jobs |-> Shown(id)]
      /\ [id \in Jobs |-> seen[id].accepted]' = [id \in Jobs |-> seen[id].accepted]
      /\ [id \in Jobs |-> seen[id].applied > 0]' = [id \in Jobs |-> seen[id].applied > 0]
  BY DEF Shown, Exists
<1>7. [id \in Jobs |-> signapi[id].calls][j] < [id \in Jobs |-> seen[id].accepted][j]
  OBVIOUS
<1>8. Service!Attempt(j) BY <1>3, <1>4, <1>5, <1>6, <1>7 DEF Service!Attempt
<1>9. QED BY <1>8 DEF Service!Next

\* A signing.applied event of a signed job is a report.
LEMMA ReportStep ==
    ASSUME TypeInv, NEW j \in Jobs, signapi[j].finalized,
           seen' = [seen EXCEPT ![j].applied = AtMost2(@ + 1)], UNCHANGED <<store, signapi>>
    PROVE  Service!Next
<1>1. /\ \A id \in Jobs : seen'[id].accepted = seen[id].accepted
      /\ \A id \in Jobs : id # j => seen'[id].applied = seen[id].applied
      /\ seen'[j].applied > 0
  BY DEF TypeInv, SeenOK, SeenType, AtMost2
<1>2. [id \in Jobs |-> seen[id].applied > 0]' =
        [[id \in Jobs |-> seen[id].applied > 0] EXCEPT ![j] = TRUE]
  <2>1. /\ \A id \in Jobs : id # j => (seen'[id].applied > 0) = (seen[id].applied > 0)
        /\ (seen'[j].applied > 0) = TRUE
    BY <1>1
  <2>2. QED BY <2>1, Zenon
<1>3. /\ [id \in Jobs |-> Shown(id)]' = [id \in Jobs |-> Shown(id)]
      /\ [id \in Jobs |-> signapi[id].calls]' = [id \in Jobs |-> signapi[id].calls]
      /\ [id \in Jobs |-> signapi[id].finalized]' = [id \in Jobs |-> signapi[id].finalized]
      /\ [id \in Jobs |-> seen[id].accepted]' = [id \in Jobs |-> seen[id].accepted]
  BY <1>1 DEF Shown, Exists
<1>4. [id \in Jobs |-> signapi[id].finalized][j] OBVIOUS
<1>5. Service!Report(j) BY <1>2, <1>3, <1>4 DEF Service!Report
<1>6. QED BY <1>5 DEF Service!Next

----------------------------------------------------------------------------
(* Effects of a step on what the service shows and on the work under way.  *)

NoMorePushing ==
    \A id \in Jobs :
        /\ Cardinality(Pushing(id)) \in Nat /\ Cardinality(Pushing(id))' \in Nat
        /\ Cardinality(Pushing(id))' <= Cardinality(Pushing(id))

NoMoreQueued ==
    \A id \in Jobs :
        /\ Cardinality(Queued(id)) \in Nat /\ Cardinality(Queued(id))' \in Nat
        /\ Cardinality(Queued(id))' <= Cardinality(Queued(id))

NoMoreTrying ==
    \A id \in Jobs :
        /\ Cardinality(Trying(id)) \in Nat /\ Cardinality(Trying(id))' \in Nat
        /\ Cardinality(Trying(id))' <= Cardinality(Trying(id))

\* What is left alone brings no work.
LEMMA SameWork ==
    /\ UNCHANGED req => NoMorePushing
    /\ StoreTypeOK /\ UNCHANGED queue => NoMoreQueued
    /\ UNCHANGED wrk => NoMoreTrying
<1>1. ASSUME UNCHANGED req, NEW id \in Jobs
      PROVE  Cardinality(Pushing(id)) \in Nat /\ Pushing(id)' = Pushing(id)
  <2>1. Pushing(id) \in SUBSET Requests /\ Pushing(id)' = Pushing(id) BY <1>1 DEF Pushing
  <2>2. IsFiniteSet(Pushing(id)) BY <2>1, FS_Subset, ProcessesAssumption
  <2>3. QED BY <2>1, <2>2, FS_CardinalityType
<1>2. ASSUME StoreTypeOK, UNCHANGED queue, NEW id \in Jobs
      PROVE  Cardinality(Queued(id)) \in Nat /\ Queued(id)' = Queued(id)
  <2>1. IsFiniteSet(Queued(id)) /\ Queued(id)' = Queued(id)
    BY <1>2, QueuedFinite DEF Queued, StoreTypeOK
  <2>2. QED BY <2>1, FS_CardinalityType
<1>3. ASSUME UNCHANGED wrk, NEW id \in Jobs
      PROVE  Cardinality(Trying(id)) \in Nat /\ Trying(id)' = Trying(id)
  <2>1. Trying(id) \in SUBSET Workers /\ Trying(id)' = Trying(id) BY <1>3 DEF Trying
  <2>2. IsFiniteSet(Trying(id)) BY <2>1, FS_Subset, ProcessesAssumption
  <2>3. QED BY <2>1, <2>2, FS_CardinalityType
<1>4. UNCHANGED req => NoMorePushing BY <1>1 DEF NoMorePushing
<1>5. StoreTypeOK /\ UNCHANGED queue => NoMoreQueued BY <1>2 DEF NoMoreQueued
<1>6. UNCHANGED wrk => NoMoreTrying BY <1>3 DEF NoMoreTrying
<1>7. QED BY <1>4, <1>5, <1>6

\* A request that does not take work on brings none.
LEMMA RequestQuiet ==
    ASSUME RequestsOK, NEW r \in Requests, NEW q, req' = [req EXCEPT ![r] = q],
           q.pc \notin {"cbSaveDone", "submitSave", "enqueue"}
    PROVE  NoMorePushing
<1>1. \A id : ~Pushes(q, id) BY DEF Pushes
<1>2. QED BY <1>1, RequestLoad DEF NoMorePushing

LEMMA RespondQuiet ==
    ASSUME RequestsOK, NEW r \in Requests, Respond(r) PROVE NoMorePushing
BY RequestQuiet DEF Respond, IdleRequest

LEMMA GotoQuiet ==
    ASSUME RequestsOK, NEW r \in Requests, NEW pc, NEW id, NEW x, Goto(r, pc, id, x),
           pc \notin {"cbSaveDone", "submitSave", "enqueue"}
    PROVE  NoMorePushing
<1> DEFINE q == [pc |-> pc, id |-> id, s |-> 0, declined |-> FALSE, job |-> x]
<1>1. req' = [req EXCEPT ![r] = q] /\ q.pc = pc BY DEF Goto
<1> HIDE DEF q
<1>2. QED BY <1>1, RequestQuiet

\* A worker that goes on with its unit of work, or ends, brings none.
LEMMA WorkerQuiet ==
    ASSUME WorkersOK, NEW w \in Workers, NEW v, wrk' = [wrk EXCEPT ![w] = v],
           \/ v.pc \notin {"deviceSave", "sign", "saveFinalizing", "finalize"}
           \/ v.id = wrk[w].id /\ wrk[w].pc \in {"deviceSave", "sign", "saveFinalizing", "finalize"}
    PROVE  NoMoreTrying
<1>1. \A id : ~Tries(v, id) \/ Tries(wrk[w], id) BY DEF Tries
<1>2. QED BY <1>1, WorkerLoad DEF NoMoreTrying

LEMMA ReleaseQuiet ==
    ASSUME WorkersOK, NEW w \in Workers, Release(w) PROVE NoMoreTrying
BY WorkerQuiet DEF Release, IdleWorker

LEMMA GotoWorkerQuiet ==
    ASSUME WorkersOK, NEW w \in Workers, NEW pc, NEW x, GotoWorker(w, pc, wrk[w].id, x),
           wrk[w].pc \in {"deviceSave", "sign", "saveFinalizing", "finalize"}
    PROVE  NoMoreTrying
<1> DEFINE v == [pc |-> pc, id |-> wrk[w].id, job |-> x]
<1>1. wrk' = [wrk EXCEPT ![w] = v] /\ v.id = wrk[w].id BY DEF GotoWorker
<1> HIDE DEF v
<1>2. QED BY <1>1, WorkerQuiet

\* Sessions that are opened, closed or calculated anew.
LEMMA SessionsQuiet ==
    ASSUME UpstreamTypeOK, NEW j \in Jobs, NEW e, NEW d,
           \/ UNCHANGED signapi
           \/ signapi' = [signapi EXCEPT ![j].sess = e]
           \/ signapi' = [signapi EXCEPT ![j].digest = d]
           \/ signapi' = [signapi EXCEPT ![j].sess = e, ![j].digest = d]
    PROVE  SameSessions
BY DEF UpstreamTypeOK, SignAPIType, SameSessions

\* Answers that are neither consents nor evidence.
LEMMA SeenQuiet ==
    ASSUME SeenOK, NEW j \in Jobs, NEW v,
           \/ UNCHANGED seen
           \/ seen' = [seen EXCEPT ![j].known = v]
           \/ seen' = [seen EXCEPT ![j].failed = v]
           \/ seen' = [seen EXCEPT ![j].deleted = v]
    PROVE  SameSeen
BY DEF SeenOK, SeenType, SameSeen

\* A save writes one job key or none.
LEMMA SaveOneKey ==
    ASSUME NEW j \in Jobs, NEW x, Save(j, x) PROVE OneKey
BY DEF Save, TrySave, SaveOK, SaveFails, SaveJob, OneKey

\* A quiet step that brings no work is a step of the service and stays paid for.
LEMMA QuietWork ==
    ASSUME TypeInv, TypeInv', Safe', Paid, SameSessions, SameSeen, OneKey,
           NoMorePushing, NoMoreQueued, NoMoreTrying
    PROVE  Paid' /\ [Service!Next]_(Service!vars)
<1>1. \A id \in Jobs : signapi[id].calls \in Nat /\ seen[id].accepted \in Nat
  BY DEF TypeInv, UpstreamTypeOK, SignAPIType, SeenOK, SeenType
<1>2. Paid'
  BY <1>1 DEF Paid, Load, SameSessions, SameSeen, NoMorePushing, NoMoreQueued, NoMoreTrying
<1>3. QED BY <1>2, QuietStep DEF Quiet

----------------------------------------------------------------------------
(* One lemma per kind of step.                                             *)

\* A prepared job: its sessions, its key, perhaps its first authorization.
LEMMA PrepareServes ==
    ASSUME TypeInv, TypeInv', Safe', Paid, Prepare
    PROVE  Paid' /\ [Service!Next]_(Service!vars)
<1> USE DEF TypeInv
<1>1. PICK id \in Jobs, f \in Flows, cert \in BOOLEAN :
        \/ PrepareUploadFails(id, f, cert)
        \/ PrepareClientSide(id, f, cert)
        \/ PrepareDies(id, f, cert)
        \/ \E full \in BOOLEAN : PrepareRemote(id, f, cert, full) \/ PrepareBeginFails(id, f, cert, full)
  BY DEF Prepare
<1>2. UNCHANGED <<queue, req, wrk>>
  BY <1>1 DEF PrepareUploadFails, PrepareClientSide, PrepareDies, PrepareRemote, PrepareBeginFails,
              PrepareStarts
<1>3. SameSessions
  <2>1. \E e, d : \/ signapi' = [signapi EXCEPT ![id].sess = e]
                  \/ signapi' = [signapi EXCEPT ![id].sess = e, ![id].digest = d]
    BY <1>1 DEF PrepareUploadFails, PrepareClientSide, PrepareDies, PrepareRemote, PrepareBeginFails,
                Uploaded
  <2>2. QED BY <2>1, SessionsQuiet
<1>4. SameSeen
  <2>1. \E v : UNCHANGED seen \/ seen' = [seen EXCEPT ![id].known = v]
    BY <1>1 DEF PrepareUploadFails, PrepareClientSide, PrepareDies, PrepareRemote, PrepareBeginFails
  <2>2. QED BY <2>1, SeenQuiet
<1>5. OneKey
  <2>1. store' = store \/ \E x : Save(id, x)
    BY <1>1, TrySaveIsSave
    DEF PrepareUploadFails, PrepareClientSide, PrepareDies, PrepareRemote, PrepareBeginFails
  <2>2. QED BY <2>1, SaveOneKey DEF OneKey
<1>6. QED BY <1>2, <1>3, <1>4, <1>5, SameWork, QuietWork

\* A consent and its unit of work come together.
LEMMA ConsentServes ==
    ASSUME TypeInv, Paid, NEW r \in Requests, NEW id \in Jobs, NEW pc, NEW x,
           Goto(r, pc, id, x), seen' = [seen EXCEPT ![id].accepted = @ + 1],
           UNCHANGED <<store, queue, signapi, wrk>>
    PROVE  Paid' /\ [Service!Next]_(Service!vars)
<1> DEFINE q == [pc |-> pc, id |-> id, s |-> 0, declined |-> FALSE, job |-> x]
<1>1. req' = [req EXCEPT ![r] = q] /\ q.id = id BY DEF Goto
<1> HIDE DEF q
<1>2. \A j \in Jobs : j # id => ~Pushes(q, j) BY <1>1 DEF Pushes
<1>3. \A j \in Jobs :
        /\ Cardinality(Pushing(j)) \in Nat /\ Cardinality(Pushing(j))' \in Nat
        /\ Cardinality(Pushing(j))' <= Cardinality(Pushing(j)) + 1
        /\ j # id => Cardinality(Pushing(j))' <= Cardinality(Pushing(j))
  BY <1>1, <1>2, RequestLoad DEF TypeInv
<1>4. NoMoreQueued /\ NoMoreTrying BY SameWork DEF TypeInv
<1>5. \A j \in Jobs : seen'[j].accepted = IF j = id THEN seen[j].accepted + 1 ELSE seen[j].accepted
  BY DEF TypeInv, SeenOK, SeenType
<1>6. \A j \in Jobs : signapi[j].calls \in Nat /\ seen[j].accepted \in Nat
  BY DEF TypeInv, UpstreamTypeOK, SignAPIType, SeenOK, SeenType
<1>7. Paid' BY <1>3, <1>4, <1>5, <1>6 DEF Paid, Load, NoMoreQueued, NoMoreTrying
<1>8. QED BY <1>7, ConsentStep

\* The steps of the caller, the person and the environment.
LEMMA EnvironmentServes ==
    ASSUME TypeInv, TypeInv', Safe', Paid, Environment
    PROVE  Paid' /\ [Service!Next]_(Service!vars)
<1> USE DEF TypeInv
<1>1. ASSUME NEW r \in Requests, NEW s \in OAuthStates, NEW declined \in BOOLEAN,
             CallbackArrives(r, s, declined)
      PROVE  Paid' /\ [Service!Next]_(Service!vars)
  <2>1. UNCHANGED <<store, queue, signapi, wrk, seen>> BY <1>1 DEF CallbackArrives, storeVars, upVars
  <2>2. NoMorePushing BY <1>1, RequestQuiet DEF CallbackArrives
  <2>3. SameSessions /\ SameSeen /\ OneKey BY <2>1 DEF SameSessions, SameSeen, OneKey
  <2>4. QED BY <2>1, <2>2, <2>3, SameWork, QuietWork
<1>2. ASSUME NEW r \in Requests, NEW id \in Jobs, SubmitSignatures(r, id)
      PROVE  Paid' /\ [Service!Next]_(Service!vars)
  BY <1>2, ConsentServes DEF SubmitSignatures, storeVars, upVars
<1>3. ASSUME NEW r \in Requests, NEW id \in Jobs, Status(r, id)
      PROVE  Paid' /\ [Service!Next]_(Service!vars)
  <2>1. UNCHANGED <<store, queue, signapi, wrk, seen>> BY <1>3 DEF Status, storeVars, upVars
  <2>2. NoMorePushing BY <1>3, GotoQuiet DEF Status
  <2>3. SameSessions /\ SameSeen /\ OneKey BY <2>1 DEF SameSessions, SameSeen, OneKey
  <2>4. QED BY <2>1, <2>2, <2>3, SameWork, QuietWork
<1>4. ASSUME NEW r \in Requests, NEW id \in Jobs, DeleteJob(r, id)
      PROVE  Paid' /\ [Service!Next]_(Service!vars)
  <2>1. UNCHANGED <<store, queue, signapi, wrk, seen>> BY <1>4 DEF DeleteJob, storeVars, upVars
  <2>2. NoMorePushing BY <1>4, GotoQuiet DEF DeleteJob
  <2>3. SameSessions /\ SameSeen /\ OneKey BY <2>1 DEF SameSessions, SameSeen, OneKey
  <2>4. QED BY <2>1, <2>2, <2>3, SameWork, QuietWork
<1>5. ASSUME NEW s \in OAuthStates, PersonConfirms(s)
      PROVE  Paid' /\ [Service!Next]_(Service!vars)
  <2>1. UNCHANGED <<store, queue, signapi, req, wrk, seen>> BY <1>5 DEF PersonConfirms, Approve, storeVars
  <2>2. SameSessions /\ SameSeen /\ OneKey BY <2>1 DEF SameSessions, SameSeen, OneKey
  <2>3. QED BY <2>1, <2>2, SameWork, QuietWork
<1>6. ASSUME NEW id \in Jobs, JobExpires(id)
      PROVE  Paid' /\ [Service!Next]_(Service!vars)
  <2>1. UNCHANGED <<queue, signapi, req, wrk, seen>> BY <1>6 DEF JobExpires, Expire, upVars
  <2>2. OneKey BY <1>6 DEF JobExpires, Expire, OneKey
  <2>3. SameSessions /\ SameSeen BY <2>1 DEF SameSessions, SameSeen
  <2>4. QED BY <2>1, <2>2, <2>3, SameWork, QuietWork
<1>7. ASSUME NEW r \in Requests, RequestDies(r)
      PROVE  Paid' /\ [Service!Next]_(Service!vars)
  <2>1. UNCHANGED <<store, queue, signapi, wrk, seen>> BY <1>7 DEF RequestDies, upVars
  <2>2. NoMorePushing BY <1>7, RespondQuiet DEF RequestDies
  <2>3. SameSessions /\ SameSeen /\ OneKey BY <2>1 DEF SameSessions, SameSeen, OneKey
  <2>4. QED BY <2>1, <2>2, <2>3, SameWork, QuietWork
<1>8. ASSUME NEW w \in Workers, WorkerDies(w)
      PROVE  Paid' /\ [Service!Next]_(Service!vars)
  <2>1. UNCHANGED <<store, queue, signapi, req, seen>> BY <1>8 DEF WorkerDies, upVars
  <2>2. NoMoreTrying BY <1>8, ReleaseQuiet DEF WorkerDies
  <2>3. SameSessions /\ SameSeen /\ OneKey BY <2>1 DEF SameSessions, SameSeen, OneKey
  <2>4. QED BY <2>1, <2>2, <2>3, SameWork, QuietWork
<1>9. QED BY <1>1, <1>2, <1>3, <1>4, <1>5, <1>6, <1>7, <1>8, PrepareServes DEF Environment

\* The steps of a request being served.
LEMMA RequestStepServes ==
    ASSUME TypeInv, TypeInv', Safe, Safe', Paid, NEW r \in Requests, RequestStep(r)
    PROVE  Paid' /\ [Service!Next]_(Service!vars)
<1> USE DEF TypeInv
<1>1. CASE CallbackLoad(r)
  <2>1. UNCHANGED <<store, queue, signapi, wrk, seen>> BY <1>1 DEF CallbackLoad, storeVars, upVars
  <2>2. NoMorePushing
    <3>1. CASE Respond(r) BY <3>1, RespondQuiet
    <3>2. CASE req' = [req EXCEPT ![r].pc = "cbClear", ![r].job = store[req[r].id]]
      <4> DEFINE q == [req[r] EXCEPT !.pc = "cbClear", !.job = store[req[r].id]]
      <4>1. req' = [req EXCEPT ![r] = q] /\ q.pc = "cbClear" BY <3>2 DEF RequestsOK, RequestType
      <4> HIDE DEF q
      <4>2. QED BY <4>1, RequestQuiet
    <3>3. QED BY <1>1, <3>1, <3>2 DEF CallbackLoad
  <2>3. SameSessions /\ SameSeen /\ OneKey BY <2>1 DEF SameSessions, SameSeen, OneKey
  <2>4. QED BY <2>1, <2>2, <2>3, SameWork, QuietWork
<1>2. CASE CallbackClear(r)
  <2>1. UNCHANGED <<store, queue, signapi, wrk, seen>> BY <1>2 DEF CallbackClear, storeVars, upVars
  <2>2. NoMorePushing
    <3> DEFINE q == [req[r] EXCEPT !.pc = "cbAdvance"]
    <3>1. req' = [req EXCEPT ![r] = q] /\ q.pc = "cbAdvance"
      BY <1>2 DEF CallbackClear, RequestsOK, RequestType
    <3> HIDE DEF q
    <3>2. QED BY <3>1, RequestQuiet
  <2>3. SameSessions /\ SameSeen /\ OneKey BY <2>1 DEF SameSessions, SameSeen, OneKey
  <2>4. QED BY <2>1, <2>2, <2>3, SameWork, QuietWork
<1>3. CASE CallbackFails(r)
  <2>1. UNCHANGED <<store, queue, signapi, wrk, seen>> BY <1>3 DEF CallbackFails, Advance, storeVars
  <2>2. NoMorePushing BY <1>3, GotoQuiet DEF CallbackFails
  <2>3. SameSessions /\ SameSeen /\ OneKey BY <2>1 DEF SameSessions, SameSeen, OneKey
  <2>4. QED BY <2>1, <2>2, <2>3, SameWork, QuietWork
<1>4. CASE AdvanceFirstLeg(r) \/ AdvanceFirstLegFails(r)
  <2>1. UNCHANGED <<store, queue, wrk, seen>>
    BY <1>4 DEF AdvanceFirstLeg, AdvanceFirstLegFails, Exchange, Advance, storeVars
  <2>2. NoMorePushing
    <3>1. \E pc \in {"cbSave", "cbSaveNext"} : \E y : Goto(r, pc, req[r].id, y)
      BY <1>4, Zenon DEF AdvanceFirstLeg, AdvanceFirstLegFails
    <3>2. QED BY <3>1, GotoQuiet
  <2>3. SameSessions
    <3>1. req[r].id \in Jobs BY <1>4 DEF AdvanceFirstLeg, AdvanceFirstLegFails, Exchange, Advance, RequestsOK
    <3>2. \E d : signapi' = [signapi EXCEPT ![req[r].id].digest = d] \/ UNCHANGED signapi
      BY <1>4 DEF AdvanceFirstLeg, AdvanceFirstLegFails, CalculateDigest
    <3>3. QED BY <3>1, <3>2, SessionsQuiet
  <2>4. SameSeen /\ OneKey BY <2>1 DEF SameSeen, OneKey
  <2>5. QED BY <2>1, <2>2, <2>3, <2>4, SameWork, QuietWork
<1>5. CASE AdvanceSignLeg(r)
  <2>1. req[r].id \in Jobs BY <1>5 DEF AdvanceSignLeg, Exchange, Advance, RequestsOK
  <2>2. QED BY <1>5, <2>1, ConsentServes DEF AdvanceSignLeg, Exchange, Advance, storeVars
<1>6. CASE CallbackSave(r) \/ StatusSave(r)
  <2>1. req[r].id \in Jobs /\ Save(req[r].id, req[r].job) /\ Respond(r)
        /\ UNCHANGED <<queue, signapi, wrk, seen>>
    BY <1>6 DEF CallbackSave, StatusSave, RequestsOK, upVars
  <2>2. NoMorePushing /\ OneKey BY <2>1, RespondQuiet, SaveOneKey
  <2>3. SameSessions /\ SameSeen BY <2>1 DEF SameSessions, SameSeen
  <2>4. QED BY <2>1, <2>2, <2>3, SameWork, QuietWork
<1>7. CASE CallbackSaveNext(r)
  <2>1. req[r].id \in Jobs /\ Save(req[r].id, req[r].job) /\ Respond(r)
        /\ UNCHANGED <<queue, signapi, wrk, seen>>
    BY <1>7, TrySaveIsSave DEF CallbackSaveNext, RequestsOK
  <2>2. NoMorePushing /\ OneKey BY <2>1, RespondQuiet, SaveOneKey
  <2>3. SameSessions /\ SameSeen BY <2>1 DEF SameSessions, SameSeen
  <2>4. QED BY <2>1, <2>2, <2>3, SameWork, QuietWork
<1>8. CASE SaveForWork(r)
  <2>1. req[r].id \in Jobs /\ Save(req[r].id, req[r].job) /\ UNCHANGED <<queue, signapi, wrk, seen>>
    BY <1>8, TrySaveIsSave DEF SaveForWork, RequestsOK, upVars
  <2>2. NoMorePushing
    <3>1. CASE Respond(r) BY <3>1, RespondQuiet
    <3>2. CASE Goto(r, "enqueue", req[r].id, NoJob)
      <4> DEFINE q == [pc |-> "enqueue", id |-> req[r].id, s |-> 0, declined |-> FALSE, job |-> NoJob]
      <4>1. req' = [req EXCEPT ![r] = q] /\ q.id = req[r].id BY <3>2 DEF Goto
      <4> HIDE DEF q
      <4>2. \A id : Pushes(q, id) => Pushes(req[r], id) BY <1>8, <4>1 DEF SaveForWork, Pushes
      <4>3. QED BY <4>1, <4>2, RequestLoad DEF NoMorePushing
    <3>3. QED BY <1>8, <3>1, <3>2 DEF SaveForWork
  <2>3. SameSessions /\ SameSeen /\ OneKey BY <2>1, SaveOneKey DEF SameSessions, SameSeen
  <2>4. QED BY <2>1, <2>2, <2>3, SameWork, QuietWork
<1>9. CASE EnqueueWork(r)
  <2>1. req[r].id \in Jobs /\ Respond(r) /\ UNCHANGED <<store, signapi, wrk, seen>>
    BY <1>9 DEF EnqueueWork, RequestsOK, upVars
  <2>2. SameSessions /\ SameSeen /\ OneKey BY <2>1 DEF SameSessions, SameSeen, OneKey
  <2>3. CASE UNCHANGED queue
    BY <2>1, <2>2, <2>3, RespondQuiet, SameWork, QuietWork
  <2>4. CASE queue' = Append(queue, req[r].id)
    <3>1. \A id \in Jobs :
            /\ Cardinality(Queued(id)) \in Nat /\ Cardinality(Queued(id))' \in Nat
            /\ Cardinality(Queued(id))' <= Cardinality(Queued(id)) + 1
            /\ id # req[r].id => Cardinality(Queued(id))' <= Cardinality(Queued(id))
      BY <2>1, <2>4, PushLoad
    <3>2. Pushes(req[r], req[r].id) /\ \A id : ~Pushes(IdleRequest, id)
      BY <1>9 DEF EnqueueWork, Pushes, IdleRequest
    <3>3. \A id \in Jobs :
            /\ Cardinality(Pushing(id)) \in Nat /\ Cardinality(Pushing(id))' \in Nat
            /\ Cardinality(Pushing(id))' <= Cardinality(Pushing(id))
            /\ id = req[r].id => Cardinality(Pushing(id))' + 1 <= Cardinality(Pushing(id))
      BY <2>1, <3>2, RequestLoad DEF Respond
    <3>4. NoMoreTrying BY <2>1, SameWork
    <3>5. \A id \in Jobs : signapi[id].calls \in Nat /\ seen[id].accepted \in Nat
      BY DEF UpstreamTypeOK, SignAPIType, SeenOK, SeenType
    <3>6. Paid' BY <2>2, <3>1, <3>3, <3>4, <3>5 DEF Paid, Load, SameSessions, SameSeen, NoMoreTrying
    <3>7. QED BY <2>2, <3>6, QuietStep DEF Quiet
  <2>5. QED BY <1>9, <2>3, <2>4 DEF EnqueueWork, EnqueueOK, EnqueueFails
<1>10. CASE DeleteKeys(r)
  <2>1. req[r].id \in Jobs /\ Respond(r) /\ UNCHANGED <<queue, wrk>>
    BY <1>10 DEF DeleteKeys, RequestsOK
  <2>2. OneKey BY <1>10, <2>1 DEF DeleteKeys, DeleteOK, DeleteFails, OneKey
  <2>3. SameSessions
    <3>1. \E e : signapi' = [signapi EXCEPT ![req[r].id].sess = e] \/ UNCHANGED signapi
      BY <1>10 DEF DeleteKeys, CloseLater
    <3>2. QED BY <2>1, <3>1, SessionsQuiet
  <2>4. SameSeen BY <1>10, <2>1, SeenQuiet DEF DeleteKeys
  <2>5. QED BY <2>1, <2>2, <2>3, <2>4, RespondQuiet, SameWork, QuietWork
<1>11. CASE StatusEmit(r)
  <2> DEFINE x == req[r].job
             id == req[r].id
  <2>0. id \in Jobs BY <1>11 DEF StatusEmit, RequestsOK
  <2>1. UNCHANGED <<store, queue, signapi, wrk>> BY <1>11 DEF StatusEmit, storeVars, upVars
  <2>2. NoMorePushing BY <1>11, GotoQuiet DEF StatusEmit
  <2>3. SameSessions /\ OneKey BY <2>1 DEF SameSessions, OneKey
  <2>4. CASE x.state = "READY"
    <3>1. seen' = [seen EXCEPT ![id].applied = AtMost2(@ + 1)] BY <1>11, <2>4 DEF StatusEmit
    <3>2. signapi[id].finalized
      <4>1. Sound(x, id, signapi, seen, authz) BY <1>11 DEF StatusEmit, Safe, RequestsSound, HoldingPCs
      <4>2. QED BY <2>4, <4>1 DEF Sound, Consistent, Backed
    <3> HIDE DEF x, id
    <3>3. Service!Next BY <2>0, <2>1, <3>1, <3>2, ReportStep
    <3>4. \A j \in Jobs : seen'[j].accepted = seen[j].accepted BY <3>1 DEF SeenOK, SeenType
    <3>5. NoMoreQueued /\ NoMoreTrying BY <2>1, SameWork
    <3>6. \A j \in Jobs : signapi[j].calls \in Nat /\ seen[j].accepted \in Nat
      BY DEF UpstreamTypeOK, SignAPIType, SeenOK, SeenType
    <3>7. Paid'
      BY <2>2, <2>3, <3>4, <3>5, <3>6
      DEF Paid, Load, SameSessions, NoMorePushing, NoMoreQueued, NoMoreTrying
    <3>8. QED BY <3>3, <3>7
  <2>5. CASE x.state # "READY"
    <3>1. SameSeen BY <1>11, <2>0, <2>5, SeenQuiet DEF StatusEmit
    <3>2. QED BY <2>1, <2>2, <2>3, <3>1, SameWork, QuietWork
  <2>6. QED BY <2>4, <2>5
<1>12. QED
  BY <1>1, <1>2, <1>3, <1>4, <1>5, <1>6, <1>7, <1>8, <1>9, <1>10, <1>11 DEF RequestStep

\* The steps of a worker.
LEMMA WorkerStepServes ==
    ASSUME TypeInv, TypeInv', Safe', Paid, NEW w \in Workers, WorkerStep(w)
    PROVE  Paid' /\ [Service!Next]_(Service!vars)
<1> USE DEF TypeInv
<1>0. /\ wrk[w].pc # "idle" => wrk[w].id \in Jobs
      /\ \A id \in Jobs : signapi[id].calls \in Nat /\ seen[id].accepted \in Nat
  BY DEF WorkersOK, UpstreamTypeOK, SignAPIType, SeenOK, SeenType
<1>1. CASE WorkerTake(w)
  <2>1. UNCHANGED <<store, signapi, req, seen>> BY <1>1 DEF WorkerTake, upVars
  <2>2. PICK j \in Jobs :
          /\ DequeueWork(j)
          /\ \/ UNCHANGED wrk
             \/ \E pc : GotoWorker(w, pc, j, store[j])
    BY <1>1 DEF WorkerTake
  <2>3. SameSessions /\ SameSeen /\ OneKey BY <2>1 DEF SameSessions, SameSeen, OneKey
  <2>4. \A id \in Jobs :
          /\ Cardinality(Queued(id)) \in Nat /\ Cardinality(Queued(id))' \in Nat
          /\ Cardinality(Queued(id))' <= Cardinality(Queued(id))
          /\ id = j => Cardinality(Queued(id))' + 1 <= Cardinality(Queued(id))
    BY <2>2, PopLoad
  <2>5. NoMorePushing BY <2>1, SameWork
  <2>6. \A id \in Jobs :
          /\ Cardinality(Trying(id)) \in Nat /\ Cardinality(Trying(id))' \in Nat
          /\ Cardinality(Trying(id))' <= Cardinality(Trying(id)) + 1
          /\ id # j => Cardinality(Trying(id))' <= Cardinality(Trying(id))
    <3>1. CASE UNCHANGED wrk BY <3>1, SameWork DEF NoMoreTrying
    <3>2. CASE \E pc : GotoWorker(w, pc, j, store[j])
      <4>0. PICK pc : GotoWorker(w, pc, j, store[j]) BY <3>2
      <4> DEFINE v == [pc |-> pc, id |-> j, job |-> store[j]]
      <4>1. wrk' = [wrk EXCEPT ![w] = v] /\ v.id = j BY <4>0 DEF GotoWorker
      <4> HIDE DEF v
      <4>2. \A id \in Jobs : id # j => ~Tries(v, id) BY <4>1 DEF Tries
      <4>3. QED BY <4>1, <4>2, WorkerLoad
    <3>3. QED BY <2>2, <3>1, <3>2
  <2>7. Paid'
    BY <1>0, <2>3, <2>4, <2>5, <2>6 DEF Paid, Load, SameSessions, SameSeen, NoMorePushing
  <2>8. QED BY <2>3, <2>7, QuietStep DEF Quiet
<1>2. CASE WorkerDeviceSave(w)
  <2>1. /\ wrk[w].id \in Jobs /\ Save(wrk[w].id, wrk[w].job)
        /\ UNCHANGED <<queue, signapi, req, seen>>
    BY <1>0, <1>2, TrySaveIsSave DEF WorkerDeviceSave, upVars
  <2>2. \E pc, x : GotoWorker(w, pc, wrk[w].id, x) BY <1>2 DEF WorkerDeviceSave
  <2>3. NoMoreTrying BY <1>2, <2>2, GotoWorkerQuiet DEF WorkerDeviceSave
  <2>4. SameSessions /\ SameSeen /\ OneKey BY <2>1, SaveOneKey DEF SameSessions, SameSeen
  <2>5. QED BY <2>1, <2>3, <2>4, SameWork, QuietWork
<1>3. CASE WorkerSign(w)
  <2>1. UNCHANGED <<store, queue, signapi, req, seen>> BY <1>3 DEF WorkerSign, storeVars, upVars
  <2>2. \E pc, x : GotoWorker(w, pc, wrk[w].id, x) BY <1>3 DEF WorkerSign
  <2>3. NoMoreTrying BY <1>3, <2>2, GotoWorkerQuiet DEF WorkerSign
  <2>4. SameSessions /\ SameSeen /\ OneKey BY <2>1 DEF SameSessions, SameSeen, OneKey
  <2>5. QED BY <2>1, <2>3, <2>4, SameWork, QuietWork
<1>4. CASE WorkerSaveFinalizing(w)
  <2>1. /\ wrk[w].id \in Jobs /\ Save(wrk[w].id, wrk[w].job)
        /\ UNCHANGED <<queue, signapi, req, seen>>
    BY <1>0, <1>4 DEF WorkerSaveFinalizing, upVars
  <2>2. NoMoreTrying BY <1>4, GotoWorkerQuiet DEF WorkerSaveFinalizing
  <2>3. SameSessions /\ SameSeen /\ OneKey BY <2>1, SaveOneKey DEF SameSessions, SameSeen
  <2>4. QED BY <2>1, <2>2, <2>3, SameWork, QuietWork
<1>5. CASE WorkerFinalize(w)
  <2>1. wrk[w].id \in Jobs /\ UNCHANGED <<store, queue, req, seen>>
    BY <1>0, <1>5 DEF WorkerFinalize, storeVars
  <2>2. PICK x : GotoWorker(w, "saveResult", wrk[w].id, x) BY <1>5 DEF WorkerFinalize
  <2>3. NoMorePushing /\ NoMoreQueued BY <2>1, SameWork
  <2>4. CASE UNCHANGED signapi
    <3>1. NoMoreTrying BY <1>5, <2>2, GotoWorkerQuiet DEF WorkerFinalize
    <3>2. SameSessions /\ SameSeen /\ OneKey BY <2>1, <2>4 DEF SameSessions, SameSeen, OneKey
    <3>3. QED BY <2>3, <3>1, <3>2, QuietWork
  <2>5. ASSUME NEW ok \in BOOLEAN, FinalizeSigning(wrk[w].id, ok)
        PROVE  Paid' /\ [Service!Next]_(Service!vars)
    <3> DEFINE v == [pc |-> "saveResult", id |-> wrk[w].id, job |-> x]
    <3>1. wrk' = [wrk EXCEPT ![w] = v] /\ v.pc = "saveResult" BY <2>2 DEF GotoWorker
    <3> HIDE DEF v
    <3>2. Tries(wrk[w], wrk[w].id) /\ \A id : ~Tries(v, id)
      BY <1>5, <3>1 DEF WorkerFinalize, Tries
    <3>3. \A id \in Jobs :
            /\ Cardinality(Trying(id)) \in Nat /\ Cardinality(Trying(id))' \in Nat
            /\ Cardinality(Trying(id))' <= Cardinality(Trying(id))
            /\ id = wrk[w].id => Cardinality(Trying(id))' + 1 <= Cardinality(Trying(id))
      BY <3>1, <3>2, WorkerLoad
    <3>4. \A id \in Jobs : signapi'[id].calls =
            IF id = wrk[w].id THEN signapi[id].calls + 1 ELSE signapi[id].calls
      BY <2>1, <2>5 DEF FinalizeSigning, UpstreamTypeOK, SignAPIType
    <3>5. signapi[wrk[w].id].calls < seen[wrk[w].id].accepted
      BY <1>0, <2>1, <2>3, <3>3 DEF Paid, Load, NoMorePushing, NoMoreQueued
    <3>6. Paid'
      BY <1>0, <2>1, <2>3, <3>3, <3>4 DEF Paid, Load, NoMorePushing, NoMoreQueued
    <3>7. QED BY <2>1, <2>5, <3>5, <3>6, AttemptStep
  <2>6. QED BY <1>5, <2>4, <2>5 DEF WorkerFinalize
<1>6. CASE WorkerSaveResult(w)
  <2>1. /\ wrk[w].id \in Jobs /\ Save(wrk[w].id, wrk[w].job)
        /\ UNCHANGED <<queue, req, seen>>
    BY <1>0, <1>6 DEF WorkerSaveResult
  <2>2. SameSessions
    <3>1. \E e : signapi' = [signapi EXCEPT ![wrk[w].id].sess = e] \/ UNCHANGED signapi
      BY <1>6 DEF WorkerSaveResult, CloseLater
    <3>2. QED BY <2>1, <3>1, SessionsQuiet
  <2>3. NoMoreTrying BY <1>6, ReleaseQuiet DEF WorkerSaveResult
  <2>4. SameSeen /\ OneKey BY <2>1, SaveOneKey DEF SameSeen
  <2>5. QED BY <2>1, <2>2, <2>3, <2>4, SameWork, QuietWork
<1>7. QED BY <1>1, <1>2, <1>3, <1>4, <1>5, <1>6 DEF WorkerStep

\* The background close of a job's sessions.
LEMMA CloseStepServes ==
    ASSUME TypeInv, TypeInv', Safe', Paid, NEW id \in Jobs, CloseStep(id)
    PROVE  Paid' /\ [Service!Next]_(Service!vars)
<1> USE DEF TypeInv
<1>1. UNCHANGED <<store, queue, req, wrk, seen>> BY DEF CloseStep, storeVars
<1>2. SameSessions
  <2>1. \E e : signapi' = [signapi EXCEPT ![id].sess = e] BY DEF CloseStep, CloseSession
  <2>2. QED BY <2>1, SessionsQuiet
<1>3. SameSeen /\ OneKey BY <1>1 DEF SameSeen, OneKey
<1>4. QED BY <1>1, <1>2, <1>3, SameWork, QuietWork

----------------------------------------------------------------------------
(* The service is implemented.                                             *)

\* Nothing is on the way at the start.
LEMMA PaidInit == Init => Paid
<1> SUFFICES ASSUME Init, NEW id \in Jobs
             PROVE  signapi[id].calls + Load(id) <= seen[id].accepted
  BY DEF Paid
<1>1. Pushing(id) = {} /\ Queued(id) = {} /\ Trying(id) = {}
  BY DEF Init, StoreInit, IdleRequest, IdleWorker, Pushing, Queued, Trying, Pushes, Tries
<1>2. Load(id) = 0 BY <1>1, FS_EmptySet DEF Load
<1>3. QED BY <1>2 DEF Init, UpstreamInit

\* No job is shown, consented to, attempted, signed or reported at the start.
LEMMA ServiceInit == Init => Service!Init
<1> SUFFICES ASSUME Init PROVE Service!Init OBVIOUS
<1>1. \A id \in Jobs :
        /\ Shown(id) = "absent"
        /\ seen[id].accepted = 0 /\ (seen[id].applied > 0) = FALSE
        /\ signapi[id].calls = 0 /\ signapi[id].finalized = FALSE
  BY DEF Init, StoreInit, UpstreamInit, Shown, Exists
<1>2. QED BY <1>1, Zenon DEF Service!Init

\* Every step of the signer is a step of the service, or none, and stays paid for.
LEMMA ServiceStep ==
    TypeInv /\ Safe /\ Paid /\ [Next]_vars => Paid' /\ [Service!Next]_(Service!vars)
<1> SUFFICES ASSUME TypeInv, Safe, Paid, [Next]_vars
             PROVE  Paid' /\ [Service!Next]_(Service!vars)
  OBVIOUS
<1>1. TypeInv' /\ Safe' BY TypeStep, SafeStep
<1>2. CASE Next
  BY <1>1, <1>2, EnvironmentServes, RequestStepServes, WorkerStepServes, CloseStepServes DEF Next
<1>3. CASE UNCHANGED vars
  <2>1. UNCHANGED <<store, queue, signapi, req, wrk, seen>> BY <1>3 DEF vars, storeVars, upVars
  <2>2. SameSessions /\ SameSeen /\ OneKey BY <2>1 DEF SameSessions, SameSeen, OneKey
  <2>3. QED BY <1>1, <2>1, <2>2, SameWork, QuietWork DEF TypeInv
<1>4. QED BY <1>2, <1>3

\* In every reachable state the calls of FinalizeSigning and the work still under way
\* are paid for by completed signature authorizations and accepted submissions.
LEMMA AlwaysPaid == Spec => [](TypeInv /\ Safe /\ Paid)
<1>1. Init => Paid BY PaidInit
<1>2. TypeInv /\ Safe /\ Paid /\ [Next]_vars => Paid' BY ServiceStep
<1>3. QED BY <1>1, <1>2, AlwaysSafe, PTL DEF Spec

\* The orchestrator with its store, its workers, its upstream services and its faults
\* implements the abstract signing service: nobody's job is shown as worked on without
\* consent or as ready unless signed, each consent pays for at most one FinalizeSigning
\* call, and signing evidence is reported only of a job whose containers are signed.
THEOREM ServiceImplemented == Spec => ImplementsService
<1>1. Init => Service!Init BY ServiceInit
<1>2. TypeInv /\ Safe /\ Paid /\ [Next]_vars => [Service!Next]_(Service!vars) BY ServiceStep
<1>3. QED BY <1>1, <1>2, AlwaysPaid, PTL DEF Spec, ImplementsService, Service!Spec
=============================================================================
