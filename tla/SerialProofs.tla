---------------------------- MODULE SerialProofs ----------------------------
(***************************************************************************)
(* What the code keeps for a card job whose caller sends one request at a  *)
(* time, however many jobs, workers and faults there are: its saved state  *)
(* only moves along the listed transitions, and a READY job's sessions     *)
(* stay open until it is deleted.                                          *)
(*                                                                         *)
(* With one request at a time a card job has one unit of work in its life. *)
(* It begins with the only save that leaves AWAITING_CLIENT_SIGNATURE, and *)
(* while it is on its way (with the request that pushes it, on the list,   *)
(* with the worker) the saved job is FINALIZING or gone.  So the worker's  *)
(* save cannot meet a result, nothing else closes the sessions, and a      *)
(* status request only ever writes back the state that is saved.           *)
(***************************************************************************)
EXTENDS SafetyProofs

\* Job id was given an authorization page.  A card job never is.
Remote(id) == \E s \in OAuthStates : authz[s].job = id

\* Request r is being served for job id; worker w has popped job id.
Serves(r, id)  == req[r].pc # "idle" /\ req[r].id = id
Handles(w, id) == wrk[w].pc # "idle" /\ wrk[w].id = id

Listed(id) == \E i \in DOMAIN queue : queue[i] = id
Held(id)   == \E w \in Workers : Handles(w, id)

\* The callers' discipline: no two requests for one card job at the same time.
\* Nothing is asked of the callers of a remote job.
OneAtATime ==
    \A id \in Jobs : ~Remote(id) =>
        \A r, q \in Requests : Serves(r, id) /\ Serves(q, id) => r = q

----------------------------------------------------------------------------
(* The inductive invariant.                                                *)

\* An id nobody has used yet.
Unborn(id) ==
    signapi[id].sess = "unborn" =>
        /\ ~Exists(id) /\ ~Listed(id) /\ ~Held(id) /\ ~Remote(id)
        /\ \A r \in Requests : ~Serves(r, id)

\* Every copy of a remote job has a remote flow, and only such jobs have callbacks.
RemoteCopy(x) == x # NoJob => ~IsClientSide(x.flow)

CallbackPCs == {"cbLoad", "cbClear", "cbAdvance", "cbSave", "cbSaveNext", "cbSaveDone"}

Apart(id) ==
    /\ Remote(id) =>
         /\ RemoteCopy(store[id])
         /\ \A r \in Requests : Serves(r, id) => RemoteCopy(req[r].job)
         /\ \A w \in Workers : Handles(w, id) => RemoteCopy(wrk[w].job)
    /\ \A r \in Requests : Serves(r, id) /\ req[r].pc \in CallbackPCs => Remote(id)

\* The saved job, if there is one, is in one of the states S.
StoredIn(id, S) == Exists(id) => store[id].state \in S

CardStates == {"AWAITING_CLIENT_SIGNATURE", "FINALIZING", "READY", "FAILED"}

\* What a request for a card job knows of the saved job.
CardRequest(r, id) ==
    /\ req[r].pc \in {"submitSave", "enqueue", "statusEmit", "statusSave", "delete"}
    /\ req[r].pc # "delete" => ~Listed(id) /\ ~Held(id)
    /\ req[r].pc = "submitSave" =>
         req[r].job.state = "FINALIZING" /\ StoredIn(id, {"AWAITING_CLIENT_SIGNATURE"})
    /\ req[r].pc = "enqueue" => StoredIn(id, {"FINALIZING"})
    /\ req[r].pc \in {"statusEmit", "statusSave"} =>
         Terminal(req[r].job.state) /\ StoredIn(id, {req[r].job.state})

ListedOnce(id) == \A i, k \in DOMAIN queue : queue[i] = id /\ queue[k] = id => i = k

\* At most one unit of work: it is on the list once, or with one worker.
OneUnit(id) ==
    /\ ListedOnce(id)
    /\ \A w, v \in Workers : Handles(w, id) /\ Handles(v, id) => w = v
    /\ Listed(id) => ~Held(id)

CardWorker(w) ==
    /\ wrk[w].pc \in {"finalize", "saveResult"}
    /\ wrk[w].pc = "saveResult" => Terminal(wrk[w].job.state)

\* Nothing is left that could make the job READY, or was.
Ended(id) ==
    /\ ~Listed(id) /\ ~Held(id)
    /\ StoredIn(id, {"FINALIZING", "FAILED"})
    /\ \A r \in Requests : Serves(r, id) =>
         /\ req[r].pc \in {"statusEmit", "statusSave", "delete"}
         /\ req[r].pc # "delete" => req[r].job.state = "FAILED"

Card(id) ==
    ~Remote(id) =>
        /\ StoredIn(id, CardStates)
        /\ Listed(id) \/ Held(id) => StoredIn(id, {"FINALIZING"})
        /\ OneUnit(id)
        /\ \A w \in Workers : Handles(w, id) => CardWorker(w)
        /\ \A r \in Requests : Serves(r, id) => CardRequest(r, id)
        /\ ~seen[id].deleted /\ signapi[id].sess # "open" => Ended(id)

Orderly(id) == Unborn(id) /\ Apart(id) /\ Card(id)

SerialInv == \A id \in Jobs : Orderly(id)

----------------------------------------------------------------------------
(* What a step may do to a job it is not about: take something away.       *)

\* The saved job moves along the listed transitions.
Moves(id) ==
    ~Remote(id) /\ Exists(id) /\ Exists(id)' => CanTransition(store[id].state, store'[id].state)

Kept(id) == Orderly(id)' /\ Moves(id)

NoNewItem(id) == (Listed(id)' => Listed(id)) /\ (ListedOnce(id) => ListedOnce(id)')

Shrinks(id) ==
    /\ store'[id] \in {store[id], NoJob}
    /\ \A r \in Requests : Serves(r, id)' => req'[r] = req[r]
    /\ \A w \in Workers : Handles(w, id)' => wrk'[w] = wrk[w]
    /\ NoNewItem(id)
    /\ signapi'[id].sess = signapi[id].sess
    /\ seen'[id].deleted = seen[id].deleted
    /\ Remote(id)' <=> Remote(id)

\* The invariant asks for the absence of things, so it survives their loss.
LEMMA ShrinksKept ==
    ASSUME NEW id \in Jobs, Orderly(id), Shrinks(id) PROVE Kept(id)
<1>1. /\ \A r \in Requests : Serves(r, id)' => Serves(r, id) /\ req'[r] = req[r]
      /\ \A w \in Workers : Handles(w, id)' => Handles(w, id) /\ wrk'[w] = wrk[w]
  BY DEF Shrinks, Serves, Handles
<1>2. (Held(id)' => Held(id)) /\ (Listed(id)' => Listed(id)) /\ (OneUnit(id) => OneUnit(id)')
  BY <1>1 DEF Held, Shrinks, NoNewItem, OneUnit
<1>3. \A S : StoredIn(id, S) => StoredIn(id, S)' BY DEF Shrinks, StoredIn, Exists
<1>4. Unborn(id)' BY <1>1, <1>2 DEF Orderly, Unborn, Shrinks, Exists
<1>5. Apart(id)' BY <1>1 DEF Orderly, Apart, Shrinks, RemoteCopy
<1>6. Card(id)'
  <2> SUFFICES ASSUME ~Remote(id)' PROVE Card(id)' BY DEF Card
  <2>0. ~Remote(id) BY DEF Shrinks
  <2>1. StoredIn(id, CardStates)' /\ (Listed(id)' \/ Held(id)' => StoredIn(id, {"FINALIZING"})')
    BY <2>0, <1>2, <1>3 DEF Orderly, Card
  <2>2. OneUnit(id)' BY <2>0, <1>2 DEF Orderly, Card
  <2>3. \A w \in Workers : Handles(w, id)' => CardWorker(w)'
    BY <2>0, <1>1 DEF Orderly, Card, CardWorker
  <2>4. ASSUME NEW r \in Requests, Serves(r, id)' PROVE CardRequest(r, id)'
    BY <2>0, <2>4, <1>1, <1>2, <1>3 DEF Orderly, Card, CardRequest
  <2>5. ~seen'[id].deleted /\ signapi'[id].sess # "open" => Ended(id)'
    BY <2>0, <1>1, <1>2, <1>3 DEF Orderly, Card, Ended, Shrinks
  <2>6. QED BY <2>1, <2>2, <2>3, <2>4, <2>5 DEF Card
<1>7. Moves(id) BY DEF Moves, Shrinks, CanTransition, Exists
<1>8. QED BY <1>4, <1>5, <1>6, <1>7 DEF Kept, Orderly

\* For a remote job the copies only have to stay remote.
LEMMA RemoteKept ==
    ASSUME NEW id \in Jobs, Orderly(id), Remote(id), Remote(id)', signapi'[id].sess # "unborn",
           RemoteCopy(store'[id]),
           \A r \in Requests : Serves(r, id)' => req'[r] = req[r] \/ RemoteCopy(req'[r].job),
           \A w \in Workers : Handles(w, id)' => wrk'[w] = wrk[w] \/ RemoteCopy(wrk'[w].job)
    PROVE  Kept(id)
<1>1. Apart(id)'
  <2>1. \A r \in Requests : Serves(r, id)' => RemoteCopy(req'[r].job)
    BY DEF Orderly, Apart, Serves
  <2>2. \A w \in Workers : Handles(w, id)' => RemoteCopy(wrk'[w].job)
    BY DEF Orderly, Apart, Handles
  <2>3. QED BY <2>1, <2>2 DEF Apart, RemoteCopy
<1>2. Unborn(id)' /\ Card(id)' /\ Moves(id) BY DEF Unborn, Card, Moves
<1>3. QED BY <1>1, <1>2 DEF Kept, Orderly

----------------------------------------------------------------------------
(* Every step is about one job j; what it does to the others is a loss.    *)

StoreAt(j) == \A id \in Jobs \ {j} : store'[id] = store[id]
ReqAt(j)   == \A r \in Requests : req'[r] = req[r] \/ req'[r].pc = "idle" \/ req'[r].id = j
WrkAt(j)   == \A w \in Workers : wrk'[w] = wrk[w] \/ wrk'[w].pc = "idle" \/ wrk'[w].id = j
QueueAt(j) == \A id \in Jobs \ {j} : NoNewItem(id)
SessAt(j)  == \A id \in Jobs \ {j} : signapi'[id].sess = signapi[id].sess
SeenAt(j)  == \A id \in Jobs \ {j} : seen'[id].deleted = seen[id].deleted
PagesAt(j) == /\ \A id \in Jobs \ {j} : Remote(id)' <=> Remote(id)
              /\ Remote(j) => Remote(j)'

\* The other jobs are kept.
LEMMA OthersKept ==
    ASSUME SerialInv, NEW j \in Jobs,
           StoreAt(j), ReqAt(j), WrkAt(j), QueueAt(j), SessAt(j), SeenAt(j), PagesAt(j)
    PROVE  \A id \in Jobs \ {j} : Kept(id)
<1> SUFFICES ASSUME NEW id \in Jobs, id # j PROVE Kept(id) OBVIOUS
<1>1. Shrinks(id)
  BY DEF Shrinks, StoreAt, ReqAt, WrkAt, QueueAt, SessAt, SeenAt, PagesAt, Serves, Handles
<1>2. QED BY <1>1, ShrinksKept DEF SerialInv

\* What a step leaves alone.
LEMMA SameAt ==
    ASSUME NEW j \in Jobs
    PROVE  /\ UNCHANGED store => StoreAt(j)
           /\ UNCHANGED req => ReqAt(j)
           /\ UNCHANGED wrk => WrkAt(j)
           /\ UNCHANGED queue => QueueAt(j) /\ NoNewItem(j)
           /\ UNCHANGED signapi => SessAt(j)
           /\ UNCHANGED seen => SeenAt(j)
           /\ UNCHANGED authz => PagesAt(j) /\ (Remote(j)' <=> Remote(j))
<1>1. UNCHANGED store => StoreAt(j) BY DEF StoreAt
<1>2. UNCHANGED req => ReqAt(j) BY DEF ReqAt
<1>3. UNCHANGED wrk => WrkAt(j) BY DEF WrkAt
<1>4. UNCHANGED queue => QueueAt(j) /\ NoNewItem(j)
  BY DEF QueueAt, NoNewItem, Listed, ListedOnce
<1>5. (UNCHANGED signapi => SessAt(j)) /\ (UNCHANGED seen => SeenAt(j)) BY DEF SessAt, SeenAt
<1>6. UNCHANGED authz => PagesAt(j) /\ (Remote(j)' <=> Remote(j)) BY DEF PagesAt, Remote
<1>7. QED BY <1>1, <1>2, <1>3, <1>4, <1>5, <1>6

\* A save, whatever becomes of it, writes the copy or nothing.
LEMMA SaveAt ==
    ASSUME StoreTypeOK, NEW j \in Jobs, NEW x, Save(j, x)
    PROVE  StoreAt(j) /\ store'[j] \in {store[j], x}
<1>1. store' = store \/ store' = [store EXCEPT ![j] = x]
  BY DEF Save, TrySave, SaveOK, SaveFails, SaveJob
<1>2. QED BY <1>1 DEF StoreAt, StoreTypeOK

\* A save that succeeds writes it.
LEMMA SavedAt ==
    ASSUME StoreTypeOK, NEW j \in Jobs, NEW x, TrySave(j, x, TRUE) PROVE store'[j] = x
BY DEF TrySave, SaveOK, SaveJob, StoreTypeOK

\* The job key is dropped.
LEMMA DropAt ==
    ASSUME StoreTypeOK, NEW j \in Jobs, store' \in {store, [store EXCEPT ![j] = NoJob]}
    PROVE  StoreAt(j) /\ store'[j] \in {store[j], NoJob}
BY DEF StoreAt, StoreTypeOK

\* A request goes on, or ends.
LEMMA GotoAt ==
    ASSUME RequestsOK, NEW r \in Requests, NEW pc, NEW j \in Jobs, NEW x, Goto(r, pc, j, x)
    PROVE  /\ ReqAt(j)
           /\ req'[r].pc = pc /\ req'[r].id = j /\ req'[r].job = x
           /\ \A q \in Requests : q # r => req'[q] = req[q]
BY DEF ReqAt, Goto, RequestsOK

LEMMA RespondAt ==
    ASSUME RequestsOK, NEW r \in Requests, Respond(r), NEW j \in Jobs
    PROVE  /\ ReqAt(j)
           /\ \A id : ~Serves(r, id)'
           /\ \A q \in Requests : q # r => req'[q] = req[q]
BY DEF ReqAt, Respond, RequestsOK, IdleRequest, Serves

\* A worker goes on, or ends.
LEMMA GotoWorkerAt ==
    ASSUME WorkersOK, NEW w \in Workers, NEW pc, NEW j \in Jobs, NEW x, GotoWorker(w, pc, j, x)
    PROVE  /\ WrkAt(j)
           /\ wrk'[w].pc = pc /\ wrk'[w].id = j /\ wrk'[w].job = x
           /\ \A v \in Workers : v # w => wrk'[v] = wrk[v]
BY DEF WrkAt, GotoWorker, WorkersOK

LEMMA ReleaseAt ==
    ASSUME WorkersOK, NEW w \in Workers, Release(w), NEW j \in Jobs
    PROVE  /\ WrkAt(j)
           /\ \A id : ~Handles(w, id)'
           /\ \A v \in Workers : v # w => wrk'[v] = wrk[v]
BY DEF WrkAt, Release, WorkersOK, IdleWorker, Handles

\* An item is pushed.
LEMMA PushAt ==
    ASSUME StoreTypeOK, NEW j \in Jobs, queue' = Append(queue, j)
    PROVE  QueueAt(j) /\ (~Listed(j) => ListedOnce(j)')
<1>1. /\ queue \in Seq(Jobs) /\ Len(queue) \in Nat
      /\ DOMAIN queue = 1..Len(queue) /\ DOMAIN queue' = 1..(Len(queue) + 1)
      /\ \A i \in 1..Len(queue) : queue'[i] = queue[i]
      /\ queue'[Len(queue) + 1] = j
  BY DEF StoreTypeOK
<1>2. \A i \in DOMAIN queue' : queue'[i] # j =>
        i \in DOMAIN queue /\ queue'[i] = queue[i]
  BY <1>1
<1>3. QueueAt(j) BY <1>2 DEF QueueAt, NoNewItem, Listed, ListedOnce
<1>4. ~Listed(j) => \A i \in DOMAIN queue' : queue'[i] = j => i = Len(queue) + 1
  BY <1>1 DEF Listed
<1>5. QED BY <1>3, <1>4 DEF ListedOnce

\* An item is popped: it was listed, and is no longer if it was listed once.
LEMMA PopAt ==
    ASSUME StoreTypeOK, NEW j \in Jobs, DequeueWork(j)
    PROVE  /\ QueueAt(j) /\ NoNewItem(j)
           /\ Listed(j)
           /\ ListedOnce(j) => ~Listed(j)'
<1>1. /\ queue \in Seq(Jobs) /\ Len(queue) \in Nat /\ Len(queue) > 0
      /\ DOMAIN queue = 1..Len(queue) /\ DOMAIN queue' = 1..(Len(queue) - 1)
      /\ \A i \in 1..(Len(queue) - 1) : queue'[i] = queue[i + 1]
      /\ queue[1] = j
  BY DEF StoreTypeOK, DequeueWork
<1>2. \A i \in DOMAIN queue' : i + 1 \in DOMAIN queue /\ queue'[i] = queue[i + 1]
  BY <1>1
<1>3. ASSUME NEW id \in Jobs PROVE NoNewItem(id)
  <2>1. Listed(id)' => Listed(id) BY <1>2 DEF Listed
  <2>2. ASSUME ListedOnce(id), NEW i \in DOMAIN queue', NEW k \in DOMAIN queue',
               queue'[i] = id, queue'[k] = id
        PROVE  i = k
    <3>1. i + 1 = k + 1 BY <2>2, <1>2 DEF ListedOnce
    <3>2. i \in Int /\ k \in Int BY <1>1
    <3>3. QED BY <3>1, <3>2
  <2>3. QED BY <2>1, <2>2 DEF NoNewItem, ListedOnce
<1>4. 1 \in DOMAIN queue BY <1>1
<1>5. Listed(j) BY <1>1, <1>4 DEF Listed
<1>6. ASSUME ListedOnce(j), NEW i \in DOMAIN queue', queue'[i] = j PROVE FALSE
  <2>1. i + 1 = 1 BY <1>6, <1>1, <1>2, <1>4 DEF ListedOnce
  <2>2. i \in Nat /\ i > 0 BY <1>1
  <2>3. QED BY <2>1, <2>2
<1>7. QED BY <1>3, <1>5, <1>6 DEF QueueAt, Listed

\* What the calls to SignAPI do to the sessions: nothing, except the close.
LEMMA SignAPIAt ==
    ASSUME UpstreamTypeOK, NEW j \in Jobs
    PROVE  /\ CalculateDigest(j) => SessAt(j) /\ signapi'[j].sess = signapi[j].sess
           /\ CloseLater(j) =>
                /\ SessAt(j)
                /\ signapi[j].sess # "unborn" => signapi'[j].sess # "unborn"
           /\ \A ok : FinalizeSigning(j, ok) => SessAt(j) /\ signapi'[j].sess = signapi[j].sess
           /\ \A d : Uploaded(j, d) => SessAt(j) /\ signapi'[j].sess = "open"
           /\ \A e : signapi' = [signapi EXCEPT ![j].sess = e] => SessAt(j) /\ signapi'[j].sess = e
<1>1. CalculateDigest(j) => SessAt(j) /\ signapi'[j].sess = signapi[j].sess
  BY DEF CalculateDigest, SessAt, UpstreamTypeOK, SignAPIType
<1>2. CloseLater(j) => SessAt(j) /\ (signapi[j].sess # "unborn" => signapi'[j].sess # "unborn")
  BY DEF CloseLater, SessAt, UpstreamTypeOK, SignAPIType
<1>3. ASSUME NEW ok, FinalizeSigning(j, ok) PROVE SessAt(j) /\ signapi'[j].sess = signapi[j].sess
  <2>1. PICK applied \in BOOLEAN :
          signapi' = [signapi EXCEPT ![j].calls = @ + 1,
                                     ![j].finalized = IF applied THEN TRUE ELSE @]
    BY <1>3 DEF FinalizeSigning
  <2>2. QED BY <2>1 DEF SessAt, UpstreamTypeOK, SignAPIType
<1>4. \A d : Uploaded(j, d) => SessAt(j) /\ signapi'[j].sess = "open"
  BY DEF Uploaded, SessAt, UpstreamTypeOK, SignAPIType
<1>5. \A e : signapi' = [signapi EXCEPT ![j].sess = e] => SessAt(j) /\ signapi'[j].sess = e
  BY DEF SessAt, UpstreamTypeOK, SignAPIType
<1>6. QED BY <1>1, <1>2, <1>3, <1>4, <1>5

\* What a step tells the caller.
LEMMA ToldAt ==
    ASSUME SeenOK, NEW j \in Jobs
    PROVE  /\ seen' = [seen EXCEPT ![j].deleted = TRUE] => SeenAt(j) /\ seen'[j].deleted
           /\ \A ok : seen' = [seen EXCEPT ![j].known = ok] =>
                SeenAt(j) /\ seen'[j].deleted = seen[j].deleted
           /\ \A n : seen' = [seen EXCEPT ![j].accepted = n] =>
                SeenAt(j) /\ seen'[j].deleted = seen[j].deleted
           /\ \A n : seen' = [seen EXCEPT ![j].applied = n] =>
                SeenAt(j) /\ seen'[j].deleted = seen[j].deleted
           /\ \A n : seen' = [seen EXCEPT ![j].failed = n] =>
                SeenAt(j) /\ seen'[j].deleted = seen[j].deleted
BY DEF SeenAt, SeenOK, SeenType

\* Pages keep their job, and a new one belongs to the job the step is about.
LEMMA PagesOf ==
    ASSUME NEW j \in Jobs,
           \A s \in OAuthStates :
               \/ authz'[s].job = authz[s].job
               \/ authz[s].job = NoJob /\ authz'[s].job = j
    PROVE  PagesAt(j)
<1>1. \A id \in Jobs : id # NoJob BY JobsAssumption
<1>2. QED BY <1>1 DEF PagesAt, Remote

LEMMA SpendAt ==
    ASSUME UpstreamTypeOK, NEW j \in Jobs, NEW s \in OAuthStates, authz' = SpendCode(s)
    PROVE  PagesAt(j)
<1>1. \A t \in OAuthStates : authz'[t].job = authz[t].job
  BY DEF UpstreamTypeOK, AuthzType, SpendCode
<1>2. QED BY <1>1, PagesOf

LEMMA MintAt ==
    ASSUME UpstreamTypeOK, AuthzSound, NEW j \in Jobs, CanMint, NEW l, NEW d, NEW b, Mint(j, l, d, b)
    PROVE  PagesAt(j) /\ Remote(j)'
<1>1. NewState \in OAuthStates /\ NewState > minted
  BY BoundsAssumption DEF UpstreamTypeOK, CanMint, NewState, OAuthStates
<1>2. authz[NewState].job = NoJob /\ authz'[NewState].job = j
  BY <1>1 DEF AuthzSound, Mint, Request, UpstreamTypeOK
<1>3. \A s \in OAuthStates : s # NewState => authz'[s] = authz[s]
  BY <1>1 DEF Mint, UpstreamTypeOK
<1>4. PagesAt(j) BY <1>2, <1>3, PagesOf
<1>5. QED BY <1>1, <1>2, <1>4 DEF Remote

LEMMA SpendMintAt ==
    ASSUME UpstreamTypeOK, AuthzSound, NEW j \in Jobs, CanMint, NEW s \in OAuthStates, NEW d,
           authz' = [SpendCode(s) EXCEPT ![NewState] = Request(j, "sign", d, FALSE)]
    PROVE  PagesAt(j)
<1>1. NewState \in OAuthStates /\ NewState > minted
  BY BoundsAssumption DEF UpstreamTypeOK, CanMint, NewState, OAuthStates
<1>2. authz[NewState].job = NoJob /\ authz'[NewState].job = j
  BY <1>1 DEF AuthzSound, SpendCode, Request, UpstreamTypeOK
<1>3. \A t \in OAuthStates : t # NewState => authz'[t].job = authz[t].job
  BY <1>1 DEF SpendCode, UpstreamTypeOK, AuthzType
<1>4. QED BY <1>2, <1>3, PagesOf

\* A page is shown, or confirmed.
LEMMA ShownAt ==
    ASSUME UpstreamTypeOK, NEW j \in Jobs,
           \/ \E s : authz' \in {authz, [authz EXCEPT ![s].shown = TRUE]}
           \/ \E s \in OAuthStates : Approve(s)
    PROVE  PagesAt(j)
<1>1. ASSUME NEW s, authz' = [authz EXCEPT ![s].shown = TRUE]
      PROVE  \A t \in OAuthStates : authz'[t].job = authz[t].job
  BY <1>1 DEF UpstreamTypeOK, AuthzType
<1>2. ASSUME NEW s \in OAuthStates, Approve(s)
      PROVE  \A t \in OAuthStates : authz'[t].job = authz[t].job
  BY <1>2 DEF UpstreamTypeOK, AuthzType, Approve
<1>3. QED BY <1>1, <1>2, PagesOf

----------------------------------------------------------------------------
(* What the operations on a copy leave alone, and which state they reach.  *)

LEMMA FailIs ==
    ASSUME NEW x \in JobType PROVE Fail(x).flow = x.flow /\ Fail(x).state = "FAILED"
BY DEF Fail, JobType

LEMMA FlowKept ==
    ASSUME NEW x \in JobType, NEW s, NEW d, NEW b
    PROVE  /\ CodeExchanged(x).flow = x.flow
           /\ DigestsCalculated(x, d).flow = x.flow
           /\ FirstLegCompleted(x, s, d).flow = x.flow
           /\ SignLegCompleted(x, b).flow = x.flow
           /\ Signed(x).flow = x.flow
           /\ Finalized(x).flow = x.flow
<1>1. CodeExchanged(x).flow = x.flow BY DEF CodeExchanged, JobType
<1>2. DigestsCalculated(x, d).flow = x.flow BY DEF DigestsCalculated, JobType
<1>3. FirstLegCompleted(x, s, d).flow = x.flow
  BY DEF FirstLegCompleted, AwaitCallback, DigestsCalculated, JobType
<1>4. SignLegCompleted(x, b).flow = x.flow BY DEF SignLegCompleted, Transition, JobType
<1>5. Signed(x).flow = x.flow BY DEF Signed, Transition, JobType
<1>6. Finalized(x).flow = x.flow BY DEF Finalized, Transition, JobType
<1>7. QED BY <1>1, <1>2, <1>3, <1>4, <1>5, <1>6

LEMMA FinalizedIs ==
    ASSUME NEW x \in JobType, x.state = "FINALIZING" PROVE Finalized(x).state = "READY"
BY DEF Finalized, Transition, CanTransition, transitions, JobType

LEMMA SubmittedIs ==
    ASSUME NEW x \in JobType, x.state = "AWAITING_CLIENT_SIGNATURE"
    PROVE  Transition([x EXCEPT !.sig = TRUE], "FINALIZING").state = "FINALIZING"
BY DEF Transition, CanTransition, transitions, JobType

----------------------------------------------------------------------------
(* The steps of a request.                                                 *)

\* A job somebody works for is in use; a callback's job is remote.
LEMMA InUse ==
    ASSUME NEW j \in Jobs, Orderly(j)
    PROVE  /\ Exists(j) \/ Listed(j) \/ Held(j) \/ Remote(j) => signapi[j].sess # "unborn"
           /\ \A r \in Requests : Serves(r, j) => signapi[j].sess # "unborn"
BY DEF Orderly, Unborn

\* A request r of a remote job goes on with another remote copy, or ends, and saves its
\* own copy or nothing.
LEMMA RemoteRequest ==
    ASSUME NEW j \in Jobs, Orderly(j), Remote(j), PagesAt(j),
           signapi'[j].sess = signapi[j].sess,
           NEW r \in Requests,
           Serves(r, j)' => RemoteCopy(req'[r].job),
           \A q \in Requests : q # r => req'[q] = req[q],
           UNCHANGED wrk,
           store'[j] = store[j] \/ RemoteCopy(store'[j])
    PROVE  Kept(j)
<1>1. Remote(j)' /\ signapi'[j].sess # "unborn" BY InUse DEF PagesAt
<1>2. RemoteCopy(store[j]) BY DEF Orderly, Apart
<1>3. RemoteCopy(store'[j]) BY <1>2 DEF RemoteCopy
<1>4. QED BY <1>1, <1>3, RemoteKept

\* A request of a job that is not remote ends, and nothing else comes.
LEMMA RequestEnds ==
    ASSUME NEW j \in Jobs, Orderly(j), NEW r \in Requests,
           \A id : ~Serves(r, id)',
           \A q \in Requests : q # r => req'[q] = req[q],
           UNCHANGED wrk, NoNewItem(j), store'[j] \in {store[j], NoJob},
           signapi'[j].sess = signapi[j].sess, seen'[j].deleted = seen[j].deleted,
           Remote(j)' <=> Remote(j)
    PROVE  Kept(j)
<1>1. Shrinks(j) BY DEF Shrinks, Handles
<1>2. QED BY <1>1, ShrinksKept

\* The steps of a callback: its job is remote.
LEMMA CallbackSteps ==
    ASSUME TypeInv, Safe, SerialInv, NEW r \in Requests,
           \/ CallbackLoad(r) \/ CallbackClear(r) \/ CallbackFails(r) \/ AdvanceFirstLeg(r)
           \/ AdvanceFirstLegFails(r) \/ AdvanceSignLeg(r)
           \/ CallbackSave(r) \/ CallbackSaveNext(r)
    PROVE  \A id \in Jobs : Kept(id)
<1>0. req[r].pc \in CallbackPCs
  BY DEF CallbackLoad, CallbackClear, CallbackFails, AdvanceFirstLeg, AdvanceFirstLegFails,
         AdvanceSignLeg, CallbackSave, CallbackSaveNext, Exchange, Advance, CallbackPCs
<1>j. PICK j \in Jobs : req[r].id = j BY <1>0 DEF TypeInv, RequestsOK, CallbackPCs
<1> DEFINE x == req[r].job
           s == req[r].s
           e == CodeExchanged(x)
           d == NextDigest(j)
<1>1. Serves(r, j) /\ Remote(j) /\ RemoteCopy(x) /\ RemoteCopy(store[j]) /\ Orderly(j)
  BY <1>0, <1>j DEF SerialInv, Orderly, Apart, Serves, CallbackPCs
<1>2. req[r].pc \in HoldingPCs => x \in JobType /\ x # NoJob
  BY NoJobAssumption DEF TypeInv, RequestsOK
<1>3. req[r].pc \in {"cbLoad", "cbClear", "cbAdvance"} => s \in OAuthStates
  BY DEF TypeInv, RequestsOK
<1>t. /\ UpstreamTypeOK /\ StoreTypeOK /\ SeenOK /\ RequestsOK /\ AuthzSound
  BY DEF TypeInv, Safe
<1>h. \A l : Exchange(r, l) => Advance(r) /\ CanExchange(x, s) BY DEF Exchange
<1> HIDE DEF x, s, e, d
\* What is left to show: where the request goes, and what it saves.
<1>k. ASSUME StoreAt(j), ReqAt(j), UNCHANGED <<queue, wrk>>, SessAt(j), SeenAt(j), PagesAt(j),
             signapi'[j].sess = signapi[j].sess,
             Serves(r, j)' => RemoteCopy(req'[r].job),
             \A q \in Requests : q # r => req'[q] = req[q],
             store'[j] \in {store[j], x}
      PROVE  \A id \in Jobs : Kept(id)
  <2>1. QueueAt(j) /\ WrkAt(j) BY <1>1, <1>k, SameAt
  <2>2. \A id \in Jobs \ {j} : Kept(id) BY <1>1, <1>k, <2>1, OthersKept
  <2>3. store'[j] = store[j] \/ RemoteCopy(store'[j]) BY <1>1, <1>k
  <2>4. Kept(j) BY <1>1, <1>k, <2>3, RemoteRequest
  <2>5. QED BY <2>2, <2>4
\* A callback that advances works on a copy of the remote job.
<1>a. ASSUME Advance(r)
      PROVE  /\ x \in JobType /\ ~IsClientSide(x.flow) /\ s \in OAuthStates
             /\ e \in JobType /\ e.flow = x.flow
             /\ UNCHANGED <<store, queue, wrk>> /\ StoreAt(j)
  <2>1. x \in JobType /\ ~IsClientSide(x.flow) /\ s \in OAuthStates
    BY <1>a, <1>1, <1>2, <1>3 DEF Advance, HoldingPCs, RemoteCopy
  <2>2. QED BY <1>a, <1>1, <2>1, CodeExchangedType, FlowKept, SameAt DEF Advance, storeVars, e
<1>g. ASSUME NEW pc, NEW y, Goto(r, pc, j, y), ~IsClientSide(y.flow)
      PROVE  /\ ReqAt(j) /\ (Serves(r, j)' => RemoteCopy(req'[r].job))
             /\ \A q \in Requests : q # r => req'[q] = req[q]
  BY <1>g, <1>1, <1>t, GotoAt DEF RemoteCopy
<1>4. CASE CallbackLoad(r)
  <2>0. UNCHANGED <<store, queue, wrk, signapi, seen, authz>>
    BY <1>4 DEF CallbackLoad, storeVars, upVars
  <2>1. /\ ReqAt(j) /\ (Serves(r, j)' => RemoteCopy(req'[r].job))
        /\ \A q \in Requests : q # r => req'[q] = req[q]
    <3>1. CASE Exists(j)
      <4>1. req' = [req EXCEPT ![r].pc = "cbClear", ![r].job = store[j]]
        BY <1>j, <1>4, <3>1 DEF CallbackLoad
      <4>2. QED BY <1>j, <4>1, <1>1, <1>t DEF ReqAt, RequestsOK, RequestType
    <3>2. CASE ~Exists(j)
      <4>1. Respond(r) BY <1>j, <1>4, <3>2 DEF CallbackLoad
      <4>2. QED BY <4>1, <1>1, <1>t, RespondAt
    <3>3. QED BY <3>1, <3>2
  <2>2. QED BY <2>0, <2>1, <1>k, <1>1, SameAt
<1>5. CASE CallbackClear(r)
  <2>1. req' = [req EXCEPT ![r].pc = "cbAdvance"] /\ UNCHANGED <<store, queue, wrk, signapi, seen, authz>>
    BY <1>5 DEF CallbackClear, upVars
  <2>2. /\ ReqAt(j) /\ (Serves(r, j)' => RemoteCopy(req'[r].job))
        /\ \A q \in Requests : q # r => req'[q] = req[q]
    BY <1>j, <2>1, <1>1, <1>t DEF ReqAt, RequestsOK, RequestType, x
  <2>3. QED BY <2>1, <2>2, <1>k, <1>1, SameAt
<1>6. CASE CallbackFails(r)
  <2> DEFINE y == IF req[r].declined THEN x ELSE e
  <2>0. Advance(r) /\ Goto(r, "cbSave", j, Fail(y)) /\ UNCHANGED <<signapi, seen>>
    BY <1>j, <1>6 DEF CallbackFails, x, e
  <2>1. y \in JobType /\ ~IsClientSide(y.flow) BY <2>0, <1>a
  <2> HIDE DEF y
  <2>2. ~IsClientSide(Fail(y).flow) BY <2>1, FailIs
  <2>3. authz' = authz \/ authz' = SpendCode(s) BY <1>6 DEF CallbackFails, s
  <2>4. PagesAt(j) BY <2>0, <2>3, <1>1, <1>a, <1>t, SpendAt, SameAt
  <2>5. QED BY <2>0, <2>2, <2>4, <1>1, <1>a, <1>g, <1>k, SameAt
<1>7. CASE AdvanceFirstLeg(r)
  <2>0. /\ Exchange(r, FirstLeg(x.flow)) /\ CalculateDigest(j) /\ CanMint
        /\ authz' = [SpendCode(s) EXCEPT ![NewState] = Request(j, "sign", Asked(x, d), FALSE)]
        /\ Goto(r, "cbSaveNext", j, FirstLegCompleted(e, NewState, d))
        /\ UNCHANGED seen
    BY <1>j, <1>7 DEF AdvanceFirstLeg, x, s, d, e
  <2>1. Advance(r) BY <2>0, <1>h
  <2>2. ~IsClientSide(FirstLegCompleted(e, NewState, d).flow) BY <2>1, <1>a, FlowKept
  <2>3. PagesAt(j) BY <2>0, <2>1, <1>1, <1>a, <1>t, SpendMintAt
  <2>4. SessAt(j) /\ signapi'[j].sess = signapi[j].sess BY <2>0, <1>1, <1>t, SignAPIAt
  <2>5. QED BY <2>0, <2>1, <2>2, <2>3, <2>4, <1>1, <1>a, <1>g, <1>k, SameAt
<1>8. CASE AdvanceFirstLegFails(r)
  <2>0. Exchange(r, FirstLeg(x.flow)) /\ CalculateDigest(j) /\ UNCHANGED seen
    BY <1>j, <1>8 DEF AdvanceFirstLegFails, x
  <2>1. Advance(r) BY <2>0, <1>h
  <2>2. SessAt(j) /\ signapi'[j].sess = signapi[j].sess BY <2>0, <1>1, <1>t, SignAPIAt
  <2>3. d \in Nat
    BY <1>j, <1>8, <1>1, <1>t, CalculateDigestType DEF AdvanceFirstLegFails, d
  <2>4. CASE /\ authz' = SpendCode(s)
             /\ \E y \in {e, DigestsCalculated(e, d)} : Goto(r, "cbSave", j, Fail(y))
    <3>1. PICK y \in {e, DigestsCalculated(e, d)} : Goto(r, "cbSave", j, Fail(y)) BY <2>4
    <3>2. y \in JobType /\ ~IsClientSide(y.flow)
      <4>1. e \in JobType /\ ~IsClientSide(e.flow) BY <2>1, <1>a
      <4>2. DigestsCalculated(e, d) \in JobType BY <2>3, <4>1, DigestsCalculatedType
      <4>3. DigestsCalculated(e, d).flow = e.flow BY <4>1, FlowKept
      <4>4. QED BY <4>1, <4>2, <4>3
    <3>3. ~IsClientSide(Fail(y).flow) BY <3>2, FailIs
    <3>4. PagesAt(j) BY <2>1, <2>4, <1>1, <1>a, <1>t, SpendAt
    <3>5. QED BY <2>0, <2>1, <2>2, <3>1, <3>3, <3>4, <1>1, <1>a, <1>g, <1>k, SameAt
  <2>5. CASE /\ CanMint
             /\ authz' = [SpendCode(s) EXCEPT ![NewState] = Request(j, "sign", Asked(x, d), FALSE)]
             /\ Goto(r, "cbSave", j, Fail(FirstLegCompleted(e, NewState, d)))
    <3>1. NewState \in Nat BY <1>t, BoundsAssumption DEF UpstreamTypeOK, NewState
    <3>2. /\ FirstLegCompleted(e, NewState, d) \in JobType
          /\ ~IsClientSide(FirstLegCompleted(e, NewState, d).flow)
      <4>1. e \in JobType /\ ~IsClientSide(e.flow) BY <2>1, <1>a
      <4>2. FirstLegCompleted(e, NewState, d) \in JobType
        BY <2>3, <3>1, <4>1, FirstLegCompletedType
      <4>3. FirstLegCompleted(e, NewState, d).flow = e.flow BY <4>1, FlowKept
      <4>4. QED BY <4>1, <4>2, <4>3
    <3>3. ~IsClientSide(Fail(FirstLegCompleted(e, NewState, d)).flow) BY <3>2, FailIs
    <3>4. PagesAt(j) BY <2>1, <2>5, <1>1, <1>a, <1>t, SpendMintAt
    <3>5. QED BY <2>0, <2>1, <2>2, <2>5, <3>3, <3>4, <1>1, <1>a, <1>g, <1>k, SameAt
  <2>6. QED BY <1>j, <1>8, <2>4, <2>5 DEF AdvanceFirstLegFails, x, s, d, e
<1>9. CASE AdvanceSignLeg(r)
  <2>0. PICK b : Goto(r, "cbSaveDone", j, SignLegCompleted(e, b))
    BY <1>j, <1>9 DEF AdvanceSignLeg, x, s, e
  <2>1. /\ Exchange(r, "sign") /\ authz' = SpendCode(s) /\ UNCHANGED signapi
        /\ seen' = [seen EXCEPT ![j].accepted = @ + 1]
    BY <1>j, <1>9 DEF AdvanceSignLeg, s
  <2>2. Advance(r) BY <2>1, <1>h
  <2>3. ~IsClientSide(SignLegCompleted(e, b).flow) BY <2>2, <1>a, FlowKept
  <2>4. PagesAt(j) BY <2>1, <2>2, <1>1, <1>a, <1>t, SpendAt
  <2>5. SeenAt(j) BY <2>1, <1>1, <1>t, ToldAt
  <2>6. QED BY <2>0, <2>1, <2>2, <2>3, <2>4, <2>5, <1>1, <1>a, <1>g, <1>k, SameAt
<1>10. CASE CallbackSave(r) \/ CallbackSaveNext(r)
  <2>1. Save(j, x) /\ Respond(r) /\ UNCHANGED <<queue, wrk, signapi, seen>>
    BY <1>j, <1>10, TrySaveIsSave DEF CallbackSave, CallbackSaveNext, upVars, x
  <2>2. \E t : authz' \in {authz, [authz EXCEPT ![t].shown = TRUE]}
    BY <1>10 DEF CallbackSave, CallbackSaveNext, upVars
  <2>3. PagesAt(j) BY <2>2, <1>1, <1>t, ShownAt
  <2>4. StoreAt(j) /\ store'[j] \in {store[j], x} BY <2>1, <1>1, <1>t, SaveAt
  <2>5. /\ ReqAt(j) /\ ~Serves(r, j)' /\ \A q \in Requests : q # r => req'[q] = req[q]
    BY <2>1, <1>1, <1>t, RespondAt
  <2>6. QED BY <2>1, <2>3, <2>4, <2>5, <1>1, <1>k, SameAt
<1>11. QED BY <1>4, <1>5, <1>6, <1>7, <1>8, <1>9, <1>10

\* A card job whose only request ends or goes on, in parts.
LEMMA CardKept ==
    ASSUME NEW j \in Jobs, ~Remote(j), ~Remote(j)', signapi'[j].sess # "unborn",
           StoredIn(j, CardStates)',
           Listed(j)' \/ Held(j)' => StoredIn(j, {"FINALIZING"})',
           OneUnit(j)',
           \A w \in Workers : Handles(w, j)' => CardWorker(w)',
           \A r \in Requests : Serves(r, j)' => CardRequest(r, j)',
           \A r \in Requests : Serves(r, j)' => req'[r].pc \notin CallbackPCs,
           ~seen'[j].deleted /\ signapi'[j].sess # "open" => Ended(j)',
           Moves(j)
    PROVE  Kept(j)
BY DEF Kept, Orderly, Unborn, Apart, Card

\* SaveForWork, for a card: the job is FINALIZING from here on, if it is saved.
LEMMA SaveForWorkKept ==
    ASSUME TypeInv, SerialInv, OneAtATime, NEW r \in Requests, SaveForWork(r)
    PROVE  \A id \in Jobs : Kept(id)
<1> DEFINE x == req[r].job
<1>0. req[r].pc \in {"cbSaveDone", "submitSave"} BY DEF SaveForWork
<1>j. PICK j \in Jobs : req[r].id = j BY <1>0 DEF TypeInv, RequestsOK
<1>t. StoreTypeOK /\ RequestsOK BY DEF TypeInv
<1>1. Serves(r, j) /\ Orderly(j) /\ x \in JobType
  BY <1>0, <1>j DEF SerialInv, Serves, TypeInv, RequestsOK, HoldingPCs
<1>2. PICK ok \in BOOLEAN :
        /\ TrySave(j, x, ok)
        /\ IF ok THEN Goto(r, "enqueue", j, NoJob) ELSE Respond(r)
  BY <1>j DEF SaveForWork
<1>3. UNCHANGED <<queue, wrk, signapi, seen, authz>> BY DEF SaveForWork, upVars
<1> HIDE DEF x
<1>4. StoreAt(j) /\ store'[j] \in {store[j], x} BY <1>2, <1>t, TrySaveIsSave, SaveAt
<1>5. ReqAt(j) /\ \A q \in Requests : q # r => req'[q] = req[q]
  BY <1>2, <1>t, GotoAt, RespondAt
<1>6. /\ WrkAt(j) /\ QueueAt(j) /\ SessAt(j) /\ SeenAt(j) /\ PagesAt(j)
      /\ Remote(j)' <=> Remote(j)
  BY <1>3, SameAt
<1>7. \A id \in Jobs \ {j} : Kept(id) BY <1>4, <1>5, <1>6, OthersKept
<1>8. CASE Remote(j)
  <2>1. RemoteCopy(x) BY <1>1, <1>8 DEF Orderly, Apart, x
  <2>2. Serves(r, j)' => RemoteCopy(req'[r].job)
    BY <1>2, <1>t, GotoAt, RespondAt DEF RemoteCopy
  <2>3. store'[j] = store[j] \/ RemoteCopy(store'[j]) BY <1>4, <2>1
  <2>4. QED BY <1>1, <1>3, <1>5, <1>6, <1>8, <2>2, <2>3, <1>7, RemoteRequest
<1>9. CASE ~Remote(j)
  <2>0. /\ req[r].pc = "submitSave" /\ x.state = "FINALIZING"
        /\ StoredIn(j, {"AWAITING_CLIENT_SIGNATURE"}) /\ ~Listed(j) /\ ~Held(j)
    BY <1>0, <1>1, <1>9 DEF Orderly, Apart, Card, CardRequest, CallbackPCs, x
  <2>1. signapi[j].sess = "open" \/ seen[j].deleted
    BY <1>1, <1>9, <2>0 DEF Orderly, Card, Ended
  <2>2. \A q \in Requests : Serves(q, j)' => q = r
    BY <1>1, <1>5, <1>9 DEF OneAtATime, Serves
  <2>3. ~Listed(j)' /\ ~Held(j)' BY <1>3, <2>0 DEF Listed, Held, Handles
  <2>4. OneUnit(j)' BY <2>3, <1>3, <1>1, <1>9 DEF Orderly, Card, OneUnit, ListedOnce, Handles
  <2>5. StoredIn(j, CardStates)' /\ Moves(j)
    BY <1>4, <2>0 DEF StoredIn, CardStates, Moves, Exists, CanTransition, transitions
  <2>6. ASSUME NEW q \in Requests, Serves(q, j)' PROVE CardRequest(q, j)' /\ req'[q].pc = "enqueue"
    <3>1. q = r /\ ok = TRUE /\ Goto(r, "enqueue", j, NoJob)
      BY <1>2, <1>t, <2>2, <2>6, RespondAt
    <3>2. req'[r].pc = "enqueue" BY <3>1, <1>t, GotoAt
    <3>3. store'[j] = x BY <1>2, <1>t, <3>1, SavedAt
    <3>4. QED BY <3>1, <3>2, <3>3, <2>0, <2>3 DEF CardRequest, StoredIn
  <2>7. signapi'[j].sess # "unborn" BY <1>1, <1>3, InUse
  <2>8. \A w \in Workers : ~Handles(w, j)' BY <2>3 DEF Held
  <2>9. \A q \in Requests : Serves(q, j)' => req'[q].pc \notin CallbackPCs
    BY <2>6 DEF CallbackPCs
  <2>10. Kept(j)
    BY <1>3, <1>6, <1>9, <2>1, <2>3, <2>4, <2>5, <2>6, <2>7, <2>8, <2>9, CardKept
  <2>11. QED BY <1>7, <2>10
<1>10. QED BY <1>8, <1>9

\* EnqueueWork, for a card: its unit of work gets on the list, or is lost.
LEMMA EnqueueWorkKept ==
    ASSUME TypeInv, SerialInv, OneAtATime, NEW r \in Requests, EnqueueWork(r)
    PROVE  \A id \in Jobs : Kept(id)
<1>0. req[r].pc = "enqueue" BY DEF EnqueueWork
<1>j. PICK j \in Jobs : req[r].id = j BY <1>0 DEF TypeInv, RequestsOK
<1>t. StoreTypeOK /\ RequestsOK BY DEF TypeInv
<1>1. Serves(r, j) /\ Orderly(j) BY <1>0, <1>j DEF SerialInv, Serves
<1>2. /\ queue' = Append(queue, j) \/ UNCHANGED queue
      /\ Respond(r) /\ UNCHANGED <<store, wrk, signapi, seen, authz>>
  BY <1>j DEF EnqueueWork, EnqueueOK, EnqueueFails, upVars
<1>3. ReqAt(j) /\ ~Serves(r, j)' /\ \A q \in Requests : q # r => req'[q] = req[q]
  BY <1>2, <1>t, RespondAt
<1>4. /\ StoreAt(j) /\ WrkAt(j) /\ SessAt(j) /\ SeenAt(j) /\ PagesAt(j)
      /\ Remote(j)' <=> Remote(j)
  BY <1>2, SameAt
<1>5. QueueAt(j) BY <1>2, <1>t, SameAt, PushAt
<1>6. \A id \in Jobs \ {j} : Kept(id) BY <1>3, <1>4, <1>5, OthersKept
<1>7. CASE Remote(j) BY <1>1, <1>2, <1>3, <1>4, <1>6, <1>7, RemoteRequest
<1>8. CASE ~Remote(j)
  <2>0. StoredIn(j, {"FINALIZING"}) /\ ~Listed(j) /\ ~Held(j)
    BY <1>0, <1>1, <1>8 DEF Orderly, Card, CardRequest
  <2>1. signapi[j].sess = "open" \/ seen[j].deleted
    BY <1>0, <1>1, <1>8 DEF Orderly, Card, Ended
  <2>2. \A q \in Requests : ~Serves(q, j)'
    BY <1>1, <1>3, <1>8 DEF OneAtATime, Serves
  <2>3. ~Held(j)' BY <1>2, <2>0 DEF Held, Handles
  <2>4. ListedOnce(j)'
    <3>1. CASE queue' = Append(queue, j) BY <3>1, <1>t, <2>0, PushAt
    <3>2. CASE UNCHANGED queue BY <3>2, <2>0 DEF ListedOnce, Listed
    <3>3. QED BY <1>2, <3>1, <3>2
  <2>5. OneUnit(j)' BY <2>3, <2>4 DEF OneUnit, Held
  <2>6. StoredIn(j, CardStates)' /\ StoredIn(j, {"FINALIZING"})' /\ Moves(j)
    BY <1>2, <2>0 DEF StoredIn, CardStates, Moves, Exists, CanTransition
  <2>7. signapi'[j].sess # "unborn" BY <1>1, <1>2, InUse
  <2>8. \A w \in Workers : ~Handles(w, j)' BY <2>3 DEF Held
  <2>9. Kept(j) BY <1>2, <1>4, <1>8, <2>1, <2>2, <2>5, <2>6, <2>7, <2>8, CardKept
  <2>10. QED BY <1>6, <2>9
<1>9. QED BY <1>7, <1>8

\* StatusSave, for a card: the state that is saved is written back.
LEMMA StatusSaveKept ==
    ASSUME TypeInv, SerialInv, OneAtATime, NEW r \in Requests, StatusSave(r)
    PROVE  \A id \in Jobs : Kept(id)
<1> DEFINE x == req[r].job
<1>0. req[r].pc = "statusSave" BY DEF StatusSave
<1>j. PICK j \in Jobs : req[r].id = j BY <1>0 DEF TypeInv, RequestsOK
<1>t. StoreTypeOK /\ RequestsOK BY DEF TypeInv
<1>1. Serves(r, j) /\ Orderly(j) BY <1>0, <1>j DEF SerialInv, Serves
<1>2. Save(j, x) /\ Respond(r) /\ UNCHANGED <<queue, wrk, signapi, seen, authz>>
  BY <1>j DEF StatusSave, upVars
<1> HIDE DEF x
<1>3. StoreAt(j) /\ store'[j] \in {store[j], x} BY <1>2, <1>t, SaveAt
<1>4. ReqAt(j) /\ ~Serves(r, j)' /\ \A q \in Requests : q # r => req'[q] = req[q]
  BY <1>2, <1>t, RespondAt
<1>5. /\ WrkAt(j) /\ QueueAt(j) /\ SessAt(j) /\ SeenAt(j) /\ PagesAt(j)
      /\ Remote(j)' <=> Remote(j)
  BY <1>2, SameAt
<1>6. \A id \in Jobs \ {j} : Kept(id) BY <1>3, <1>4, <1>5, OthersKept
<1>7. CASE Remote(j)
  <2>1. RemoteCopy(x) BY <1>1, <1>7 DEF Orderly, Apart, x
  <2>2. store'[j] = store[j] \/ RemoteCopy(store'[j]) BY <1>3, <2>1
  <2>3. QED BY <1>1, <1>2, <1>4, <1>5, <1>6, <1>7, <2>2, RemoteRequest
<1>8. CASE ~Remote(j)
  <2>0. Terminal(x.state) /\ StoredIn(j, {x.state}) /\ ~Listed(j) /\ ~Held(j)
    BY <1>0, <1>1, <1>8 DEF Orderly, Card, CardRequest, x
  <2>1. ~seen[j].deleted /\ signapi[j].sess # "open" => x.state = "FAILED"
    BY <1>0, <1>1, <1>8 DEF Orderly, Card, Ended, x
  <2>2. \A q \in Requests : ~Serves(q, j)'
    BY <1>1, <1>4, <1>8 DEF OneAtATime, Serves
  <2>3. ~Listed(j)' /\ ~Held(j)' BY <1>2, <2>0 DEF Listed, Held, Handles
  <2>4. OneUnit(j)' BY <2>3, <1>2, <1>1, <1>8 DEF Orderly, Card, OneUnit, ListedOnce, Handles
  <2>5. (Exists(j)' => store'[j].state = x.state) /\ Moves(j)
    BY <1>3, <2>0 DEF StoredIn, Moves, Exists, CanTransition
  <2>6. StoredIn(j, CardStates)' BY <2>0, <2>5 DEF StoredIn, CardStates, Terminal
  <2>7. signapi'[j].sess # "unborn" BY <1>1, <1>2, InUse
  <2>8. \A w \in Workers : ~Handles(w, j)' BY <2>3 DEF Held
  <2>9. ~seen'[j].deleted /\ signapi'[j].sess # "open" => Ended(j)'
    BY <1>2, <2>1, <2>2, <2>3, <2>5 DEF Ended, StoredIn
  <2>10. Kept(j) BY <1>5, <1>8, <2>2, <2>3, <2>4, <2>5, <2>6, <2>7, <2>8, <2>9, CardKept
  <2>11. QED BY <1>6, <2>10
<1>9. QED BY <1>7, <1>8

\* DeleteKeys: the job key goes, and the sessions with it once the delete is answered.
LEMMA DeleteKeysKept ==
    ASSUME TypeInv, SerialInv, OneAtATime, NEW r \in Requests, DeleteKeys(r)
    PROVE  \A id \in Jobs : Kept(id)
<1> DEFINE x == req[r].job
<1>0. req[r].pc = "delete" BY DEF DeleteKeys
<1>j. PICK j \in Jobs : req[r].id = j BY <1>0 DEF TypeInv, RequestsOK
<1>t. StoreTypeOK /\ RequestsOK /\ UpstreamTypeOK /\ SeenOK BY DEF TypeInv
<1>1. Serves(r, j) /\ Orderly(j) BY <1>0, <1>j DEF SerialInv, Serves
<1>2. Respond(r) /\ UNCHANGED <<queue, wrk, authz>> BY DEF DeleteKeys
<1>3. /\ ReqAt(j) /\ (\A id : ~Serves(r, id)')
      /\ \A q \in Requests : q # r => req'[q] = req[q]
  BY <1>2, <1>t, RespondAt
<1>4. WrkAt(j) /\ QueueAt(j) /\ NoNewItem(j) /\ PagesAt(j) /\ (Remote(j)' <=> Remote(j))
  BY <1>2, SameAt
<1>5. CASE DeleteFails(j, x) /\ UNCHANGED <<signapi, seen>>
  <2>1. StoreAt(j) /\ store'[j] \in {store[j], NoJob} BY <1>5, <1>t, DropAt DEF DeleteFails
  <2>2. SessAt(j) /\ SeenAt(j) BY <1>5, SameAt
  <2>3. \A id \in Jobs \ {j} : Kept(id) BY <1>3, <1>4, <2>1, <2>2, OthersKept
  <2>4. Kept(j) BY <1>1, <1>2, <1>3, <1>4, <1>5, <2>1, RequestEnds
  <2>5. QED BY <2>3, <2>4
<1>6. CASE DeleteOK(j, x) /\ CloseLater(j) /\ seen' = [seen EXCEPT ![j].deleted = TRUE]
  <2>1. StoreAt(j) /\ store'[j] = NoJob
    <3>1. store' = [store EXCEPT ![j] = NoJob] BY <1>6 DEF DeleteOK
    <3>2. QED BY <3>1, <1>t DEF StoreAt, StoreTypeOK
  <2>2. SessAt(j) /\ SeenAt(j) /\ seen'[j].deleted /\ signapi'[j].sess # "unborn"
    BY <1>1, <1>6, <1>t, SignAPIAt, ToldAt, InUse
  <2>3. \A id \in Jobs \ {j} : Kept(id) BY <1>3, <1>4, <2>1, <2>2, OthersKept
  <2>4. CASE Remote(j)
    <3>1. RemoteCopy(store'[j]) BY <2>1 DEF RemoteCopy
    <3>2. QED BY <1>1, <1>2, <1>3, <1>4, <2>2, <2>3, <2>4, <3>1, RemoteKept
  <2>5. CASE ~Remote(j)
    <3>1. \A q \in Requests : ~Serves(q, j)' BY <1>1, <1>3, <2>5 DEF OneAtATime, Serves
    <3>2. (\A S : StoredIn(j, S)') /\ Moves(j) BY <2>1 DEF StoredIn, Exists, Moves
    <3>3. OneUnit(j)' BY <1>1, <1>2, <2>5 DEF Orderly, Card, OneUnit, Listed, ListedOnce, Held, Handles
    <3>4. \A w \in Workers : Handles(w, j)' => CardWorker(w)'
      BY <1>1, <1>2, <2>5 DEF Orderly, Card, CardWorker, Handles
    <3>5. Kept(j) BY <1>4, <2>2, <2>5, <3>1, <3>2, <3>3, <3>4, CardKept
    <3>6. QED BY <2>3, <3>5
  <2>6. QED BY <2>4, <2>5
<1>7. QED BY <1>5, <1>6, <1>j DEF DeleteKeys

----------------------------------------------------------------------------
(* The steps of a worker.                                                  *)

\* A worker of a remote job goes on with another remote copy, or ends, and saves its
\* own copy or nothing.
LEMMA RemoteWorker ==
    ASSUME NEW j \in Jobs, Orderly(j), Remote(j), UNCHANGED <<req, authz>>,
           signapi'[j].sess # "unborn",
           NEW w \in Workers,
           Handles(w, j)' => RemoteCopy(wrk'[w].job),
           \A v \in Workers : v # w => wrk'[v] = wrk[v],
           store'[j] = store[j] \/ RemoteCopy(store'[j])
    PROVE  Kept(j)
<1>1. Remote(j)' BY SameAt
<1>2. RemoteCopy(store[j]) BY DEF Orderly, Apart
<1>3. RemoteCopy(store'[j]) BY <1>2 DEF RemoteCopy
<1>4. QED BY <1>1, <1>3, RemoteKept

\* WorkerTake: the unit of work leaves the list, for this worker or for nobody.
LEMMA WorkerTakeKept ==
    ASSUME TypeInv, SerialInv, NEW w \in Workers, WorkerTake(w)
    PROVE  \A id \in Jobs : Kept(id)
<1>t. StoreTypeOK /\ WorkersOK BY DEF TypeInv
<1>0. UNCHANGED <<store, req, signapi, authz, seen>> /\ wrk[w].pc = "idle"
  BY DEF WorkerTake, upVars
<1>1. PICK j \in Jobs :
        /\ DequeueWork(j)
        /\ CASE Exists(j) /\ store[j].state = "SIGNING" ->
                  GotoWorker(w, IF DevicePush(store[j].flow) THEN "deviceSave" ELSE "sign",
                             j, store[j])
             [] Exists(j) /\ store[j].state = "FINALIZING" ->
                  GotoWorker(w, "finalize", j, store[j])
             [] OTHER -> UNCHANGED wrk
  BY DEF WorkerTake
<1>2. QueueAt(j) /\ NoNewItem(j) /\ Listed(j) /\ (ListedOnce(j) => ~Listed(j)')
  BY <1>1, <1>t, PopAt
<1>3. /\ StoreAt(j) /\ ReqAt(j) /\ SessAt(j) /\ SeenAt(j) /\ PagesAt(j)
      /\ Remote(j)' <=> Remote(j)
  BY <1>0, SameAt
<1>4. Orderly(j) /\ signapi'[j].sess # "unborn" BY <1>0, <1>2, InUse DEF SerialInv
<1>5. CASE UNCHANGED wrk
  <2>1. WrkAt(j) BY <1>5, SameAt
  <2>2. Shrinks(j) BY <1>0, <1>2, <1>3, <1>5 DEF Shrinks
  <2>3. QED BY <1>2, <1>3, <1>4, <2>1, <2>2, OthersKept, ShrinksKept
<1>6. ASSUME NEW pc, GotoWorker(w, pc, j, store[j]), Exists(j),
             store[j].state = "SIGNING" \/ (store[j].state = "FINALIZING" /\ pc = "finalize")
      PROVE  \A id \in Jobs : Kept(id)
  <2>1. /\ WrkAt(j) /\ wrk'[w].pc = pc /\ wrk'[w].id = j /\ wrk'[w].job = store[j]
        /\ \A v \in Workers : v # w => wrk'[v] = wrk[v]
    BY <1>6, <1>t, GotoWorkerAt
  <2>2. \A id \in Jobs \ {j} : Kept(id) BY <1>2, <1>3, <2>1, OthersKept
  <2>3. CASE Remote(j)
    <3>1. RemoteCopy(wrk'[w].job) BY <1>4, <2>1, <2>3 DEF Orderly, Apart
    <3>2. QED BY <1>0, <1>4, <2>1, <2>2, <2>3, <3>1, RemoteWorker
  <2>4. CASE ~Remote(j)
    <3>0. pc = "finalize" /\ store[j].state = "FINALIZING"
      BY <1>4, <1>6, <2>4 DEF Orderly, Card, StoredIn, CardStates
    <3>1. ~Held(j) /\ ~Listed(j)' BY <1>2, <1>4, <2>4 DEF Orderly, Card, OneUnit
    <3>2. signapi[j].sess = "open" \/ seen[j].deleted BY <1>2, <1>4, <2>4 DEF Orderly, Card, Ended
    <3>3. \A v \in Workers : Handles(v, j)' => v = w
      BY <2>1, <3>1 DEF Held, Handles
    <3>4. OneUnit(j)' BY <3>1, <3>3 DEF OneUnit, Listed, ListedOnce
    <3>5. \A v \in Workers : Handles(v, j)' => CardWorker(v)'
      BY <2>1, <3>0, <3>3 DEF CardWorker
    <3>6. ASSUME NEW r \in Requests, Serves(r, j)'
          PROVE  CardRequest(r, j)' /\ req'[r].pc = "delete"
      <4>1. Serves(r, j) BY <3>6, <1>0 DEF Serves
      <4>2. req[r].pc = "delete" BY <4>1, <1>2, <1>4, <2>4 DEF Orderly, Card, CardRequest
      <4>3. QED BY <4>2, <1>0 DEF CardRequest
    <3>7. StoredIn(j, CardStates)' /\ StoredIn(j, {"FINALIZING"})' /\ Moves(j)
      BY <1>0, <3>0 DEF StoredIn, CardStates, Moves, CanTransition
    <3>8. \A r \in Requests : Serves(r, j)' => req'[r].pc \notin CallbackPCs
      BY <3>6 DEF CallbackPCs
    <3>9. Kept(j)
      BY <1>0, <1>3, <1>4, <2>4, <3>2, <3>4, <3>5, <3>6, <3>7, <3>8, CardKept
    <3>10. QED BY <2>2, <3>9
  <2>5. QED BY <2>3, <2>4
<1>7. CASE Exists(j) /\ store[j].state = "SIGNING"
  BY <1>1, <1>6, <1>7
<1>8. CASE Exists(j) /\ store[j].state = "FINALIZING"
  BY <1>1, <1>6, <1>8
<1>9. CASE ~(Exists(j) /\ store[j].state \in {"SIGNING", "FINALIZING"})
  BY <1>1, <1>5, <1>9
<1>10. QED BY <1>7, <1>8, <1>9

\* The steps before finalize: no card job is signed by a server.
LEMMA SigningStepsKept ==
    ASSUME TypeInv, SerialInv, NEW w \in Workers,
           WorkerDeviceSave(w) \/ WorkerSign(w) \/ WorkerSaveFinalizing(w)
    PROVE  \A id \in Jobs : Kept(id)
<1> DEFINE x == wrk[w].job
<1>0. wrk[w].pc \in {"deviceSave", "sign", "saveFinalizing"}
  BY DEF WorkerDeviceSave, WorkerSign, WorkerSaveFinalizing
<1>j. PICK j \in Jobs : wrk[w].id = j BY <1>0 DEF TypeInv, WorkersOK
<1>t. StoreTypeOK /\ WorkersOK BY DEF TypeInv
<1>1. Handles(w, j) /\ Orderly(j) /\ x \in JobType /\ x # NoJob
  BY <1>0, <1>j, NoJobAssumption DEF SerialInv, Handles, TypeInv, WorkersOK
<1>2. Remote(j) BY <1>0, <1>1 DEF Orderly, Card, CardWorker
<1>3. ~IsClientSide(x.flow) BY <1>1, <1>2 DEF Orderly, Apart, RemoteCopy
<1>4. UNCHANGED <<queue, req, signapi, authz, seen>>
  BY DEF WorkerDeviceSave, WorkerSign, WorkerSaveFinalizing, storeVars, upVars
<1> HIDE DEF x
<1>5. StoreAt(j) /\ store'[j] \in {store[j], x}
  <2>1. Save(j, x) \/ UNCHANGED store
    BY <1>j, TrySaveIsSave DEF WorkerDeviceSave, WorkerSign, WorkerSaveFinalizing, storeVars, x
  <2>2. QED BY <2>1, <1>t, SaveAt, SameAt
<1>6. PICK pc, y : GotoWorker(w, pc, j, y) /\ ~IsClientSide(y.flow)
  <2> DEFINE z == [x EXCEPT !.token = IF IsCSC(x.flow) THEN NoToken ELSE @]
  <2>1. z \in JobType /\ z.flow = x.flow BY <1>1 DEF JobType, NoToken
  <2>2. \E pc : \E y \in {x, Signed(x), Fail(x), Fail(z)} : GotoWorker(w, pc, j, y)
    BY <1>j DEF WorkerDeviceSave, WorkerSign, WorkerSaveFinalizing, x
  <2> HIDE DEF z
  <2>3. Signed(x).flow = x.flow /\ Fail(x).flow = x.flow /\ Fail(z).flow = x.flow
    BY <1>1, <2>1, FlowKept, FailIs
  <2>4. QED BY <1>3, <2>2, <2>3
<1>7. /\ WrkAt(j) /\ wrk'[w].job = y
      /\ \A v \in Workers : v # w => wrk'[v] = wrk[v]
  BY <1>6, <1>t, GotoWorkerAt
<1>8. ReqAt(j) /\ QueueAt(j) /\ SessAt(j) /\ SeenAt(j) /\ PagesAt(j) BY <1>4, SameAt
<1>9. \A id \in Jobs \ {j} : Kept(id) BY <1>5, <1>7, <1>8, OthersKept
<1>10. Kept(j)
  <2>1. RemoteCopy(wrk'[w].job) BY <1>6, <1>7 DEF RemoteCopy
  <2>2. store'[j] = store[j] \/ RemoteCopy(store'[j]) BY <1>3, <1>5 DEF RemoteCopy
  <2>3. signapi'[j].sess # "unborn" BY <1>1, <1>2, <1>4, InUse
  <2>4. QED BY <1>1, <1>2, <1>4, <1>7, <2>1, <2>2, <2>3, RemoteWorker
<1>11. QED BY <1>9, <1>10

\* WorkerFinalize: the worker holds a result.
LEMMA WorkerFinalizeKept ==
    ASSUME TypeInv, Safe, SerialInv, NEW w \in Workers, WorkerFinalize(w)
    PROVE  \A id \in Jobs : Kept(id)
<1> DEFINE x == wrk[w].job
<1>0. wrk[w].pc = "finalize" BY DEF WorkerFinalize
<1>j. PICK j \in Jobs : wrk[w].id = j BY <1>0 DEF TypeInv, WorkersOK
<1>t. UpstreamTypeOK /\ WorkersOK BY DEF TypeInv
<1>1. Handles(w, j) /\ Orderly(j) /\ x \in JobType /\ x # NoJob /\ x.state = "FINALIZING"
  BY <1>0, <1>j, NoJobAssumption DEF SerialInv, Handles, TypeInv, WorkersOK, Safe, WorkersSound
<1>2. UNCHANGED <<store, queue, req, authz, seen>> BY DEF WorkerFinalize, storeVars
<1>3. PICK y \in {Finalized(x), Fail(x)} : GotoWorker(w, "saveResult", j, y)
  BY <1>j DEF WorkerFinalize
<1>4. UNCHANGED signapi \/ \E ok : FinalizeSigning(j, ok) BY <1>j DEF WorkerFinalize
<1> HIDE DEF x
<1>5. y.flow = x.flow /\ Terminal(y.state)
  BY <1>1, <1>3, FlowKept, FinalizedIs, FailIs DEF Terminal
<1>6. SessAt(j) /\ signapi'[j].sess = signapi[j].sess BY <1>4, <1>t, SignAPIAt, SameAt
<1>7. /\ WrkAt(j) /\ wrk'[w].pc = "saveResult" /\ wrk'[w].id = j /\ wrk'[w].job = y
      /\ \A v \in Workers : v # w => wrk'[v] = wrk[v]
  BY <1>3, <1>t, GotoWorkerAt
<1>8. /\ StoreAt(j) /\ ReqAt(j) /\ QueueAt(j) /\ SeenAt(j) /\ PagesAt(j)
      /\ Remote(j)' <=> Remote(j)
  BY <1>2, SameAt
<1>9. \A id \in Jobs \ {j} : Kept(id) BY <1>6, <1>7, <1>8, OthersKept
<1>10. signapi'[j].sess # "unborn" BY <1>1, <1>6, InUse DEF Held
<1>11. CASE Remote(j)
  <2>1. RemoteCopy(wrk'[w].job) BY <1>1, <1>5, <1>7, <1>11 DEF Orderly, Apart, RemoteCopy, x
  <2>2. Kept(j) BY <1>1, <1>2, <1>7, <1>10, <1>11, <2>1, RemoteWorker
  <2>3. QED BY <1>9, <2>2
<1>12. CASE ~Remote(j)
  <2>1. \A v \in Workers : Handles(v, j)' <=> Handles(v, j)
    BY <1>1, <1>7 DEF Handles
  <2>2. Held(j) /\ Held(j)' BY <1>1, <2>1 DEF Held
  <2>3. Listed(j)' <=> Listed(j) BY <1>2 DEF Listed
  <2>4. OneUnit(j)'
    BY <1>1, <1>2, <1>12, <2>1, <2>2, <2>3 DEF Orderly, Card, OneUnit, ListedOnce
  <2>5. ASSUME NEW v \in Workers, Handles(v, j)' PROVE CardWorker(v)'
    <3>1. v = w BY <1>1, <1>12, <2>1, <2>5 DEF Orderly, Card, OneUnit
    <3>2. QED BY <3>1, <1>5, <1>7 DEF CardWorker
  <2>6. ASSUME NEW r \in Requests, Serves(r, j)'
        PROVE  CardRequest(r, j)' /\ req'[r].pc = "delete"
    <3>1. Serves(r, j) BY <2>6, <1>2 DEF Serves
    <3>2. req[r].pc = "delete" BY <3>1, <2>2, <1>1, <1>12 DEF Orderly, Card, CardRequest
    <3>3. QED BY <3>2, <1>2 DEF CardRequest
  <2>7. StoredIn(j, CardStates)' /\ StoredIn(j, {"FINALIZING"})' /\ Moves(j)
    BY <1>1, <1>2, <1>12, <2>2 DEF Orderly, Card, StoredIn, Exists, Moves, CanTransition
  <2>8. signapi'[j].sess = "open" \/ seen'[j].deleted
    BY <1>1, <1>2, <1>6, <1>12, <2>2 DEF Orderly, Card, Ended
  <2>9. \A r \in Requests : Serves(r, j)' => req'[r].pc \notin CallbackPCs
    BY <2>6 DEF CallbackPCs
  <2>10. Kept(j)
    BY <1>8, <1>10, <1>12, <2>4, <2>5, <2>6, <2>7, <2>8, <2>9, CardKept
  <2>11. QED BY <1>9, <2>10
<1>13. QED BY <1>11, <1>12

\* WorkerSaveResult: the result meets a job that is FINALIZING or gone, and only a
\* failed job's sessions are closed.
LEMMA WorkerSaveResultKept ==
    ASSUME TypeInv, SerialInv, NEW w \in Workers, WorkerSaveResult(w)
    PROVE  \A id \in Jobs : Kept(id)
<1> DEFINE x == wrk[w].job
<1>0. wrk[w].pc = "saveResult" BY DEF WorkerSaveResult
<1>j. PICK j \in Jobs : wrk[w].id = j BY <1>0 DEF TypeInv, WorkersOK
<1>t. StoreTypeOK /\ UpstreamTypeOK /\ WorkersOK BY DEF TypeInv
<1>1. Handles(w, j) /\ Orderly(j) BY <1>0, <1>j DEF SerialInv, Handles
<1>2. Save(j, x) /\ Release(w) /\ UNCHANGED <<queue, req, authz, seen>>
  BY <1>j DEF WorkerSaveResult
<1>3. IF x.state = "FAILED" THEN CloseLater(j) ELSE UNCHANGED signapi
  BY <1>j DEF WorkerSaveResult
<1> HIDE DEF x
<1>4. StoreAt(j) /\ store'[j] \in {store[j], x} BY <1>2, <1>t, SaveAt
<1>5. /\ WrkAt(j) /\ ~Handles(w, j)'
      /\ \A v \in Workers : v # w => wrk'[v] = wrk[v]
  BY <1>2, <1>t, ReleaseAt
<1>6. Held(j) /\ signapi[j].sess # "unborn" BY <1>1, InUse DEF Held
<1>7. SessAt(j) /\ signapi'[j].sess # "unborn" BY <1>3, <1>6, <1>t, SignAPIAt, SameAt
<1>8. /\ ReqAt(j) /\ QueueAt(j) /\ SeenAt(j) /\ PagesAt(j)
      /\ Remote(j)' <=> Remote(j)
  BY <1>2, SameAt
<1>9. \A id \in Jobs \ {j} : Kept(id) BY <1>4, <1>5, <1>7, <1>8, OthersKept
<1>10. CASE Remote(j)
  <2>1. RemoteCopy(x) BY <1>1, <1>10 DEF Orderly, Apart, x
  <2>2. store'[j] = store[j] \/ RemoteCopy(store'[j]) BY <1>4, <2>1
  <2>3. Kept(j) BY <1>1, <1>2, <1>5, <1>7, <1>10, <2>2, RemoteWorker
  <2>4. QED BY <1>9, <2>3
<1>11. CASE ~Remote(j)
  <2>0. StoredIn(j, {"FINALIZING"}) /\ Terminal(x.state) /\ OneUnit(j)
    BY <1>0, <1>1, <1>6, <1>11 DEF Orderly, Card, CardWorker, x
  <2>1. \A v \in Workers : ~Handles(v, j)'
    BY <1>1, <1>5, <2>0 DEF OneUnit, Handles
  <2>2. ~Held(j)' /\ ~Listed(j)' BY <1>2, <1>6, <2>0, <2>1 DEF Held, Listed, OneUnit
  <2>3. OneUnit(j)' BY <2>1, <2>2 DEF OneUnit, Listed, ListedOnce
  <2>4. signapi[j].sess = "open" \/ seen[j].deleted BY <1>1, <1>6, <1>11 DEF Orderly, Card, Ended
  <2>5. ASSUME NEW r \in Requests, Serves(r, j)'
        PROVE  CardRequest(r, j)' /\ req'[r].pc = "delete"
    <3>1. Serves(r, j) BY <2>5, <1>2 DEF Serves
    <3>2. req[r].pc = "delete" BY <3>1, <1>6, <1>1, <1>11 DEF Orderly, Card, CardRequest
    <3>3. QED BY <3>2, <1>2 DEF CardRequest
  <2>6. Exists(j)' => store'[j].state \in {"FINALIZING", x.state}
    BY <1>4, <2>0 DEF StoredIn, Exists
  <2>7. StoredIn(j, CardStates)' BY <2>0, <2>6 DEF StoredIn, CardStates, Terminal
  <2>8. Moves(j)
    BY <2>0, <2>6 DEF StoredIn, Moves, CanTransition, transitions, Terminal, JobStates
  <2>9. ~seen'[j].deleted /\ signapi'[j].sess # "open" => Ended(j)'
    <3>1. CASE x.state = "FAILED" BY <3>1, <2>2, <2>5, <2>6 DEF Ended, StoredIn
    <3>2. CASE x.state # "FAILED" BY <3>2, <1>2, <1>3, <2>4
    <3>3. QED BY <3>1, <3>2
  <2>10. \A r \in Requests : Serves(r, j)' => req'[r].pc \notin CallbackPCs
    BY <2>5 DEF CallbackPCs
  <2>11. Kept(j)
    BY <1>7, <1>8, <1>11, <2>1, <2>2, <2>3, <2>5, <2>7, <2>8, <2>9, <2>10, CardKept
  <2>12. QED BY <1>9, <2>11
<1>12. QED BY <1>10, <1>11

----------------------------------------------------------------------------
(* What the caller, the person and the environment do.                     *)

\* A request for job j begins: everything else stays as it is.
LEMMA RequestBegins ==
    ASSUME TypeInv, SerialInv, NEW r \in Requests, NEW j \in Jobs,
           NEW pc, NEW x, Goto(r, pc, j, x), SeenAt(j),
           UNCHANGED <<store, queue, wrk, signapi, authz>>
    PROVE  /\ \A id \in Jobs \ {j} : Kept(id)
           /\ Remote(j) /\ RemoteCopy(x) => Kept(j)
           /\ req'[r].pc = pc /\ req'[r].id = j /\ req'[r].job = x
           /\ \A q \in Requests : q # r => req'[q] = req[q]
           /\ Remote(j)' <=> Remote(j)
<1>1. /\ ReqAt(j) /\ req'[r].pc = pc /\ req'[r].id = j /\ req'[r].job = x
      /\ \A q \in Requests : q # r => req'[q] = req[q]
  BY GotoAt DEF TypeInv
<1>2. /\ StoreAt(j) /\ WrkAt(j) /\ QueueAt(j) /\ SessAt(j) /\ PagesAt(j)
      /\ Remote(j)' <=> Remote(j)
  BY SameAt
<1>3. \A id \in Jobs \ {j} : Kept(id) BY <1>1, <1>2, OthersKept
<1>4. Remote(j) /\ RemoteCopy(x) => Kept(j)
  <2> SUFFICES ASSUME Remote(j), RemoteCopy(x) PROVE Kept(j) OBVIOUS
  <2>1. Orderly(j) BY DEF SerialInv
  <2>2. RemoteCopy(req'[r].job) BY <1>1
  <2>3. QED BY <1>1, <1>2, <2>1, <2>2, RemoteRequest
<1>5. QED BY <1>1, <1>2, <1>3, <1>4

\* It begins for a card job that exists, and knows the state that is saved.
LEMMA CardRequestBegins ==
    ASSUME SerialInv, OneAtATime', NEW r \in Requests, NEW j \in Jobs, Exists(j), ~Remote(j),
           ~Remote(j)', UNCHANGED <<store, queue, wrk, signapi>>,
           seen'[j].deleted = seen[j].deleted,
           req'[r].pc \in {"submitSave", "statusEmit", "delete"}, req'[r].id = j,
           \A q \in Requests : q # r => req'[q] = req[q],
           CardRequest(r, j)',
           req'[r].pc = "submitSave" => store[j].state = "AWAITING_CLIENT_SIGNATURE",
           req'[r].pc = "statusEmit" => store[j].state = req'[r].job.state
    PROVE  Kept(j)
<1>0. Orderly(j) /\ signapi'[j].sess # "unborn" BY InUse DEF SerialInv
<1>1. Serves(r, j)' /\ \A q \in Requests : Serves(q, j)' => q = r
  BY DEF OneAtATime, Serves
<1>2. /\ Listed(j)' <=> Listed(j)
      /\ Held(j)' <=> Held(j)
      /\ OneUnit(j)' <=> OneUnit(j)
      /\ \A w \in Workers : Handles(w, j)' <=> Handles(w, j)
      /\ \A w \in Workers : CardWorker(w)' <=> CardWorker(w)
  BY DEF Listed, Held, Handles, OneUnit, ListedOnce, CardWorker
<1>3. /\ StoredIn(j, CardStates)' <=> StoredIn(j, CardStates)
      /\ StoredIn(j, {"FINALIZING"})' <=> StoredIn(j, {"FINALIZING"})
      /\ StoredIn(j, {"FINALIZING", "FAILED"})' <=> StoredIn(j, {"FINALIZING", "FAILED"})
  BY DEF StoredIn, Exists
<1>4. ~seen'[j].deleted /\ signapi'[j].sess # "open" => Ended(j)'
  <2> SUFFICES ASSUME ~seen'[j].deleted, signapi'[j].sess # "open" PROVE Ended(j)' OBVIOUS
  <2>1. Ended(j) BY <1>0 DEF Orderly, Card
  <2>2. store[j].state \in {"FINALIZING", "FAILED"} BY <2>1 DEF Ended, StoredIn
  <2>3. req'[r].pc # "submitSave" /\ (req'[r].pc = "statusEmit" => req'[r].job.state = "FAILED")
    BY <2>2 DEF CardRequest, Terminal
  <2>4. QED BY <1>1, <1>2, <1>3, <2>1, <2>3 DEF Ended
<1>5. \A q \in Requests : Serves(q, j)' => CardRequest(q, j)' /\ req'[q].pc \notin CallbackPCs
  BY <1>1 DEF CallbackPCs
<1>6. Moves(j) BY DEF Moves, CanTransition
<1>7. QED BY <1>0, <1>2, <1>3, <1>4, <1>5, <1>6, CardKept DEF Orderly, Card

\* SubmitSignatures: only a card job is submitted to, and only before its unit of work.
LEMMA SubmitKept ==
    ASSUME TypeInv, SerialInv, OneAtATime', NEW r \in Requests, NEW j \in Jobs,
           SubmitSignatures(r, j)
    PROVE  \A id \in Jobs : Kept(id)
<1> DEFINE y == Transition([store[j] EXCEPT !.sig = TRUE], "FINALIZING")
<1>0. /\ Exists(j) /\ IsClientSide(store[j].flow) /\ store[j].state = "AWAITING_CLIENT_SIGNATURE"
      /\ Goto(r, "submitSave", j, y) /\ seen' = [seen EXCEPT ![j].accepted = @ + 1]
      /\ UNCHANGED <<store, queue, wrk, signapi, authz>>
  BY DEF SubmitSignatures, Called, storeVars, upVars
<1>1. y.state = "FINALIZING"
  <2>1. store[j] \in JobType BY <1>0 DEF TypeInv, StoreTypeOK, Exists
  <2>2. QED BY <1>0, <2>1, SubmittedIs
<1>2. PICK z : z = y OBVIOUS
<1> HIDE DEF y
<1>3. SeenAt(j) /\ seen'[j].deleted = seen[j].deleted BY <1>0, ToldAt DEF TypeInv
<1>4. ~Remote(j) BY <1>0 DEF SerialInv, Orderly, Apart, RemoteCopy, Exists
<1>5. /\ \A id \in Jobs \ {j} : Kept(id)
      /\ req'[r].pc = "submitSave" /\ req'[r].id = j /\ req'[r].job = z
      /\ \A q \in Requests : q # r => req'[q] = req[q]
      /\ ~Remote(j)'
  BY <1>0, <1>2, <1>3, <1>4, RequestBegins
<1>6. ~Listed(j) /\ ~Held(j) BY <1>0, <1>4 DEF SerialInv, Orderly, Card, StoredIn
<1>7. ~Listed(j)' /\ ~Held(j)' BY <1>0, <1>6 DEF Listed, Held, Handles
<1>8. CardRequest(r, j)'
  BY <1>0, <1>1, <1>2, <1>5, <1>7 DEF CardRequest, StoredIn
<1>9. Kept(j) BY <1>0, <1>3, <1>4, <1>5, <1>8, CardRequestBegins
<1>10. QED BY <1>5, <1>9

\* Status: the job is terminal, so no unit of work is on its way.
LEMMA StatusKept ==
    ASSUME TypeInv, SerialInv, OneAtATime', NEW r \in Requests, NEW j \in Jobs, Status(r, j)
    PROVE  \A id \in Jobs : Kept(id)
<1>0. /\ Exists(j) /\ Terminal(store[j].state) /\ Goto(r, "statusEmit", j, store[j])
      /\ UNCHANGED <<store, queue, wrk, signapi, authz, seen>>
  BY DEF Status, Called, storeVars, upVars
<1>1. PICK z : z = store[j] OBVIOUS
<1>2. SeenAt(j) /\ seen'[j].deleted = seen[j].deleted BY <1>0, SameAt
<1>3. /\ \A id \in Jobs \ {j} : Kept(id)
      /\ Remote(j) /\ RemoteCopy(z) => Kept(j)
      /\ req'[r].pc = "statusEmit" /\ req'[r].id = j /\ req'[r].job = z
      /\ \A q \in Requests : q # r => req'[q] = req[q]
      /\ Remote(j)' <=> Remote(j)
  BY <1>0, <1>1, <1>2, RequestBegins
<1>4. CASE Remote(j) BY <1>1, <1>3, <1>4 DEF SerialInv, Orderly, Apart
<1>5. CASE ~Remote(j)
  <2>1. ~Listed(j) /\ ~Held(j)
    BY <1>0, <1>5 DEF SerialInv, Orderly, Card, StoredIn, Terminal
  <2>2. ~Listed(j)' /\ ~Held(j)' BY <1>0, <2>1 DEF Listed, Held, Handles
  <2>3. CardRequest(r, j)'
    BY <1>0, <1>1, <1>3, <2>2 DEF CardRequest, StoredIn
  <2>4. Kept(j) BY <1>0, <1>1, <1>2, <1>3, <1>5, <2>3, CardRequestBegins
  <2>5. QED BY <1>3, <2>4
<1>6. QED BY <1>4, <1>5

\* StatusEmit: the copy keeps its state, and the job may have expired meanwhile.
LEMMA StatusEmitKept ==
    ASSUME TypeInv, SerialInv, OneAtATime, NEW r \in Requests, StatusEmit(r)
    PROVE  \A id \in Jobs : Kept(id)
<1> DEFINE x == req[r].job
           y == [x EXCEPT !.audited = TRUE]
<1>0. req[r].pc = "statusEmit" BY DEF StatusEmit
<1>j. PICK j \in Jobs : req[r].id = j BY <1>0 DEF TypeInv, RequestsOK
<1>1. Serves(r, j) /\ Orderly(j) /\ x \in JobType
  BY <1>0, <1>j DEF SerialInv, Serves, TypeInv, RequestsOK, HoldingPCs
<1>2. Goto(r, "statusSave", j, y) /\ UNCHANGED <<store, queue, wrk, signapi, authz>>
  BY <1>j DEF StatusEmit, storeVars, upVars
<1>3. SeenAt(j) /\ seen'[j].deleted = seen[j].deleted
  <2>1. \E n : \/ seen' = [seen EXCEPT ![j].applied = n]
               \/ seen' = [seen EXCEPT ![j].failed = n]
    BY <1>j DEF StatusEmit
  <2>2. QED BY <2>1, ToldAt DEF TypeInv
<1>4. y.state = x.state /\ y.flow = x.flow BY <1>1 DEF JobType
<1>5. PICK z : z = y OBVIOUS
<1> HIDE DEF y
<1>6. /\ \A id \in Jobs \ {j} : Kept(id)
      /\ Remote(j) /\ RemoteCopy(z) => Kept(j)
      /\ req'[r].pc = "statusSave" /\ req'[r].id = j /\ req'[r].job = z
      /\ \A q \in Requests : q # r => req'[q] = req[q]
      /\ Remote(j)' <=> Remote(j)
  BY <1>2, <1>3, <1>5, RequestBegins
<1>7. CASE Remote(j)
  <2>1. x # NoJob BY <1>1, NoJobAssumption
  <2>2. RemoteCopy(z) BY <1>1, <1>4, <1>5, <1>7, <2>1 DEF Orderly, Apart, RemoteCopy
  <2>3. QED BY <1>6, <1>7, <2>2
<1>8. CASE ~Remote(j)
  <2>0. Terminal(x.state) /\ StoredIn(j, {x.state}) /\ ~Listed(j) /\ ~Held(j)
    BY <1>0, <1>1, <1>8 DEF Orderly, Card, CardRequest
  <2>1. ~seen[j].deleted /\ signapi[j].sess # "open" =>
          x.state = "FAILED" /\ StoredIn(j, {"FINALIZING", "FAILED"})
    BY <1>0, <1>1, <1>8 DEF Orderly, Card, Ended
  <2>2. \A q \in Requests : Serves(q, j)' => q = r
    BY <1>1, <1>6, <1>8 DEF OneAtATime, Serves
  <2>3. ~Listed(j)' /\ ~Held(j)' BY <1>2, <2>0 DEF Listed, Held, Handles
  <2>4. OneUnit(j)' BY <2>3, <1>2, <1>1, <1>8 DEF Orderly, Card, OneUnit, ListedOnce, Handles
  <2>5. StoredIn(j, CardStates)' /\ Moves(j)
    BY <1>2, <2>0 DEF StoredIn, CardStates, Terminal, Moves, Exists, CanTransition
  <2>6. CardRequest(r, j)'
    BY <1>2, <1>4, <1>5, <1>6, <2>0, <2>3 DEF CardRequest, StoredIn, Exists
  <2>7. signapi'[j].sess # "unborn" BY <1>1, <1>2, InUse
  <2>8. \A w \in Workers : ~Handles(w, j)' BY <2>3 DEF Held
  <2>9. ~seen'[j].deleted /\ signapi'[j].sess # "open" => Ended(j)'
    BY <1>2, <1>3, <1>4, <1>5, <1>6, <2>1, <2>2, <2>3 DEF Ended, StoredIn, Exists
  <2>10. \A q \in Requests : Serves(q, j)' => CardRequest(q, j)' /\ req'[q].pc \notin CallbackPCs
    BY <1>6, <2>2, <2>6 DEF CallbackPCs
  <2>11. Kept(j)
    BY <1>6, <1>8, <2>3, <2>4, <2>5, <2>7, <2>8, <2>9, <2>10, CardKept
  <2>12. QED BY <1>6, <2>11
<1>9. QED BY <1>7, <1>8

\* DeleteJob: the job is loaded.
LEMMA DeleteJobKept ==
    ASSUME TypeInv, SerialInv, OneAtATime', NEW r \in Requests, NEW j \in Jobs, DeleteJob(r, j)
    PROVE  \A id \in Jobs : Kept(id)
<1>0. /\ Exists(j) /\ Goto(r, "delete", j, store[j])
      /\ UNCHANGED <<store, queue, wrk, signapi, authz, seen>>
  BY DEF DeleteJob, Called, storeVars, upVars
<1>1. PICK z : z = store[j] OBVIOUS
<1>2. SeenAt(j) /\ seen'[j].deleted = seen[j].deleted BY <1>0, SameAt
<1>3. /\ \A id \in Jobs \ {j} : Kept(id)
      /\ Remote(j) /\ RemoteCopy(z) => Kept(j)
      /\ req'[r].pc = "delete" /\ req'[r].id = j
      /\ \A q \in Requests : q # r => req'[q] = req[q]
      /\ Remote(j)' <=> Remote(j)
  BY <1>0, <1>1, <1>2, RequestBegins
<1>4. CASE Remote(j) BY <1>1, <1>3, <1>4 DEF SerialInv, Orderly, Apart
<1>5. CASE ~Remote(j)
  <2>1. CardRequest(r, j)' BY <1>3 DEF CardRequest
  <2>2. Kept(j) BY <1>0, <1>2, <1>3, <1>5, <2>1, CardRequestBegins
  <2>3. QED BY <1>3, <2>2
<1>6. QED BY <1>4, <1>5

\* CallbackArrives: a state key only ever names a remote job.
LEMMA CallbackArrivesKept ==
    ASSUME TypeInv, Safe, SerialInv, NEW r \in Requests, NEW s \in OAuthStates,
           NEW declined \in BOOLEAN, CallbackArrives(r, s, declined)
    PROVE  \A id \in Jobs : Kept(id)
<1>j. PICK j \in Jobs : index[s] = j BY DEF CallbackArrives, TypeInv, StoreTypeOK
<1>0. UNCHANGED <<store, queue, wrk, signapi, authz, seen>>
  BY DEF CallbackArrives, storeVars, upVars
<1>1. Remote(j) /\ Orderly(j)
  BY <1>j DEF CallbackArrives, Safe, IndexOwner, Remote, SerialInv
<1>2. req' = [req EXCEPT ![r] = [pc |-> "cbLoad", id |-> j, s |-> s,
                                 declined |-> declined, job |-> NoJob]]
  BY <1>j DEF CallbackArrives
<1>3. /\ ReqAt(j) /\ req'[r].job = NoJob
      /\ \A q \in Requests : q # r => req'[q] = req[q]
  BY <1>2 DEF TypeInv, RequestsOK, ReqAt
<1>4. StoreAt(j) /\ WrkAt(j) /\ QueueAt(j) /\ SessAt(j) /\ SeenAt(j) /\ PagesAt(j)
  BY <1>0, SameAt
<1>5. \A id \in Jobs \ {j} : Kept(id) BY <1>3, <1>4, OthersKept
<1>6. RemoteCopy(req'[r].job) BY <1>3 DEF RemoteCopy
<1>7. Kept(j) BY <1>0, <1>1, <1>3, <1>4, <1>6, RemoteRequest
<1>8. QED BY <1>5, <1>7

\* A job is born: it waits for its signatures and its sessions are open, or it failed, or
\* it is remote.
LEMMA BornKept ==
    ASSUME SerialInv, NEW j \in Jobs, signapi[j].sess = "unborn", UNCHANGED <<queue, req, wrk>>,
           StoreAt(j), SessAt(j), SeenAt(j), PagesAt(j), signapi'[j].sess # "unborn",
           \/ Remote(j)' /\ RemoteCopy(store'[j])
           \/ /\ UNCHANGED authz
              /\ \/ store'[j] = NoJob
                 \/ store'[j].state = "FAILED"
                 \/ /\ store'[j].state = "AWAITING_CLIENT_SIGNATURE"
                    /\ signapi'[j].sess = "open"
    PROVE  \A id \in Jobs : Kept(id)
<1>1. QueueAt(j) /\ ReqAt(j) /\ WrkAt(j) BY SameAt
<1>2. \A id \in Jobs \ {j} : Kept(id) BY <1>1, OthersKept
<1>3. /\ ~Exists(j) /\ ~Listed(j) /\ ~Held(j) /\ ~Remote(j)
      /\ \A r \in Requests : ~Serves(r, j)
  BY DEF SerialInv, Orderly, Unborn
<1>4. /\ ~Listed(j)' /\ ~Held(j)'
      /\ \A r \in Requests : ~Serves(r, j)'
      /\ \A w \in Workers : ~Handles(w, j)'
  BY <1>3 DEF Listed, Held, Serves, Handles
<1>5. Moves(j) BY <1>3 DEF Moves
<1>6. CASE Remote(j)' /\ RemoteCopy(store'[j])
  <2>1. Apart(j)' BY <1>4, <1>6 DEF Apart, RemoteCopy
  <2>2. Unborn(j)' /\ Card(j)' BY <1>6 DEF Unborn, Card
  <2>3. QED BY <1>2, <1>5, <2>1, <2>2 DEF Kept, Orderly
<1>7. CASE /\ UNCHANGED authz
           /\ \/ store'[j] = NoJob
              \/ store'[j].state = "FAILED"
              \/ store'[j].state = "AWAITING_CLIENT_SIGNATURE" /\ signapi'[j].sess = "open"
  <2>1. ~Remote(j)' BY <1>3, <1>7, SameAt
  <2>2. StoredIn(j, CardStates)' BY <1>7 DEF StoredIn, Exists, CardStates
  <2>3. OneUnit(j)' BY <1>4 DEF OneUnit, Listed, ListedOnce
  <2>4. signapi'[j].sess # "open" => Ended(j)' BY <1>4, <1>7 DEF Ended, StoredIn, Exists
  <2>5. Kept(j) BY <1>3, <1>4, <1>5, <2>1, <2>2, <2>3, <2>4, CardKept
  <2>6. QED BY <1>2, <2>5
<1>8. QED BY <1>6, <1>7

\* The state of a job Prepare saves.
LEMMA PreparedIs ==
    ASSUME NEW f \in Flows, NEW cert \in BOOLEAN, NEW d \in Nat
    PROVE  /\ Fail(NewJob(f)).state = "FAILED"
           /\ Fail(WithCert(NewJob(f), cert, d)).state = "FAILED"
           /\ Transition(WithCert(NewJob(f), cert, d), "AWAITING_CLIENT_SIGNATURE").state
                = "AWAITING_CLIENT_SIGNATURE"
<1> DEFINE x == WithCert(NewJob(f), cert, d)
<1>1. NewJob(f) \in JobType /\ x \in JobType BY NewJobType, WithCertType
<1>2. x.state = "PREPARING" BY DEF WithCert, NewJob
<1> HIDE DEF x
<1>3. Transition(x, "AWAITING_CLIENT_SIGNATURE").state = "AWAITING_CLIENT_SIGNATURE"
  BY <1>1, <1>2 DEF Transition, CanTransition, transitions, JobType
<1>4. QED BY <1>1, <1>3, FailIs DEF x

\* The flow of a job with an authorization is the one that was asked for.
LEMMA BegunIs ==
    ASSUME NEW f \in Flows, NEW cert \in BOOLEAN, NEW full \in BOOLEAN, NEW s \in Nat
    PROVE  LET x == BeginAuthorization(f, cert, full, s) IN
           Fail(x).flow = f /\ Transition(x, "AWAITING_AUTHORIZATION").flow = f
<1> DEFINE x == BeginAuthorization(f, cert, full, s)
<1>1. x \in JobType BY BeginAuthorizationType
<1>2. x.flow = f
  <2>1. CASE IsCSC(f) BY <2>1 DEF BeginAuthorization, AwaitCallback, WithCert, NewJob
  <2>2. CASE ~IsCSC(f) /\ full BY <2>2 DEF BeginAuthorization, AwaitCallback, WithCert, NewJob
  <2>3. CASE ~IsCSC(f) /\ ~full BY <2>3 DEF BeginAuthorization, AwaitCallback, NewJob
  <2>4. QED BY <2>1, <2>2, <2>3
<1> HIDE DEF x
<1>3. Fail(x).flow = f /\ Transition(x, "AWAITING_AUTHORIZATION").flow = f
  BY <1>1, <1>2, FailIs DEF Transition, JobType
<1>4. QED BY <1>3 DEF x

\* Every outcome of Prepare.
LEMMA PrepareKept ==
    ASSUME TypeInv, Safe, SerialInv, Prepare PROVE \A id \in Jobs : Kept(id)
<1>1. PICK j \in Jobs, f \in Flows, cert \in BOOLEAN :
        \/ PrepareUploadFails(j, f, cert)
        \/ PrepareClientSide(j, f, cert)
        \/ PrepareDies(j, f, cert)
        \/ \E full \in BOOLEAN :
             \/ PrepareRemote(j, f, cert, full)
             \/ PrepareBeginFails(j, f, cert, full)
  BY DEF Prepare
<1>t. StoreTypeOK /\ UpstreamTypeOK /\ SeenOK /\ AuthzSound BY DEF TypeInv, Safe
<1>2. signapi[j].sess = "unborn" /\ UNCHANGED <<queue, req, wrk>>
  BY <1>1 DEF PrepareUploadFails, PrepareClientSide, PrepareDies, PrepareRemote,
              PrepareBeginFails, PrepareStarts, StartSession
<1>n. store[j] = NoJob BY <1>2 DEF SerialInv, Orderly, Unborn, Exists
\* A job that fails or dies at once, or that waits for the card.
<1>k. ASSUME NEW x, StoreAt(j), store'[j] \in {NoJob, x}, UNCHANGED authz,
             SessAt(j), SeenAt(j), signapi'[j].sess # "unborn",
             \/ x.state = "FAILED"
             \/ x.state = "AWAITING_CLIENT_SIGNATURE" /\ signapi'[j].sess = "open"
      PROVE  \A id \in Jobs : Kept(id)
  <2>1. PagesAt(j) BY <1>k, SameAt
  <2>2. \/ store'[j] = NoJob
        \/ store'[j].state = "FAILED"
        \/ store'[j].state = "AWAITING_CLIENT_SIGNATURE" /\ signapi'[j].sess = "open"
    BY <1>k
  <2>3. QED BY <1>k, <1>2, <2>1, <2>2, BornKept
<1>3. CASE PrepareUploadFails(j, f, cert)
  <2>1. Save(j, Fail(NewJob(f))) /\ UNCHANGED <<authz, seen>>
    BY <1>3 DEF PrepareUploadFails
  <2>2. PICK left \in {"none", "open"} : signapi' = [signapi EXCEPT ![j].sess = left]
    BY <1>3 DEF PrepareUploadFails
  <2>3. SessAt(j) /\ signapi'[j].sess = left BY <2>2, <1>t, SignAPIAt
  <2>4. StoreAt(j) /\ store'[j] \in {NoJob, Fail(NewJob(f))} BY <2>1, <1>t, <1>n, SaveAt
  <2>5. Fail(NewJob(f)).state = "FAILED" BY NewJobType, FailIs
  <2>6. SeenAt(j) BY <2>1, SameAt
  <2>7. QED BY <2>1, <2>3, <2>4, <2>5, <2>6, <1>k
<1>4. CASE PrepareClientSide(j, f, cert)
  <2>0. UNCHANGED authz BY <1>4 DEF PrepareClientSide
  <2>1. CASE \E ok \in BOOLEAN :
               /\ Uploaded(j, 1)
               /\ TrySave(j, Transition(WithCert(NewJob(f), cert, 1), "AWAITING_CLIENT_SIGNATURE"), ok)
               /\ seen' = [seen EXCEPT ![j].known = ok]
    <3> DEFINE y == Transition(WithCert(NewJob(f), cert, 1), "AWAITING_CLIENT_SIGNATURE")
    <3>1. y.state = "AWAITING_CLIENT_SIGNATURE" BY PreparedIs
    <3>2. Uploaded(j, 1) /\ Save(j, y) BY <2>1, TrySaveIsSave
    <3>3. SeenAt(j) BY <2>1, <1>t, ToldAt
    <3> HIDE DEF y
    <3>4. StoreAt(j) /\ store'[j] \in {NoJob, y} BY <3>2, <1>t, <1>n, SaveAt
    <3>5. SessAt(j) /\ signapi'[j].sess = "open" BY <3>2, <1>t, SignAPIAt
    <3>6. QED BY <2>0, <3>1, <3>3, <3>4, <3>5, <1>k
  <2>2. CASE \E d \in {0, 1}, e \in {0, 1} :
               /\ Uploaded(j, d)
               /\ Save(j, Fail(WithCert(NewJob(f), cert, IF d = 0 THEN 0 ELSE e)))
               /\ UNCHANGED seen
    <3>1. PICK d \in {0, 1}, e \in {0, 1} :
            Uploaded(j, d) /\ Save(j, Fail(WithCert(NewJob(f), cert, IF d = 0 THEN 0 ELSE e)))
      BY <2>2
    <3> DEFINE n == IF d = 0 THEN 0 ELSE e
               y == Fail(WithCert(NewJob(f), cert, n))
    <3>2. n \in Nat BY <3>1
    <3>3. Save(j, y) BY <3>1
    <3> HIDE DEF n
    <3>4. y.state = "FAILED" BY <3>2, PreparedIs
    <3> HIDE DEF y
    <3>5. StoreAt(j) /\ store'[j] \in {NoJob, y} BY <3>3, <1>t, <1>n, SaveAt
    <3>6. SessAt(j) /\ signapi'[j].sess = "open" BY <3>1, <1>t, SignAPIAt
    <3>7. SeenAt(j) BY <2>2, SameAt
    <3>8. QED BY <2>0, <3>4, <3>5, <3>6, <3>7, <1>k
  <2>3. QED BY <1>4, <2>1, <2>2 DEF PrepareClientSide
<1>5. CASE PrepareDies(j, f, cert)
  <2>1. /\ signapi' = [signapi EXCEPT ![j].sess = "open"] /\ UNCHANGED <<store, authz, seen>>
    BY <1>5 DEF PrepareDies
  <2>2. StoreAt(j) /\ SeenAt(j) /\ PagesAt(j) /\ store'[j] = NoJob BY <2>1, <1>n, SameAt
  <2>3. SessAt(j) /\ signapi'[j].sess = "open" BY <2>1, <1>t, SignAPIAt
  <2>4. QED BY <1>2, <2>1, <2>2, <2>3, BornKept
<1>s. CanMint => NewState \in Nat BY <1>t, BoundsAssumption DEF UpstreamTypeOK, NewState
<1>6. ASSUME NEW full \in BOOLEAN, PrepareRemote(j, f, cert, full)
      PROVE  \A id \in Jobs : Kept(id)
  <2> DEFINE x == BeginAuthorization(f, cert, full, NewState)
             y == Transition(x, "AWAITING_AUTHORIZATION")
  <2>1. PICK ok \in BOOLEAN :
          /\ Uploaded(j, x.digest)
          /\ Mint(j, x.leg, x.digest, ok)
          /\ TrySave(j, y, ok)
          /\ seen' = [seen EXCEPT ![j].known = ok]
    BY <1>6 DEF PrepareRemote
  <2>2. CanMint /\ ~IsClientSide(f) BY <1>6 DEF PrepareRemote
  <2>3. y.flow = f BY <1>s, <2>2, BegunIs
  <2> HIDE DEF x, y
  <2>4. PagesAt(j) /\ Remote(j)' BY <2>1, <2>2, <1>t, MintAt
  <2>5. SessAt(j) /\ signapi'[j].sess = "open" BY <2>1, <1>t, SignAPIAt
  <2>6. StoreAt(j) /\ store'[j] \in {NoJob, y} BY <2>1, <1>t, <1>n, TrySaveIsSave, SaveAt
  <2>7. SeenAt(j) BY <2>1, <1>t, ToldAt
  <2>8. RemoteCopy(store'[j]) BY <2>2, <2>3, <2>6 DEF RemoteCopy
  <2>9. QED BY <1>2, <2>4, <2>5, <2>6, <2>7, <2>8, BornKept
<1>7. ASSUME NEW full \in BOOLEAN, PrepareBeginFails(j, f, cert, full)
      PROVE  \A id \in Jobs : Kept(id)
  <2>0. ~IsClientSide(f) /\ SeenAt(j) BY <1>7, SameAt DEF PrepareBeginFails
  <2>1. CASE IsCSC(f)
    <3> DEFINE x == BeginAuthorization(f, cert, FALSE, NewState)
               y == Fail(x)
    <3>1. CanMint /\ Uploaded(j, 0) /\ Mint(j, x.leg, 0, FALSE) /\ Save(j, y)
      BY <1>7, <2>1 DEF PrepareBeginFails
    <3>2. FALSE \in BOOLEAN OBVIOUS
    <3>3. y.flow = f BY <1>s, <3>1, <3>2, BegunIs, Zenon
    <3> HIDE DEF x, y
    <3>4. PagesAt(j) /\ Remote(j)' BY <3>1, <1>t, MintAt
    <3>5. SessAt(j) /\ signapi'[j].sess = "open" BY <3>1, <1>t, SignAPIAt
    <3>6. StoreAt(j) /\ store'[j] \in {NoJob, y} BY <3>1, <1>t, <1>n, SaveAt
    <3>7. RemoteCopy(store'[j]) BY <2>0, <3>3, <3>6 DEF RemoteCopy
    <3>8. QED BY <1>2, <2>0, <3>4, <3>5, <3>6, <3>7, BornKept
  <2>2. CASE ~IsCSC(f)
    <3>1. PICK d \in {0, 1}, e \in {0, 1} :
            /\ Uploaded(j, d)
            /\ Save(j, Fail(WithCert(NewJob(f), TRUE, IF d = 0 THEN 0 ELSE e)))
            /\ UNCHANGED authz
      BY <1>7, <2>2 DEF PrepareBeginFails
    <3> DEFINE n == IF d = 0 THEN 0 ELSE e
               y == Fail(WithCert(NewJob(f), TRUE, n))
    <3>2. n \in Nat /\ TRUE \in BOOLEAN BY <3>1
    <3>3. Save(j, y) BY <3>1
    <3> HIDE DEF n
    <3>4. y.state = "FAILED" BY <3>2, PreparedIs, Zenon
    <3> HIDE DEF y
    <3>5. StoreAt(j) /\ store'[j] \in {NoJob, y} BY <3>3, <1>t, <1>n, SaveAt
    <3>6. SessAt(j) /\ signapi'[j].sess = "open" BY <3>1, <1>t, SignAPIAt
    <3>7. QED BY <2>0, <3>1, <3>4, <3>5, <3>6, <1>k
  <2>3. QED BY <2>1, <2>2
<1>8. QED BY <1>1, <1>3, <1>4, <1>5, <1>6, <1>7

\* Confirmations, expiries, deaths and background closes.
LEMMA WorldKeeps ==
    ASSUME TypeInv, SerialInv,
           \/ \E s \in OAuthStates : PersonConfirms(s)
           \/ \E id \in Jobs : JobExpires(id) \/ CloseStep(id)
           \/ \E r \in Requests : RequestDies(r)
           \/ \E w \in Workers : WorkerDies(w)
    PROVE  \A id \in Jobs : Kept(id)
<1>t. StoreTypeOK /\ UpstreamTypeOK /\ RequestsOK /\ WorkersOK BY DEF TypeInv
<1>1. ASSUME NEW s \in OAuthStates, PersonConfirms(s), NEW j \in Jobs PROVE Kept(j)
  <2>1. UNCHANGED <<store, queue, req, wrk, signapi, seen>> /\ Approve(s)
    BY <1>1 DEF PersonConfirms, Approve, storeVars
  <2>2. \A t \in OAuthStates : authz'[t].job = authz[t].job
    BY <2>1, <1>t DEF Approve, UpstreamTypeOK, AuthzType
  <2>3. Remote(j)' <=> Remote(j) BY <2>2 DEF Remote
  <2>4. Shrinks(j) BY <2>1, <2>3, SameAt DEF Shrinks
  <2>5. QED BY <2>4, ShrinksKept DEF SerialInv
<1>2. ASSUME NEW i \in Jobs, JobExpires(i), NEW j \in Jobs PROVE Kept(j)
  <2>1. /\ UNCHANGED <<queue, req, wrk, signapi, seen, authz>>
        /\ store' = [store EXCEPT ![i] = NoJob]
    BY <1>2 DEF JobExpires, Expire, upVars
  <2>2. store'[j] \in {store[j], NoJob} BY <2>1, <1>t DEF StoreTypeOK
  <2>3. Shrinks(j) BY <2>1, <2>2, SameAt DEF Shrinks
  <2>4. QED BY <2>3, ShrinksKept DEF SerialInv
<1>3. ASSUME NEW r \in Requests, RequestDies(r), NEW j \in Jobs PROVE Kept(j)
  <2>1. Respond(r) /\ UNCHANGED <<store, queue, wrk, signapi, seen, authz>>
    BY <1>3 DEF RequestDies, upVars
  <2>2. Shrinks(j) BY <2>1, <1>t, RespondAt, SameAt DEF Shrinks
  <2>3. QED BY <2>2, ShrinksKept DEF SerialInv
<1>4. ASSUME NEW w \in Workers, WorkerDies(w), NEW j \in Jobs PROVE Kept(j)
  <2>1. Release(w) /\ UNCHANGED <<store, queue, req, signapi, seen, authz>>
    BY <1>4 DEF WorkerDies, upVars
  <2>2. Shrinks(j) BY <2>1, <1>t, ReleaseAt, SameAt DEF Shrinks
  <2>3. QED BY <2>2, ShrinksKept DEF SerialInv
<1>5. ASSUME NEW j \in Jobs, CloseStep(j) PROVE \A id \in Jobs : Kept(id)
  <2>0. PICK end \in {"closed", "open"} : signapi' = [signapi EXCEPT ![j].sess = end]
    BY <1>5 DEF CloseStep, CloseSession
  <2>1. UNCHANGED <<store, queue, req, wrk, seen, authz>> /\ signapi[j].sess = "closing"
    BY <1>5 DEF CloseStep, CloseSession, storeVars
  <2>2. SessAt(j) /\ signapi'[j].sess = end BY <2>0, <1>t, SignAPIAt
  <2>3. /\ StoreAt(j) /\ ReqAt(j) /\ WrkAt(j) /\ QueueAt(j) /\ SeenAt(j) /\ PagesAt(j)
        /\ Remote(j)' <=> Remote(j)
    BY <2>1, SameAt
  <2>4. \A id \in Jobs \ {j} : Kept(id) BY <2>2, <2>3, OthersKept
  <2>5. /\ Listed(j)' <=> Listed(j)
        /\ Held(j)' <=> Held(j)
        /\ OneUnit(j)' <=> OneUnit(j)
        /\ \A w \in Workers : Handles(w, j)' <=> Handles(w, j)
        /\ \A w \in Workers : CardWorker(w)' <=> CardWorker(w)
        /\ \A r \in Requests : Serves(r, j)' <=> Serves(r, j)
    BY <2>1 DEF Listed, Held, Handles, OneUnit, ListedOnce, CardWorker, Serves
  <2>6. \A S : StoredIn(j, S)' <=> StoredIn(j, S) BY <2>1 DEF StoredIn, Exists
  <2>7. \A r \in Requests : CardRequest(r, j) => CardRequest(r, j)'
    BY <2>1, <2>5, <2>6 DEF CardRequest
  <2>8. Ended(j) => Ended(j)' BY <2>1, <2>5, <2>6 DEF Ended
  <2>9. Orderly(j) BY DEF SerialInv
  <2>10. Apart(j)' BY <2>1, <2>3, <2>5, <2>9 DEF Orderly, Apart, RemoteCopy
  <2>11. Card(j)' BY <2>1, <2>3, <2>5, <2>6, <2>7, <2>8, <2>9 DEF Orderly, Card
  <2>12. Unborn(j)' BY <2>2 DEF Unborn
  <2>13. Moves(j) BY <2>1 DEF Moves, CanTransition
  <2>14. QED BY <2>4, <2>10, <2>11, <2>12, <2>13 DEF Kept, Orderly
<1>6. QED BY <1>1, <1>2, <1>3, <1>4, <1>5

----------------------------------------------------------------------------
(* The theorems.                                                           *)

\* Nothing has happened to any job yet.
LEMMA SerialInit == Init => SerialInv
<1> SUFFICES ASSUME Init, NEW id \in Jobs PROVE Orderly(id) BY DEF SerialInv
<1>1. ~Exists(id) /\ ~Listed(id) BY DEF Init, StoreInit, Exists, Listed
<1>2. \A r \in Requests : ~Serves(r, id) BY DEF Init, Serves, IdleRequest
<1>3. \A w \in Workers : ~Handles(w, id) BY DEF Init, Handles, IdleWorker
<1>4. ~Held(id) BY <1>3 DEF Held
<1>5. ~Remote(id) BY JobsAssumption DEF Init, UpstreamInit, Remote
<1>6. Unborn(id) /\ Apart(id) BY <1>1, <1>2, <1>4, <1>5 DEF Unborn, Apart
<1>7. OneUnit(id) BY <1>1, <1>3 DEF OneUnit, Listed, ListedOnce
<1>8. Ended(id) BY <1>1, <1>2, <1>4 DEF Ended, StoredIn
<1>9. Card(id) BY <1>1, <1>2, <1>3, <1>4, <1>7, <1>8 DEF Card, StoredIn
<1>10. QED BY <1>6, <1>9 DEF Orderly

\* Every step keeps every job, if its callers kept to one request at a time.
LEMMA SerialStep ==
    TypeInv /\ Safe /\ SerialInv /\ OneAtATime /\ OneAtATime' /\ [Next]_vars
        => \A id \in Jobs : Kept(id)
<1> SUFFICES ASSUME TypeInv, Safe, SerialInv, OneAtATime, OneAtATime', [Next]_vars
             PROVE  \A id \in Jobs : Kept(id)
  OBVIOUS
<1>1. CASE UNCHANGED vars
  <2> SUFFICES ASSUME NEW id \in Jobs PROVE Kept(id) OBVIOUS
  <2>1. Shrinks(id) BY <1>1, SameAt DEF vars, storeVars, upVars, Shrinks
  <2>2. QED BY <2>1, ShrinksKept DEF SerialInv
<1>2. CASE Environment
  <2>1. CASE Prepare BY <2>1, PrepareKept
  <2>2. ASSUME NEW r \in Requests, NEW s \in OAuthStates, NEW declined \in BOOLEAN,
               CallbackArrives(r, s, declined)
        PROVE  \A id \in Jobs : Kept(id)
    BY <2>2, CallbackArrivesKept
  <2>3. ASSUME NEW r \in Requests, NEW j \in Jobs,
               SubmitSignatures(r, j) \/ Status(r, j) \/ DeleteJob(r, j)
        PROVE  \A id \in Jobs : Kept(id)
    BY <2>3, SubmitKept, StatusKept, DeleteJobKept
  <2>4. CASE \/ \E s \in OAuthStates : PersonConfirms(s)
             \/ \E id \in Jobs : JobExpires(id)
             \/ \E r \in Requests : RequestDies(r)
             \/ \E w \in Workers : WorkerDies(w)
    BY <2>4, WorldKeeps
  <2>5. QED BY <1>2, <2>1, <2>2, <2>3, <2>4 DEF Environment
<1>3. ASSUME NEW r \in Requests, RequestStep(r) PROVE \A id \in Jobs : Kept(id)
  BY <1>3, CallbackSteps, SaveForWorkKept, EnqueueWorkKept, StatusEmitKept,
     StatusSaveKept, DeleteKeysKept DEF RequestStep
<1>4. ASSUME NEW w \in Workers, WorkerStep(w) PROVE \A id \in Jobs : Kept(id)
  BY <1>4, WorkerTakeKept, SigningStepsKept, WorkerFinalizeKept, WorkerSaveResultKept
     DEF WorkerStep
<1>5. CASE \E id \in Jobs : CloseStep(id) BY <1>5, WorldKeeps
<1>6. QED BY <1>1, <1>2, <1>3, <1>4, <1>5 DEF Next

\* The invariant holds as long as the discipline is kept.
LEMMA AlwaysSerial == Spec /\ []OneAtATime => [](TypeInv /\ Safe /\ SerialInv)
<1>1. TypeInv /\ Safe /\ SerialInv /\ OneAtATime /\ OneAtATime' /\ [Next]_vars => SerialInv'
  BY SerialStep DEF SerialInv, Kept
<1>2. QED BY <1>1, SerialInit, AlwaysSafe, PTL DEF Spec

\* A READY card job that was not deleted keeps its sessions open (no late worker, retry
\* or background close takes the documents away), whatever the faults and however many
\* workers and other jobs there are, if its caller sends one request at a time.
THEOREM ReadyStaysDownloadable == Spec /\ []OneAtATime => []ReadyDownloadable
<1>1. TypeInv /\ Safe /\ SerialInv => ReadyDownloadable
  <2> SUFFICES ASSUME SerialInv, NEW id \in Jobs, Exists(id), IsClientSide(store[id].flow),
                      store[id].state = "READY", ~seen[id].deleted
               PROVE  signapi[id].sess = "open"
    BY DEF ReadyDownloadable
  <2>1. Orderly(id) BY DEF SerialInv
  <2>2. ~Remote(id) BY <2>1 DEF Orderly, Apart, RemoteCopy, Exists
  <2>3. ~Ended(id) BY DEF Ended, StoredIn
  <2>4. QED BY <2>1, <2>2, <2>3 DEF Orderly, Card
<1>2. QED BY <1>1, AlwaysSerial, PTL

\* The saved state of a card job only moves along the listed transitions: neither a
\* worker's ignored save error nor a status request's write-back takes it back, if its
\* caller sends one request at a time.
THEOREM CardJobsFollowMachine == Spec /\ []OneAtATime => CardFollowsMachine
<1>1. TypeInv /\ Safe /\ SerialInv /\ OneAtATime /\ OneAtATime' /\ [Next]_vars =>
        [\A id \in Jobs : Exists(id) /\ Exists(id)' /\ IsClientSide(store[id].flow) =>
            CanTransition(store[id].state, store'[id].state)]_store
  <2> SUFFICES ASSUME TypeInv, Safe, SerialInv, OneAtATime, OneAtATime', [Next]_vars,
                      NEW id \in Jobs, Exists(id), Exists(id)', IsClientSide(store[id].flow)
               PROVE  CanTransition(store[id].state, store'[id].state)
    OBVIOUS
  <2>1. Kept(id) BY SerialStep
  <2>2. ~Remote(id) BY DEF SerialInv, Orderly, Apart, RemoteCopy, Exists
  <2>3. QED BY <2>1, <2>2 DEF Kept, Moves
<1>2. QED BY <1>1, AlwaysSerial, PTL DEF Spec, CardFollowsMachine
=============================================================================
