# A TLA+ verification of eparaksts-signer

eparaksts-signer is a Go service that has documents signed by a person's
eParaksts identity. A caller posts documents, the person authorizes the
signature in a browser, on a device or with a card, a background worker signs
and finalizes, and the caller polls and downloads. All state of a signing is one
JSON job in Redis; every replica of the service serves requests and runs one
worker against the same Redis. Nothing locks a job between a load and the save
of the changed copy, and that is what this project is mostly about.

## Inventory

| Part | State | Operations | Interacts with | Hard behaviour | What makes it correct |
|---|---|---|---|---|---|
| Job aggregate (`job/job.go`) | flow, state, documents, pending leg, OAuth state, tokens, digests | `Transition`, `Fail`, `Doc` | value copied by every handler | `Fail` asks no permission, `Transition` refuses silently | a saved job follows the machine; READY means finalized |
| Job store (`job/store.go`) | `job:{id}`, `state:{oauth}`, the work list | `Save`, `Load`, `LoadByState`, `ClearState`, `Delete`, `EnqueueWork`, `DequeueWork` | Redis | two-command operations, errors half-way, items popped before they are worked on | a state leads to its own job; no work is lost or multiplied |
| Request handlers (`routes/signatures.go`, `signing/orchestrator.go`) | a private copy of the job | `prepare`, `callback`, `submit`, `status`, `delete`, `download` | store, SignAPI, platform, audit | concurrent callbacks, submits, polls and deletes on one job | evidence is true; one finalize; deleted means gone |
| Worker and shutdown (`signing/worker.go`, `RunJob`, `App.Stop`) | a private copy of the job, a stop channel | sign, finalize, save, close sessions, stop | store, SignAPI, platform | several workers, crash after the pop, ignored save errors, a stop in the middle of a job | work ends; only confirmed digests are finalized; a stop ends |
| Flows (`signing/flows.go`, `signing/csc.go`) | none of their own | begin, advance a callback, sign, poll the device | platform, SignAPI | two legs whose answers interleave; single-use codes, verifiers and tokens; a deadline racing a late answer | the token fits the digests that are signed; a confirmation in time counts |
| Documents of a batch (`signing/orchestrator.go`, `ecdsa.go`, `operations.go`) | per document: session, digest, signature value | upload, `calculateDigests`, the ways to sign, `normalizeToDER`, finalize, validate, archive | SignAPI | answers in any order, equal ids, repeated ids, look-alike encodings, sessions of failed requests | each signature reaches the session whose digest it signs; no session is left to nobody |
| Identity selection (`entrust/identities.go`) | none | the `Select*` functions | platform | several candidates, disabled ones, unlabelled ones | a seal is never guessed |
| SignAPI client (`signapi/client.go`) | a loop counter | one call in one of three retry modes | SignAPI, token cache | the provider keeps working on what the client gave up on | no second run of a call that is not safe to repeat |
| Token cache (`entrust/client.go`) | one token and its end | `IntrospectToken` | the SignAPI client's attempts | concurrent grants stored in any order, counted from the store and not from the issue | a token that is handed out lasts |
| Timestamp certificate (`signing/authcert.go`) | configuration | `authCertFor` | prepare, finalize | refusing too late | nobody confirms in vain |
| Audit outbox drain, scope gate and HTTP plumbing, configuration, metrics | | | | | not modelled, see the end |

## Modules

| Module | What it models |
|---|---|
| `Job` | the aggregate, its state machine and what the orchestrator writes on a copy |
| `Store` (extends `Job`) | Redis: jobs, OAuth states, the work list |
| `Upstream` (extends `Store`) | the two external services as the code uses them |
| `Signer` (extends `Upstream`) | the handlers and the workers, interleaved, with faults |
| `SigningService` | the abstract service: what a job promises its caller |
| `SignerProperties`, `MCSigner` | the properties of `Signer`, the refinement of `SigningService`, the instance for TLC |
| `Replica` | one replica's worker loop, the device push and poll with their clock, and `App.Stop` |
| `TokenCache` | the introspect token with a clock and concurrent grants |
| `SignApiClient` (extends `TokenCache`) | one SignAPI call with its retries, each attempt with a token of the cache |
| `Identities` | the identity selection as operators over lists |
| `Batch` (extends `Job`, `Identities`), `MCBatch` | a job document by document, its sessions, and one validate or archive request |
| `SignerProofs`, `SafetyProofs` | theorems: types and safety of `Signer` |
| `ServiceProofs`, `OneCodeProofs`, `SerialProofs` | theorems: `Signer` implements `SigningService`; remote jobs confirmed once; card jobs asked about one request at a time |
| `SignApiClientProofs`, `ReplicaProofs`, `BatchProofs` | theorems about these components |

`Signer` reads in layers: an action is written with the operations of `Store` and
`Upstream` that the Go handler calls, in its order. `Signer`, `Replica` and `Batch`
are three views of the same job. `Signer` has every interleaving of handlers and
workers and one document; `Batch` has the documents and one handler at a time;
`Replica` has the clock, the stop and one worker.

### How state and actions correspond to the code

`Signer`:

* `store`, `index`, `queue` are the three kinds of Redis keys. `Save` is two
  commands, so it can fail after none, one or both (`SaveFails`); `TrySave` is a
  save whose error the handler looks at, `Save` one whose error it drops.
* `req[r]` and `wrk[w]` are a request being served and a worker: a program
  counter, the job id, and the copy of the job in the handler's memory. A step is
  the code up to the next effect another process can see. In `Callback` this
  gives: read the state key (`CallbackArrives`), read the job (`CallbackLoad`),
  clear the state (`CallbackClear`), call the platform and SignAPI (`AdvanceFirstLeg`,
  `AdvanceFirstLegFails`, `AdvanceSignLeg`, `CallbackFails`), save
  (`CallbackSave`, `CallbackSaveNext`, `SaveForWork`), push (`EnqueueWork`). A status
  request loads (`Status`), emits the evidence its copy calls for (`StatusEmit`) and
  saves the mark (`StatusSave`): a DELETE, an expiry or another save may come between.
* `prepare` is one step: until its only save nobody else knows the job id.
* `RunJob` is `WorkerTake`, `WorkerDeviceSave` (only the device flow saves before
  it signs), `WorkerSign`, `WorkerSaveFinalizing`, `WorkerFinalize`,
  `WorkerSaveResult`.
* `signapi[id]` is the session of the job at SignAPI: open or closed, which
  `CalculateDigest` run its digests come from, how often finalize was called and
  whether a container was finalized.
* `authz[s]` is the browser authorization with OAuth state `s`: for which job,
  leg and digests, how often the person confirmed it, and how many of the issued
  codes were not exchanged yet.
* `seen[id]` is what the outside world was told: the job id, accepted
  authorizations and submissions, audit events, an answered DELETE.
* A copy's `summary` is the digests summary that `calculateDigests` keeps from the
  first calculation. TrustedX asks the person for the summary, CSC for the digests
  (`Asked`): a second calculation makes them differ.

`Replica`: `clock` starts when `signDevice` computes its deadline and runs only
while a device call or the poll loop's wait is under way. `worker` has one program
counter per Redis command or device call; `device` is the request at the platform
with the time of the person's answer; `app` follows `App.Stop`, which closes Redis
first and then lets the framework stop the worker. When the framework cancels the
background context is not in the repository: it may happen at any moment of a stop.
Only the poll loop's wait and Redis notice a cancelled context: outbound HTTP calls run
without its cancellation (`outboundCtx`), so a replica being stopped still pushes to the
device, polls, withdraws the prompt and finalizes. A job arrives in two commands, the
save (`JobArrives`) and the push (`EnqueueWork`, `pushing` in between), of which the
second's error is only logged.

`SignApiClient`: `sent[a]` is what became of the request of attempt `a`, which
changes also after the client has moved on. Before each attempt the client asks the
cache of `TokenCache`; `Elsewhere` is another call of the process doing the same.
A token is represented by the moment the provider ends it, while the cache counts
from the moment it stores the answer.

`Batch`: a session's digest is the number of the session, a signature value is the
digest it is over and how it is encoded, so a value in the wrong place, or taken for
another encoding, shows as a number that differs. `Verified` is the check of a CSC
signature, which fails for every value when the algorithm asked for has another length
than the digest. `closing` holds what was handed
to `closeLater`. The result list of `CalculateDigest` and the answer of signHash
are any list the provider might send; the submission is any list over the ids.

### Abstractions

* `Signer` has one document per job: finalize is all or nothing, and what depends on
  the documents is in `Batch`.
* In `Batch` the steps of one job follow one another and Redis is in order; races and
  faults are `Signer`'s. `Download` changes no state and is left out.
* Digests in `Signer` are numbered by the `CalculateDigest` run that produced them; a
  token is represented by the digests it is bound to (0 for none).
* The upstream calls of one callback are one step, after the state is cleared and
  before the save: other processes see none of the copy until the save, and what
  the calls do to SignAPI and the platform happens in that step.
* BRPOP and the load that follows it are one step of `Signer`'s worker: a job that is
  changed between them is a job changed before the pop. In `Replica` they are two.
* An error of finalize may hide a finalized container. It is finalized no later
  than the error in `Signer`, while the provider may really finish later;
  `finalized` only ever supports what a property demands, so finishing earlier
  does not hide a violation.
* The provider of TrustedX is trusted to sign only the digests its token is
  bound to (`SignerAccepts`) and to answer in the order asked; a CSC provider is not,
  the code checks it (`Bound`, `Verified`).
* Processes die one handler at a time. A whole process dying is several deaths.
* Callers know job ids only from `prepare`. Answers other than those in `seen`,
  logging, metrics and the redirect targets are left out.
* A copy that fails keeps the fields of the last completed part: the certificate
  a failing first leg may already have stored is not tracked, as nothing reads it
  before another first leg replaces it.

## Runs

All bounds are named constants set in the `.cfg`. Symmetry is over requests and
over workers and is not used in the runs with liveness properties. Deadlock is
not an error: a service with no open request, an idle worker and an exhausted
bound rightly does nothing, and a stopped replica stays stopped.

| Run | Question | Bounds, and why they are enough |
|---|---|---|
| `RemoteRaces` | `TypeOK`, `ReadyIsFinalized`, `FinalizedIsAuthorized`, `SignHashBound`, `RemoteTimestampable`, `AsksForItsDigests` for a TrustedX or CSC job | two callbacks in flight, none declined (a decline differs from a failing callback only in spending no code), the first-leg page confirmed twice, three states: two first legs and both signature authorizations they lead to exist at once |
| `OneCode` | `FinalizeAtMostOnce`, `FinalizesCurrentDigest` for remote jobs of all kinds, confirmed once | two requests, one fault anywhere; two digests so that a second calculation would be seen |
| `CardRaces` | `EvidenceIsTrue`, the refinement `ImplementsService` and `WorkCompletes` for a card job | two requests and two workers in any order, one fault; an offered and a withdrawn flow |
| `Serial` | `IndexOwner`, `ReadyDownloadable`, `CardFollowsMachine` and `ImplementsService` for two jobs, a card's and a remote one's, when the callers send one request at a time | both OAuth states of a remote job, one fault |
| `Replica` | `TypeOK`, `ConfirmedInTimeCounts`, `RunningStrandsNothing`, `PromptWithdrawn`, `StopReturns` | a deadline of four ticks with one of grace, calls of up to two ticks, so that as in the code a call may take longer than the grace period: the last poll can begin before, at and after the deadline, and be answered after it; one Redis error; a stop at any moment |
| `SignApiClient` | `TypeOK`, `TakenAtMostOnce`, `RefusalIsDefinite`, `TokenLasts`, `CallReturns` | the three attempts of the code; two callers of the cache, a token's life of five with margin three, and time for one whole life: a token can be stored late, replaced by an older one and run out |
| `Batch` | `TypeOK`, `RightSignature`, `AcceptedIsComplete`, `NeverAskedInVain`, `SessionsOwned`, `ReadyKeepsSessions`, `IdentitiesFit` | one or two documents over two ids, so equal ids occur; every flow; every list of up to three identities of eleven sorts; as many sessions as two documents, or one and a request of its own, need |

Five runs refute what the documentation says; `PROJECT.json` quotes the lines.

| Run | Statement | What happens |
|---|---|---|
| `DoubleSubmit` | finalize is at-most-once | two submits pass the state check, both enqueue |
| `ReloadedCallback` | only listed transitions | a repeated callback turns READY into FAILED: the save after the signature leg has pointed the consumed state at the job again, the code is spent, and `Fail` checks no transition |
| `TwoPolls` | evidence is emitted once | two polls emit before either saves the mark |
| `DeleteWhileSigning` | a deleted job is gone | the worker's save brings it back |
| `GracefulStop` | a graceful shutdown loses nothing | `App.Stop` closes Redis before it stops the worker, which then cannot save the job in hand; nothing puts it back on the list, and it stays in SIGNING or FINALIZING |

Observations without a run of their own: the consumed OAuth state resolves again after
the next save (README: "single-use"), which `ReloadedCallback` shows on its way;
the sessions of a job that is declined, or fails before the worker has it, stay open
until the job is deleted or the provider expires them (the last disjunct of
`SessionsOwned`); and a document id given twice makes a card batch impossible to
complete (the condition `Distinct` of `AcceptedIsComplete`; `RightSignature` shows that
nothing worse happens).

Two more disagree with a document of the repository and follow from the modelled code
without a run:

* One Redis command that fails can strand a job of a running replica, although "any replica
  can resume any job from Redis" (README.md, line 7) and a dropped item "is safe to
  re-process" (`job/store.go`, line 103). In `Replica`, `EnqueueWork` may lose the push,
  `Dequeue` may lose the item it took, and `SaveResult` may lose the result of a finalize;
  the saved job is then SIGNING or FINALIZING and on no list, and no action puts it back.
  `RunningStrandsNothing` says that this takes a failed command (`errors = 0` in it).
* A batch may mix new containers with co-signed ones: `ValidBatch` compares formats, not
  operations, and `calculateDigests` asks for the form of the first document. A container to
  co-sign next to a new one is then calculated with `createNewEdoc`, although "a parallel op
  co-signs an existing container and creates nothing" (`orchestrator.go`, line 544; README.md,
  line 109: "under one parallel signature"). It takes one request and no race.

`ConfirmedInTimeCounts` states how late a confirmation may come and still count: one
call's time limit before the end of the grace period. The code has a grace period of 10
seconds and an HTTP time limit of 20, so a confirmation in the last 10 seconds before the
published deadline can be missed, when the last poll is slow to answer. No
document of the repository promises more.

Several properties hold only under a discipline that the run states: a page
confirmed once (`OneCode`), one request at a time (`Serial`). The runs above
show what happens without it.

### The abstract service

`SigningService` says what the signer promises about a job to somebody who sees only
its status, its consents, the calls of FinalizeSigning and the audit trail: each
consent (a completed signature authorization, an accepted submission) pays for at most
one attempt to sign, a job is shown as worked on only with consent and as ready only
when it is signed, and evidence is reported only of a job that is signed. It also says
what is not promised: which of several racing writers' states is shown last, that
a deleted job stays away, and that a job is still shown as ready when the evidence is
reported, since a poll emits what it loaded a moment ago. `ImplementsService` maps the store, the session and `seen`
to it; a step of `Signer` is one step of the service or none. That a consent pays for
one attempt is what remains of "finalize is at-most-once" when submits race, and it is
where the work list matters: an item is pushed once per consent and popped once.

### Fairness

`LiveSpec` of `Signer` assumes weak fairness of every started request, of every worker
and of every background close: each HTTP call and Redis command has a timeout, the
device poll has a deadline, and the worker loop never stops by itself. Nothing is
assumed of the person, the caller, or of crashes. `Replica` assumes that the worker
goes on, that time passes while it waits (a ticker and HTTP timeouts), and that a stop
that began proceeds; nothing of the person, of Redis, or of when a stop begins.
`SignApiClient` assumes that attempts and grants time out and pauses end.

## Theorems

TLAPS checks the following for every value of the constants that meets the named
assumptions.

* `TypeCorrect`: `Spec => []TypeOK` of `Signer`. The inductive invariant `TypeInv` adds
  that a handler that is not idle works on a real job id, and that one past its load
  holds a job: without it the saves of a handler could not be typed.
* `ReadyJobsAreFinalized`, `EvidenceIsAlwaysTrue`, `FinalizedIsAlwaysAuthorized`,
  `SignHashAlwaysBound`, `RemoteAlwaysTimestampable`, `StatesKeepTheirJob`,
  `AlwaysAsksForItsDigests`: `Spec => []P` for the properties `ReadyIsFinalized`,
  `EvidenceIsTrue`, `FinalizedIsAuthorized`, `SignHashBound`, `RemoteTimestampable`,
  `IndexOwner` and `AsksForItsDigests`, all from the invariant `Safe` (inductive
  together with `TypeInv`). None of the properties is inductive, because a worker or a
  handler may save a copy it loaded arbitrarily long ago. `Safe` therefore speaks of
  every copy of a job: what the copy says of itself (`Consistent`: for instance, a job
  that is SIGNING waits for no callback, and one that still waits for its first leg and
  has not FAILED has no summary yet), that it can be timestamped (`Stampable`), and what SignAPI, the
  accepted authorizations and the platform must have done for the copy to say it
  (`Backed`). `SoundGrows` is the heart of the argument: sessions stay finalized,
  acceptances stay counted and a minted authorization never changes what it was
  asked for, so a copy that was sound when it was made is still sound when it is
  saved. The rest is one lemma per change of a copy, one per effect on the world
  and one step per action.
* `ServiceImplemented`: `Spec => ImplementsService`, the refinement of `SigningService`,
  for any number of jobs, requests, workers and faults. What the service shows follows
  from what `Safe` says of the saved copy, and what it reports from what `Safe` says of
  the copy a poll holds, whatever became of the saved one. That each consent pays for one attempt follows
  from the invariant `Paid`: the calls of FinalizeSigning, the requests about to push the
  job, its items on the list and the workers about to finalize it are together no more
  than the accepted authorizations and submissions. A push, a pop, a lost save and a crash
  each move or drop one unit; the counting needs `Requests` and `Workers` to be finite
  (`ProcessesAssumption`), which processes are.
* `RemoteFinalizedAtMostOnce` and `RemoteFinalizesCurrentDigest`: `FinalizeAtMostOnce` and
  `FinalizesCurrentDigest` under the hypothesis `OneCode`: each page is confirmed at
  most once and no card flow is offered, as in the run of that name; everything else is
  free. The invariant `Once` says that a job has at most one page that is not spent
  (`OnePage`), that a job with a consent has none (`OneConsent`), and which copies hold
  the current digests (`Current`). An exchange spends the page and puts up the
  next, or is the consent; so there is one consent, which with `Paid` gives one
  finalize. CalculateDigest runs only on the way to a new page, so nothing
  recalculates the digests after the consent, and before it the code that is left can
  only answer for a copy with the current ones. The hypothesis is needed: `DoubleSubmit`
  and `ReloadedCallback` show what happens without it.
* `ReadyStaysDownloadable` and `CardJobsFollowMachine`: `ReadyDownloadable` and
  `CardFollowsMachine` under the hypothesis `OneAtATime`: no two requests for one card job
  are served at the same time. Requests for different jobs overlap freely, nothing is
  asked of a remote job's callers, and workers, status requests, crashes, lost saves and
  expiry are as free as in `Spec`. The invariant `SerialInv` says of every job
  that an id not yet used has left no trace (`Unborn`), that callbacks and pages belong to
  copies with a remote flow only (`Apart`), and of a card job (`Card`) that there is at
  most one unit of work in its life: with the request that is about to push it, once on
  the list, or with one worker. While it is under way the saved job is FINALIZING or gone,
  so the worker's save never meets a result; a status request writes back the state that
  is saved; and when the sessions close without a delete nothing is left that could make
  the job READY (`Ended`). Most steps only take something away from a job (`ShrinksKept`);
  the others have one lemma per action. On one card job with two
  requests, two workers and two faults TLC agrees that `SerialInv` holds. The hypothesis
  is needed for the single unit of work: in `DoubleSubmit` two overlapping
  submits enqueue the job twice.
* `CallTypeCorrect`, `NeverTakenTwice` and `RefusalsAreDefinite` (`TakenAtMostOnce` and
  `RefusalIsDefinite` for any number of attempts) and `TokensAlwaysLast` (`TokenLasts` for
  any life, margin and time limit, and any set of callers). The inductive invariant
  `OneLive` says that all attempts before the current one are gone (unsent or refused)
  and all later ones unsent; the token's says that a grant under way is no older than
  the time limit, hence a cached token really ends at most that much before the cache
  thinks it does.
* `ReplicaTypeCorrect`, `InTimeAlwaysCounts` (`ConfirmedInTimeCounts` for every deadline,
  grace period, interval and time limit of a call, without a relation between them) and `NothingStranded`
  (`RunningStrandsNothing`), from `ReplicaInvariant`, whose parts say that a poll is
  answered within one call's time and a "pending" it brings back was true after the poll
  began (`PollsTimely`), that the fields of the worker mean something only at certain
  points (`PollsOpen`), and that without a Redis error a job to be worked on is about to
  be pushed, on the list or in the worker's hands (`Held`).
* `BatchTypeCorrect`, `AlwaysRightSignature`, `AcceptedSubmissionsAreComplete`,
  `PersonNeverAskedInVain`, `SessionsAlwaysOwned`, `ReadyAlwaysKeepsSessions`,
  `IdentitiesAlwaysFit`: the seven properties of the `Batch` run, for
  batches, sessions, ids and lists of identities of any size. The inductive invariant
  `BatchInv` follows a document from its session to its signature. `SessionsApart`: no two
  documents share a session. `DigestsOwn`: a document's digest is its own session's, and
  all are known before anybody signs. `ValuesOwn`: in FINALIZING every document has
  a value over its own digest, or one has none. The second half of `ValuesOwn` is where
  equal ids go: `Job.Doc` gives every value to the first document of an id, so a later
  one stays empty, and finalize refuses the batch before it could apply a value to the
  wrong session. `OperationApart` and `SessionsKept` say whose sessions a request may
  close. `CertKept` says that no job gets past its first leg without the certificate of the
  timestamp and `AlgorithmFits` that a CSC job is authorized under one algorithm; with the
  parts above they give `NeverAskedInVain`. `MinIsLeast` and `MaxIsMember` are what the proofs need of "the first that
  matches" and "the last submitted".

Only model-checked: every liveness property (`WorkCompletes`, `CallReturns`,
`PromptWithdrawn`, `StopReturns`; fairness is out of TLAPS' reach here). Every invariant
and action property of the passing runs, and the refinement, is stated by a theorem.

## Not modelled

* The audit outbox: `audit/audit.go` hands records to a library outside the
  repository, which stores and drains them. `Signer` models when a record is emitted,
  not what becomes of it.
* The scope gate, decoding and encoding of requests, metrics and logging keep no state.
* Configuration is read once at start-up; its values are the CONSTANTS. Of the wiring
  only `App.Stop` has behaviour, and it is in `Replica`.
* Certificate parsing in `signing/authcert.go` and the CSC client's HTTP calls are
  format work; the choice they feed (`authCertFor`, `Bound`, `Verified`) is modelled.
* go-redis may itself repeat a command whose answer was lost, so one LPUSH may push twice.
  That is the library's behaviour; `Paid` and what follows from it assume one push per
  command.
* `seen.accepted` counts a code accepted at the signature leg, also one that was issued for
  the first leg and exchanged there (the hazard of `LoadByState`).
