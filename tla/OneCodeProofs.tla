--------------------------- MODULE OneCodeProofs ---------------------------
(***************************************************************************)
(* What the code keeps for a remote job whose pages are confirmed once     *)
(* each: FinalizeSigning is called at most once for it, and only for the   *)
(* digests its SignAPI session last calculated.                            *)
(*                                                                         *)
(* A page that still has a code to give away is unspent.  With one code    *)
(* per page a job has at most one unspent page: every exchange spends one, *)
(* and puts up the next page or is the consent.  So there is one consent,  *)
(* nothing recalculates the digests after it, and until then only a copy   *)
(* with the current digests can be answered with the code that is left.    *)
(***************************************************************************)
EXTENDS ServiceProofs

\* Every page is confirmed at most once, and no job is signed with a card.
OneCode == MaxApprovals <= 1 /\ MaxConfirms <= 1 /\ Flows \cap ClientFlows = {}

\* Page s of job id was not confirmed yet, or its code was not exchanged yet.
Unspent(s, id) == authz[s].job = id /\ (authz[s].approvals = 0 \/ authz[s].codes > 0)

\* The person can still answer it.
Usable(s, id) == Unspent(s, id) /\ authz[s].shown

OnePage ==
    /\ \A s \in OAuthStates :
         authz[s].approvals <= 1 /\ (authz[s].approvals > 0 => authz[s].shown)
    /\ \A id \in Jobs : \A s, t \in OAuthStates : Unspent(s, id) /\ Unspent(t, id) => s = t

OneConsent(id) ==
    /\ seen[id].accepted <= 1
    /\ seen[id].accepted > 0 => \A s \in OAuthStates : ~Unspent(s, id)
    /\ signapi[id].sess = "unborn" =>
         seen[id].accepted = 0 /\ \A s \in OAuthStates : authz[s].job # id

\* A copy that is being signed, or would be if its signature page were answered now,
\* holds the digests the session last calculated.
Settled(x, d) == x.state \in {"SIGNING", "FINALIZING"} => x.digest = d
Fresh(x, d)   == x.state = "AWAITING_AUTHORIZATION" /\ x.leg = "sign" => x.digest = d

StoreCurrent(id) ==
    Exists(id) =>
        /\ Settled(store[id], signapi[id].digest)
        /\ (\E s \in OAuthStates : Usable(s, id)) => Fresh(store[id], signapi[id].digest)

RequestCurrent(r) ==
    /\ req[r].pc \in HoldingPCs => Settled(req[r].job, signapi[req[r].id].digest)
    /\ req[r].pc \in {"cbLoad", "cbClear", "cbAdvance"} => authz[req[r].s].shown
    /\ req[r].pc \in {"cbClear", "cbAdvance"} /\ Unspent(req[r].s, req[r].id) =>
         Fresh(req[r].job, signapi[req[r].id].digest)
    /\ req[r].pc = "cbSaveNext" =>
         /\ req[r].job.oauth \in OAuthStates
         /\ Unspent(req[r].job.oauth, req[r].id) /\ ~authz[req[r].job.oauth].shown
         /\ Fresh(req[r].job, signapi[req[r].id].digest)
    /\ req[r].pc \in {"cbSave", "statusEmit", "statusSave"} => Terminal(req[r].job.state)

WorkerCurrent(w) ==
    /\ wrk[w].pc # "idle" => Settled(wrk[w].job, signapi[wrk[w].id].digest)
    /\ wrk[w].pc = "saveResult" => Terminal(wrk[w].job.state)

\* One request at a time is about to show a job's next page.
OneHolder ==
    \A r, p \in Requests :
        req[r].pc = "cbSaveNext" /\ req[p].pc = "cbSaveNext" /\ req[r].id = req[p].id => r = p

Current ==
    /\ \A id \in Jobs : StoreCurrent(id)
    /\ \A r \in Requests : RequestCurrent(r)
    /\ \A w \in Workers : WorkerCurrent(w)
    /\ OneHolder

Once == OnePage /\ (\A id \in Jobs : OneConsent(id)) /\ Current

----------------------------------------------------------------------------
(* What a step does to the pages of a job.                                 *)

\* It shows and puts up no page, and revives none.
PagesKept(id) ==
    \A s \in OAuthStates :
        /\ authz'[s].job = id <=> authz[s].job = id
        /\ authz[s].job = id => authz'[s].shown = authz[s].shown
        /\ Unspent(s, id)' => Unspent(s, id)
        /\ Unspent(s, id) /\ ~authz[s].shown => Unspent(s, id)'

\* It spends the last page, or starts the job: no page it had before can be used.
PagesReplaced(id) ==
    /\ seen[id].accepted = 0
    /\ \A s \in OAuthStates :
         authz[s].job = id => authz[s].shown /\ authz'[s].shown /\ ~Unspent(s, id)'

\* The rest of what OneConsent is about.
SameConsent(id) ==
    /\ seen'[id].accepted = seen[id].accepted
    /\ signapi'[id].sess = "unborn" => signapi[id].sess = "unborn"

\* Nothing happens to the authorizations.
LEMMA SamePages == ASSUME UNCHANGED authz PROVE \A id \in Jobs : PagesKept(id)
BY DEF PagesKept, Unspent

LEMMA SameOnePage == ASSUME OnePage, UNCHANGED authz PROVE OnePage'
BY DEF OnePage, Unspent

\* An exchange spends the page, whatever it leads to.
LEMMA SpendPages ==
    ASSUME TypeInv, AuthzSound, OnePage, NEW s \in OAuthStates, authz[s].codes > 0,
           authz' = SpendCode(s)
    PROVE  /\ \A id \in Jobs : PagesKept(id)
           /\ OnePage'
           /\ \A id \in Jobs : authz[s].job = id => \A t \in OAuthStates : ~Unspent(t, id)'
<1>1. \A t \in OAuthStates :
        /\ authz'[t].job = authz[t].job /\ authz'[t].shown = authz[t].shown
        /\ authz'[t].approvals = authz[t].approvals
        /\ authz'[t].codes = IF t = s THEN authz[t].codes - 1 ELSE authz[t].codes
  BY DEF TypeInv, UpstreamTypeOK, AuthzType, SpendCode
<1>2. \A t \in OAuthStates : authz[t].codes \in Nat /\ authz[t].approvals \in Nat
  BY DEF TypeInv, UpstreamTypeOK, AuthzType
<1>3. authz[s].shown /\ authz'[s].approvals = 1 /\ authz'[s].codes = 0
  BY <1>1, <1>2 DEF AuthzSound, OnePage
<1>4. \A t \in OAuthStates : \A id \in Jobs :
        /\ Unspent(t, id)' => Unspent(t, id) /\ t # s
        /\ Unspent(t, id) /\ ~authz[t].shown => Unspent(t, id)'
  BY <1>1, <1>3 DEF Unspent
<1>5. \A id \in Jobs : PagesKept(id) BY <1>1, <1>4 DEF PagesKept
<1>6. OnePage' BY <1>1, <1>4 DEF OnePage
<1>7. \A id \in Jobs : authz[s].job = id => Unspent(s, id) BY DEF Unspent
<1>8. QED BY <1>4, <1>5, <1>6, <1>7 DEF OnePage

\* A confirmation gives an unconfirmed page its code.
LEMMA ApprovePages ==
    ASSUME OneCode, TypeInv, AuthzSound, OnePage, NEW s \in OAuthStates, Approve(s)
    PROVE  (\A id \in Jobs : PagesKept(id)) /\ OnePage'
<1>1. \A t \in OAuthStates :
        /\ authz'[t].job = authz[t].job /\ authz'[t].shown = authz[t].shown
        /\ t # s => authz'[t].approvals = authz[t].approvals /\ authz'[t].codes = authz[t].codes
  BY DEF TypeInv, UpstreamTypeOK, AuthzType, Approve
<1>2. authz[s].shown /\ authz[s].approvals = 0 /\ authz'[s].approvals = 1
  BY UpstreamAssumption DEF TypeInv, UpstreamTypeOK, AuthzType, Approve, OneCode
<1>3. \A t \in OAuthStates : \A id \in Jobs :
        /\ Unspent(t, id)' => Unspent(t, id)
        /\ Unspent(t, id) /\ ~authz[t].shown => Unspent(t, id)'
  BY <1>1, <1>2 DEF Unspent
<1>4. \A id \in Jobs : PagesKept(id) BY <1>1, <1>3 DEF PagesKept
<1>5. OnePage' BY <1>1, <1>2, <1>3 DEF OnePage
<1>6. QED BY <1>4, <1>5

\* The first page of a new job.
LEMMA MintPages ==
    ASSUME TypeInv, AuthzSound, OnePage, NEW id \in Jobs, OneConsent(id), StartSession(id),
           CanMint, NEW l, NEW d, NEW shown \in BOOLEAN, Mint(id, l, d, shown)
    PROVE  /\ \A j \in Jobs : j # id => PagesKept(j)
           /\ PagesReplaced(id)
           /\ OnePage'
           /\ \A s \in OAuthStates : Usable(s, id)' => shown
<1>0. PICK n : n = NewState OBVIOUS
<1>1. /\ n \in OAuthStates /\ authz[n].job = NoJob
      /\ \A t \in OAuthStates : authz'[t] = IF t = n THEN Request(id, l, d, shown) ELSE authz[t]
  BY <1>0, BoundsAssumption
  DEF TypeInv, UpstreamTypeOK, CanMint, NewState, OAuthStates, AuthzSound, Mint
<1>2. /\ authz'[n].job = id /\ authz'[n].shown = shown
      /\ authz'[n].approvals = 0
  BY <1>1 DEF Request
<1>3. seen[id].accepted = 0 /\ \A s \in OAuthStates : authz[s].job # id
  BY DEF OneConsent, StartSession
<1>4. \A t \in OAuthStates : \A j \in Jobs :
        t # n => (Unspent(t, j)' <=> Unspent(t, j)) /\ authz'[t] = authz[t]
  BY <1>1 DEF Unspent
<1>5. \A j \in Jobs : ~Unspent(n, j) /\ (Unspent(n, j)' => j = id)
  BY <1>1, <1>2, JobsAssumption DEF Unspent
<1>6. \A j \in Jobs : j # id => PagesKept(j)
  BY <1>1, <1>2, <1>4, <1>5, JobsAssumption DEF PagesKept
<1>7. PagesReplaced(id) BY <1>3 DEF PagesReplaced
<1>8. \A t \in OAuthStates : Unspent(t, id)' => t = n BY <1>3, <1>4 DEF Unspent
<1>9. OnePage' BY <1>2, <1>4, <1>5, <1>8 DEF OnePage
<1>10. QED BY <1>2, <1>6, <1>7, <1>8, <1>9 DEF Usable

\* The last page is spent, and the next is put up, not shown yet.
NextPage(s, n, id, l, d) ==
    authz' = [SpendCode(s) EXCEPT ![n] = Request(id, l, d, FALSE)]

LEMMA SpendMintPages ==
    ASSUME TypeInv, AuthzSound, OnePage, NEW id \in Jobs, OneConsent(id), CanMint,
           NEW s \in OAuthStates, authz[s].job = id, authz[s].codes > 0, NEW l, NEW d,
           NEW n, n = NewState, NextPage(s, n, id, l, d)
    PROVE  /\ \A j \in Jobs : j # id => PagesKept(j)
           /\ PagesReplaced(id)
           /\ OnePage'
           /\ \A t \in OAuthStates : ~Usable(t, id)'
           /\ n \in OAuthStates /\ Unspent(n, id)' /\ ~authz'[n].shown
<1>1. n \in OAuthStates /\ authz[n].job = NoJob
  BY BoundsAssumption DEF TypeInv, UpstreamTypeOK, CanMint, NewState, OAuthStates, AuthzSound
<1>2. s # n BY <1>1, JobsAssumption
<1>3. /\ \A t \in OAuthStates : t \notin {s, n} => authz'[t] = authz[t]
      /\ authz'[n] = Request(id, l, d, FALSE)
      /\ authz'[s] = [authz[s] EXCEPT !.codes = @ - 1]
  BY <1>1, <1>2 DEF TypeInv, UpstreamTypeOK, SpendCode, NextPage
<1>4. /\ authz'[n].job = id /\ authz'[n].shown = FALSE
      /\ authz'[n].approvals = 0
  BY <1>3 DEF Request
<1>5. \A t \in OAuthStates : authz[t].codes \in Nat /\ authz[t].approvals \in Nat
  BY DEF TypeInv, UpstreamTypeOK, AuthzType
<1>6. /\ authz'[s].job = id /\ authz[s].shown /\ authz'[s].shown
      /\ authz'[s].approvals = 1 /\ authz'[s].codes = 0
  <2>1. authz[s] \in AuthzType BY DEF TypeInv, UpstreamTypeOK
  <2>2. /\ authz'[s].job = authz[s].job /\ authz'[s].shown = authz[s].shown
        /\ authz'[s].approvals = authz[s].approvals /\ authz'[s].codes = authz[s].codes - 1
    BY <2>1, <1>3 DEF AuthzType
  <2>3. authz[s].approvals = 1 /\ authz[s].codes = 1 BY <1>5 DEF AuthzSound, OnePage
  <2>4. authz[s].shown BY <2>3 DEF OnePage
  <2>5. QED BY <2>2, <2>3, <2>4
<1>7. Unspent(s, id) BY DEF Unspent
<1>8. seen[id].accepted = 0 BY <1>7 DEF OneConsent, TypeInv, SeenOK, SeenType
<1>9. \A t \in OAuthStates : \A j \in Jobs :
        t \notin {s, n} => (Unspent(t, j)' <=> Unspent(t, j))
  BY <1>3 DEF Unspent
<1>10. \A j \in Jobs :
         /\ ~Unspent(s, j)' /\ (Unspent(s, j) => j = id)
         /\ ~Unspent(n, j) /\ (Unspent(n, j)' <=> j = id)
  <2> TAKE j \in Jobs
  <2>1. ~Unspent(s, j)' BY <1>6 DEF Unspent
  <2>2. Unspent(s, j) => j = id BY DEF Unspent
  <2>3. ~Unspent(n, j) BY <1>1, JobsAssumption DEF Unspent
  <2>4. Unspent(n, j)' <=> j = id BY <1>4 DEF Unspent
  <2>5. QED BY <2>1, <2>2, <2>3, <2>4
<1>11. \A j \in Jobs : j # id => PagesKept(j)
  BY <1>1, <1>3, <1>4, <1>6, <1>9, <1>10, JobsAssumption DEF PagesKept
<1>12. \A t \in OAuthStates : Unspent(t, id)' => t = n
  BY <1>7, <1>9, <1>10 DEF OnePage
<1>13. PagesReplaced(id)
  <2> SUFFICES ASSUME NEW t \in OAuthStates, authz[t].job = id
               PROVE  authz[t].shown /\ authz'[t].shown /\ ~Unspent(t, id)'
    BY <1>8 DEF PagesReplaced
  <2>1. t # n BY <1>1, JobsAssumption
  <2>2. CASE t = s BY <2>2, <1>6, <1>10
  <2>3. CASE t # s
    <3>1. ~Unspent(t, id) BY <2>3, <1>7 DEF OnePage
    <3>2. authz[t].approvals > 0 BY <3>1, <1>5 DEF Unspent
    <3>3. QED BY <2>1, <2>3, <3>2, <1>3, <1>12 DEF OnePage
  <2>4. QED BY <2>2, <2>3
<1>14. OnePage'
  <2>1. \A t \in OAuthStates :
          authz'[t].approvals <= 1 /\ (authz'[t].approvals > 0 => authz'[t].shown)
    <3> TAKE t \in OAuthStates
    <3>1. CASE t = n BY <3>1, <1>4
    <3>2. CASE t = s BY <3>2, <1>6
    <3>3. CASE t \notin {s, n} BY <3>3, <1>3 DEF OnePage
    <3>4. QED BY <3>1, <3>2, <3>3
  <2>2. \A j \in Jobs : \A t, u \in OAuthStates : Unspent(t, j)' /\ Unspent(u, j)' => t = u
    BY <1>9, <1>10, <1>12 DEF OnePage
  <2>3. QED BY <2>1, <2>2 DEF OnePage
<1>15. QED BY <1>1, <1>4, <1>10, <1>11, <1>12, <1>13, <1>14 DEF Usable

\* A page that is kept stays within one consent.
LEMMA ConsentKept ==
    ASSUME TypeInv, NEW id \in Jobs, OneConsent(id), PagesKept(id), SameConsent(id)
    PROVE  OneConsent(id)'
BY DEF OneConsent, PagesKept, SameConsent

----------------------------------------------------------------------------
(* The copies a step leaves alone.                                         *)

\* Either the digests and the pages of the job stay, or it had no page left to use.
WorldStays(id) ==
    \/ PagesKept(id) /\ signapi'[id].digest = signapi[id].digest
    \/ PagesReplaced(id)

\* A handler that is not moved stays current.
LEMMA RequestKept ==
    ASSUME TypeInv, Safe, Current, NEW r \in Requests, req'[r] = req[r],
           \A id \in Jobs : WorldStays(id)
    PROVE  RequestCurrent(r)'
<1> DEFINE id == req[r].id
           x == req[r].job
           pc == req[r].pc
<1>1. CASE pc = "idle" BY <1>1 DEF RequestCurrent, HoldingPCs
<1>2. CASE pc # "idle"
  <2>1. id \in Jobs /\ RequestCurrent(r) BY <1>2 DEF TypeInv, RequestsOK, Current
  <2>2. pc \in {"cbLoad", "cbClear", "cbAdvance"} => authz[req[r].s].job = id /\ req[r].s \in OAuthStates
    BY DEF Safe, RequestsSound, TypeInv, RequestsOK
  <2>3. CASE PagesKept(id) /\ signapi'[id].digest = signapi[id].digest
    <3>1. pc \in {"cbLoad", "cbClear", "cbAdvance"} => authz'[req[r].s].shown
      BY <2>1, <2>2, <2>3 DEF RequestCurrent, PagesKept
    <3>2. /\ pc \in HoldingPCs => Settled(x, signapi[id].digest)'
          /\ pc \in {"cbSave", "statusEmit", "statusSave"} => Terminal(x.state)
      BY <2>1, <2>3 DEF RequestCurrent, Settled
    <3>3. pc \in {"cbClear", "cbAdvance"} /\ Unspent(req[r].s, id)' => Fresh(x, signapi[id].digest)'
      BY <2>1, <2>2, <2>3 DEF RequestCurrent, PagesKept, Fresh
    <3>4. pc = "cbSaveNext" =>
            /\ x.oauth \in OAuthStates /\ Unspent(x.oauth, id)' /\ ~authz'[x.oauth].shown
            /\ Fresh(x, signapi[id].digest)'
      BY <2>1, <2>3 DEF RequestCurrent, PagesKept, Fresh, Unspent
    <3>5. QED BY <3>1, <3>2, <3>3, <3>4 DEF RequestCurrent
  <2>4. CASE PagesReplaced(id)
    <3>1. pc \in {"cbLoad", "cbClear", "cbAdvance"} =>
            authz'[req[r].s].shown /\ ~Unspent(req[r].s, id)'
      BY <2>2, <2>4 DEF PagesReplaced
    <3>2. pc # "cbSaveNext" BY <2>1, <2>4 DEF RequestCurrent, PagesReplaced, Unspent
    <3>3. pc \in HoldingPCs => x.state \notin {"SIGNING", "FINALIZING"}
      BY <2>1, <2>4 DEF PagesReplaced, Safe, RequestsSound, Sound, Backed
    <3>4. pc \in {"cbSave", "statusEmit", "statusSave"} => Terminal(x.state) BY <2>1 DEF RequestCurrent
    <3>5. QED BY <3>1, <3>2, <3>3, <3>4 DEF RequestCurrent, Settled
  <2>5. QED BY <2>1, <2>3, <2>4 DEF WorldStays
<1>3. QED BY <1>1, <1>2

\* A worker that is not moved stays current.
LEMMA WorkerKept ==
    ASSUME TypeInv, Safe, Current, NEW w \in Workers, wrk'[w] = wrk[w],
           \A id \in Jobs : WorldStays(id)
    PROVE  WorkerCurrent(w)'
<1>1. CASE wrk[w].pc = "idle" BY <1>1 DEF WorkerCurrent
<1>2. CASE wrk[w].pc # "idle"
  <2>1. wrk[w].id \in Jobs /\ WorkerCurrent(w) BY <1>2 DEF TypeInv, WorkersOK, Current
  <2>2. \/ wrk[w].job.state \notin {"SIGNING", "FINALIZING"}
        \/ signapi'[wrk[w].id].digest = signapi[wrk[w].id].digest
    BY <1>2, <2>1 DEF WorldStays, PagesReplaced, Safe, WorkersSound, Sound, Backed
  <2>3. QED BY <2>1, <2>2 DEF WorkerCurrent, Settled
<1>3. QED BY <1>1, <1>2

\* A saved job that is not written stays current, unless it gets a page to use.
LEMMA StoreKept ==
    ASSUME TypeInv, Safe, Current, NEW id \in Jobs, store'[id] = store[id], WorldStays(id),
           PagesReplaced(id) => \A s \in OAuthStates : ~Usable(s, id)'
    PROVE  StoreCurrent(id)'
<1> SUFFICES ASSUME store[id] # NoJob
             PROVE  /\ Settled(store[id], signapi[id].digest)'
                    /\ (\E s \in OAuthStates : Usable(s, id)') => Fresh(store[id], signapi[id].digest)'
  BY DEF StoreCurrent, Exists
<1>1. StoreCurrent(id) BY DEF Current
<1>2. CASE PagesKept(id) /\ signapi'[id].digest = signapi[id].digest
  <2>1. \A s \in OAuthStates : Usable(s, id)' => Usable(s, id)
    BY <1>2 DEF PagesKept, Usable, Unspent
  <2>2. QED BY <1>1, <1>2, <2>1 DEF StoreCurrent, Exists, Settled, Fresh
<1>3. CASE PagesReplaced(id)
  <2>1. store[id].state \notin {"SIGNING", "FINALIZING"}
    BY <1>3 DEF PagesReplaced, Safe, StoreSound, Sound, Backed
  <2>2. QED BY <1>3, <2>1 DEF Settled
<1>4. QED BY <1>2, <1>3 DEF WorldStays

\* What is written or moved is current, and nobody comes to hold a page that is not shown.
MovedCurrent ==
    /\ \A id \in Jobs : store'[id] = store[id] \/ StoreCurrent(id)'
    /\ \A r \in Requests :
         req'[r] = req[r] \/ (RequestCurrent(r)' /\ req'[r].pc # "cbSaveNext")
    /\ \A w \in Workers : wrk'[w] = wrk[w] \/ WorkerCurrent(w)'

\* A step that keeps every page and every digest.
LEMMA KeptOnce ==
    ASSUME TypeInv, Safe, Current, OnePage', \A id \in Jobs : OneConsent(id)', MovedCurrent,
           \A id \in Jobs : PagesKept(id) /\ signapi'[id].digest = signapi[id].digest
    PROVE  Once'
<1>1. \A id \in Jobs : WorldStays(id) BY DEF WorldStays
<1>2. \A id \in Jobs : StoreCurrent(id)'
  <2> TAKE id \in Jobs
  <2>1. \A s \in OAuthStates : Usable(s, id)' => Usable(s, id) BY DEF PagesKept, Usable, Unspent
  <2>2. PagesReplaced(id) => \A s \in OAuthStates : ~Usable(s, id)'
    BY <2>1 DEF PagesReplaced, Usable, Unspent
  <2>3. QED BY <1>1, <2>2, StoreKept DEF MovedCurrent
<1>3. \A r \in Requests : RequestCurrent(r)' BY <1>1, RequestKept DEF MovedCurrent
<1>4. \A w \in Workers : WorkerCurrent(w)' BY <1>1, WorkerKept DEF MovedCurrent
<1>5. OneHolder' BY DEF Current, OneHolder, MovedCurrent
<1>6. QED BY <1>2, <1>3, <1>4, <1>5 DEF Once, Current

LEMMA QuietOnce ==
    ASSUME TypeInv, Safe, Once, OnePage', MovedCurrent,
           \A id \in Jobs : PagesKept(id) /\ SameConsent(id) /\ signapi'[id].digest = signapi[id].digest
    PROVE  Once'
<1>1. \A id \in Jobs : OneConsent(id)' BY ConsentKept DEF Once
<1>2. QED BY <1>1, KeptOnce DEF Once

----------------------------------------------------------------------------
(* What a step writes and moves.                                           *)

\* Nothing is written.
LEMMA NoSave == ASSUME UNCHANGED store PROVE \A id \in Jobs : store'[id] = store[id] \/ StoreCurrent(id)'
OBVIOUS

\* A save writes a current copy.
LEMMA SaveCurrent ==
    ASSUME StoreTypeOK, NEW j \in Jobs, NEW x, Save(j, x), Settled(x, signapi'[j].digest),
           \A s \in OAuthStates : Usable(s, j)' => Fresh(x, signapi'[j].digest)
    PROVE  \A id \in Jobs : store'[id] = store[id] \/ StoreCurrent(id)'
<1>1. store' = store \/ store' = [store EXCEPT ![j] = x]
  BY DEF Save, TrySave, SaveOK, SaveFails, SaveJob
<1>2. CASE store' = store BY <1>2
<1>3. CASE store' = [store EXCEPT ![j] = x]
  <2>1. store'[j] = x /\ \A id \in Jobs : id # j => store'[id] = store[id]
    BY <1>3 DEF StoreTypeOK
  <2>2. StoreCurrent(j)' BY <2>1 DEF StoreCurrent
  <2>3. QED BY <2>1, <2>2
<1>4. QED BY <1>1, <1>2, <1>3

\* A copy that waits for no answer is saved whatever pages there are.
LEMMA SaveWorked ==
    ASSUME StoreTypeOK, NEW j \in Jobs, NEW x, Save(j, x), Settled(x, signapi'[j].digest),
           x.state # "AWAITING_AUTHORIZATION"
    PROVE  \A id \in Jobs : store'[id] = store[id] \/ StoreCurrent(id)'
BY SaveCurrent DEF Fresh

LEMMA SaveTerminal ==
    ASSUME StoreTypeOK, NEW j \in Jobs, NEW x, Save(j, x), Terminal(x.state)
    PROVE  \A id \in Jobs : store'[id] = store[id] \/ StoreCurrent(id)'
BY SaveWorked DEF Terminal, Settled

\* A key that is dropped.
LEMMA DropCurrent ==
    ASSUME StoreTypeOK, NEW j \in Jobs, store' \in {store, [store EXCEPT ![j] = NoJob]}
    PROVE  \A id \in Jobs : store'[id] = store[id] \/ StoreCurrent(id)'
<1>1. CASE store' = store BY <1>1
<1>2. CASE store' = [store EXCEPT ![j] = NoJob]
  <2>1. store'[j] = NoJob /\ \A id \in Jobs : id # j => store'[id] = store[id]
    BY <1>2 DEF StoreTypeOK
  <2>2. StoreCurrent(j)' BY <2>1 DEF StoreCurrent, Exists
  <2>3. QED BY <2>1, <2>2
<1>3. QED BY <1>1, <1>2

RequestsMoved ==
    \A r \in Requests : req'[r] = req[r] \/ (RequestCurrent(r)' /\ req'[r].pc # "cbSaveNext")

WorkersMoved == \A w \in Workers : wrk'[w] = wrk[w] \/ WorkerCurrent(w)'

\* A request ends, or goes on with a copy it only has to save.
LEMMA RespondCurrent ==
    ASSUME RequestsOK, NEW r \in Requests, Respond(r) PROVE RequestsMoved
<1>1. req'[r] = IdleRequest /\ \A p \in Requests : p # r => req'[p] = req[p]
  BY DEF Respond, RequestsOK
<1>2. req'[r].pc = "idle" BY <1>1 DEF IdleRequest
<1>3. RequestCurrent(r)' BY <1>2 DEF RequestCurrent, HoldingPCs
<1>4. QED BY <1>1, <1>2, <1>3 DEF RequestsMoved

LEMMA GotoCurrent ==
    ASSUME RequestsOK, NEW r \in Requests, NEW pc, NEW id, NEW x, Goto(r, pc, id, x),
           pc \notin {"cbLoad", "cbClear", "cbAdvance", "cbSaveNext"},
           pc \in HoldingPCs => Settled(x, signapi'[id].digest),
           pc \in {"cbSave", "statusEmit", "statusSave"} => Terminal(x.state)
    PROVE  RequestsMoved
<1> DEFINE q == [pc |-> pc, id |-> id, s |-> 0, declined |-> FALSE, job |-> x]
<1>1. req'[r] = q /\ \A p \in Requests : p # r => req'[p] = req[p]
  BY DEF Goto, RequestsOK
<1>2. req'[r].pc = pc /\ req'[r].id = id /\ req'[r].job = x BY <1>1
<1>3. RequestCurrent(r)' BY <1>2 DEF RequestCurrent
<1>4. QED BY <1>1, <1>2, <1>3 DEF RequestsMoved

LEMMA ReleaseCurrent ==
    ASSUME WorkersOK, NEW w \in Workers, Release(w) PROVE WorkersMoved
<1>1. wrk'[w] = IdleWorker /\ \A p \in Workers : p # w => wrk'[p] = wrk[p]
  BY DEF Release, WorkersOK
<1>2. WorkerCurrent(w)' BY <1>1 DEF WorkerCurrent, IdleWorker
<1>3. QED BY <1>1, <1>2 DEF WorkersMoved

LEMMA GotoWorkerCurrent ==
    ASSUME WorkersOK, NEW w \in Workers, NEW pc, NEW id, NEW x, GotoWorker(w, pc, id, x),
           Settled(x, signapi'[id].digest), pc = "saveResult" => Terminal(x.state)
    PROVE  WorkersMoved
<1>1. wrk'[w] = [pc |-> pc, id |-> id, job |-> x] /\ \A p \in Workers : p # w => wrk'[p] = wrk[p]
  BY DEF GotoWorker, WorkersOK
<1>2. wrk'[w].pc = pc /\ wrk'[w].id = id /\ wrk'[w].job = x BY <1>1
<1>3. WorkerCurrent(w)' BY <1>2 DEF WorkerCurrent
<1>4. QED BY <1>1, <1>3 DEF WorkersMoved

\* Sessions that are closed or finalized keep their digests, and consents come from elsewhere.
SessionsStay ==
    \A id \in Jobs :
        /\ signapi'[id].digest = signapi[id].digest
        /\ signapi'[id].sess = "unborn" => signapi[id].sess = "unborn"

\* A step that touches no authorization and no consent.
LEMMA QuietPages ==
    ASSUME TypeInv, Safe, Once, UNCHANGED authz, SessionsStay,
           \A id \in Jobs : seen'[id].accepted = seen[id].accepted,
           \A id \in Jobs : store'[id] = store[id] \/ StoreCurrent(id)',
           RequestsMoved, WorkersMoved
    PROVE  Once'
<1>1. OnePage' /\ \A id \in Jobs : PagesKept(id) BY SamePages, SameOnePage DEF Once
<1>2. \A id \in Jobs : SameConsent(id) BY DEF SameConsent, SessionsStay
<1>3. MovedCurrent BY DEF MovedCurrent, RequestsMoved, WorkersMoved
<1>4. QED BY <1>1, <1>2, <1>3, QuietOnce DEF SessionsStay

----------------------------------------------------------------------------
(* Prepare.                                                                *)

\* A job is started: nobody has a copy of it that could be signed.
LEMMA StartedOnce ==
    ASSUME TypeInv, Safe, Once, NEW id \in Jobs, StartSession(id), signapi'[id].sess # "unborn",
           \A j \in Jobs : j # id => signapi'[j] = signapi[j],
           \A j \in Jobs : seen'[j].accepted = seen[j].accepted,
           OnePage', \A j \in Jobs : j # id => PagesKept(j), PagesReplaced(id),
           UNCHANGED <<req, wrk>>,
           \A j \in Jobs : store'[j] = store[j] \/ StoreCurrent(j)',
           (\A s \in OAuthStates : ~Usable(s, id)') \/ StoreCurrent(id)'
    PROVE  Once'
<1>1. Current BY DEF Once
<1>2. \A j \in Jobs : OneConsent(j)'
  <2> TAKE j \in Jobs
  <2>1. CASE j = id
    BY <2>1 DEF PagesReplaced, OneConsent
  <2>2. CASE j # id
    <3>1. SameConsent(j) /\ PagesKept(j) BY <2>2 DEF SameConsent
    <3>2. QED BY <3>1, ConsentKept DEF Once
  <2>3. QED BY <2>1, <2>2
<1>3. \A j \in Jobs : WorldStays(j) BY DEF WorldStays
<1>4. \A j \in Jobs : StoreCurrent(j)'
  <2> TAKE j \in Jobs
  <2>1. CASE j = id BY <2>1, <1>1, <1>3, StoreKept
  <2>2. CASE j # id
    <3>1. \A s \in OAuthStates : Usable(s, j)' => Usable(s, j)
      BY <2>2 DEF PagesKept, Usable, Unspent
    <3>2. PagesReplaced(j) => \A s \in OAuthStates : ~Usable(s, j)'
      BY <3>1 DEF PagesReplaced, Usable, Unspent
    <3>3. QED BY <1>1, <1>3, <3>2, StoreKept
  <2>3. QED BY <2>1, <2>2
<1>5. \A r \in Requests : RequestCurrent(r)' BY <1>1, <1>3, RequestKept
<1>6. \A w \in Workers : WorkerCurrent(w)' BY <1>1, <1>3, WorkerKept
<1>7. OneHolder' BY <1>1 DEF Current, OneHolder
<1>8. QED BY <1>2, <1>4, <1>5, <1>6, <1>7 DEF Once, Current

\* A job without a page has none to replace.
LEMMA NoPageYet ==
    ASSUME TypeInv, Once, NEW id \in Jobs, StartSession(id), UNCHANGED authz
    PROVE  /\ \A j \in Jobs : PagesKept(j)
           /\ PagesReplaced(id) /\ OnePage'
           /\ \A s \in OAuthStates : ~Usable(s, id)'
<1>1. seen[id].accepted = 0 /\ \A s \in OAuthStates : authz[s].job # id
  BY DEF Once, OneConsent, StartSession
<1>2. QED BY <1>1, SamePages, SameOnePage DEF Once, PagesReplaced, Usable, Unspent

LEMMA PrepareOnce ==
    ASSUME OneCode, TypeInv, Safe, Once, Prepare PROVE Once'
<1> USE DEF TypeInv
<1>1. PICK id \in Jobs, f \in Flows, cert \in BOOLEAN :
        \/ PrepareUploadFails(id, f, cert)
        \/ PrepareClientSide(id, f, cert)
        \/ PrepareDies(id, f, cert)
        \/ \E full \in BOOLEAN : PrepareRemote(id, f, cert, full) \/ PrepareBeginFails(id, f, cert, full)
  BY DEF Prepare
<1>2. StartSession(id) /\ UNCHANGED <<req, wrk>>
  BY <1>1 DEF PrepareUploadFails, PrepareClientSide, PrepareDies, PrepareRemote, PrepareBeginFails,
              PrepareStarts
<1>3. signapi'[id].sess # "unborn" /\ \A j \in Jobs : j # id => signapi'[j] = signapi[j]
  <2>1. \E e \in {"none", "open"} : \E d :
          \/ signapi' = [signapi EXCEPT ![id].sess = e]
          \/ signapi' = [signapi EXCEPT ![id].sess = e, ![id].digest = d]
    BY <1>1 DEF PrepareUploadFails, PrepareClientSide, PrepareDies, PrepareRemote, PrepareBeginFails,
                Uploaded
  <2>2. QED BY <2>1 DEF UpstreamTypeOK, SignAPIType
<1>4. \A j \in Jobs : seen'[j].accepted = seen[j].accepted
  <2>1. \E v : UNCHANGED seen \/ seen' = [seen EXCEPT ![id].known = v]
    BY <1>1 DEF PrepareUploadFails, PrepareClientSide, PrepareDies, PrepareRemote, PrepareBeginFails
  <2>2. QED BY <2>1 DEF SeenOK, SeenType
<1>5. NewJob(f) \in JobType /\ NewState \in Nat
  BY NewJobType, BoundsAssumption DEF NewState, UpstreamTypeOK
<1>6. \A y \in JobType : Terminal(Fail(y).state) BY DEF Fail, Terminal, JobType
<1>7. CASE PrepareUploadFails(id, f, cert) \/ PrepareDies(id, f, cert)
  <2>1. UNCHANGED authz BY <1>7 DEF PrepareUploadFails, PrepareDies
  <2>2. \A j \in Jobs : store'[j] = store[j] \/ StoreCurrent(j)'
    <3>1. UNCHANGED store \/ Save(id, Fail(NewJob(f)))
      BY <1>7 DEF PrepareUploadFails, PrepareDies
    <3>2. QED BY <3>1, <1>5, <1>6, SaveTerminal
  <2>3. QED BY <2>1, <2>2, <1>2, <1>3, <1>4, NoPageYet, StartedOnce
<1>8. CASE PrepareClientSide(id, f, cert)
  BY <1>8 DEF PrepareClientSide, IsClientSide, OneCode
<1>9. ASSUME NEW full \in BOOLEAN, PrepareRemote(id, f, cert, full) PROVE Once'
  <2> DEFINE x == BeginAuthorization(f, cert, full, NewState)
             y == Transition(x, "AWAITING_AUTHORIZATION")
  <2>1. x \in JobType BY <1>5, BeginAuthorizationType
  <2>2. PICK ok \in BOOLEAN :
          CanMint /\ Uploaded(id, x.digest) /\ Mint(id, x.leg, x.digest, ok) /\ TrySave(id, y, ok)
    BY <1>9 DEF PrepareRemote
  <2> HIDE DEF x
  <2>3. y.digest = x.digest BY <2>1 DEF Transition, JobType
  <2> HIDE DEF y
  <2>4. signapi'[id].digest = x.digest BY <2>2 DEF Uploaded, UpstreamTypeOK, SignAPIType
  <2>5. /\ \A j \in Jobs : j # id => PagesKept(j)
        /\ PagesReplaced(id) /\ OnePage'
        /\ \A s \in OAuthStates : Usable(s, id)' => ok
    BY <2>2, <1>2, MintPages DEF Safe, Once
  <2>6. Settled(y, signapi'[id].digest) /\ Fresh(y, signapi'[id].digest)
    BY <2>3, <2>4 DEF Settled, Fresh
  <2>7. \A j \in Jobs : store'[j] = store[j] \/ StoreCurrent(j)'
    BY <2>2, <2>6, SaveCurrent, TrySaveIsSave
  <2>8. ok => StoreCurrent(id)'
    <3>1. ok => store'[id] = y BY <2>2 DEF TrySave, SaveOK, SaveJob, StoreTypeOK
    <3>2. QED BY <2>6, <3>1 DEF StoreCurrent
  <2>9. QED BY <2>5, <2>7, <2>8, <1>2, <1>3, <1>4, StartedOnce
<1>10. ASSUME NEW full \in BOOLEAN, PrepareBeginFails(id, f, cert, full) PROVE Once'
  <2>1. CASE IsCSC(f)
    <3> DEFINE x == BeginAuthorization(f, cert, FALSE, NewState)
    <3>1. x \in JobType BY <1>5, BeginAuthorizationType
    <3>2. CanMint /\ Mint(id, x.leg, 0, FALSE) /\ Save(id, Fail(x))
      BY <1>10, <2>1 DEF PrepareBeginFails
    <3> HIDE DEF x
    <3>3. /\ \A j \in Jobs : j # id => PagesKept(j)
          /\ PagesReplaced(id) /\ OnePage'
          /\ \A s \in OAuthStates : ~Usable(s, id)'
      BY <3>2, <1>2, MintPages DEF Safe, Once
    <3>4. \A j \in Jobs : store'[j] = store[j] \/ StoreCurrent(j)'
      BY <3>1, <3>2, <1>6, SaveTerminal
    <3>5. QED BY <3>3, <3>4, <1>2, <1>3, <1>4, StartedOnce
  <2>2. CASE ~IsCSC(f)
    <3>1. PICK e \in {0, 1} : Save(id, Fail(WithCert(NewJob(f), TRUE, e))) /\ UNCHANGED authz
      BY <1>10, <2>2 DEF PrepareBeginFails
    <3>2. WithCert(NewJob(f), TRUE, e) \in JobType BY <1>5, WithCertType
    <3>3. \A j \in Jobs : store'[j] = store[j] \/ StoreCurrent(j)'
      BY <3>1, <3>2, <1>6, SaveTerminal
    <3>4. QED BY <3>1, <3>3, <1>2, <1>3, <1>4, NoPageYet, StartedOnce
  <2>3. QED BY <2>1, <2>2
<1>11. QED BY <1>1, <1>7, <1>8, <1>9, <1>10

----------------------------------------------------------------------------
(* The caller, the person and the environment.                             *)

\* Closing sessions and finalizing keep the digests.
LEMMA SessionsStayBy ==
    ASSUME UpstreamTypeOK, NEW id \in Jobs,
           \/ UNCHANGED signapi
           \/ CloseLater(id)
           \/ CloseSession(id)
           \/ \E ok \in BOOLEAN : FinalizeSigning(id, ok)
    PROVE  SessionsStay
<1>1. CASE UNCHANGED signapi BY <1>1 DEF SessionsStay
<1>2. CASE CloseLater(id) BY <1>2 DEF UpstreamTypeOK, SignAPIType, CloseLater, SessionsStay
<1>3. CASE CloseSession(id) BY <1>3 DEF UpstreamTypeOK, SignAPIType, CloseSession, SessionsStay
<1>4. CASE \E ok \in BOOLEAN : FinalizeSigning(id, ok)
  <2>1. \E c, e : signapi' = [signapi EXCEPT ![id].calls = c, ![id].finalized = e]
    BY <1>4 DEF FinalizeSigning, UpstreamTypeOK
  <2>2. QED BY <2>1 DEF UpstreamTypeOK, SignAPIType, SessionsStay
<1>5. QED BY <1>1, <1>2, <1>3, <1>4

LEMMA EnvironmentOnce ==
    ASSUME OneCode, TypeInv, Safe, Once, Environment PROVE Once'
<1> USE DEF TypeInv
<1>1. ASSUME NEW r \in Requests, NEW s \in OAuthStates, NEW declined \in BOOLEAN,
             CallbackArrives(r, s, declined)
      PROVE  Once'
  <2>1. UNCHANGED <<store, signapi, authz, wrk, seen>> BY <1>1 DEF CallbackArrives, storeVars, upVars
  <2>2. RequestsMoved
    <3>1. /\ req'[r].pc = "cbLoad" /\ req'[r].s = s
          /\ \A p \in Requests : p # r => req'[p] = req[p]
      BY <1>1 DEF CallbackArrives, RequestsOK
    <3>2. authz'[s].shown BY <1>1, <2>1 DEF CallbackArrives
    <3>3. RequestCurrent(r)' BY <3>1, <3>2 DEF RequestCurrent, HoldingPCs
    <3>4. QED BY <3>1, <3>3 DEF RequestsMoved
  <2>3. SessionsStay /\ WorkersMoved BY <2>1 DEF SessionsStay, WorkersMoved
  <2>4. QED BY <2>1, <2>2, <2>3, NoSave, QuietPages
<1>2. ASSUME NEW r \in Requests, NEW id \in Jobs, SubmitSignatures(r, id) PROVE Once'
  BY <1>2 DEF SubmitSignatures, Called, Exists, StoreTypeOK, JobType, IsClientSide, OneCode
<1>3. ASSUME NEW r \in Requests, NEW id \in Jobs, Status(r, id) PROVE Once'
  <2>1. UNCHANGED <<store, signapi, authz, wrk, seen>> BY <1>3 DEF Status, storeVars, upVars
  <2>2. Terminal(store[id].state) /\ Settled(store[id], signapi'[id].digest)
    BY <1>3 DEF Status, Settled, Terminal
  <2>3. RequestsMoved BY <1>3, <2>2, GotoCurrent DEF Status
  <2>4. SessionsStay /\ WorkersMoved BY <2>1 DEF SessionsStay, WorkersMoved
  <2>5. QED BY <2>1, <2>3, <2>4, NoSave, QuietPages
<1>4. ASSUME NEW r \in Requests, NEW id \in Jobs, DeleteJob(r, id) PROVE Once'
  <2>1. UNCHANGED <<store, signapi, authz, wrk, seen>> BY <1>4 DEF DeleteJob, storeVars, upVars
  <2>2. Settled(store[id], signapi'[id].digest)
    BY <1>4, <2>1 DEF DeleteJob, Called, Once, Current, StoreCurrent
  <2>3. RequestsMoved BY <1>4, <2>2, GotoCurrent DEF DeleteJob
  <2>4. SessionsStay /\ WorkersMoved BY <2>1 DEF SessionsStay, WorkersMoved
  <2>5. QED BY <2>1, <2>3, <2>4, NoSave, QuietPages
<1>5. ASSUME NEW s \in OAuthStates, PersonConfirms(s) PROVE Once'
  <2>1. UNCHANGED <<store, signapi, req, wrk, seen>> BY <1>5 DEF PersonConfirms, Approve, storeVars
  <2>2. (\A id \in Jobs : PagesKept(id)) /\ OnePage'
    BY <1>5, ApprovePages DEF PersonConfirms, Safe, Once
  <2>3. MovedCurrent /\ \A id \in Jobs : SameConsent(id) BY <2>1 DEF MovedCurrent, SameConsent
  <2>4. QED BY <2>1, <2>2, <2>3, QuietOnce
<1>6. ASSUME NEW id \in Jobs, JobExpires(id) PROVE Once'
  <2>1. UNCHANGED <<signapi, authz, req, wrk, seen>> BY <1>6 DEF JobExpires, Expire, upVars
  <2>2. \A j \in Jobs : store'[j] = store[j] \/ StoreCurrent(j)'
    BY <1>6, DropCurrent DEF JobExpires, Expire
  <2>3. SessionsStay /\ RequestsMoved /\ WorkersMoved BY <2>1 DEF SessionsStay, RequestsMoved, WorkersMoved
  <2>4. QED BY <2>1, <2>2, <2>3, QuietPages
<1>7. ASSUME NEW r \in Requests, RequestDies(r) PROVE Once'
  <2>1. UNCHANGED <<store, signapi, authz, wrk, seen>> BY <1>7 DEF RequestDies, upVars
  <2>2. RequestsMoved BY <1>7, RespondCurrent DEF RequestDies
  <2>3. SessionsStay /\ WorkersMoved BY <2>1 DEF SessionsStay, WorkersMoved
  <2>4. QED BY <2>1, <2>2, <2>3, NoSave, QuietPages
<1>8. ASSUME NEW w \in Workers, WorkerDies(w) PROVE Once'
  <2>1. UNCHANGED <<store, signapi, authz, req, seen>> BY <1>8 DEF WorkerDies, upVars
  <2>2. WorkersMoved BY <1>8, ReleaseCurrent DEF WorkerDies
  <2>3. SessionsStay /\ RequestsMoved BY <2>1 DEF SessionsStay, RequestsMoved
  <2>4. QED BY <2>1, <2>2, <2>3, NoSave, QuietPages
<1>9. QED BY <1>1, <1>2, <1>3, <1>4, <1>5, <1>6, <1>7, <1>8, PrepareOnce DEF Environment

----------------------------------------------------------------------------
(* Workers and background closes.                                          *)

LEMMA WorkerStepOnce ==
    ASSUME TypeInv, Safe, Once, NEW w \in Workers, WorkerStep(w) PROVE Once'
<1> USE DEF TypeInv
<1> DEFINE id == wrk[w].id
           x == wrk[w].job
<1>0. wrk[w].pc # "idle" =>
        /\ id \in Jobs /\ x \in JobType /\ Settled(x, signapi[id].digest)
        /\ wrk[w].pc \in {"deviceSave", "sign"} => x.state = "SIGNING"
        /\ wrk[w].pc \in {"saveFinalizing", "finalize"} => x.state = "FINALIZING"
        /\ wrk[w].pc = "saveResult" => Terminal(x.state)
  BY DEF WorkersOK, Once, Current, WorkerCurrent, Safe, WorkersSound
<1>1. \A y \in JobType : Terminal(Fail(y).state) BY DEF Fail, Terminal, JobType
<1>2. \A y, d : Terminal(y.state) => Settled(y, d) BY DEF Terminal, Settled
<1> HIDE DEF id, x
<1>3. CASE WorkerTake(w)
  <2>1. UNCHANGED <<store, signapi, authz, req, seen>> BY <1>3 DEF WorkerTake, upVars
  <2>2. PICK j \in Jobs :
          UNCHANGED wrk \/ \E pc \in WorkerPCs \ {"saveResult"} :
                              Exists(j) /\ GotoWorker(w, pc, j, store[j])
    BY <1>3 DEF WorkerTake, WorkerPCs
  <2>3. Exists(j) => Settled(store[j], signapi'[j].digest)
    BY <2>1 DEF Once, Current, StoreCurrent
  <2>4. WorkersMoved BY <2>2, <2>3, GotoWorkerCurrent DEF WorkersMoved
  <2>5. SessionsStay /\ RequestsMoved BY <2>1 DEF SessionsStay, RequestsMoved
  <2>6. QED BY <2>1, <2>4, <2>5, NoSave, QuietPages
<1>4. CASE WorkerDeviceSave(w)
  <2>1. UNCHANGED <<signapi, authz, req, seen>> BY <1>4 DEF WorkerDeviceSave, upVars
  <2>2. Settled(x, signapi'[id].digest) /\ x.state = "SIGNING" /\ id \in Jobs /\ x \in JobType
    BY <1>0, <1>4, <2>1 DEF WorkerDeviceSave
  <2>3. Save(id, x) BY <1>4, TrySaveIsSave DEF WorkerDeviceSave, id, x
  <2>4. GotoWorker(w, "sign", id, x) \/ GotoWorker(w, "saveResult", id, Fail(x))
    BY <1>4 DEF WorkerDeviceSave, id, x
  <2>5. WorkersMoved BY <1>1, <1>2, <2>2, <2>4, GotoWorkerCurrent
  <2>6. \A j \in Jobs : store'[j] = store[j] \/ StoreCurrent(j)' BY <2>2, <2>3, SaveWorked
  <2>7. SessionsStay /\ RequestsMoved BY <2>1 DEF SessionsStay, RequestsMoved
  <2>8. QED BY <2>1, <2>5, <2>6, <2>7, QuietPages
<1>5. CASE WorkerSign(w)
  <2> DEFINE y == [x EXCEPT !.token = IF IsCSC(x.flow) THEN NoToken ELSE @]
  <2>1. UNCHANGED <<store, signapi, authz, req, seen>> BY <1>5 DEF WorkerSign, storeVars, upVars
  <2>2. Settled(x, signapi'[id].digest) /\ x.state = "SIGNING" /\ x \in JobType
    BY <1>0, <1>5, <2>1 DEF WorkerSign
  <2>3. y \in JobType /\ Signed(x).digest = x.digest
    BY <2>2 DEF JobType, NoToken, Signed, Transition
  <2>4. Settled(Signed(x), signapi'[id].digest) BY <2>2, <2>3 DEF Settled
  <2>5. GotoWorker(w, "saveFinalizing", id, Signed(x)) \/ GotoWorker(w, "saveResult", id, Fail(y))
    BY <1>5 DEF WorkerSign, id, x
  <2> HIDE DEF y
  <2>6. WorkersMoved BY <1>1, <1>2, <2>3, <2>4, <2>5, GotoWorkerCurrent
  <2>7. SessionsStay /\ RequestsMoved BY <2>1 DEF SessionsStay, RequestsMoved
  <2>8. QED BY <2>1, <2>6, <2>7, NoSave, QuietPages
<1>6. CASE WorkerSaveFinalizing(w)
  <2>1. UNCHANGED <<signapi, authz, req, seen>> BY <1>6 DEF WorkerSaveFinalizing, upVars
  <2>2. Settled(x, signapi'[id].digest) /\ x.state = "FINALIZING" /\ id \in Jobs
    BY <1>0, <1>6, <2>1 DEF WorkerSaveFinalizing
  <2>3. Save(id, x) /\ GotoWorker(w, "finalize", id, x) BY <1>6 DEF WorkerSaveFinalizing, id, x
  <2>4. WorkersMoved BY <2>2, <2>3, GotoWorkerCurrent
  <2>5. \A j \in Jobs : store'[j] = store[j] \/ StoreCurrent(j)' BY <2>2, <2>3, SaveWorked
  <2>6. SessionsStay /\ RequestsMoved BY <2>1 DEF SessionsStay, RequestsMoved
  <2>7. QED BY <2>1, <2>4, <2>5, <2>6, QuietPages
<1>7. CASE WorkerFinalize(w)
  <2>1. UNCHANGED <<store, authz, req, seen>> BY <1>7 DEF WorkerFinalize, storeVars
  <2>2. x.state = "FINALIZING" /\ x \in JobType /\ id \in Jobs BY <1>0, <1>7 DEF WorkerFinalize
  <2>3. SessionsStay BY <1>7, <2>2, SessionsStayBy DEF WorkerFinalize, id
  <2>4. Terminal(Finalized(x).state)
    BY <2>2 DEF Finalized, Transition, CanTransition, transitions, Terminal, JobType
  <2>5. GotoWorker(w, "saveResult", id, Finalized(x)) \/ GotoWorker(w, "saveResult", id, Fail(x))
    BY <1>7 DEF WorkerFinalize, id, x
  <2>6. WorkersMoved BY <1>1, <1>2, <2>2, <2>4, <2>5, GotoWorkerCurrent
  <2>7. RequestsMoved BY <2>1 DEF RequestsMoved
  <2>8. QED BY <2>1, <2>3, <2>6, <2>7, NoSave, QuietPages
<1>8. CASE WorkerSaveResult(w)
  <2>1. UNCHANGED <<authz, req, seen>> BY <1>8 DEF WorkerSaveResult
  <2>2. Terminal(x.state) /\ id \in Jobs BY <1>0, <1>8 DEF WorkerSaveResult
  <2>3. SessionsStay BY <1>8, <2>2, SessionsStayBy DEF WorkerSaveResult, id
  <2>4. \A j \in Jobs : store'[j] = store[j] \/ StoreCurrent(j)'
    BY <1>8, <2>2, SaveTerminal DEF WorkerSaveResult, id, x
  <2>5. WorkersMoved BY <1>8, ReleaseCurrent DEF WorkerSaveResult
  <2>6. RequestsMoved BY <2>1 DEF RequestsMoved
  <2>7. QED BY <2>1, <2>3, <2>4, <2>5, <2>6, QuietPages
<1>9. QED BY <1>3, <1>4, <1>5, <1>6, <1>7, <1>8 DEF WorkerStep

LEMMA CloseStepOnce ==
    ASSUME TypeInv, Safe, Once, NEW id \in Jobs, CloseStep(id) PROVE Once'
<1>1. UNCHANGED <<store, authz, req, wrk, seen>> BY DEF CloseStep, CloseSession, storeVars
<1>2. SessionsStay BY SessionsStayBy DEF CloseStep, TypeInv
<1>3. RequestsMoved /\ WorkersMoved BY <1>1 DEF RequestsMoved, WorkersMoved
<1>4. QED BY <1>1, <1>2, <1>3, NoSave, QuietPages

----------------------------------------------------------------------------
(* Requests.                                                               *)

\* The exchange of a first-leg code: the digests change, and no page is left to use.
LEMMA ExchangedOnce ==
    ASSUME TypeInv, Safe, Once, NEW id \in Jobs, NEW r \in Requests,
           \E s \in OAuthStates : authz[s].job = id,
           UNCHANGED <<store, wrk, seen>>, signapi'[id].sess = signapi[id].sess,
           \A j \in Jobs : j # id => signapi'[j] = signapi[j],
           OnePage', \A j \in Jobs : j # id => PagesKept(j), PagesReplaced(id),
           \A s \in OAuthStates : ~Usable(s, id)',
           \A p \in Requests : p # r => req'[p] = req[p], req'[r].id = id, RequestCurrent(r)'
    PROVE  Once'
<1>1. Current BY DEF Once
<1>2. \A j \in Jobs : OneConsent(j)'
  <2> TAKE j \in Jobs
  <2>1. CASE j = id
    <3>1. signapi[id].sess # "unborn" BY DEF Once, OneConsent
    <3>2. QED BY <2>1, <3>1 DEF PagesReplaced, OneConsent
  <2>2. CASE j # id
    <3>1. SameConsent(j) /\ PagesKept(j) BY <2>2 DEF SameConsent
    <3>2. QED BY <3>1, ConsentKept DEF Once
  <2>3. QED BY <2>1, <2>2
<1>3. \A j \in Jobs : WorldStays(j) BY DEF WorldStays
<1>4. \A j \in Jobs : StoreCurrent(j)'
  <2> TAKE j \in Jobs
  <2>1. CASE j = id BY <2>1, <1>1, <1>3, StoreKept
  <2>2. CASE j # id
    <3>1. \A s \in OAuthStates : Usable(s, j)' => Usable(s, j)
      BY <2>2 DEF PagesKept, Usable, Unspent
    <3>2. PagesReplaced(j) => \A s \in OAuthStates : ~Usable(s, j)'
      BY <3>1 DEF PagesReplaced, Usable, Unspent
    <3>3. QED BY <1>1, <1>3, <3>2, StoreKept
  <2>3. QED BY <2>1, <2>2
<1>5. \A p \in Requests : RequestCurrent(p)' BY <1>1, <1>3, RequestKept
<1>6. \A w \in Workers : WorkerCurrent(w)' BY <1>1, <1>3, WorkerKept
<1>7. \A p \in Requests : req[p].pc = "cbSaveNext" => req[p].id # id
  BY <1>1 DEF Current, RequestCurrent, PagesReplaced, Unspent
<1>8. OneHolder' BY <1>1, <1>7 DEF Current, OneHolder
<1>9. QED BY <1>2, <1>4, <1>5, <1>6, <1>8 DEF Once, Current

\* Spending the last page leaves the job without one.
LEMMA LastPage ==
    ASSUME TypeInv, AuthzSound, OnePage, NEW id \in Jobs, OneConsent(id),
           NEW s \in OAuthStates, authz[s].job = id, authz[s].codes > 0, authz' = SpendCode(s)
    PROVE  PagesReplaced(id) /\ \A t \in OAuthStates : ~Usable(t, id)'
<1>1. PagesKept(id) /\ \A t \in OAuthStates : ~Unspent(t, id)' BY SpendPages
<1>2. Unspent(s, id) BY DEF Unspent
<1>3. seen[id].accepted = 0 BY <1>2 DEF OneConsent, TypeInv, SeenOK, SeenType
<1>4. \A t \in OAuthStates : authz[t].codes \in Nat /\ authz[t].approvals \in Nat
  BY DEF TypeInv, UpstreamTypeOK, AuthzType
<1>5. \A t \in OAuthStates : authz[t].job = id => authz[t].shown
  <2> SUFFICES ASSUME NEW t \in OAuthStates, authz[t].job = id PROVE authz[t].approvals > 0
    BY DEF OnePage
  <2>1. CASE t = s BY <2>1, <1>4 DEF AuthzSound
  <2>2. CASE t # s BY <2>2, <1>2, <1>4 DEF OnePage, Unspent
  <2>3. QED BY <2>1, <2>2
<1>6. QED BY <1>1, <1>3, <1>5 DEF PagesReplaced, PagesKept, Usable

\* The next page is saved and shown.
LEMMA ShownOnce ==
    ASSUME TypeInv, Safe, Once, NEW r \in Requests, req[r].pc = "cbSaveNext",
           SaveOK(req[r].id, req[r].job), authz' = [authz EXCEPT ![req[r].job.oauth].shown = TRUE],
           Respond(r), UNCHANGED <<signapi, wrk, seen>>
    PROVE  Once'
<1>1. PICK id \in Jobs, n \in OAuthStates, x \in {req[r].job} :
        /\ id = req[r].id /\ x = req[r].job /\ n = x.oauth
        /\ Unspent(n, id) /\ ~authz[n].shown
        /\ Settled(x, signapi[id].digest) /\ Fresh(x, signapi[id].digest)
  BY DEF TypeInv, RequestsOK, Once, Current, RequestCurrent, HoldingPCs
<1>2. \A t \in OAuthStates :
        /\ authz'[t].job = authz[t].job /\ authz'[t].approvals = authz[t].approvals
        /\ authz'[t].codes = authz[t].codes
        /\ authz'[t].shown = IF t = n THEN TRUE ELSE authz[t].shown
  BY <1>1 DEF TypeInv, UpstreamTypeOK, AuthzType
<1>3. \A t \in OAuthStates : \A j : Unspent(t, j)' <=> Unspent(t, j) BY <1>2 DEF Unspent
<1>4. OnePage' BY <1>2, <1>3 DEF Once, OnePage
<1>5. \A j \in Jobs : OneConsent(j)' BY <1>2, <1>3 DEF Once, OneConsent
<1>6. \A j \in Jobs : StoreCurrent(j)'
  <2>1. store'[id] = x /\ \A j \in Jobs : j # id => store'[j] = store[j]
    BY <1>1 DEF SaveOK, SaveJob, TypeInv, StoreTypeOK
  <2>2. StoreCurrent(id)' BY <1>1, <2>1 DEF StoreCurrent
  <2>3. ASSUME NEW j \in Jobs, j # id PROVE StoreCurrent(j)'
    <3>1. \A t \in OAuthStates : Usable(t, j)' => Usable(t, j)
      BY <1>1, <1>2, <1>3, <2>3 DEF Usable, Unspent
    <3>2. StoreCurrent(j) BY DEF Once, Current
    <3>3. QED BY <2>1, <2>3, <3>1, <3>2 DEF StoreCurrent, Exists
  <2>4. QED BY <2>2, <2>3
<1>7. /\ req'[r].pc = "idle"
      /\ \A p \in Requests : p # r => req'[p] = req[p]
  BY DEF Respond, IdleRequest, TypeInv, RequestsOK
<1>8. \A p \in Requests : RequestCurrent(p)'
  <2>1. RequestCurrent(r)' BY <1>7 DEF RequestCurrent, HoldingPCs
  <2>2. ASSUME NEW p \in Requests, p # r PROVE RequestCurrent(p)'
    <3>1. RequestCurrent(p) /\ req'[p] = req[p] BY <1>7, <2>2 DEF Once, Current
    <3>2. req[p].pc = "cbSaveNext" => req[p].id # id BY <1>1, <2>2 DEF Once, Current, OneHolder
    <3>3. req[p].pc \in {"cbLoad", "cbClear", "cbAdvance"} =>
            req[p].s \in OAuthStates /\ authz'[req[p].s].shown
      BY <1>2, <3>1 DEF RequestCurrent, TypeInv, RequestsOK
    <3>4. req[p].pc = "cbSaveNext" =>
            /\ req[p].job.oauth \in OAuthStates
            /\ Unspent(req[p].job.oauth, req[p].id)' /\ ~authz'[req[p].job.oauth].shown
      <4> SUFFICES ASSUME req[p].pc = "cbSaveNext"
                   PROVE  /\ req[p].job.oauth \in OAuthStates
                          /\ Unspent(req[p].job.oauth, req[p].id)' /\ ~authz'[req[p].job.oauth].shown
        OBVIOUS
      <4>1. PICK t, j : t = req[p].job.oauth /\ j = req[p].id OBVIOUS
      <4>2. t \in OAuthStates /\ Unspent(t, j) /\ ~authz[t].shown BY <3>1, <4>1 DEF RequestCurrent
      <4>3. t # n BY <1>1, <3>2, <4>1, <4>2 DEF Unspent
      <4>4. Unspent(t, j)' /\ ~authz'[t].shown BY <1>2, <1>3, <4>2, <4>3
      <4>5. QED BY <3>1, <4>1, <4>2, <4>4
    <3>5. req[p].pc \in {"cbClear", "cbAdvance"} /\ Unspent(req[p].s, req[p].id)' =>
            Unspent(req[p].s, req[p].id)
      BY <1>3, <3>1, <3>3
    <3>6. QED BY <3>1, <3>3, <3>4, <3>5 DEF RequestCurrent
  <2>3. QED BY <2>1, <2>2
<1>9. \A w \in Workers : WorkerCurrent(w)' BY DEF Once, Current, WorkerCurrent
<1>10. OneHolder' BY <1>7 DEF Once, Current, OneHolder
<1>11. QED BY <1>4, <1>5, <1>6, <1>8, <1>9, <1>10 DEF Once, Current

\* The work under way for a job can be counted.
LEMMA LoadCount ==
    ASSUME TypeInv, NEW id \in Jobs
    PROVE  /\ IsFiniteSet(Pushing(id))
           /\ Cardinality(Pushing(id)) \in Nat /\ Cardinality(Queued(id)) \in Nat
           /\ Cardinality(Trying(id)) \in Nat
<1>1. Pushing(id) \in SUBSET Requests /\ Trying(id) \in SUBSET Workers BY DEF Pushing, Trying
<1>2. IsFiniteSet(Pushing(id)) /\ IsFiniteSet(Trying(id)) BY <1>1, FS_Subset, ProcessesAssumption
<1>3. IsFiniteSet(Queued(id)) BY QueuedFinite DEF Queued, TypeInv, StoreTypeOK
<1>4. QED BY <1>2, <1>3, FS_CardinalityType

\* A request that is about to push work was consented to.
LEMMA PushIsPaid ==
    ASSUME TypeInv, Paid, NEW r \in Requests, NEW id \in Jobs, Pushes(req[r], id)
    PROVE  seen[id].accepted > 0
<1>1. r \in Pushing(id) BY DEF Pushing
<1>2. Cardinality(Pushing(id)) # 0 BY <1>1, LoadCount, FS_EmptySet
<1>3. signapi[id].calls \in Nat /\ seen[id].accepted \in Nat
  BY DEF TypeInv, UpstreamTypeOK, SignAPIType, SeenOK, SeenType
<1>4. QED BY <1>2, <1>3, LoadCount DEF Paid, Load

LEMMA RequestStepOnce ==
    ASSUME TypeInv, Safe, Paid, Once, NEW r \in Requests, RequestStep(r) PROVE Once'
<1> USE DEF TypeInv
<1>a. PICK id, x, s : id = req[r].id /\ x = req[r].job /\ s = req[r].s OBVIOUS
<1>0. /\ req[r].pc # "idle" => id \in Jobs
      /\ req[r].pc \in HoldingPCs => x \in JobType /\ Settled(x, signapi[id].digest)
      /\ req[r].pc \in {"cbLoad", "cbClear", "cbAdvance"} =>
           s \in OAuthStates /\ authz[s].job = id /\ authz[s].shown
      /\ req[r].pc \in {"cbClear", "cbAdvance"} /\ Unspent(s, id) => Fresh(x, signapi[id].digest)
      /\ req[r].pc \in {"cbSave", "statusEmit", "statusSave"} => Terminal(x.state)
      /\ req[r].pc = "cbSaveNext" => Fresh(x, signapi[id].digest)
  BY <1>a DEF RequestsOK, Once, Current, RequestCurrent, Safe, RequestsSound
<1>1. \A y \in JobType : Terminal(Fail(y).state) BY DEF Fail, Terminal, JobType
<1>2. \A y, d : Terminal(y.state) => Settled(y, d) BY DEF Terminal, Settled
<1>3. CASE CallbackLoad(r)
  <2>1. UNCHANGED <<store, signapi, authz, wrk, seen>> BY <1>3 DEF CallbackLoad, storeVars, upVars
  <2>2. id \in Jobs /\ s \in OAuthStates /\ authz[s].shown BY <1>0, <1>3 DEF CallbackLoad
  <2>3. RequestsMoved
    <3>1. CASE Respond(r) BY <3>1, RespondCurrent
    <3>2. CASE Exists(id) /\ req' = [req EXCEPT ![r].pc = "cbClear", ![r].job = store[id]]
      <4>1. /\ req'[r].pc = "cbClear" /\ req'[r].id = id /\ req'[r].s = s /\ req'[r].job = store[id]
            /\ \A p \in Requests : p # r => req'[p] = req[p]
        BY <1>a, <3>2 DEF RequestsOK, RequestType
      <4>2. /\ Settled(store[id], signapi[id].digest)
            /\ Unspent(s, id) => Fresh(store[id], signapi[id].digest)
        BY <2>2, <3>2 DEF Once, Current, StoreCurrent, Usable
      <4>3. PICK i, t : i = id /\ t = s OBVIOUS
      <4>4. Unspent(t, i)' => Unspent(s, id) BY <2>1, <4>3 DEF Unspent
      <4>5. RequestCurrent(r)' BY <2>1, <2>2, <4>1, <4>2, <4>3, <4>4 DEF RequestCurrent
      <4>6. QED BY <4>1, <4>5 DEF RequestsMoved
    <3>3. QED BY <1>a, <1>3, <3>1, <3>2 DEF CallbackLoad
  <2>4. SessionsStay /\ WorkersMoved BY <2>1 DEF SessionsStay, WorkersMoved
  <2>5. QED BY <2>1, <2>3, <2>4, NoSave, QuietPages
<1>4. CASE CallbackClear(r)
  <2>1. UNCHANGED <<store, signapi, authz, wrk, seen>> BY <1>4 DEF CallbackClear, storeVars, upVars
  <2>2. RequestsMoved
    <3>1. /\ req'[r].pc = "cbAdvance" /\ req'[r].id = id /\ req'[r].s = s /\ req'[r].job = x
          /\ \A p \in Requests : p # r => req'[p] = req[p]
      BY <1>a, <1>4 DEF CallbackClear, RequestsOK, RequestType
    <3>2. /\ authz[s].shown /\ Settled(x, signapi[id].digest)
          /\ Unspent(s, id) => Fresh(x, signapi[id].digest)
      BY <1>0, <1>4 DEF CallbackClear, HoldingPCs
    <3>3. PICK i, t : i = id /\ t = s OBVIOUS
    <3>4. Unspent(t, i)' => Unspent(s, id) BY <2>1, <3>3 DEF Unspent
    <3>5. RequestCurrent(r)' BY <2>1, <3>1, <3>2, <3>3, <3>4 DEF RequestCurrent
    <3>6. QED BY <3>1, <3>5 DEF RequestsMoved
  <2>3. SessionsStay /\ WorkersMoved BY <2>1 DEF SessionsStay, WorkersMoved
  <2>4. QED BY <2>1, <2>2, <2>3, NoSave, QuietPages
<1>5. CASE CallbackFails(r)
  <2>1. UNCHANGED <<store, signapi, wrk, seen>> BY <1>5 DEF CallbackFails, Advance, storeVars
  <2>2. x \in JobType /\ id \in Jobs /\ s \in OAuthStates
    BY <1>0, <1>5 DEF CallbackFails, Advance, HoldingPCs
  <2>3. PICK y \in JobType : Goto(r, "cbSave", id, Fail(y))
    BY <1>a, <1>5, <2>2, CodeExchangedType DEF CallbackFails
  <2>4. RequestsMoved BY <1>1, <1>2, <2>3, GotoCurrent
  <2>5. UNCHANGED authz \/ (authz[s].codes > 0 /\ authz' = SpendCode(s))
    BY <1>a, <1>5 DEF CallbackFails, CanExchange
  <2>6. OnePage' /\ \A j \in Jobs : PagesKept(j)
    BY <2>2, <2>5, SpendPages, SamePages, SameOnePage DEF Once, Safe
  <2>7. MovedCurrent BY <2>1, <2>4 DEF MovedCurrent, RequestsMoved
  <2>8. \A j \in Jobs : SameConsent(j) BY <2>1 DEF SameConsent
  <2>9. QED BY <2>1, <2>6, <2>7, <2>8, QuietOnce
<1>6. CASE AdvanceFirstLeg(r) \/ AdvanceFirstLegFails(r)
  <2>1. UNCHANGED <<store, wrk, seen>>
    BY <1>6 DEF AdvanceFirstLeg, AdvanceFirstLegFails, Exchange, Advance, storeVars
  <2>2. x \in JobType /\ id \in Jobs /\ s \in OAuthStates /\ authz[s].job = id /\ authz[s].codes > 0
    BY <1>a, <1>0, <1>6
    DEF AdvanceFirstLeg, AdvanceFirstLegFails, Exchange, Advance, CanExchange, HoldingPCs
  <2>3. PICK d \in Nat : d = NextDigest(id) BY <2>2 DEF NextDigest, UpstreamTypeOK, SignAPIType
  <2>4. /\ signapi'[id].digest = d /\ signapi'[id].sess = signapi[id].sess
        /\ \A j \in Jobs : j # id => signapi'[j] = signapi[j]
    <3>1. signapi' = [signapi EXCEPT ![id].digest = d]
      BY <1>a, <1>6, <2>3 DEF AdvanceFirstLeg, AdvanceFirstLegFails, CalculateDigest
    <3>2. QED BY <2>2, <3>1 DEF UpstreamTypeOK, SignAPIType
  <2>5. PICK n \in Nat : n = NewState BY BoundsAssumption DEF NewState, UpstreamTypeOK
  <2> DEFINE c == CodeExchanged(x)
             y == FirstLegCompleted(c, n, d)
  <2>6. c \in JobType BY <2>2, CodeExchangedType
  <2> HIDE DEF c
  <2>7. /\ y \in JobType /\ y.digest = d /\ y.oauth = n
        /\ DigestsCalculated(c, d) \in JobType
    <3>1. y \in JobType /\ DigestsCalculated(c, d) \in JobType
      BY <2>6, FirstLegCompletedType, DigestsCalculatedType
    <3>2. DigestsCalculated(c, d).digest = d BY <2>6 DEF DigestsCalculated, JobType
    <3>3. y.digest = DigestsCalculated(c, d).digest /\ y.oauth = n
      BY <3>1 DEF FirstLegCompleted, AwaitCallback, JobType
    <3>4. QED BY <3>1, <3>2, <3>3
  <2> HIDE DEF y
  <2>8. OnePage /\ OneConsent(id) /\ AuthzSound BY <2>2 DEF Once, Safe
  <2>9. \E t \in OAuthStates : authz[t].job = id BY <2>2
  \* The next page is put up.
  <2>10. ASSUME NEW l, NEW e, CanMint, NextPage(s, n, id, l, e), NEW pc, Goto(r, pc, id, y),
                pc = "cbSaveNext"
         PROVE  Once'
    <3>1. /\ \A j \in Jobs : j # id => PagesKept(j)
          /\ PagesReplaced(id) /\ OnePage' /\ \A t \in OAuthStates : ~Usable(t, id)'
          /\ n \in OAuthStates /\ Unspent(n, id)' /\ ~authz'[n].shown
      BY <2>2, <2>5, <2>8, <2>10, SpendMintPages
    <3>2. /\ req'[r].pc = "cbSaveNext" /\ req'[r].id = id /\ req'[r].job = y
          /\ \A p \in Requests : p # r => req'[p] = req[p]
      BY <2>10 DEF Goto, RequestsOK
    <3>3. Settled(y, signapi'[id].digest) /\ Fresh(y, signapi'[id].digest)
      BY <2>4, <2>7 DEF Settled, Fresh
    <3>4. RequestCurrent(r)' BY <2>7, <3>1, <3>2, <3>3 DEF RequestCurrent
    <3>5. QED BY <2>1, <2>2, <2>4, <2>9, <3>1, <3>2, <3>4, ExchangedOnce
  <2>11. ASSUME NEW l, NEW e, CanMint, NextPage(s, n, id, l, e), Goto(r, "cbSave", id, Fail(y))
         PROVE  Once'
    <3>1. /\ \A j \in Jobs : j # id => PagesKept(j)
          /\ PagesReplaced(id) /\ OnePage' /\ \A t \in OAuthStates : ~Usable(t, id)'
      BY <2>2, <2>5, <2>8, <2>11, SpendMintPages
    <3>2. /\ req'[r].pc = "cbSave" /\ req'[r].id = id /\ req'[r].job = Fail(y)
          /\ \A p \in Requests : p # r => req'[p] = req[p]
      BY <2>11 DEF Goto, RequestsOK
    <3>3. RequestCurrent(r)' BY <1>1, <1>2, <2>7, <3>2 DEF RequestCurrent
    <3>4. QED BY <2>1, <2>2, <2>4, <2>9, <3>1, <3>2, <3>3, ExchangedOnce
  \* The job fails without a next page.
  <2>12. ASSUME authz' = SpendCode(s), NEW z \in JobType, Goto(r, "cbSave", id, Fail(z))
         PROVE  Once'
    <3>1. /\ \A j \in Jobs : PagesKept(j)
          /\ PagesReplaced(id) /\ OnePage' /\ \A t \in OAuthStates : ~Usable(t, id)'
      BY <2>2, <2>8, <2>12, SpendPages, LastPage
    <3>2. /\ req'[r].pc = "cbSave" /\ req'[r].id = id /\ req'[r].job = Fail(z)
          /\ \A p \in Requests : p # r => req'[p] = req[p]
      BY <2>12 DEF Goto, RequestsOK
    <3>3. RequestCurrent(r)' BY <1>1, <1>2, <2>12, <3>2 DEF RequestCurrent
    <3>4. QED BY <2>1, <2>2, <2>4, <2>9, <3>1, <3>2, <3>3, ExchangedOnce
  <2>13. CASE AdvanceFirstLeg(r)
    <3>1. /\ CanMint /\ NextPage(s, n, id, "sign", Asked(x, d))
          /\ Goto(r, "cbSaveNext", id, y)
      BY <1>a, <2>3, <2>5, <2>13 DEF AdvanceFirstLeg, NextPage, y, c
    <3>2. QED BY <2>10, <3>1
  <2>14. CASE AdvanceFirstLegFails(r)
    <3>1. \/ /\ authz' = SpendCode(s)
             /\ Goto(r, "cbSave", id, Fail(c)) \/ Goto(r, "cbSave", id, Fail(DigestsCalculated(c, d)))
          \/ /\ CanMint /\ NextPage(s, n, id, "sign", Asked(x, d))
             /\ Goto(r, "cbSave", id, Fail(y))
      BY <1>a, <2>3, <2>5, <2>14 DEF AdvanceFirstLegFails, NextPage, y, c
    <3>2. QED BY <2>6, <2>7, <2>11, <2>12, <3>1
  <2>15. QED BY <1>6, <2>13, <2>14
<1>7. CASE AdvanceSignLeg(r)
  <2>1. UNCHANGED <<store, signapi, wrk>> BY <1>7 DEF AdvanceSignLeg, Exchange, Advance, storeVars
  <2>2. /\ x \in JobType /\ id \in Jobs /\ s \in OAuthStates /\ x.leg = "sign"
        /\ authz[s].job = id /\ authz[s].codes > 0 /\ authz' = SpendCode(s)
    BY <1>a, <1>0, <1>7 DEF AdvanceSignLeg, Exchange, Advance, CanExchange, HoldingPCs
  <2>3. Unspent(s, id) BY <2>2 DEF Unspent
  <2>4. Settled(x, signapi[id].digest) /\ Fresh(x, signapi[id].digest)
    BY <1>0, <1>7, <2>3 DEF AdvanceSignLeg, Exchange, Advance, HoldingPCs
  <2>5. PICK b : Goto(r, "cbSaveDone", id, SignLegCompleted(CodeExchanged(x), b))
    BY <1>a, <1>7 DEF AdvanceSignLeg
  <2> DEFINE y == SignLegCompleted(CodeExchanged(x), b)
  <2>6. /\ y.digest = x.digest
        /\ y.state = x.state \/ (y.state = "SIGNING" /\ CanTransition(x.state, "SIGNING"))
    BY <2>2 DEF SignLegCompleted, CodeExchanged, Transition, JobType
  <2>7. CanTransition(x.state, "SIGNING") => x.state \in {"SIGNING", "AWAITING_AUTHORIZATION"}
    BY DEF CanTransition, transitions
  <2> HIDE DEF y
  <2>8. Settled(y, signapi'[id].digest) BY <2>1, <2>2, <2>4, <2>6, <2>7 DEF Settled, Fresh
  <2>9. RequestsMoved BY <2>5, <2>8, GotoCurrent DEF y
  <2>10. /\ \A j \in Jobs : PagesKept(j)
         /\ OnePage' /\ \A t \in OAuthStates : ~Unspent(t, id)'
    BY <2>2, SpendPages DEF Once, Safe
  <2>11. \A j \in Jobs : seen'[j].accepted = IF j = id THEN seen[j].accepted + 1 ELSE seen[j].accepted
    BY <1>a, <1>7 DEF AdvanceSignLeg, SeenOK, SeenType
  <2>12. \A j \in Jobs : OneConsent(j)'
    <3> TAKE j \in Jobs
    <3>1. CASE j = id
      <4>1. seen[id].accepted = 0 /\ signapi[id].sess # "unborn"
        BY <2>2, <2>3 DEF Once, OneConsent, SeenOK, SeenType
      <4>2. QED BY <2>1, <2>10, <2>11, <3>1, <4>1 DEF OneConsent
    <3>2. CASE j # id
      <4>1. SameConsent(j) BY <2>1, <2>11, <3>2 DEF SameConsent
      <4>2. QED BY <2>10, <4>1, ConsentKept DEF Once
    <3>3. QED BY <3>1, <3>2
  <2>13. MovedCurrent BY <2>1, <2>9 DEF MovedCurrent, RequestsMoved
  <2>14. QED BY <2>1, <2>10, <2>12, <2>13, KeptOnce DEF Once
<1>8. CASE CallbackSave(r) \/ StatusSave(r)
  <2>1. UNCHANGED <<signapi, authz, wrk, seen>> BY <1>8 DEF CallbackSave, StatusSave, upVars
  <2>2. id \in Jobs /\ Terminal(x.state) BY <1>0, <1>8 DEF CallbackSave, StatusSave
  <2>3. \A j \in Jobs : store'[j] = store[j] \/ StoreCurrent(j)'
    BY <1>a, <1>8, <2>2, SaveTerminal DEF CallbackSave, StatusSave
  <2>4. RequestsMoved BY <1>8, RespondCurrent DEF CallbackSave, StatusSave
  <2>5. SessionsStay /\ WorkersMoved BY <2>1 DEF SessionsStay, WorkersMoved
  <2>6. QED BY <2>1, <2>3, <2>4, <2>5, QuietPages
<1>9. CASE CallbackSaveNext(r)
  <2>1. UNCHANGED <<signapi, wrk, seen>> /\ Respond(r) BY <1>9 DEF CallbackSaveNext
  <2>2. id \in Jobs /\ Settled(x, signapi[id].digest) /\ Fresh(x, signapi[id].digest)
    BY <1>0, <1>9 DEF CallbackSaveNext, HoldingPCs
  <2>3. CASE UNCHANGED authz /\ Save(id, x)
    <3>1. \A j \in Jobs : store'[j] = store[j] \/ StoreCurrent(j)' BY <2>1, <2>2, <2>3, SaveCurrent
    <3>2. RequestsMoved BY <2>1, RespondCurrent
    <3>3. SessionsStay /\ WorkersMoved BY <2>1 DEF SessionsStay, WorkersMoved
    <3>4. QED BY <2>1, <2>3, <3>1, <3>2, <3>3, QuietPages
  <2>4. CASE SaveOK(id, x) /\ authz' = [authz EXCEPT ![x.oauth].shown = TRUE]
    BY <1>a, <1>9, <2>1, <2>4, ShownOnce DEF CallbackSaveNext
  <2>5. QED BY <1>a, <1>9, <2>3, <2>4, TrySaveIsSave DEF CallbackSaveNext, TrySave
<1>10. CASE SaveForWork(r)
  <2>1. UNCHANGED <<signapi, authz, wrk, seen>> BY <1>10 DEF SaveForWork, upVars
  <2>2. id \in Jobs /\ Settled(x, signapi[id].digest) BY <1>0, <1>10 DEF SaveForWork, HoldingPCs
  <2>3. seen[id].accepted > 0 BY <1>a, <1>10, <2>2, PushIsPaid DEF SaveForWork, Pushes
  <2>4. \A t \in OAuthStates : ~Unspent(t, id) BY <2>2, <2>3 DEF Once, OneConsent
  <2>5. PICK i : i = id OBVIOUS
  <2>6. \A t \in OAuthStates : ~Usable(t, i)' BY <2>1, <2>4, <2>5 DEF Usable, Unspent
  <2>7. Save(id, x) BY <1>a, <1>10, TrySaveIsSave DEF SaveForWork
  <2>8. \A j \in Jobs : store'[j] = store[j] \/ StoreCurrent(j)'
    BY <2>1, <2>2, <2>5, <2>6, <2>7, SaveCurrent
  <2>9. RequestsMoved
    <3>1. Respond(r) \/ Goto(r, "enqueue", id, NoJob) BY <1>a, <1>10 DEF SaveForWork
    <3>2. QED BY <3>1, RespondCurrent, GotoCurrent DEF HoldingPCs
  <2>10. SessionsStay /\ WorkersMoved BY <2>1 DEF SessionsStay, WorkersMoved
  <2>11. QED BY <2>1, <2>8, <2>9, <2>10, QuietPages
<1>11. CASE EnqueueWork(r)
  <2>1. UNCHANGED <<store, signapi, authz, wrk, seen>> BY <1>11 DEF EnqueueWork, upVars
  <2>2. RequestsMoved BY <1>11, RespondCurrent DEF EnqueueWork
  <2>3. SessionsStay /\ WorkersMoved BY <2>1 DEF SessionsStay, WorkersMoved
  <2>4. QED BY <2>1, <2>2, <2>3, NoSave, QuietPages
<1>12. CASE DeleteKeys(r)
  <2>1. UNCHANGED <<authz, wrk>> /\ id \in Jobs BY <1>0, <1>12 DEF DeleteKeys
  <2>2. \A j \in Jobs : seen'[j].accepted = seen[j].accepted
    BY <1>12 DEF DeleteKeys, SeenOK, SeenType
  <2>3. SessionsStay BY <1>a, <1>12, <2>1, SessionsStayBy DEF DeleteKeys
  <2>4. \A j \in Jobs : store'[j] = store[j] \/ StoreCurrent(j)'
    BY <1>a, <1>12, <2>1, DropCurrent DEF DeleteKeys, DeleteOK, DeleteFails
  <2>5. RequestsMoved BY <1>12, RespondCurrent DEF DeleteKeys
  <2>6. WorkersMoved BY <2>1 DEF WorkersMoved
  <2>7. QED BY <2>1, <2>2, <2>3, <2>4, <2>5, <2>6, QuietPages
<1>13. CASE StatusEmit(r)
  <2> DEFINE y == [x EXCEPT !.audited = TRUE]
  <2>0. id \in Jobs /\ x \in JobType /\ Terminal(x.state) BY <1>0, <1>13 DEF StatusEmit, HoldingPCs
  <2>1. UNCHANGED <<store, signapi, authz, wrk>> BY <1>13 DEF StatusEmit, storeVars, upVars
  <2>2. RequestsMoved
    <3>1. Terminal(y.state) BY <2>0 DEF JobType
    <3>2. Goto(r, "statusSave", id, y) BY <1>a, <1>13 DEF StatusEmit
    <3> HIDE DEF y
    <3>3. Settled(y, signapi'[id].digest) BY <1>2, <3>1
    <3>4. QED BY <3>1, <3>2, <3>3, GotoCurrent
  <2>3. \A j \in Jobs : seen'[j].accepted = seen[j].accepted
    BY <1>a, <1>13, <2>0 DEF StatusEmit, SeenOK, SeenType
  <2>4. SessionsStay /\ WorkersMoved BY <2>1 DEF SessionsStay, WorkersMoved
  <2>5. QED BY <2>1, <2>2, <2>3, <2>4, NoSave, QuietPages
<1>14. QED
  BY <1>3, <1>4, <1>5, <1>6, <1>7, <1>8, <1>9, <1>10, <1>11, <1>12, <1>13 DEF RequestStep

----------------------------------------------------------------------------
(* The theorems.                                                           *)

LEMMA OnceInit == Init => Once
<1> SUFFICES ASSUME Init PROVE Once OBVIOUS
<1>1. \A s \in OAuthStates : \A id \in Jobs :
        authz[s].job # id /\ authz[s].approvals = 0
  BY JobsAssumption DEF Init, UpstreamInit
<1>2. OnePage
  <2>1. \A s \in OAuthStates : authz[s].approvals <= 1 /\ ~(authz[s].approvals > 0)
    BY DEF Init, UpstreamInit
  <2>2. QED BY <1>1, <2>1 DEF OnePage, Unspent
<1>3. \A id \in Jobs : OneConsent(id) BY <1>1 DEF OneConsent, Unspent, Init
<1>4. Current
  BY DEF Current, StoreCurrent, RequestCurrent, WorkerCurrent, OneHolder, Exists, HoldingPCs, Init,
         StoreInit, IdleRequest, IdleWorker
<1>5. QED BY <1>2, <1>3, <1>4 DEF Once

LEMMA OnceStep ==
    OneCode /\ TypeInv /\ Safe /\ Paid /\ Once /\ [Next]_vars => Once'
<1> SUFFICES ASSUME OneCode, TypeInv, Safe, Paid, Once, [Next]_vars PROVE Once' OBVIOUS
<1>1. CASE Next
  BY <1>1, EnvironmentOnce, RequestStepOnce, WorkerStepOnce, CloseStepOnce DEF Next
<1>2. CASE UNCHANGED vars
  <2>1. UNCHANGED <<store, signapi, authz, req, wrk, seen>> BY <1>2 DEF vars, storeVars, upVars
  <2>2. SessionsStay /\ RequestsMoved /\ WorkersMoved BY <2>1 DEF SessionsStay, RequestsMoved, WorkersMoved
  <2>3. QED BY <2>1, <2>2, NoSave, QuietPages
<1>3. QED BY <1>1, <1>2

\* With one code per page the inductive invariant holds in every reachable state.
LEMMA AlwaysOnce == ASSUME OneCode PROVE Spec => [](TypeInv /\ Safe /\ Paid /\ Once)
<1>1. Init => Once BY OnceInit
<1>2. TypeInv /\ Safe /\ Paid /\ Once /\ [Next]_vars => Once' BY OnceStep
<1>3. QED BY <1>1, <1>2, AlwaysPaid, PTL DEF Spec

\* FinalizeSigning is called at most once for a remote job whose pages are confirmed once
\* each, whatever callbacks, reloads, polls, workers and faults interleave.
THEOREM RemoteFinalizedAtMostOnce == ASSUME OneCode PROVE Spec => []FinalizeAtMostOnce
<1>1. TypeInv /\ Paid /\ Once => FinalizeAtMostOnce
  <2> SUFFICES ASSUME TypeInv, Paid, Once, NEW id \in Jobs PROVE signapi[id].calls <= 1
    BY DEF FinalizeAtMostOnce
  <2>1. signapi[id].calls \in Nat /\ seen[id].accepted \in Nat
    BY DEF TypeInv, UpstreamTypeOK, SignAPIType, SeenOK, SeenType
  <2>2. QED BY <2>1, LoadCount DEF Paid, Load, Once, OneConsent
<1>2. QED BY <1>1, AlwaysOnce, PTL

\* A worker about to finalize such a job holds the digests its SignAPI session last
\* calculated, so the signatures it attaches are of the container as it is.
THEOREM RemoteFinalizesCurrentDigest == ASSUME OneCode PROVE Spec => []FinalizesCurrentDigest
<1>1. TypeInv /\ Safe /\ Once => FinalizesCurrentDigest
  BY DEF Once, Current, WorkerCurrent, Settled, Safe, WorkersSound, FinalizesCurrentDigest
<1>2. QED BY <1>1, AlwaysOnce, PTL
=============================================================================
