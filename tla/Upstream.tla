------------------------------ MODULE Upstream ------------------------------
(***************************************************************************)
(* The two external services, as the code in signapi/ and entrust/ uses    *)
(* them: SignAPI (sessions, digests, finalize) and the eParaksts platform  *)
(* (browser authorizations, their single-use codes, the signing calls).    *)
(* Every call may fail; a failed call may still have taken effect.         *)
(***************************************************************************)
EXTENDS Store

CONSTANTS
    MaxDigests,   \* bound: CalculateDigest runs per job
    MaxApprovals, \* bound: how often the person confirms one first-leg page
    MaxConfirms   \* bound: how often the person confirms one signature page

ASSUME UpstreamAssumption ==
    MaxDigests \in Nat \ {0} /\ MaxApprovals \in Nat /\ MaxConfirms \in Nat

VARIABLES
    signapi,  \* per job: its sessions, the last digests, the finalize calls
    authz,    \* per OAuth state: the authorization request it correlates
    minted    \* OAuth states minted so far

upVars == <<signapi, authz, minted>>

\* "unborn": the id is not used yet; "none": no session could be started;
\* "closing": a background close is under way.
Sessions == {"unborn", "none", "open", "closing", "closed"}

SignAPIType == [sess : Sessions, digest : 0..MaxDigests, calls : Nat, finalized : BOOLEAN]

\* shown: the caller got the authorize URL; codes: confirmed and not yet exchanged.
AuthzType ==
    [job : Jobs \cup {NoJob}, leg : Legs, digest : Nat, shown : BOOLEAN,
     approvals : Nat, codes : Nat]

UpstreamTypeOK ==
    /\ signapi \in [Jobs -> SignAPIType]
    /\ authz \in [OAuthStates -> AuthzType]
    /\ minted \in 0..MaxStates

UpstreamInit ==
    /\ signapi = [id \in Jobs |->
                    [sess |-> "unborn", digest |-> 0, calls |-> 0, finalized |-> FALSE]]
    /\ authz = [s \in OAuthStates |->
                  [job |-> NoJob, leg |-> "none", digest |-> 0, shown |-> FALSE,
                   approvals |-> 0, codes |-> 0]]
    /\ minted = 0

----------------------------------------------------------------------------
(* SignAPI.                                                                *)

SessionUsable(id) == signapi[id].sess \in {"open", "closing"}

StartSession(id) == signapi[id].sess = "unborn"

\* CalculateDigest replaces the data-to-be-signed of the job's sessions.
CalculateDigestEnabled(id) == SessionUsable(id) /\ signapi[id].digest < MaxDigests
NextDigest(id) == signapi[id].digest + 1

\* Mutant of CalculateDigest: the call is retried although the first one arrived.
CalculateTwice(id) == signapi' = [signapi EXCEPT ![id].digest = NextDigest(id) + 1]

CalculateDigest(id) == signapi' = [signapi EXCEPT ![id].digest = NextDigest(id)]

\* FinalizeSigning: one call.  An error may hide a container that was finalized.
FinalizeSigning(id, ok) ==
    /\ ok => SessionUsable(id)
    /\ \E applied \in BOOLEAN :
         /\ ok => applied
         /\ applied => SessionUsable(id)
         /\ signapi' = [signapi EXCEPT ![id].calls = @ + 1,
                                       ![id].finalized = IF applied THEN TRUE ELSE @]

\* closeSessions hands the closes to a background task.
CloseLater(id) ==
    signapi' = [signapi EXCEPT ![id].sess = IF @ = "open" THEN "closing" ELSE @]

\* The background close ends: best effort, or lost with the process.
CloseSession(id) ==
    /\ signapi[id].sess = "closing"
    /\ \E end \in {"closed", "open"} : signapi' = [signapi EXCEPT ![id].sess = end]
    /\ UNCHANGED <<authz, minted>>

----------------------------------------------------------------------------
(* The platform: authorizations and codes.                                 *)

CanMint == minted < MaxStates

\* Mutant of NewState: the generator repeats itself.
SameState == IF minted = 0 THEN 1 ELSE minted

NewState == minted + 1

\* An authorization request for job id at leg l, bound to digests d (0: none).
Request(id, l, d, shown) ==
    [job |-> id, leg |-> l, digest |-> d, shown |-> shown, approvals |-> 0, codes |-> 0]

Mint(id, l, d, shown) ==
    /\ minted' = NewState
    /\ authz' = [authz EXCEPT ![NewState] = Request(id, l, d, shown)]

\* The person confirms in the browser: the provider issues a single-use code and
\* redirects to the callback.  Going back and confirming again issues another.
Approve(s) ==
    /\ authz[s].shown
    /\ authz[s].approvals < IF authz[s].leg = "sign" THEN MaxConfirms ELSE MaxApprovals
    /\ authz' = [authz EXCEPT ![s].approvals = @ + 1, ![s].codes = @ + 1]
    /\ UNCHANGED <<signapi, minted>>

\* Mutant of CanExchange: a repeated callback exchanges its code again.
CodeAgain(x, s) == IsCSC(x.flow) => x.pkce = s

\* The provider honours a code once, and for CSC only with its request's verifier.
CanExchange(x, s) == authz[s].codes > 0 /\ (IsCSC(x.flow) => x.pkce = s)

SpendCode(s) == [authz EXCEPT ![s].codes = @ - 1]

\* What the token of a code is bound to.  TrustedX: what its authorization showed
\* (0 for a profile authorization).  CSC: whatever the provider answers.
TokenBindings(x, s) ==
    IF IsCSC(x.flow) THEN {authz[s].digest, 0} ELSE {authz[s].digest}

\* TrustedX signs only the digests its token is bound to; a CSC signHash may sign.
SignerAccepts(x) == IsCSC(x.flow) \/ (x.token > 0 /\ x.token = x.digest)
=============================================================================
