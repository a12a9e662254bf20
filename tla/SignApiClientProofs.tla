------------------------ MODULE SignApiClientProofs ------------------------
(***************************************************************************)
(* SignApiClient for any number of attempts: an attempt of a call that is  *)
(* not safe to repeat is followed by another one only if its request never *)
(* reached the provider, which is what the inductive invariant records.    *)
(* And the token cache for any time limits: what is cached may outlive the *)
(* cache's own idea of it by no more than one grant's time limit.          *)
(***************************************************************************)
EXTENDS SignApiClient, TLAPS

\* The request of an attempt is nowhere and will reach nobody.
Gone(a) == sent[a] \in {"unsent", "refused"}

\* Earlier attempts are gone, later ones not made; a pending one is unsent, and one
\* that is to be repeated, or ended as not taken, is gone as well.
OneLive ==
    mode # "retried" =>
        /\ \A a \in Attempts : a < attempt => Gone(a)
        /\ \A a \in Attempts : a > attempt => sent[a] = "unsent"
        /\ pc = "send" => sent[attempt] = "unsent"
        /\ pc = "backoff" => Gone(attempt)
        /\ pc = "backoff" => notTaken(outcome)
        /\ pc = "ended" /\ notTaken(outcome) => Gone(attempt)

\* The initial state satisfies the invariant.
LEMMA OneLiveInit == Init => TypeOK /\ OneLive
<1> SUFFICES ASSUME Init PROVE TypeOK /\ OneLive OBVIOUS
<1>1. TokenTypeOK
  BY DEF Init, TokenInit, TokenTypeOK, IdleCaller, NoToken, CallerType, CallerPCs
<1>2. QED
  BY <1>1, MaxAttemptsAssumption
  DEF Init, TypeOK, OneLive, Modes, Outcomes, Fates, Attempts, Gone, notTaken

\* Every step of a caller of the token cache keeps its types.
LEMMA TokenTypeStep ==
    ASSUME TokenTypeOK, NEW c \in Callers, IntrospectToken(c) \/ Issue(c) \/ Release(c)
    PROVE  TokenTypeOK'
<1> USE TimesAssumption DEF TokenTypeOK, CallerType, CallerPCs, IdleCaller, NoToken
<1>1. CASE Cached(c) BY <1>1 DEF Cached, HandOut
<1>2. CASE Mint(c) BY <1>2 DEF Mint
<1>3. CASE Store(c) BY <1>3 DEF Store, HandOut
<1>4. CASE StoreEmpty(c) BY <1>4 DEF StoreEmpty, HandOut
<1>5. CASE MintFails(c) BY <1>5 DEF MintFails
<1>6. CASE Issue(c) BY <1>6 DEF Issue
<1>7. CASE Release(c) BY <1>7 DEF Release
<1>8. QED BY <1>1, <1>2, <1>3, <1>4, <1>5, <1>6, <1>7 DEF IntrospectToken

\* Time keeps the types of the token cache.
LEMMA TickTypeStep == TokenTypeOK /\ Tick => TokenTypeOK'
BY DEF TokenTypeOK, Tick

\* Every step keeps the types.
LEMMA TypeStep == TypeOK /\ [Next]_vars => TypeOK'
<1> SUFFICES ASSUME TypeOK, [Next]_vars PROVE TypeOK' OBVIOUS
<1> USE MeAssumption DEF TypeOK
<1>1. CASE Send
  <2>1. TokenTypeOK' BY <1>1, TokenTypeStep DEF Send
  <2>2. QED BY <1>1, <2>1 DEF Send, Fates
<1>2. CASE NotSent
  <2>1. TokenTypeOK' BY <1>2, TokenTypeStep DEF NotSent
  <2>2. QED BY <1>2, <2>1 DEF NotSent, Answer, Outcomes
<1>3. CASE Answered BY <1>3 DEF Answered, Answer, Outcomes, tokenVars, TokenTypeOK
<1>4. CASE Refused BY <1>4 DEF Refused, Answer, Outcomes, Fates, tokenVars, TokenTypeOK
<1>5. CASE GiveUp BY <1>5 DEF GiveUp, Answer, Outcomes, tokenVars, TokenTypeOK
<1>6. CASE Backoff
  BY <1>6, MaxAttemptsAssumption DEF Backoff, Outcomes, Attempts, tokenVars, TokenTypeOK
<1>7. CASE Provider BY <1>7 DEF Provider, Becomes, Fates, tokenVars, TokenTypeOK
<1>8. CASE Authorize
  <2>1. TokenTypeOK' BY <1>8, TokenTypeStep DEF Authorize
  <2>2. QED BY <1>8, <2>1 DEF Authorize, callVars
<1>9. CASE Elsewhere
  <2>1. TokenTypeOK' BY <1>9, TokenTypeStep, TickTypeStep DEF Elsewhere
  <2>2. QED BY <1>9, <2>1 DEF Elsewhere, callVars
<1>10. CASE UNCHANGED vars BY <1>10 DEF vars, callVars, tokenVars, TokenTypeOK
<1>11. QED
  BY <1>1, <1>2, <1>3, <1>4, <1>5, <1>6, <1>7, <1>8, <1>9, <1>10 DEF Next, ClientStep

\* Every step keeps the invariant.
LEMMA OneLiveStep == TypeOK /\ OneLive /\ [Next]_vars => OneLive'
<1> SUFFICES ASSUME TypeOK, OneLive, [Next]_vars PROVE OneLive' OBVIOUS
<1> USE MaxAttemptsAssumption DEF TypeOK, OneLive, Gone, Attempts
<1>1. CASE Send BY <1>1 DEF Send
<1>2. CASE NotSent BY <1>2 DEF NotSent, Answer, Again, Modes
<1>3. CASE Answered BY <1>3 DEF Answered, Answer, Again, notTaken, Modes
<1>4. CASE Refused BY <1>4 DEF Refused, Answer, Again, Modes
<1>5. CASE GiveUp BY <1>5 DEF GiveUp, Answer, Again, notTaken, Modes
<1>6. CASE Backoff BY <1>6 DEF Backoff, notTaken
<1>7. CASE Provider BY <1>7 DEF Provider, Becomes
<1>8. CASE UNCHANGED callVars BY <1>8 DEF callVars, notTaken
<1>9. QED
  BY <1>1, <1>2, <1>3, <1>4, <1>5, <1>6, <1>7, <1>8
  DEF Next, ClientStep, Authorize, Elsewhere, vars

\* The invariant leaves one attempt that can be taken.
LEMMA OneLiveEnough == TypeOK /\ OneLive => TakenAtMostOnce /\ RefusalIsDefinite
BY MaxAttemptsAssumption
DEF TypeOK, OneLive, Gone, Taken, TakenAtMostOnce, RefusalIsDefinite, notTaken, Attempts

\* A call keeps its state within its types, the loop counter below maxAttempts included,
\* and so does the token cache.
THEOREM CallTypeCorrect == Spec => []TypeOK
<1>1. Spec => [](TypeOK /\ OneLive) BY OneLiveInit, TypeStep, OneLiveStep, PTL DEF Spec
<1>2. QED BY <1>1, PTL

\* CalculateDigest, finalize and the archive timestamp are taken up by the provider at
\* most once, however many attempts are made.
THEOREM NeverTakenTwice == Spec => []TakenAtMostOnce
<1>1. Spec => [](TypeOK /\ OneLive) BY OneLiveInit, TypeStep, OneLiveStep, PTL DEF Spec
<1>2. QED BY <1>1, OneLiveEnough, PTL

\* A refusal with which such a call ends is definite: the provider has taken none of its
\* attempts, and none is still on its way.
THEOREM RefusalsAreDefinite == Spec => []RefusalIsDefinite
<1>1. Spec => [](TypeOK /\ OneLive) BY OneLiveInit, TypeStep, OneLiveStep, PTL DEF Spec
<1>2. QED BY <1>1, OneLiveEnough, PTL

----------------------------------------------------------------------------
(* The token cache.                                                        *)

\* A grant under way is younger than the time limit, and its token was issued since.
GrantsYoung ==
    \A c \in Callers :
        /\ caller[c].pc \in {"minting", "issued"} =>
             caller[c].start <= now /\ now <= caller[c].start + Timeout
        /\ caller[c].pc = "issued" => caller[c].tok >= caller[c].start + TTL

\* The cache overrates what it holds by at most one time limit.
CacheClose == cache.tok # NoToken => cache.until <= cache.tok + Timeout

TokenSafe == GrantsYoung /\ CacheClose /\ TokenLasts

\* Every step of a caller keeps the token invariant.
LEMMA TokenSafeStep ==
    ASSUME TokenTypeOK, TokenSafe, NEW c \in Callers, IntrospectToken(c) \/ Issue(c) \/ Release(c)
    PROVE  TokenSafe'
<1> USE TimesAssumption
    DEF TokenTypeOK, CallerType, TokenSafe, GrantsYoung, CacheClose, TokenLasts, IdleCaller
<1>1. CASE Cached(c) BY <1>1 DEF Cached, HandOut, Usable, Smaller
<1>2. CASE Mint(c) BY <1>2 DEF Mint
<1>3. CASE Store(c) BY <1>3 DEF Store, HandOut, Smaller
<1>4. CASE StoreEmpty(c) BY <1>4 DEF StoreEmpty, HandOut
<1>5. CASE MintFails(c) BY <1>5 DEF MintFails
<1>6. CASE Issue(c) BY <1>6 DEF Issue
<1>7. CASE Release(c) BY <1>7 DEF Release
<1>8. QED BY <1>1, <1>2, <1>3, <1>4, <1>5, <1>6, <1>7 DEF IntrospectToken

\* So does every step of the call and of the process around it.
LEMMA TokenSafeNext == TypeOK /\ TokenSafe /\ [Next]_vars => TokenSafe'
<1> SUFFICES ASSUME TypeOK, TokenSafe, [Next]_vars PROVE TokenSafe' OBVIOUS
<1>1. CASE \E c \in Callers : IntrospectToken(c) \/ Issue(c) \/ Release(c)
  BY <1>1, TokenSafeStep DEF TypeOK
<1>2. CASE Tick
  BY <1>2, TimesAssumption
  DEF Tick, TypeOK, TokenTypeOK, CallerType, TokenSafe, GrantsYoung, CacheClose, TokenLasts
<1>3. CASE UNCHANGED tokenVars
  BY <1>3 DEF tokenVars, TokenSafe, GrantsYoung, CacheClose, TokenLasts
<1>4. QED
  BY <1>1, <1>2, <1>3, MeAssumption
  DEF Next, ClientStep, Authorize, Send, NotSent, Answered, Refused, GiveUp, Backoff, Provider,
      Becomes, Elsewhere, vars

\* Whatever its lifetimes and time limits are, the token cache hands out no token with
\* less left than the early-refresh margin less one HTTP time limit.
THEOREM TokensAlwaysLast == Spec => []TokenLasts
<1>1. Init => TokenSafe
  BY DEF Init, TokenInit, IdleCaller, TokenSafe, GrantsYoung, CacheClose, TokenLasts
<1>2. Spec => []TypeOK BY CallTypeCorrect
<1>3. Spec => []TokenSafe BY <1>1, <1>2, TokenSafeNext, PTL DEF Spec
<1>4. QED BY <1>3, PTL DEF TokenSafe
=============================================================================
