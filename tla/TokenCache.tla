----------------------------- MODULE TokenCache -----------------------------
(***************************************************************************)
(* The introspect token (entrust/client.go): one cached bearer token that  *)
(* every SignAPI call of the process asks for.  The lock covers the look   *)
(* and the store, not the grant between them, so several callers may mint  *)
(* at the same time and store their answers in any order.                  *)
(*                                                                         *)
(* A token is the time it really expires at, counted by the provider from  *)
(* its issue; the cache counts from the moment the answer is stored.       *)
(***************************************************************************)
EXTENDS Integers

CONSTANTS
    Callers,       \* goroutines that ask for the token
    TTL,           \* expires_in of the provider's tokens
    EarlyRefresh,  \* a cached token is not handed out this close to its end
    Timeout,       \* the HTTP client's time limit
    MaxTime        \* bound: the clock stops here

ASSUME TimesAssumption ==
    /\ TTL \in Nat \ {0} /\ EarlyRefresh \in Nat /\ Timeout \in Nat /\ MaxTime \in Nat

VARIABLES
    now,     \* the clock
    cache,   \* introspectTok and introspectExpAt
    caller   \* per caller: where it is in IntrospectToken

tokenVars == <<now, cache, caller>>

NoToken == 0   \* the empty string

\* left: what the token a caller was handed still had to live at that moment.
CallerPCs == {"idle", "minting", "issued", "holds", "failed"}
CallerType == [pc : CallerPCs, start : Nat, tok : Nat, left : Int]

TokenTypeOK ==
    /\ now \in Nat
    /\ cache \in [tok : Nat, until : Nat]
    /\ caller \in [Callers -> CallerType]

IdleCaller == [pc |-> "idle", start |-> 0, tok |-> NoToken, left |-> 0]

TokenInit ==
    /\ now = 0
    /\ cache = [tok |-> NoToken, until |-> 0]
    /\ caller = [c \in Callers |-> IdleCaller]

\* Mutant of Usable: a cached token serves to its very end.
UsableToTheEnd == cache.tok # NoToken /\ cache.until - now > 0

Usable == cache.tok # NoToken /\ cache.until - now > EarlyRefresh

HandOut(c, tok) ==
    caller' = [caller EXCEPT ![c] = [pc |-> "holds", start |-> 0, tok |-> tok, left |-> tok - now]]

\* The cached token is returned.
Cached(c) ==
    /\ caller[c].pc = "idle"
    /\ Usable
    /\ HandOut(c, cache.tok)
    /\ UNCHANGED <<now, cache>>

\* Or the client-credentials grant begins, outside the lock.
Mint(c) ==
    /\ caller[c].pc = "idle"
    /\ ~Usable
    /\ caller' = [caller EXCEPT ![c] =
                    [pc |-> "minting", start |-> now, tok |-> NoToken, left |-> 0]]
    /\ UNCHANGED <<now, cache>>

\* The provider issues the token; its answer travels.
Issue(c) ==
    /\ caller[c].pc = "minting"
    /\ caller' = [caller EXCEPT ![c] =
                    [pc |-> "issued", start |-> @.start, tok |-> now + TTL, left |-> 0]]
    /\ UNCHANGED <<now, cache>>

\* The answer replaces whatever is cached by now.
Store(c) ==
    /\ caller[c].pc = "issued"
    /\ cache' = [tok |-> caller[c].tok, until |-> now + TTL]
    /\ HandOut(c, caller[c].tok)
    /\ UNCHANGED now

\* A 2xx answer without a body is no error: the empty token is stored and returned.
StoreEmpty(c) ==
    /\ caller[c].pc = "minting"
    /\ cache' = [tok |-> NoToken, until |-> now]
    /\ HandOut(c, NoToken)
    /\ UNCHANGED now

\* The grant fails or runs into its time limit, whether or not a token was issued.
MintFails(c) ==
    /\ caller[c].pc \in {"minting", "issued"}
    /\ caller' = [caller EXCEPT ![c] = [IdleCaller EXCEPT !.pc = "failed"]]
    /\ UNCHANGED <<now, cache>>

IntrospectToken(c) == Cached(c) \/ Mint(c) \/ Store(c) \/ StoreEmpty(c) \/ MintFails(c)

\* The caller has used what it got.
Release(c) == caller' = [caller EXCEPT ![c] = IdleCaller] /\ UNCHANGED <<now, cache>>

\* Time passes, but no grant outlives its time limit.
Tick ==
    /\ now < MaxTime
    /\ \A c \in Callers :
         caller[c].pc \in {"minting", "issued"} => now < caller[c].start + Timeout
    /\ now' = now + 1
    /\ UNCHANGED <<cache, caller>>

Smaller(m, n) == IF m < n THEN m ELSE n

\* A token handed out, cached or fresh, is good for at least the early-refresh margin
\* less one HTTP time limit, although concurrent grants store their answers in any order
\* and the cache counts a token's life from the store, later than the provider does.
TokenLasts ==
    \A c \in Callers :
        caller[c].pc = "holds" /\ caller[c].tok # NoToken =>
            caller[c].left >= Smaller(EarlyRefresh, TTL) - Timeout
=============================================================================
