--------------------------- MODULE SignApiClient ---------------------------
(***************************************************************************)
(* One SignAPI call (signapi/client.go): which outcomes are asked again.   *)
(* A call is made in one of three modes, and the provider keeps working on *)
(* a request its caller has given up on, so what an attempt left behind is *)
(* tracked per attempt, beyond the attempt's own end.  Every attempt asks  *)
(* the token cache for its bearer token, next to the process's other calls. *)
(***************************************************************************)
EXTENDS TokenCache

CONSTANTS
    MaxAttempts,  \* maxAttempts, 3 in the code
    Me            \* the caller of the token cache this call is

ASSUME MaxAttemptsAssumption == MaxAttempts \in Nat \ {0}
ASSUME MeAssumption == Me \in Callers

VARIABLES
    mode,     \* retried: do, doQuick and raw; patient: patientCall; once: doOnce
    pc,       \* send, wait, backoff, ended
    attempt,  \* the loop counter
    outcome,  \* how the last attempt ended
    sent      \* per attempt: what became of its request

callVars == <<mode, pc, attempt, outcome, sent>>
vars == <<callVars, tokenVars>>

Modes    == {"retried", "patient", "once"}
Attempts == 0..(MaxAttempts - 1)

\* 2xx: the answer arrived (its body may still fail to decode); dial: no connection
\* was made; busy: 502 or 503; error: a timeout, a broken connection, another 5xx.
Outcomes == {"none", "2xx", "4xx", "busy", "dial", "error", "cancelled"}

\* done: it took effect; undone: the provider ended it without effect.
Fates == {"unsent", "travelling", "lost", "refused", "running", "done", "undone"}

TypeOK ==
    /\ mode \in Modes
    /\ pc \in {"send", "wait", "backoff", "ended"}
    /\ attempt \in Attempts
    /\ outcome \in Outcomes
    /\ sent \in [Attempts -> Fates]
    /\ TokenTypeOK

Init ==
    /\ TokenInit
    /\ mode \in Modes
    /\ pc = "send"
    /\ attempt = 0
    /\ outcome = "none"
    /\ sent = [a \in Attempts |-> "unsent"]

\* Mutant of notTaken: a timeout counts as a request that was not taken.
NotAnswered(o) == o \in {"dial", "busy", "error"}

\* The provider certainly did not start the request.
notTaken(o) == o \in {"dial", "busy"}

\* Mutant of Again: a patient call uses the retrying helper.
PatientRetried(o) == mode # "once" /\ o \notin {"2xx", "4xx"}

\* Is an attempt that ended this way followed by another one?
Again(o) ==
    \/ mode = "retried" /\ o \notin {"2xx", "4xx"}
    \/ mode = "patient" /\ notTaken(o)

Answer(o) ==
    /\ outcome' = o
    /\ pc' = IF Again(o) THEN "backoff" ELSE "ended"
    /\ UNCHANGED <<mode, attempt>>

----------------------------------------------------------------------------
(* The client.                                                             *)

\* send begins by asking for the token.
Authorize == pc = "send" /\ IntrospectToken(Me) /\ UNCHANGED callVars

\* send: with a token at hand, the request goes out.
Send ==
    /\ pc = "send"
    /\ caller[Me].pc = "holds"
    /\ Release(Me)
    /\ sent' = [sent EXCEPT ![attempt] = "travelling"]
    /\ pc' = "wait"
    /\ UNCHANGED <<mode, attempt, outcome>>

\* No token, or no connection: a token endpoint out of reach is a dial error too.
NotSent ==
    /\ pc = "send"
    /\ caller[Me].pc \in {"holds", "failed"}
    /\ Release(Me)
    /\ Answer("dial") \/ Answer("error")
    /\ UNCHANGED sent

\* The answer arrives.
Answered ==
    /\ pc = "wait"
    /\ \/ sent[attempt] = "done" /\ Answer("2xx")
       \/ sent[attempt] = "undone" /\ (Answer("4xx") \/ Answer("error"))
    /\ UNCHANGED <<sent, tokenVars>>

\* The proxy in front of the provider answers that nothing took the request.
Refused ==
    /\ pc = "wait"
    /\ sent[attempt] = "travelling"
    /\ sent' = [sent EXCEPT ![attempt] = "refused"]
    /\ Answer("busy")
    /\ UNCHANGED tokenVars

\* The attempt's time limit, a broken connection, a proxy's 504.
GiveUp == pc = "wait" /\ Answer("error") /\ UNCHANGED <<sent, tokenVars>>

\* Mutant of Backoff: the loop forgets to count.
BackoffForgets ==
    /\ pc = "backoff"
    /\ pc' = "send"
    /\ UNCHANGED <<mode, attempt, outcome, sent, tokenVars>>

\* Mutant of Backoff: one attempt too many.
BackoffOneMore ==
    /\ pc = "backoff"
    /\ attempt < MaxAttempts /\ attempt' = attempt + 1 /\ pc' = "send"
    /\ UNCHANGED <<mode, outcome, sent, tokenVars>>

\* After the pause (which the last attempt takes too), or its caller's cancellation.
Backoff ==
    /\ pc = "backoff"
    /\ \/ pc' = "ended" /\ outcome' = "cancelled" /\ UNCHANGED attempt
       \/ attempt + 1 < MaxAttempts /\ attempt' = attempt + 1 /\ pc' = "send" /\ UNCHANGED outcome
       \/ attempt + 1 = MaxAttempts /\ pc' = "ended" /\ UNCHANGED <<attempt, outcome>>
    /\ UNCHANGED <<mode, sent, tokenVars>>

ClientStep == Authorize \/ Send \/ NotSent \/ Answered \/ Refused \/ GiveUp \/ Backoff

----------------------------------------------------------------------------
(* The network and the provider, whether or not the client still waits.    *)

Becomes(a, from, to) ==
    /\ sent[a] = from
    /\ sent' = [sent EXCEPT ![a] = to]
    /\ UNCHANGED <<mode, pc, attempt, outcome, tokenVars>>

Provider ==
    \E a \in Attempts :
        \/ Becomes(a, "travelling", "lost")
        \/ Becomes(a, "travelling", "running")
        \/ Becomes(a, "running", "done")
        \/ Becomes(a, "running", "undone")

\* The token endpoint, the other calls of the process, and time.
Elsewhere ==
    /\ \/ \E c \in Callers : Issue(c)
       \/ \E c \in Callers \ {Me} :
            IntrospectToken(c) \/ (caller[c].pc \in {"holds", "failed"} /\ Release(c))
       \/ Tick
    /\ UNCHANGED callVars

Next == ClientStep \/ Provider \/ Elsewhere

Spec == Init /\ [][Next]_vars

\* Every grant and every attempt has a time limit and every pause an end.
LiveSpec == Spec /\ WF_vars(ClientStep)

----------------------------------------------------------------------------
Taken(a) == sent[a] \in {"running", "done", "undone"}

\* A call that is not safe to repeat (CalculateDigest, finalize, the archive timestamp)
\* is taken up by the provider at most once, also long after the client gave up.
TakenAtMostOnce ==
    mode # "retried" => \A a, b \in Attempts : Taken(a) /\ Taken(b) => a = b

\* When such a call fails saying it was not taken, no attempt of it was taken or
\* ever will be: its caller may rely on nothing having happened.
RefusalIsDefinite ==
    mode # "retried" /\ pc = "ended" /\ outcome \in {"dial", "busy"} =>
        \A a \in Attempts : ~Taken(a) /\ sent[a] # "travelling"

\* Every call returns to its caller, whatever the provider does.
CallReturns == <>(pc = "ended")
=============================================================================
