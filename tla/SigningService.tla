--------------------------- MODULE SigningService ---------------------------
(***************************************************************************)
(* What the signer promises about a job, whatever its callers, browsers,   *)
(* workers and faults do: somebody's consent comes first, each consent     *)
(* pays for at most one attempt to sign, a job is shown as being worked on *)
(* only with consent and as ready only when it is signed, and signing      *)
(* evidence is reported only of a job that is signed.                      *)
(*                                                                         *)
(* What it does not promise: which of these a status answer shows last     *)
(* when several writers race, that a deleted job stays away, or that a job *)
(* is still there, or still shown as ready, when its evidence is reported. *)
(***************************************************************************)
EXTENDS Integers

CONSTANT Jobs

VARIABLES
    status,    \* what GET /status shows
    consents,  \* completed signature authorizations, accepted submissions
    attempts,  \* calls of FinalizeSigning
    signed,    \* SignAPI holds the signed containers
    reported   \* signing.applied is in the audit trail

vars == <<status, consents, attempts, signed, reported>>

Statuses == {"absent", "waiting", "working", "ready", "failed"}

Init ==
    /\ status = [id \in Jobs |-> "absent"]
    /\ consents = [id \in Jobs |-> 0]
    /\ attempts = [id \in Jobs |-> 0]
    /\ signed = [id \in Jobs |-> FALSE]
    /\ reported = [id \in Jobs |-> FALSE]

Consent(id) ==
    /\ consents' = [consents EXCEPT ![id] = @ + 1]
    /\ UNCHANGED <<status, attempts, signed, reported>>

Attempt(id) ==
    /\ attempts[id] < consents[id]
    /\ attempts' = [attempts EXCEPT ![id] = @ + 1]
    /\ \E result \in {signed[id], TRUE} : signed' = [signed EXCEPT ![id] = result]
    /\ UNCHANGED <<status, consents, reported>>

Show(id, st) ==
    /\ st = "working" => consents[id] > 0
    /\ st = "ready" => signed[id]
    /\ status' = [status EXCEPT ![id] = st]
    /\ UNCHANGED <<consents, attempts, signed, reported>>

Report(id) ==
    /\ signed[id]
    /\ reported' = [reported EXCEPT ![id] = TRUE]
    /\ UNCHANGED <<status, consents, attempts, signed>>

Next == \E id \in Jobs :
    \/ Consent(id) \/ Attempt(id) \/ Report(id)
    \/ \E st \in Statuses : Show(id, st)

Spec == Init /\ [][Next]_vars
=============================================================================
