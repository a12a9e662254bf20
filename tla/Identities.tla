----------------------------- MODULE Identities -----------------------------
(***************************************************************************)
(* Which of a person's TrustedX identities signs and which one requests    *)
(* the timestamp (entrust/identities.go).  The provider answers a list;    *)
(* every selection is the position of the chosen identity in it.           *)
(***************************************************************************)
EXTENDS Integers, SequencesExt

\* An identity: its description and labels, its status, and what its access array
\* grants (empty: the array is missing).
IdentityType ==
    [desc : {"", "eid:sign", "eid:auth", "mobileid:auth"},
     labels : SUBSET {"serverid", "eid", "mobileid", "qsealc", "esealc",
                      "contentCommitment", "digitalSignature"},
     enabled : BOOLEAN,
     access : SUBSET {"sign", "read"}]

NotFound == 0
Ambiguous == -1

hasLabel(id, want) == want \subseteq id.labels

hasAccess(id, access) == id.access = {} \/ access \in id.access

SelectMobileSigning(ids) ==
    SelectInSeq(ids, LAMBDA id : /\ hasLabel(id, {"serverid", "contentCommitment"})
                                 /\ id.enabled /\ hasAccess(id, "sign"))

\* A described card identity is taken whatever its status.
SelectEIDScanSigning(ids) ==
    SelectInSeq(ids, LAMBDA id : \/ id.desc = "eid:sign"
                                 \/ hasLabel(id, {"eid", "contentCommitment"}) /\ id.enabled)

IsSeal(id) == (hasLabel(id, {"qsealc"}) \/ hasLabel(id, {"esealc"})) /\ id.enabled

\* sealID: the seal the caller asked for, by its position (0: none asked for).
SelectSealSigning(ids, sealID) ==
    LET seals == {i \in DOMAIN ids : IsSeal(ids[i])} IN
    CASE seals = {}               -> NotFound
      [] seals # {} /\ sealID # 0 -> IF sealID \in seals THEN sealID ELSE NotFound
      [] seals # {} /\ sealID = 0 -> IF \E i \in seals : seals = {i}
                                     THEN CHOOSE i \in seals : TRUE ELSE Ambiguous

\* An authentication identity of the flow's own kind.
IsPrimaryAuth(id, eidScan) ==
    IF eidScan THEN id.desc = "eid:auth" \/ hasLabel(id, {"eid", "digitalSignature"})
               ELSE id.desc = "mobileid:auth" \/ hasLabel(id, {"mobileid", "digitalSignature"})

IsAuth(id) == id.desc \in {"mobileid:auth", "eid:auth"} \/ hasLabel(id, {"digitalSignature"})

\* Mutant of SelectAuthIdentity: one pass over the list.
SelectAnyAuth(ids, eidScan) ==
    SelectInSeq(ids, LAMBDA id : IsPrimaryAuth(id, eidScan) \/ IsAuth(id))

\* The whole list is searched for the flow's own kind before any other is taken.
SelectAuthIdentity(ids, eidScan) ==
    LET primary == SelectInSeq(ids, LAMBDA id : IsPrimaryAuth(id, eidScan)) IN
    IF primary # 0 THEN primary ELSE SelectInSeq(ids, LAMBDA id : IsAuth(id))
=============================================================================
