------------------------------ MODULE MCBatch ------------------------------
(* An instance of Batch for TLC: one identity of every sort the selection tells apart. *)
EXTENDS Batch

Identity(desc, labels, enabled, access) ==
    [desc |-> desc, labels |-> labels, enabled |-> enabled, access |-> access]

People ==
    {Identity("", {"serverid", "contentCommitment"}, TRUE, {"sign"}),
     Identity("", {"serverid", "contentCommitment"}, TRUE, {"read"}),
     Identity("", {"serverid", "contentCommitment"}, FALSE, {}),
     Identity("eid:sign", {}, FALSE, {}),
     Identity("", {"eid", "contentCommitment"}, TRUE, {}),
     Identity("", {"qsealc"}, TRUE, {}),
     Identity("", {"esealc"}, TRUE, {}),
     Identity("", {"qsealc"}, FALSE, {}),
     Identity("mobileid:auth", {}, TRUE, {}),
     Identity("", {"mobileid", "digitalSignature"}, TRUE, {}),
     Identity("", {"eid", "digitalSignature"}, FALSE, {})}

Lists == UNION {[1..n -> People] : n \in 0..3}
=============================================================================
