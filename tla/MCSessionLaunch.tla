--------------------------- MODULE MCSessionLaunch ---------------------------
(***************************************************************************)
(* Small instances of SessionLaunch: the policies of the releases of the   *)
(* extension, and the tokens of the sessions.                              *)
(***************************************************************************)
EXTENDS SessionLaunch, TLC

Release(id, sequence, content) ==
    [policyId |-> id, sequence |-> sequence, fingerprint |-> content]

OnePolicy == {Release("A", 1, "f1")}
(* One policyId, a newer sequence, and the same sequence with a changed    *)
(* content.                                                                *)
OneSeries == {Release("A", 1, "f1"), Release("A", 2, "f2"), Release("A", 2, "f3")}
TwoSeries == {Release("A", 1, "f1"), Release("A", 2, "f2"), Release("B", 1, "f4")}

SessionTokens == {"slaif.launch", "slaif.relay", "slaif.jobReport"} \X Session

Symmetry == Permutations(Window) \cup Permutations(Session)
=============================================================================
