------------------------------- MODULE MCRelay -------------------------------
(***************************************************************************)
(* Small instances of Relay.  The tokens are relay tokens for one session  *)
(* at two allowed hosts and at one that is not on the allowlist, without   *)
(* an HPC alias, with the alias only in the metadata; and a launch token.  *)
(***************************************************************************)
EXTENDS Relay, TLC

CONSTANTS s1, h1, h2, h3

Args(scope, hpc) == [scope |-> scope, ids |-> [sessionId |-> s1, hpc |-> hpc],
                     metadata |-> [hpc |-> Undefined]]

RelayToken == Args("slaif.relay", h1)
SessionTokens == {RelayToken}
TwoScopes == {RelayToken, Args("slaif.launch", h1)}
MixedTokens == {RelayToken, Args("slaif.relay", h2), Args("slaif.relay", h3),
                Args("slaif.relay", Empty),
                [RelayToken EXCEPT !.ids = [sessionId |-> Empty, hpc |-> Empty],
                                   !.metadata.hpc = h1]}

MCRelayExpected == [scope |-> "slaif.relay", ids |-> [k \in IdKeys |-> Undefined],
                    metadata |-> [k \in MetaKeys |-> Undefined]]

(* For the runs that check invariants only.                                *)
Symmetry == Permutations(Conn) \cup Permutations(Token)
=============================================================================
