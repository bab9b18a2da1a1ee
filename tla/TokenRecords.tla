---------------------------- MODULE TokenRecords ----------------------------
(***************************************************************************)
(* The token record shared by the in-memory registry                       *)
(* (server/tokens/token_registry.js) and the Redis store                   *)
(* (server/tokens/redis_token_store.js), and the two admission checks:     *)
(* checkRecord in JavaScript and CONSUME_SCRIPT in Lua.                    *)
(*                                                                         *)
(* A record keeps its scope, its identity bindings (sessionId, hpc,        *)
(* origin), its metadata bindings (payloadId, jobId, ...), its expiry and  *)
(* its use counter.  The reason code a rejected call reports is left out:  *)
(* every rejection has the same effect on the state, none.                 *)
(*                                                                         *)
(* In every module, a definition named X_Y is a faulty variant of X, there *)
(* to show that a property notices such a fault.                           *)
(***************************************************************************)
EXTENDS Integers

CONSTANTS Scopes,       \* the members of TOKEN_SCOPES
          IdKeys,       \* the bindings compared one by one: sessionId, hpc, origin
          MetaKeys,     \* the keys of the metadata object
          Values,       \* non-empty strings a binding can hold
          Undefined,    \* JavaScript's undefined: nothing bound, nothing expected
          Empty,        \* the empty string (null behaves like it in every check)
          MaxUsesLimit  \* the largest maxUses issueToken accepts (1000 in the code)

ASSUME BindingAssumption == Undefined \notin Values \cup Scopes /\ Empty \notin Values
ASSUME LimitAssumption == MaxUsesLimit \in Nat \ {0}

Bindings(K) == [K -> Values \cup {Undefined}]
Expectations(K) == [K -> Values \cup {Undefined, Empty}]

Record == [scope: Scopes, ids: Bindings(IdKeys), metadata: Bindings(MetaKeys),
           expiresAt: Int, maxUses: 1..MaxUsesLimit, used: Nat, revoked: BOOLEAN]

Expected == [scope: Scopes \cup {Undefined}, ids: Expectations(IdKeys),
             metadata: Expectations(MetaKeys)]

(* assertBindingValue: undefined, null and '' all store undefined.         *)
AssertBindingValue_Raw(b) == b
AssertBindingValue(b) == [k \in DOMAIN b |-> IF b[k] = Empty THEN Undefined ELSE b[k]]

(* The argument checks at the head of issueToken.                          *)
IssuableArgs(ttl, maxUses) == ttl > 0 /\ maxUses \in 1..MaxUsesLimit

NewRecord(scope, ids, metadata, expiresAt, maxUses) ==
    [scope |-> scope, ids |-> AssertBindingValue(ids), metadata |-> metadata,
     expiresAt |-> expiresAt, maxUses |-> maxUses, used |-> 0, revoked |-> FALSE]

(* The first three tests of checkRecord and of CONSUME_SCRIPT.             *)
Usable_IgnoresRevoked(r, at) == r.expiresAt > at /\ r.used < r.maxUses
Usable_OffByOne(r, at) == ~r.revoked /\ r.expiresAt > at /\ r.used <= r.maxUses
Usable(r, at) == ~r.revoked /\ r.expiresAt > at /\ r.used < r.maxUses

ScopeMatches(r, e) == e.scope \in {Undefined, r.scope}

(* Undefined stands for a key that expected.metadata does not have.        *)
MetadataMatches(r, e) == \A k \in MetaKeys : e.metadata[k] \in {Undefined, r.metadata[k]}

(* checkRecord: an expectation that is not undefined must be met, so an    *)
(* empty string is never met (no record holds one).                        *)
CheckRecord(r, e, at) ==
    /\ Usable(r, at)
    /\ ScopeMatches(r, e)
    /\ \A k \in IdKeys : e.ids[k] = Undefined \/ r.ids[k] = e.ids[k]
    /\ MetadataMatches(r, e)

(* CONSUME_SCRIPT: consumeToken passes `expected.hpc || ''`, so here an    *)
(* empty string is no expectation at all.                                  *)
ScriptAdmits(r, e, at) ==
    /\ Usable(r, at)
    /\ ScopeMatches(r, e)
    /\ \A k \in IdKeys : e.ids[k] \in {Undefined, Empty} \/ r.ids[k] = e.ids[k]
    /\ MetadataMatches(r, e)

(* The increment of a consume and the flag of a revocation.                *)
Spend_Lost(r) == r
Spend(r) == [r EXCEPT !.used = @ + 1]
Revoke_Unmarked(r) == r
Revoke(r) == [r EXCEPT !.revoked = TRUE]
=============================================================================
