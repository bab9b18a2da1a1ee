---------------------------- MODULE TokenContract ----------------------------
(***************************************************************************)
(* What a token store promises its callers, whatever it is built on        *)
(* (server/tokens/token_store.js): a grant of n uses is spent at most n    *)
(* times, and what has been taken away (by expiry, revocation, cleanup or  *)
(* key eviction) never comes back without a new grant.                     *)
(***************************************************************************)
EXTENDS Integers

CONSTANTS Token,       \* token values
          MaxGrant     \* the largest maxUses the store accepts

VARIABLES cap,        \* cap[t]: successful consumes the store can still answer
          granted,    \* granted[t]: maxUses of the latest issue of t
          spent       \* spent[t]: successful consumes since that issue

contractVars == <<cap, granted, spent>>

ContractTypeOK == /\ cap \in [Token -> 0..MaxGrant]
                  /\ granted \in [Token -> 0..MaxGrant]
                  /\ spent \in [Token -> Nat]

ContractInit == /\ cap = [t \in Token |-> 0]
                /\ granted = [t \in Token |-> 0]
                /\ spent = [t \in Token |-> 0]

(* A token value without remaining uses may be granted n uses.             *)
Grant(t, n) == /\ cap[t] = 0
               /\ cap' = [cap EXCEPT ![t] = n]
               /\ granted' = [granted EXCEPT ![t] = n]
               /\ spent' = [spent EXCEPT ![t] = 0]

Use(t) == /\ cap[t] > 0
          /\ cap' = [cap EXCEPT ![t] = @ - 1]
          /\ spent' = [spent EXCEPT ![t] = @ + 1]
          /\ UNCHANGED granted

Withdraw(S) == /\ cap' = [t \in Token |-> IF t \in S THEN 0 ELSE cap[t]]
               /\ UNCHANGED <<granted, spent>>

ContractNext == \/ \E t \in Token : \E n \in 1..MaxGrant : Grant(t, n)
                \/ \E t \in Token : Use(t)
                \/ \E S \in SUBSET Token : Withdraw(S)

ContractSpec == ContractInit /\ [][ContractNext]_contractVars

(* The promise in one formula: what was spent and what can still be spent  *)
(* never exceed the grant.                                                 *)
WithinGrant == \A t \in Token : spent[t] + cap[t] <= granted[t]
=============================================================================
