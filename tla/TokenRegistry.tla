---------------------------- MODULE TokenRegistry ----------------------------
(***************************************************************************)
(* createTokenRegistry (server/tokens/token_registry.js): the in-memory    *)
(* registry of one server process.  Its methods are synchronous, so each   *)
(* is one step.  Modules that use the registry EXTEND this one and combine *)
(* its actions with their own.                                             *)
(***************************************************************************)
EXTENDS TokenRecords

CONSTANTS Token,
          NoRecord,          \* lookup of a token the registry does not know
          Ttls, UseCounts,   \* arguments callers pass as ttlMs and maxUses
          IssueArgs,         \* the scope, ids and metadata arguments of issueToken
          MaxTime,           \* bound: the clock stops here
          MaxIssues          \* bound: issues of one token value

ASSUME RegistryAssumption ==
    /\ NoRecord \notin Record
    /\ Ttls \subseteq Int /\ UseCounts \subseteq Int
    /\ IssueArgs \subseteq [scope: Scopes, ids: Expectations(IdKeys),
                            metadata: Bindings(MetaKeys)]
    /\ MaxTime \in Nat /\ MaxIssues \in Nat

VARIABLES
    records,     \* records[t]: the entry of the Map under t's hash, or NoRecord
    now,         \* the clock
    \* history, read by the properties only
    granted,     \* granted[t]: maxUses of the latest issue of t
    spent,       \* spent[t]: successful consumes since then
    issues       \* issues[t]: how many times t was issued

registryVars == <<records, now, granted, spent, issues>>

RegistryTypeOK ==
    /\ records \in [Token -> Record \cup {NoRecord}]
    /\ now \in Nat
    /\ granted \in [Token -> 0..MaxUsesLimit]
    /\ spent \in [Token -> Nat]
    /\ issues \in [Token -> Nat]

RegistryInit ==
    /\ records = [t \in Token |-> NoRecord]
    /\ now = 0
    /\ granted = [t \in Token |-> 0]
    /\ spent = [t \in Token |-> 0]
    /\ issues = [t \in Token |-> 0]

IssueToken(t) ==
    /\ issues[t] < MaxIssues
    /\ records[t] = NoRecord                          \* else duplicate_token
    /\ \E a \in IssueArgs, ttl \in Ttls, m \in UseCounts :
         /\ IssuableArgs(ttl, m)
         /\ records' = [records EXCEPT
                          ![t] = NewRecord(a.scope, a.ids, a.metadata, now + ttl, m)]
         /\ granted' = [granted EXCEPT ![t] = m]
    /\ spent' = [spent EXCEPT ![t] = 0]
    /\ issues' = [issues EXCEPT ![t] = @ + 1]
    /\ UNCHANGED now

(* What lookup and checkRecord decide for validateToken and consumeToken;  *)
(* a rejected call changes nothing.                                        *)
Admits(t, e) == records[t] # NoRecord /\ CheckRecord(records[t], e, now)

ConsumeToken(t, e) ==
    /\ Admits(t, e)
    /\ records' = [records EXCEPT ![t] = Spend(@)]
    /\ spent' = [spent EXCEPT ![t] = @ + 1]
    /\ UNCHANGED <<now, granted, issues>>

(* By value or by fingerprint.                                             *)
RevokeToken(t) ==
    /\ records[t] # NoRecord
    /\ records' = [records EXCEPT ![t] = Revoke(@)]
    /\ UNCHANGED <<now, granted, spent, issues>>

CleanupExpired ==
    /\ records' = [t \in Token |-> IF records[t] # NoRecord /\ records[t].expiresAt <= now
                                   THEN NoRecord ELSE records[t]]
    /\ UNCHANGED <<now, granted, spent, issues>>

Tick ==
    /\ now < MaxTime
    /\ now' = now + 1
    /\ UNCHANGED <<records, granted, spent, issues>>

RegistryNext ==
    \/ \E t \in Token : IssueToken(t) \/ RevokeToken(t)
    \/ CleanupExpired
    \/ Tick

-----------------------------------------------------------------------------
(* The registry as an implementation of the token contract: Cap[t] is the  *)
(* number of uses it can still hand out for t.                             *)
Cap == [t \in Token |-> IF records[t] # NoRecord /\ ~records[t].revoked
                        THEN records[t].maxUses - records[t].used ELSE 0]

Contract == INSTANCE TokenContract WITH cap <- Cap, MaxGrant <- MaxUsesLimit
=============================================================================
