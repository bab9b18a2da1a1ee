------------------------- MODULE TokenRegistryProofs -------------------------
(***************************************************************************)
(* What every user of the in-memory registry may rely on, for any tokens,  *)
(* arguments and clock: the records keep their shape, the use counter of a *)
(* record counts the successful consumes since its issue, and each step of *)
(* the registry is a step of TokenContract.  The modules that prove        *)
(* properties of the registry's users EXTEND this one.                     *)
(***************************************************************************)
EXTENDS TokenRegistry, TLAPS

(* issueToken stores a well-formed record: assertBindingValue removes the  *)
(* empty strings.                                                          *)
LEMMA NewRecordType ==
  ASSUME NEW a \in IssueArgs, NEW ttl \in Ttls, NEW m \in UseCounts,
         IssuableArgs(ttl, m), NEW time \in Nat
  PROVE  LET r == NewRecord(a.scope, a.ids, a.metadata, time + ttl, m)
         IN r \in Record /\ r.maxUses = m /\ r.used = 0 /\ ~r.revoked
<1>1. a \in [scope: Scopes, ids: Expectations(IdKeys), metadata: Bindings(MetaKeys)]
  BY RegistryAssumption
<1>2. AssertBindingValue(a.ids) \in Bindings(IdKeys)
  BY <1>1 DEF AssertBindingValue, Expectations, Bindings
<1>3. time + ttl \in Int
  BY RegistryAssumption
<1>4. QED
  BY <1>1, <1>2, <1>3 DEF NewRecord, Record, IssuableArgs

(* Spending a use and revoking keep the shape of a record.                 *)
LEMMA SpendType ==
  ASSUME NEW r \in Record
  PROVE  /\ Spend(r) \in Record
         /\ Spend(r).used = r.used + 1 /\ Spend(r).maxUses = r.maxUses
         /\ Spend(r).revoked = r.revoked
BY DEF Spend, Record

LEMMA RevokeType ==
  ASSUME NEW r \in Record
  PROVE  /\ Revoke(r) \in Record
         /\ Revoke(r).used = r.used /\ Revoke(r).maxUses = r.maxUses
         /\ Revoke(r).revoked
BY DEF Revoke, Record

-----------------------------------------------------------------------------
(* The invariant.                                                          *)

CountedAt(t) ==
    /\ spent[t] <= granted[t]
    /\ issues[t] = 0 => spent[t] = 0
    /\ records[t] # NoRecord => /\ records[t].used = spent[t]
                                /\ records[t].maxUses = granted[t]
                                /\ issues[t] >= 1

RegistryInv == RegistryTypeOK /\ \A t \in Token : CountedAt(t)

(* A step of the registry: one of its own, or a consume by its user.       *)
RegistryStep == \/ RegistryNext
                \/ \E t \in Token, e \in Expected : ConsumeToken(t, e)
                \/ UNCHANGED registryVars

LEMMA RegistryInvInit == RegistryInit => RegistryInv
BY LimitAssumption DEF RegistryInit, RegistryInv, RegistryTypeOK, CountedAt

(* The registry's values at a token.                                       *)
LEMMA TokenTypes ==
  ASSUME RegistryTypeOK, NEW t \in Token
  PROVE  /\ records[t] \in Record \cup {NoRecord}
         /\ granted[t] \in Nat /\ granted[t] \in 0..MaxUsesLimit
         /\ spent[t] \in Nat /\ issues[t] \in Nat
         /\ records[t] # NoRecord
              => /\ records[t] \in Record
                 /\ records[t].used \in Nat /\ records[t].maxUses \in Nat
                 /\ records[t].revoked \in BOOLEAN
BY LimitAssumption DEF RegistryTypeOK, Record

LEMMA IssueEffect ==
  ASSUME RegistryInv, NEW t \in Token, IssueToken(t)
  PROVE  \E r \in Record :
           /\ r # NoRecord /\ r.used = 0 /\ ~r.revoked /\ r.maxUses \in 1..MaxUsesLimit
           /\ records[t] = NoRecord /\ records' = [records EXCEPT ![t] = r]
           /\ granted' = [granted EXCEPT ![t] = r.maxUses]
           /\ spent' = [spent EXCEPT ![t] = 0]
           /\ issues' = [issues EXCEPT ![t] = @ + 1]
           /\ UNCHANGED now
<1>1. now \in Nat
  BY DEF RegistryInv, RegistryTypeOK
<1>2. PICK a \in IssueArgs, ttl \in Ttls, m \in UseCounts :
        /\ IssuableArgs(ttl, m)
        /\ records' = [records EXCEPT ![t] = NewRecord(a.scope, a.ids, a.metadata, now + ttl, m)]
        /\ granted' = [granted EXCEPT ![t] = m]
  BY DEF IssueToken
<1> DEFINE r == NewRecord(a.scope, a.ids, a.metadata, now + ttl, m)
<1>3. r \in Record /\ r.maxUses = m /\ r.used = 0 /\ ~r.revoked
  BY <1>1, <1>2, NewRecordType
<1>4. r # NoRecord /\ m \in 1..MaxUsesLimit
  BY <1>2, <1>3, RegistryAssumption DEF IssuableArgs
<1>5. /\ records[t] = NoRecord /\ spent' = [spent EXCEPT ![t] = 0]
      /\ issues' = [issues EXCEPT ![t] = @ + 1] /\ UNCHANGED now
  BY DEF IssueToken
<1> HIDE DEF r
<1>6. records' = [records EXCEPT ![t] = r]
  BY <1>2 DEF r
<1>7. QED
  BY <1>2, <1>3, <1>4, <1>5, <1>6

LEMMA ConsumeEffect ==
  ASSUME RegistryInv, NEW t \in Token, NEW e, ConsumeToken(t, e)
  PROVE  /\ records[t] \in Record /\ records[t] # NoRecord /\ ~records[t].revoked
         /\ records[t].used < records[t].maxUses
         /\ Spend(records[t]) # NoRecord
         /\ records' = [records EXCEPT ![t] = Spend(records[t])]
         /\ spent' = [spent EXCEPT ![t] = @ + 1]
         /\ UNCHANGED <<now, granted, issues>>
<1>1. records[t] \in Record /\ records[t] # NoRecord
  BY TokenTypes DEF ConsumeToken, Admits, RegistryInv
<1>2. Spend(records[t]) # NoRecord
  BY <1>1, SpendType, RegistryAssumption
<1>3. QED
  BY <1>1, <1>2 DEF ConsumeToken, Admits, CheckRecord, Usable

LEMMA RegistryInvStep ==
  ASSUME RegistryInv, RegistryStep
  PROVE  RegistryInv'
<1> USE DEF RegistryInv
<1>1. ASSUME NEW t \in Token, IssueToken(t) PROVE RegistryInv'
  <2>1. PICK r \in Record :
           /\ r # NoRecord /\ r.used = 0 /\ r.maxUses \in 1..MaxUsesLimit
           /\ records[t] = NoRecord /\ records' = [records EXCEPT ![t] = r]
           /\ granted' = [granted EXCEPT ![t] = r.maxUses]
           /\ spent' = [spent EXCEPT ![t] = 0]
           /\ issues' = [issues EXCEPT ![t] = @ + 1]
           /\ UNCHANGED now
    BY <1>1, IssueEffect
  <2>2. RegistryTypeOK'
    BY <2>1, LimitAssumption DEF RegistryTypeOK
  <2>3. CountedAt(t)'
    BY <2>1, LimitAssumption DEF RegistryTypeOK, CountedAt
  <2>4. \A u \in Token \ {t} : CountedAt(u)'
    BY <2>1 DEF RegistryTypeOK, CountedAt
  <2>5. QED
    BY <2>2, <2>3, <2>4
<1>2. ASSUME NEW t \in Token, RevokeToken(t) PROVE RegistryInv'
  <2>1. /\ records[t] # NoRecord /\ records' = [records EXCEPT ![t] = Revoke(records[t])]
        /\ UNCHANGED <<now, granted, spent, issues>>
    BY <1>2 DEF RevokeToken
  <2>2. records[t] \in Record /\ Revoke(records[t]) \in Record
        /\ Revoke(records[t]).used = records[t].used
        /\ Revoke(records[t]).maxUses = records[t].maxUses
    BY <2>1, TokenTypes, RevokeType
  <2>3. RegistryTypeOK'
    BY <2>1, <2>2 DEF RegistryTypeOK
  <2>4. \A u \in Token : CountedAt(u)'
    BY <2>1, <2>2 DEF RegistryTypeOK, CountedAt
  <2>5. QED
    BY <2>3, <2>4
<1>3. CASE CleanupExpired
  <2>1. RegistryTypeOK'
    BY <1>3 DEF CleanupExpired, RegistryTypeOK
  <2>2. \A u \in Token : CountedAt(u)'
    BY <1>3 DEF CleanupExpired, RegistryTypeOK, CountedAt
  <2>3. QED
    BY <2>1, <2>2
<1>4. CASE Tick
  BY <1>4 DEF Tick, RegistryTypeOK, CountedAt
<1>5. ASSUME NEW t \in Token, NEW e \in Expected, ConsumeToken(t, e) PROVE RegistryInv'
  <2> DEFINE r == Spend(records[t])
  <2>1. /\ records[t] \in Record /\ records[t] # NoRecord
        /\ records[t].used < records[t].maxUses
        /\ records' = [records EXCEPT ![t] = r]
        /\ spent' = [spent EXCEPT ![t] = @ + 1]
        /\ UNCHANGED <<now, granted, issues>>
    BY <1>5, ConsumeEffect
  <2>2. r \in Record /\ r.used = records[t].used + 1 /\ r.maxUses = records[t].maxUses
    BY <2>1, SpendType
  <2> HIDE DEF r
  <2>3. RegistryTypeOK'
    BY <2>1, <2>2 DEF RegistryTypeOK
  <2>4. CountedAt(t)'
    <3>1. records[t].used = spent[t] /\ records[t].maxUses = granted[t] /\ issues[t] >= 1
      BY <2>1 DEF CountedAt
    <3>2. /\ records'[t] = r /\ spent'[t] = spent[t] + 1
          /\ granted'[t] = granted[t] /\ issues'[t] = issues[t]
      BY <2>1 DEF RegistryTypeOK
    <3>3. QED
      BY <2>1, <2>2, <3>1, <3>2, TokenTypes DEF CountedAt
  <2>5. \A u \in Token \ {t} : CountedAt(u)'
    BY <2>1 DEF RegistryTypeOK, CountedAt
  <2>6. QED
    BY <2>3, <2>4, <2>5
<1>6. CASE UNCHANGED registryVars
  BY <1>6 DEF registryVars, RegistryTypeOK, CountedAt
<1>7. QED
  BY <1>1, <1>2, <1>3, <1>4, <1>5, <1>6 DEF RegistryStep, RegistryNext

-----------------------------------------------------------------------------
(* The refinement: Cap, granted and spent behave as TokenContract says.    *)

LEMMA CapAt ==
  ASSUME RegistryInv, NEW t \in Token
  PROVE  /\ Cap[t] = IF records[t] # NoRecord /\ ~records[t].revoked
                     THEN records[t].maxUses - records[t].used ELSE 0
         /\ Cap[t] \in Nat
<1>1. Cap[t] = IF records[t] # NoRecord /\ ~records[t].revoked
               THEN records[t].maxUses - records[t].used ELSE 0
  BY DEF Cap
<1>2. QED
  BY <1>1, TokenTypes DEF RegistryInv, CountedAt

(* Taking away the uses of the tokens of S, and nothing else.              *)
LEMMA WithdrawStep ==
  ASSUME NEW S \in SUBSET Token, UNCHANGED <<granted, spent>>,
         \A u \in Token \ S : records'[u] = records[u],
         \A u \in S : records'[u] = NoRecord \/ records'[u].revoked
  PROVE  Contract!ContractNext
<1>1. Cap' = [u \in Token |-> IF u \in S THEN 0 ELSE Cap[u]]
  BY DEF Cap
<1>2. Contract!Withdraw(S)
  BY <1>1 DEF Contract!Withdraw
<1>3. QED
  BY <1>2 DEF Contract!ContractNext

(* Every step of the registry is a step of the contract, or changes        *)
(* nothing that the contract speaks of.                                    *)
LEMMA ContractStep ==
  ASSUME RegistryInv, RegistryStep
  PROVE  [Contract!ContractNext]_(Contract!contractVars)
<1> SUFFICES Contract!ContractNext \/ UNCHANGED <<Cap, granted, spent>>
  BY DEF Contract!contractVars
<1>1. ASSUME NEW t \in Token, IssueToken(t) PROVE Contract!ContractNext
  <2>1. PICK r \in Record :
           /\ r # NoRecord /\ r.used = 0 /\ ~r.revoked /\ r.maxUses \in 1..MaxUsesLimit
           /\ records[t] = NoRecord /\ records' = [records EXCEPT ![t] = r]
           /\ granted' = [granted EXCEPT ![t] = r.maxUses]
           /\ spent' = [spent EXCEPT ![t] = 0]
    BY <1>1, IssueEffect
  <2>2. Cap[t] = 0
    BY <2>1, CapAt
  <2>3. r.maxUses - r.used = r.maxUses
    BY <2>1, LimitAssumption
  <2>4. Cap' = [Cap EXCEPT ![t] = r.maxUses]
    BY <2>1, <2>3 DEF Cap, RegistryInv, RegistryTypeOK
  <2>5. Contract!Grant(t, r.maxUses)
    BY <2>1, <2>2, <2>4 DEF Contract!Grant
  <2>6. QED
    BY <2>1, <2>5 DEF Contract!ContractNext
<1>2. ASSUME NEW t \in Token, NEW e \in Expected, ConsumeToken(t, e) PROVE Contract!ContractNext
  <2> DEFINE r == Spend(records[t])
  <2>1. /\ records[t] \in Record /\ records[t] # NoRecord /\ ~records[t].revoked
        /\ records[t].used < records[t].maxUses /\ r # NoRecord
        /\ records' = [records EXCEPT ![t] = r]
        /\ spent' = [spent EXCEPT ![t] = @ + 1]
        /\ UNCHANGED granted
    BY <1>2, ConsumeEffect
  <2>2. /\ r.used = records[t].used + 1 /\ r.maxUses = records[t].maxUses /\ ~r.revoked
        /\ records[t].used \in Nat /\ records[t].maxUses \in Nat
    BY <2>1, SpendType, TokenTypes DEF RegistryInv
  <2> HIDE DEF r
  <2>3. records'[t] = r /\ \A u \in Token \ {t} : records'[u] = records[u]
    BY <2>1 DEF RegistryInv, RegistryTypeOK
  <2>4. Cap[t] = records[t].maxUses - records[t].used
    BY <2>1, CapAt
  <2>5. Cap'[t] = Cap[t] - 1
    <3>1. Cap'[t] = r.maxUses - r.used
      BY <2>1, <2>2, <2>3 DEF Cap
    <3>2. QED
      BY <2>2, <2>4, <3>1
  <2>6. Cap' = [Cap EXCEPT ![t] = @ - 1]
    BY <2>3, <2>5 DEF Cap
  <2>7. Contract!Use(t)
    BY <2>1, <2>2, <2>4, <2>6 DEF Contract!Use
  <2>8. QED
    BY <2>7 DEF Contract!ContractNext
<1>3. ASSUME NEW t \in Token, RevokeToken(t) PROVE Contract!ContractNext
  <2> DEFINE S == {t}
  <2>1. /\ records[t] # NoRecord /\ records' = [records EXCEPT ![t] = Revoke(records[t])]
        /\ UNCHANGED <<granted, spent>>
    BY <1>3 DEF RevokeToken
  <2>2. Revoke(records[t]).revoked
    BY <2>1, TokenTypes, RevokeType DEF RegistryInv
  <2>3. /\ S \in SUBSET Token
        /\ \A u \in Token \ S : records'[u] = records[u]
        /\ \A u \in S : records'[u] = NoRecord \/ records'[u].revoked
    BY <2>1, <2>2 DEF RegistryInv, RegistryTypeOK
  <2> HIDE DEF S
  <2>4. QED
    BY <2>1, <2>3, WithdrawStep
<1>4. CASE CleanupExpired
  <2> DEFINE S == {u \in Token : records[u] # NoRecord /\ records[u].expiresAt <= now}
  <2>1. /\ UNCHANGED <<granted, spent>>
        /\ \A u \in Token \ S : records'[u] = records[u]
        /\ \A u \in S : records'[u] = NoRecord \/ records'[u].revoked
    BY <1>4 DEF CleanupExpired
  <2>2. QED
    BY <2>1, WithdrawStep
<1>5. CASE Tick \/ UNCHANGED registryVars
  BY <1>5 DEF Tick, registryVars, Cap
<1>6. QED
  BY <1>1, <1>2, <1>3, <1>4, <1>5 DEF RegistryStep, RegistryNext
=============================================================================
