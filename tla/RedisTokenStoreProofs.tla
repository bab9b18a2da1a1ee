------------------------ MODULE RedisTokenStoreProofs ------------------------
(***************************************************************************)
(* Proofs about RedisTokenStore for any number of tokens, calls, uses and  *)
(* any clock: the type invariant, the inductive invariant, and from it the *)
(* four safety properties and the refinement of TokenContract.             *)
(***************************************************************************)
EXTENDS RedisTokenStore, TLAPS

(* What a fresh call holds.                                                *)
LEMMA IdleType == Idle \in Call
<1>1. (CHOOSE t \in Token : TRUE) \in Token
  BY StoreAssumption
<1>2. (CHOOSE e \in ExpectedArgs : TRUE) \in ExpectedArgs
  BY StoreAssumption
<1>3. QED
  BY <1>1, <1>2 DEF Idle, Call, Steps, Awaiting

(* issueToken stores a well-formed record: assertBindingValue removes the  *)
(* empty strings.                                                          *)
LEMMA NewRecordType ==
  ASSUME NEW a \in IssueArgs, NEW ttl \in Ttls, NEW m \in UseCounts,
         IssuableArgs(ttl, m), NEW time \in Nat
  PROVE  LET r == NewRecord(a.scope, a.ids, a.metadata, time + ttl, m)
         IN /\ r \in Record
            /\ r.expiresAt = time + ttl /\ r.maxUses = m /\ r.used = 0 /\ ~r.revoked
<1>1. a \in [scope: Scopes, ids: Expectations(IdKeys), metadata: Bindings(MetaKeys)]
  BY StoreAssumption
<1>2. AssertBindingValue(a.ids) \in Bindings(IdKeys)
  BY <1>1 DEF AssertBindingValue, Expectations, Bindings
<1>3. time + ttl \in Int
  BY StoreAssumption
<1>4. QED
  BY <1>1, <1>2, <1>3 DEF NewRecord, Record, IssuableArgs

(* Spending a use and revoking keep the shape of a record.                 *)
LEMMA SpendType ==
  ASSUME NEW r \in Record
  PROVE  /\ Spend(r) \in Record
         /\ Spend(r).used = r.used + 1 /\ Spend(r).maxUses = r.maxUses
         /\ Spend(r).expiresAt = r.expiresAt /\ Spend(r).revoked = r.revoked
         /\ Spend(r).metadata = r.metadata
BY DEF Spend, Record

LEMMA RevokeType ==
  ASSUME NEW r \in Record
  PROVE  /\ Revoke(r) \in Record
         /\ Revoke(r).revoked
         /\ Revoke(r).expiresAt = r.expiresAt
         /\ Revoke(r).metadata = r.metadata
BY DEF Revoke, Record

-----------------------------------------------------------------------------
(* The inductive invariant.  TypeOK is not inductive by itself: IssueSet   *)
(* and RevokeSet store what the call holds, so a call must hold a record   *)
(* whenever it is about to store one.                                      *)

Holding == {"issueSet", "revokeReply", "revokeSet", "cleanupDel"}
(* Calls that hold a record they have read from Redis.                     *)
Reading == {"revokeReply", "revokeSet", "cleanupDel"}

Typed == TypeOK /\ \A p \in Proc : call[p].step \in Holding => call[p].record \in Record

(* A live record counts exactly the uses since its issue; a revoked or     *)
(* missing one only bounds them, because a stale SET may have rewound it.  *)
Counted ==
  \A t \in Token :
    /\ accepted[t] <= spent[t] /\ spent[t] <= granted[t]
    /\ db[t] # NoRecord /\ ~db[t].revoked => db[t].used = spent[t] /\ db[t].maxUses = granted[t]
    /\ revoked[t] => db[t] = NoRecord \/ db[t].revoked

(* What a call is about to write.                                          *)
Pending ==
  \A p \in Proc :
    /\ call[p].step = "issueSet" => call[p].record.used = 0 /\ ~call[p].record.revoked
    /\ call[p].step = "revokeSet" => call[p].record.revoked

(* PX covers the expiry and the grace period, however late SET is executed.*)
Lasting ==
  /\ \A p \in Proc : call[p].step \in {"issueSet", "revokeSet"}
                       => now + call[p].px >= call[p].record.expiresAt + Grace
  /\ TombstoneOutlivesToken

(* Copies of the record of a token issued once agree on its expiry.        *)
Copies ==
  /\ \A p \in Proc : call[p].step \in {"cleanupGet", "cleanupDel"} => call[p].at <= now
  /\ \A p \in Proc : call[p].step = "cleanupDel" => call[p].record.expiresAt <= now
  /\ \A t \in Token : db[t] # NoRecord => issues[t] >= 1
  /\ \A p \in Proc : call[p].step \in Reading => issues[call[p].token] >= 1
  /\ \A p \in Proc : call[p].step \in Reading /\ issues[call[p].token] <= 1
                       /\ db[call[p].token] # NoRecord
                       => call[p].record.expiresAt = db[call[p].token].expiresAt
  /\ \A p, q \in Proc : call[p].step \in Reading /\ call[q].step \in Reading
                          /\ call[p].token = call[q].token /\ issues[call[p].token] <= 1
                          => call[p].record.expiresAt = call[q].record.expiresAt

-----------------------------------------------------------------------------
(* What the steps do to the calls.  The invariants are then proved from    *)
(* these facts, not from the definitions of the actions.                   *)

Others(p) == \A q \in Proc \ {p} : call'[q] = call[q]

LEMMA AwaitEffect ==
  ASSUME TypeOK, NEW p \in Proc, NEW s \in Steps, NEW c \in Call, Await(p, s, c)
  PROVE  /\ call' \in [Proc -> Call] /\ Others(p)
         /\ call'[p].step = s /\ call'[p].token = c.token /\ call'[p].record = c.record
         /\ call'[p].at = c.at /\ call'[p].px = c.px
<1>1. [c EXCEPT !.step = s, !.listening = TRUE] \in Call
  BY DEF Call
<1>2. QED
  BY <1>1 DEF Await, Others, TypeOK, Call

LEMMA ReturnEffect ==
  ASSUME TypeOK, NEW p \in Proc, Return(p)
  PROVE  call' \in [Proc -> Call] /\ Others(p) /\ call'[p].step = "idle"
BY IdleType DEF Return, Others, TypeOK, Idle

LEMMA IssueTokenEffect ==
  ASSUME Typed, NEW p \in Proc, NEW t \in Token, IssueToken(p, t)
  PROVE  /\ call' \in [Proc -> Call] /\ Others(p)
         /\ call'[p].step = "issueSet"
         /\ call'[p].record \in Record
         /\ call'[p].record.used = 0 /\ ~call'[p].record.revoked
         /\ now + call'[p].px = call'[p].record.expiresAt + Grace
<1> USE DEF Typed, TypeOK
<1>1. PICK a \in IssueArgs, ttl \in Ttls, m \in UseCounts :
        /\ IssuableArgs(ttl, m)
        /\ Await(p, "issueSet",
                 [Idle EXCEPT !.token = t, !.px = ttl + Grace,
                              !.record = NewRecord(a.scope, a.ids, a.metadata, now + ttl, m)])
  BY DEF IssueToken
<1> DEFINE r == NewRecord(a.scope, a.ids, a.metadata, now + ttl, m)
           c == [Idle EXCEPT !.token = t, !.px = ttl + Grace, !.record = r]
<1>2. r \in Record /\ r.expiresAt = now + ttl /\ r.used = 0 /\ ~r.revoked
  BY <1>1, NewRecordType
<1>3. ttl \in Int /\ Grace \in Nat /\ ttl + Grace \in Nat
  BY <1>1, StoreAssumption DEF IssuableArgs
<1>4. Await(p, "issueSet", c)
  BY <1>1
<1> HIDE DEF r
<1>5. c \in Call /\ c.px = ttl + Grace /\ c.record = r
  BY <1>2, <1>3, IdleType DEF Call
<1> HIDE DEF c
<1>6. "issueSet" \in Steps
  BY DEF Steps, Awaiting
<1>7. QED
  BY <1>2, <1>3, <1>4, <1>5, <1>6, AwaitEffect

LEMMA ConsumeTokenEffect ==
  ASSUME Typed, NEW p \in Proc, NEW t \in Token, ConsumeToken(p, t)
  PROVE  call' \in [Proc -> Call] /\ Others(p) /\ call'[p].step = "consumeEval" /\ call'[p].token = t
<1> USE DEF Typed, TypeOK
<1>1. PICK e \in ExpectedArgs :
        Await(p, "consumeEval", [Idle EXCEPT !.token = t, !.expected = e, !.at = now])
  BY DEF ConsumeToken
<1>2. /\ [Idle EXCEPT !.token = t, !.expected = e, !.at = now] \in Call
      /\ [Idle EXCEPT !.token = t, !.expected = e, !.at = now].token = t
  BY IdleType DEF Call
<1>3. "consumeEval" \in Steps
  BY DEF Steps, Awaiting
<1>4. QED
  BY <1>1, <1>2, <1>3, AwaitEffect

LEMMA RevokeTokenEffect ==
  ASSUME Typed, NEW p \in Proc, NEW t \in Token, RevokeToken(p, t)
  PROVE  call' \in [Proc -> Call] /\ Others(p) /\ call'[p].step = "revokeGet"
<1> USE DEF Typed, TypeOK
<1>1. [Idle EXCEPT !.token = t] \in Call
  BY IdleType DEF Call
<1>2. "revokeGet" \in Steps
  BY DEF Steps, Awaiting
<1>3. QED
  BY <1>1, <1>2, AwaitEffect DEF RevokeToken

LEMMA RevokeGetEffect ==
  ASSUME Typed, NEW p \in Proc, RevokeGet(p)
  PROVE  /\ call' \in [Proc -> Call] /\ Others(p)
         /\ \/ call'[p].step = "idle"
            \/ /\ call'[p].step = "revokeReply" /\ call'[p].token = call[p].token
               /\ db[call[p].token] # NoRecord /\ call'[p].record = db[call[p].token]
               /\ call'[p].record \in Record
<1> USE DEF Typed, TypeOK
<1> DEFINE found == db[call[p].token]
           c == [call[p] EXCEPT !.record = found]
<1>1. call[p] \in Call /\ found \in Record \cup {NoRecord}
  BY DEF Call
<1>2. c \in Call /\ c.token = call[p].token /\ c.record = found
  BY <1>1 DEF Call
<1>3. "revokeReply" \in Steps
  BY DEF Steps
<1>4. CASE Return(p)
  BY <1>4, ReturnEffect
<1>5. CASE found # NoRecord /\ Await(p, "revokeReply", c)
  <2> HIDE DEF c, found
  <2>1. /\ call' \in [Proc -> Call] /\ Others(p) /\ call'[p].step = "revokeReply"
        /\ call'[p].token = call[p].token /\ call'[p].record = found
    BY <1>2, <1>3, <1>5, AwaitEffect
  <2>2. QED
    BY <1>1, <1>5, <2>1 DEF found
<1>6. QED
  BY <1>4, <1>5 DEF RevokeGet, Continue

LEMMA RevokeReplyEffect ==
  ASSUME Typed, NEW p \in Proc, RevokeReply(p)
  PROVE  /\ call' \in [Proc -> Call] /\ Others(p)
         /\ call[p].step = "revokeReply" /\ call'[p].step = "revokeSet"
         /\ call'[p].token = call[p].token
         /\ call'[p].record \in Record /\ call'[p].record.revoked
         /\ call'[p].record.expiresAt = call[p].record.expiresAt
         /\ call'[p].record.metadata = call[p].record.metadata
         /\ now + call'[p].px >= call'[p].record.expiresAt + Grace
<1> USE DEF Typed, TypeOK
<1> DEFINE r == call[p].record
           c == [call[p] EXCEPT !.record = Revoke(r), !.px = RevokePx(r)]
<1>1. call[p] \in Call /\ r \in Record /\ r.expiresAt \in Int
  BY DEF RevokeReply, Holding, Record
<1>2. /\ Revoke(r) \in Record /\ Revoke(r).revoked /\ Revoke(r).expiresAt = r.expiresAt
      /\ Revoke(r).metadata = r.metadata
  BY <1>1, RevokeType
<1>3. RevokePx(r) \in Nat /\ now + RevokePx(r) >= r.expiresAt + Grace
  BY <1>1, StoreAssumption DEF RevokePx
<1>4. c \in Call /\ c.token = call[p].token /\ c.record = Revoke(r) /\ c.px = RevokePx(r)
  BY <1>1, <1>2, <1>3 DEF Call
<1>5. Await(p, "revokeSet", c) /\ call[p].step = "revokeReply"
  BY DEF RevokeReply
<1>6. "revokeSet" \in Steps
  BY DEF Steps, Awaiting
<1> HIDE DEF c, r
<1>7. /\ call' \in [Proc -> Call] /\ Others(p) /\ call'[p].step = "revokeSet"
      /\ call'[p].token = call[p].token /\ call'[p].record = Revoke(r) /\ call'[p].px = RevokePx(r)
  BY <1>4, <1>5, <1>6, AwaitEffect
<1>8. QED
  BY <1>2, <1>3, <1>5, <1>7 DEF r

LEMMA CleanupExpiredEffect ==
  ASSUME Typed, NEW p \in Proc, CleanupExpired(p)
  PROVE  /\ call' \in [Proc -> Call] /\ Others(p)
         /\ call'[p].step = "cleanupGet" /\ call'[p].at = now
<1> USE DEF Typed, TypeOK
<1> DEFINE c == [Idle EXCEPT !.at = now, !.todo = Token]
<1>1. c \in Call /\ c.at = now
  BY IdleType DEF Call
<1>2. "cleanupGet" \in Steps
  BY DEF Steps, Awaiting
<1>3. Await(p, "cleanupGet", c)
  BY DEF CleanupExpired
<1> HIDE DEF c
<1>4. QED
  BY <1>1, <1>2, <1>3, AwaitEffect

LEMMA CleanupGetEffect ==
  ASSUME Typed, NEW p \in Proc, NEW t \in Token, CleanupGet(p, t)
  PROVE  /\ call' \in [Proc -> Call] /\ Others(p) /\ call[p].step = "cleanupGet"
         /\ \/ call'[p].step = "idle"
            \/ call'[p].step = "cleanupGet" /\ call'[p].at = call[p].at
            \/ /\ call'[p].step = "cleanupDel" /\ call'[p].at = call[p].at
               /\ call'[p].token = t /\ db[t] # NoRecord
               /\ call'[p].record = db[t] /\ call'[p].record \in Record
               /\ call'[p].record.expiresAt <= call[p].at
<1> USE DEF Typed, TypeOK
<1> DEFINE c == [call[p] EXCEPT !.todo = @ \ {t}]
           d == [c EXCEPT !.token = t, !.record = db[t]]
<1>1. call[p] \in Call /\ db[t] \in Record \cup {NoRecord} /\ call[p].step = "cleanupGet"
  BY DEF CleanupGet
<1>2. c \in Call /\ c.at = call[p].at
  BY <1>1 DEF Call
<1>3. d \in Call /\ d.at = call[p].at /\ d.token = t /\ d.record = db[t]
  BY <1>1 DEF Call
<1>4. "cleanupGet" \in Steps /\ "cleanupDel" \in Steps
  BY DEF Steps, Awaiting
<1>5. \/ Return(p)
      \/ Await(p, "cleanupGet", c)
      \/ db[t] # NoRecord /\ ExpiredAt(db[t], call[p].at) /\ Await(p, "cleanupDel", d)
  BY DEF CleanupGet, Continue
<1> HIDE DEF c, d
<1>6. CASE Return(p)
  BY <1>1, <1>6, ReturnEffect
<1>7. CASE Await(p, "cleanupGet", c)
  BY <1>1, <1>2, <1>4, <1>7, AwaitEffect
<1>8. CASE db[t] # NoRecord /\ ExpiredAt(db[t], call[p].at) /\ Await(p, "cleanupDel", d)
  BY <1>1, <1>3, <1>4, <1>8, AwaitEffect DEF ExpiredAt
<1>9. QED
  BY <1>5, <1>6, <1>7, <1>8

LEMMA CleanupDelEffect ==
  ASSUME Typed, NEW p \in Proc, CleanupDel(p)
  PROVE  /\ call' \in [Proc -> Call] /\ Others(p)
         /\ \/ call'[p].step = "idle"
            \/ call'[p].step = "cleanupGet" /\ call'[p].at = call[p].at
<1> USE DEF Typed, TypeOK
<1> DEFINE c == [Idle EXCEPT !.at = call[p].at, !.todo = call[p].todo]
<1>1. call[p] \in Call
  OBVIOUS
<1>2. c \in Call /\ c.at = call[p].at
  BY <1>1, IdleType DEF Call
<1>3. "cleanupGet" \in Steps
  BY DEF Steps, Awaiting
<1>4. Return(p) \/ Await(p, "cleanupGet", c)
  BY DEF CleanupDel, Continue
<1> HIDE DEF c
<1>5. QED
  BY <1>2, <1>3, <1>4, ReturnEffect, AwaitEffect

LEMMA GiveUpEffect ==
  ASSUME Typed, NEW p \in Proc, GiveUp(p)
  PROVE  /\ call' \in [Proc -> Call] /\ Others(p)
         /\ call'[p].step = call[p].step /\ call'[p].token = call[p].token
         /\ call'[p].record = call[p].record /\ call'[p].at = call[p].at /\ call'[p].px = call[p].px
         /\ call'[p].expected = call[p].expected
BY DEF GiveUp, Others, Typed, TypeOK, Call

(* The steps that end their call.                                          *)
LEMMA EndEffect ==
  ASSUME Typed, NEW p \in Proc,
         IssueSet(p) \/ ConsumeEval(p) \/ RevokeSet(p) \/ CleanupReturn(p) \/ CommandLost(p)
  PROVE  call' \in [Proc -> Call] /\ Others(p) /\ call'[p].step = "idle"
BY ReturnEffect DEF Typed, IssueSet, ConsumeEval, RevokeSet, CleanupReturn, CommandLost

-----------------------------------------------------------------------------
(* The four storing steps, on the side of Redis.                           *)

LEMMA IssueSetEffect ==
  ASSUME Typed, NEW p \in Proc, IssueSet(p)
  PROVE  LET t == call[p].token
             r == call[p].record
         IN /\ t \in Token /\ r \in Record /\ call[p].step = "issueSet" /\ now' = now
            /\ \/ UNCHANGED <<db, deadline, history>>
               \/ /\ db[t] = NoRecord
                  /\ db' = [db EXCEPT ![t] = r]
                  /\ deadline' = [deadline EXCEPT ![t] = now + call[p].px]
                  /\ granted' = [granted EXCEPT ![t] = r.maxUses]
                  /\ spent' = [spent EXCEPT ![t] = 0]
                  /\ accepted' = [accepted EXCEPT ![t] = 0]
                  /\ revoked' = [revoked EXCEPT ![t] = FALSE]
                  /\ issues' = [issues EXCEPT ![t] = @ + 1]
BY DEF IssueSet, Typed, TypeOK, Call, Holding, history

LEMMA ConsumeEvalEffect ==
  ASSUME Typed, NEW p \in Proc, ConsumeEval(p)
  PROVE  LET t == call[p].token
         IN /\ t \in Token
            /\ UNCHANGED <<deadline, now, granted, revoked, issues>>
            /\ \/ UNCHANGED <<db, spent, accepted>>
               \/ /\ db[t] \in Record /\ ~db[t].revoked /\ db[t].used < db[t].maxUses
                  /\ db[t] # NoRecord
                  /\ db' = [db EXCEPT ![t] = Spend(db[t])]
                  /\ spent' = [spent EXCEPT ![t] = @ + 1]
                  /\ accepted' = accepted \/ accepted' = [accepted EXCEPT ![t] = @ + 1]
<1> DEFINE t == call[p].token
           admitted == db[t] # NoRecord /\ ScriptAdmits(db[t], call[p].expected, call[p].at)
<1>1. t \in Token /\ db[t] \in Record \cup {NoRecord}
  BY DEF Typed, TypeOK, Call
<1>2. CASE ~admitted
  BY <1>1, <1>2 DEF ConsumeEval
<1>3. CASE admitted
  <2>1. db[t] \in Record /\ ~db[t].revoked /\ db[t].used < db[t].maxUses
    BY <1>1, <1>3 DEF ScriptAdmits, Usable
  <2>2. QED
    BY <1>1, <1>3, <2>1 DEF ConsumeEval
<1>4. QED
  BY <1>2, <1>3

LEMMA RevokeSetEffect ==
  ASSUME Typed, NEW p \in Proc, RevokeSet(p)
  PROVE  LET t == call[p].token
         IN /\ t \in Token /\ call[p].record \in Record /\ call[p].step = "revokeSet"
            /\ db' = [db EXCEPT ![t] = call[p].record]
            /\ deadline' = [deadline EXCEPT ![t] = now + call[p].px]
            /\ revoked' = [revoked EXCEPT ![t] = TRUE]
            /\ UNCHANGED <<now, granted, spent, accepted, issues>>
BY DEF RevokeSet, Typed, TypeOK, Call, Holding

-----------------------------------------------------------------------------
(* Typed is inductive.                                                     *)

LEMMA TypedInit == Init => Typed
<1>1. Idle.step = "idle"
  BY DEF Idle
<1>2. Init => TypeOK
  BY IdleType, LimitAssumption DEF Init, TypeOK
<1>3. Init => \A p \in Proc : call[p].step \notin Holding
  BY <1>1 DEF Init, Holding
<1>4. QED
  BY <1>2, <1>3 DEF Typed

LEMMA TypedStep == Typed /\ [Next]_vars => Typed'
<1> SUFFICES ASSUME Typed, [Next]_vars PROVE Typed'
  OBVIOUS
<1> USE DEF Typed, TypeOK, history
<1>1. ASSUME NEW p \in Proc, NEW t \in Token, IssueToken(p, t) PROVE Typed'
  BY <1>1, IssueTokenEffect DEF IssueToken, Others
<1>2. ASSUME NEW p \in Proc, NEW t \in Token, ConsumeToken(p, t) PROVE Typed'
  BY <1>2, ConsumeTokenEffect DEF ConsumeToken, Others, Holding
<1>3. ASSUME NEW p \in Proc, NEW t \in Token, RevokeToken(p, t) PROVE Typed'
  BY <1>3, RevokeTokenEffect DEF RevokeToken, Others, Holding
<1>4. ASSUME NEW p \in Proc, NEW t \in Token, CleanupGet(p, t) PROVE Typed'
  BY <1>4, CleanupGetEffect DEF CleanupGet, Others, Holding
<1>5. ASSUME NEW p \in Proc, IssueSet(p) PROVE Typed'
  <2>1. call' \in [Proc -> Call] /\ Others(p) /\ call'[p].step = "idle"
    BY <1>5, EndEffect
  <2>2. call[p].record \in Record => call[p].record.maxUses \in 0..MaxUsesLimit
    BY LimitAssumption DEF Record
  <2>3. call[p].px \in Nat
    BY DEF Call
  <2>4. \A q \in Proc : call'[q].step \in Holding => call'[q].record \in Record
    BY <2>1 DEF Others, Holding
  <2> DEFINE t == call[p].token
             r == call[p].record
             d == now + call[p].px
  <2>5. d \in Nat /\ t \in Token /\ r \in Record /\ r.maxUses \in 0..MaxUsesLimit
    BY <1>5, <2>2, <2>3, IssueSetEffect
  <2>6. CASE UNCHANGED <<db, deadline, history>>
    BY <1>5, <2>1, <2>4, <2>6, IssueSetEffect
  <2>7. CASE /\ db' = [db EXCEPT ![t] = r]
             /\ deadline' = [deadline EXCEPT ![t] = d]
             /\ granted' = [granted EXCEPT ![t] = r.maxUses]
             /\ spent' = [spent EXCEPT ![t] = 0]
             /\ accepted' = [accepted EXCEPT ![t] = 0]
             /\ revoked' = [revoked EXCEPT ![t] = FALSE]
             /\ issues' = [issues EXCEPT ![t] = @ + 1]
    <3> HIDE DEF t, r, d
    <3>1. db' \in [Token -> Record \cup {NoRecord}] /\ deadline' \in [Token -> Nat]
      BY <2>5, <2>7
    <3>2. granted' \in [Token -> 0..MaxUsesLimit] /\ issues' \in [Token -> Nat]
      BY <2>5, <2>7
    <3>3. spent' \in [Token -> Nat] /\ accepted' \in [Token -> Nat]
      BY <2>5, <2>7
    <3>4. revoked' \in [Token -> BOOLEAN]
      BY <2>5, <2>7
    <3>5. now' \in Nat
      BY <1>5, IssueSetEffect
    <3>6. QED
      BY <2>1, <2>4, <3>1, <3>2, <3>3, <3>4, <3>5
  <2>8. QED
    BY <1>5, <2>6, <2>7, IssueSetEffect
<1>6. ASSUME NEW p \in Proc, ConsumeEval(p) PROVE Typed'
  <2>1. call' \in [Proc -> Call] /\ Others(p) /\ call'[p].step = "idle"
    BY <1>6, EndEffect
  <2>2. QED
    BY <1>6, <2>1, ConsumeEvalEffect, SpendType DEF Others, Holding
<1>7. ASSUME NEW p \in Proc, RevokeGet(p) PROVE Typed'
  BY <1>7, RevokeGetEffect DEF RevokeGet, Others, Holding
<1>8. ASSUME NEW p \in Proc, RevokeReply(p) PROVE Typed'
  BY <1>8, RevokeReplyEffect DEF RevokeReply, Others
<1>9. ASSUME NEW p \in Proc, RevokeSet(p) PROVE Typed'
  <2>1. call' \in [Proc -> Call] /\ Others(p) /\ call'[p].step = "idle"
    BY <1>9, EndEffect
  <2>2. call[p].px \in Nat
    BY DEF Call
  <2>3. \A q \in Proc : call'[q].step \in Holding => call'[q].record \in Record
    BY <2>1 DEF Others, Holding
  <2>4. db' \in [Token -> Record \cup {NoRecord}] /\ deadline' \in [Token -> Nat]
    BY <1>9, <2>2, RevokeSetEffect
  <2>5. revoked' \in [Token -> BOOLEAN] /\ UNCHANGED <<now, granted, spent, accepted, issues>>
    BY <1>9, RevokeSetEffect
  <2>6. QED
    BY <2>1, <2>3, <2>4, <2>5
<1>10. ASSUME NEW p \in Proc, CleanupExpired(p) PROVE Typed'
  BY <1>10, CleanupExpiredEffect DEF CleanupExpired, Others, Holding
<1>11. ASSUME NEW p \in Proc, CleanupDel(p) PROVE Typed'
  BY <1>11, CleanupDelEffect DEF CleanupDel, Others, Holding
<1>12. ASSUME NEW p \in Proc, CleanupReturn(p) \/ CommandLost(p) PROVE Typed'
  <2>1. call' \in [Proc -> Call] /\ Others(p) /\ call'[p].step = "idle"
    BY <1>12, EndEffect
  <2>2. QED
    BY <1>12, <2>1 DEF CleanupReturn, CommandLost, Others, Holding
<1>13. ASSUME NEW p \in Proc, GiveUp(p) PROVE Typed'
  BY <1>13, GiveUpEffect DEF GiveUp, Others
<1>14. CASE Tick
  BY <1>14 DEF Tick
<1>15. CASE UNCHANGED vars
  BY <1>15 DEF vars
<1>16. QED
  BY <1>1, <1>2, <1>3, <1>4, <1>5, <1>6, <1>7, <1>8, <1>9, <1>10, <1>11, <1>12,
     <1>13, <1>14, <1>15 DEF Next

(* Type correctness: whatever the interleaving, Redis only ever holds      *)
(* records of the shape issueToken stores.                                 *)
THEOREM TypeCorrect == Spec => []TypeOK
<1>1. Spec => []Typed
  BY TypedInit, TypedStep, PTL DEF Spec
<1>2. Typed => TypeOK
  BY DEF Typed
<1>3. QED
  BY <1>1, <1>2, PTL

-----------------------------------------------------------------------------
(* Steps that only move a call along leave Redis and the history alone.    *)

Local == UNCHANGED <<db, deadline, now, history>>

Moves(p, t) == \/ IssueToken(p, t) \/ ConsumeToken(p, t) \/ RevokeToken(p, t) \/ CleanupGet(p, t)
               \/ RevokeGet(p) \/ RevokeReply(p) \/ CleanupExpired(p) \/ CleanupReturn(p)
               \/ GiveUp(p) \/ CommandLost(p)

LEMMA MovesAreLocal ==
  ASSUME NEW p \in Proc, NEW t \in Token, Moves(p, t)
  PROVE  Local
BY DEF Moves, Local, IssueToken, ConsumeToken, RevokeToken, CleanupGet, RevokeGet, RevokeReply,
       CleanupExpired, CleanupReturn, GiveUp, CommandLost

(* Every step is such a move, one of four storing steps, the clock, or     *)
(* nothing.                                                                *)
LEMMA NextCases ==
  ASSUME [Next]_vars
  PROVE  \/ \E p \in Proc, t \in Token : Moves(p, t)
         \/ \E p \in Proc : IssueSet(p) \/ ConsumeEval(p) \/ RevokeSet(p) \/ CleanupDel(p)
         \/ Tick
         \/ UNCHANGED vars
<1>1. \E t \in Token : TRUE
  BY StoreAssumption
<1>2. QED
  BY <1>1 DEF Next, Moves

LEMMA PendingInit == Init => Pending
<1>1. Idle.step = "idle"
  BY DEF Idle
<1>2. QED
  BY <1>1 DEF Init, Pending

LEMMA PendingStep == Typed /\ Pending /\ [Next]_vars => Pending'
<1> SUFFICES ASSUME Typed, Pending, [Next]_vars PROVE Pending'
  OBVIOUS
<1> USE DEF Pending
<1>1. ASSUME NEW p \in Proc, NEW t \in Token, Moves(p, t) PROVE Pending'
  <2>1. CASE IssueToken(p, t)
    BY <2>1, IssueTokenEffect DEF Others
  <2>2. CASE ConsumeToken(p, t)
    BY <2>2, ConsumeTokenEffect DEF Others
  <2>3. CASE RevokeToken(p, t)
    BY <2>3, RevokeTokenEffect DEF Others
  <2>4. CASE CleanupGet(p, t)
    BY <2>4, CleanupGetEffect DEF Others
  <2>5. CASE RevokeGet(p)
    BY <2>5, RevokeGetEffect DEF Others
  <2>6. CASE RevokeReply(p)
    BY <2>6, RevokeReplyEffect DEF Others
  <2>7. CASE CleanupExpired(p)
    BY <2>7, CleanupExpiredEffect DEF Others
  <2>8. CASE CleanupReturn(p) \/ CommandLost(p)
    BY <2>8, EndEffect DEF Others
  <2>9. CASE GiveUp(p)
    BY <2>9, GiveUpEffect DEF Others
  <2>10. QED
    BY <1>1, <2>1, <2>2, <2>3, <2>4, <2>5, <2>6, <2>7, <2>8, <2>9 DEF Moves
<1>2. ASSUME NEW p \in Proc, IssueSet(p) \/ ConsumeEval(p) \/ RevokeSet(p) PROVE Pending'
  BY <1>2, EndEffect DEF Others
<1>3. ASSUME NEW p \in Proc, CleanupDel(p) PROVE Pending'
  BY <1>3, CleanupDelEffect DEF Others
<1>4. CASE Tick
  BY <1>4 DEF Tick
<1>5. CASE UNCHANGED vars
  BY <1>5 DEF vars
<1>6. QED
  BY <1>1, <1>2, <1>3, <1>4, <1>5, NextCases

LEMMA CountedInit == Init => Counted
BY DEF Init, Counted

LEMMA CountedStep == Typed /\ Pending /\ Counted /\ [Next]_vars => Counted'
<1> SUFFICES ASSUME Typed, Pending, Counted, [Next]_vars PROVE Counted'
  OBVIOUS
<1> USE DEF Counted
<1>1. ASSUME NEW p \in Proc, NEW t \in Token, Moves(p, t) PROVE Counted'
  BY <1>1, MovesAreLocal DEF Local, history
<1>2. ASSUME NEW p \in Proc, IssueSet(p) PROVE Counted'
  <2>1. call[p].record.used = 0 /\ call[p].record.maxUses \in Nat
    BY <1>2, IssueSetEffect, LimitAssumption DEF Pending, Record
  <2>2. QED
    BY <1>2, <2>1, IssueSetEffect DEF history, Typed, TypeOK
<1>3. ASSUME NEW p \in Proc, ConsumeEval(p) PROVE Counted'
  <2> DEFINE t == call[p].token
  <2>1. CASE UNCHANGED <<db, spent, accepted>>
    BY <1>3, <2>1, ConsumeEvalEffect
  <2>2. CASE /\ db[t] \in Record /\ ~db[t].revoked /\ db[t].used < db[t].maxUses
             /\ db[t] # NoRecord
             /\ db' = [db EXCEPT ![t] = Spend(db[t])]
             /\ spent' = [spent EXCEPT ![t] = @ + 1]
             /\ accepted' = accepted \/ accepted' = [accepted EXCEPT ![t] = @ + 1]
    <3>1. t \in Token /\ UNCHANGED <<granted, revoked>>
      BY <1>3, ConsumeEvalEffect
    <3>2. /\ Spend(db[t]).used = db[t].used + 1 /\ Spend(db[t]).maxUses = db[t].maxUses
          /\ Spend(db[t]).revoked = db[t].revoked
      BY <2>2, SpendType
    <3>3. db[t].used = spent[t] /\ db[t].maxUses = granted[t] /\ ~revoked[t]
      BY <2>2, <3>1
    <3> HIDE DEF t
    <3>4. \A u \in Token \ {t} : /\ db'[u] = db[u] /\ spent'[u] = spent[u]
                                /\ accepted'[u] = accepted[u]
      BY <2>2, <3>1 DEF Typed, TypeOK
    <3>5. /\ db'[t] = Spend(db[t]) /\ spent'[t] = spent[t] + 1
          /\ accepted'[t] \in {accepted[t], accepted[t] + 1}
      BY <2>2, <3>1 DEF Typed, TypeOK
    <3>6. accepted[t] \in Nat /\ spent[t] \in Nat /\ granted[t] \in Nat
      BY <3>1, LimitAssumption DEF Typed, TypeOK
    <3>7. accepted'[t] <= spent'[t] /\ spent'[t] <= granted'[t]
      BY <2>2, <3>1, <3>3, <3>5, <3>6
    <3>8. QED
      BY <2>2, <3>1, <3>2, <3>3, <3>4, <3>5, <3>7
  <2>3. QED
    BY <1>3, <2>1, <2>2, ConsumeEvalEffect
<1>4. ASSUME NEW p \in Proc, RevokeSet(p) PROVE Counted'
  <2>1. call[p].record.revoked
    BY <1>4, RevokeSetEffect DEF Pending
  <2>2. QED
    BY <1>4, <2>1, RevokeSetEffect DEF Typed, TypeOK
<1>5. ASSUME NEW p \in Proc, CleanupDel(p) PROVE Counted'
  BY <1>5 DEF CleanupDel, history, Typed, TypeOK, Call
<1>6. CASE Tick
  BY <1>6 DEF Tick, history, Typed, TypeOK
<1>7. CASE UNCHANGED vars
  BY <1>7 DEF vars, history
<1>8. QED
  BY <1>1, <1>2, <1>3, <1>4, <1>5, <1>6, <1>7, NextCases

Safe == Typed /\ Pending /\ Counted

LEMMA SafeInvariant == Spec => []Safe
<1>1. Init => Safe
  BY TypedInit, PendingInit, CountedInit DEF Safe
<1>2. Safe /\ [Next]_vars => Safe'
  BY TypedStep, PendingStep, CountedStep DEF Safe
<1>3. QED
  BY <1>1, <1>2, PTL DEF Spec

(* No more callers are told that they consumed a token than its maxUses    *)
(* allows, whatever revocations, cleanups and lost answers do in between.  *)
THEOREM ReplayPrevented == Spec => []UsesWithinGrant
<1>1. Safe => UsesWithinGrant
  <2> SUFFICES ASSUME Safe PROVE UsesWithinGrant
    OBVIOUS
  <2>1. ASSUME NEW t \in Token PROVE spent[t] + Cap[t] <= granted[t]
    <3>1. spent[t] \in Nat /\ granted[t] \in Nat /\ db[t] \in Record \cup {NoRecord}
      BY LimitAssumption DEF Safe, Typed, TypeOK
    <3>2. Cap[t] = IF db[t] # NoRecord /\ ~db[t].revoked THEN db[t].maxUses - db[t].used ELSE 0
      BY DEF Cap
    <3>3. QED
      BY <3>1, <3>2 DEF Safe, Counted
  <2>2. QED
    BY <2>1 DEF Safe, Counted, UsesWithinGrant, Contract!WithinGrant
<1>2. QED
  BY <1>1, SafeInvariant, PTL

(* A token whose revocation has been written is never consumed again until *)
(* it is issued anew.                                                      *)
THEOREM RevocationHolds == Spec => RevocationIsFinal
<1> DEFINE Final == \A t \in Token : revoked[t] /\ revoked'[t] => spent'[t] = spent[t]
<1>1. Safe /\ [Next]_vars => [Final]_vars
  <2> SUFFICES ASSUME Safe, [Next]_vars, NEW t \in Token, revoked[t], revoked'[t]
               PROVE  spent'[t] = spent[t]
    OBVIOUS
  <2> USE DEF Safe
  <2>1. ASSUME NEW p \in Proc, NEW u \in Token, Moves(p, u) PROVE spent'[t] = spent[t]
    BY <2>1, MovesAreLocal DEF Local, history
  <2>2. ASSUME NEW p \in Proc, IssueSet(p) PROVE spent'[t] = spent[t]
    BY <2>2, IssueSetEffect DEF history, Typed, TypeOK
  <2>3. ASSUME NEW p \in Proc, ConsumeEval(p) PROVE spent'[t] = spent[t]
    BY <2>3, ConsumeEvalEffect DEF Typed, TypeOK, Counted
  <2>4. ASSUME NEW p \in Proc, RevokeSet(p) PROVE spent'[t] = spent[t]
    BY <2>4, RevokeSetEffect
  <2>5. ASSUME NEW p \in Proc, CleanupDel(p) PROVE spent'[t] = spent[t]
    BY <2>5 DEF CleanupDel, history
  <2>6. CASE Tick
    BY <2>6 DEF Tick, history
  <2>7. CASE UNCHANGED vars
    BY <2>7 DEF vars, history
  <2>8. QED
    BY <2>1, <2>2, <2>3, <2>4, <2>5, <2>6, <2>7, NextCases
<1>2. QED
  BY <1>1, SafeInvariant, PTL DEF Spec, RevocationIsFinal

-----------------------------------------------------------------------------
(* Refinement: Cap, granted and spent behave as TokenContract says.        *)

LEMMA CapType ==
  ASSUME Safe
  PROVE  \A t \in Token : /\ Cap[t] \in Nat
                          /\ db[t] = NoRecord => Cap[t] = 0
<1> SUFFICES ASSUME NEW t \in Token PROVE Cap[t] \in Nat /\ (db[t] = NoRecord => Cap[t] = 0)
  OBVIOUS
<1>1. Cap[t] = IF db[t] # NoRecord /\ ~db[t].revoked THEN db[t].maxUses - db[t].used ELSE 0
  BY DEF Cap
<1>2. spent[t] \in Nat /\ granted[t] \in Nat
  BY LimitAssumption DEF Safe, Typed, TypeOK
<1>3. QED
  BY <1>1, <1>2 DEF Safe, Counted

LEMMA ContractStep == Safe /\ [Next]_vars => [Contract!ContractNext]_(Contract!contractVars)
<1> SUFFICES ASSUME Safe, [Next]_vars
             PROVE  Contract!ContractNext \/ UNCHANGED <<Cap, granted, spent>>
  BY DEF Contract!contractVars
<1> USE DEF Safe
<1>1. ASSUME NEW p \in Proc, NEW t \in Token, Moves(p, t) PROVE UNCHANGED <<Cap, granted, spent>>
  BY <1>1, MovesAreLocal DEF Local, history, Cap
<1>2. ASSUME NEW p \in Proc, IssueSet(p)
      PROVE  Contract!ContractNext \/ UNCHANGED <<Cap, granted, spent>>
  <2> DEFINE t == call[p].token
             r == call[p].record
  <2>1. CASE UNCHANGED <<db, deadline, history>>
    BY <2>1 DEF Cap, history
  <2>2. CASE /\ db[t] = NoRecord
             /\ db' = [db EXCEPT ![t] = r]
             /\ granted' = [granted EXCEPT ![t] = r.maxUses]
             /\ spent' = [spent EXCEPT ![t] = 0]
    <3>1. /\ t \in Token /\ r \in Record /\ r # NoRecord /\ ~r.revoked /\ r.used = 0
          /\ r.maxUses \in 1..MaxUsesLimit /\ r.maxUses - r.used = r.maxUses
      BY <1>2, IssueSetEffect, StoreAssumption, LimitAssumption DEF Pending, Record
    <3>2. Cap[t] = 0
      BY <2>2, <3>1, CapType
    <3>3. Cap' = [Cap EXCEPT ![t] = r.maxUses]
      BY <2>2, <3>1 DEF Cap, Typed, TypeOK
    <3>4. Contract!Grant(t, r.maxUses)
      BY <2>2, <3>2, <3>3 DEF Contract!Grant
    <3>5. QED
      BY <3>1, <3>4 DEF Contract!ContractNext
  <2>3. QED
    BY <1>2, <2>1, <2>2, IssueSetEffect
<1>3. ASSUME NEW p \in Proc, ConsumeEval(p)
      PROVE  Contract!ContractNext \/ UNCHANGED <<Cap, granted, spent>>
  <2> DEFINE t == call[p].token
  <2>1. CASE UNCHANGED <<db, spent, accepted>>
    BY <1>3, <2>1, ConsumeEvalEffect DEF Cap
  <2>2. CASE /\ db[t] \in Record /\ ~db[t].revoked /\ db[t].used < db[t].maxUses
             /\ db[t] # NoRecord
             /\ db' = [db EXCEPT ![t] = Spend(db[t])]
             /\ spent' = [spent EXCEPT ![t] = @ + 1]
    <3>1. t \in Token /\ UNCHANGED granted
      BY <1>3, ConsumeEvalEffect
    <3>2. /\ Spend(db[t]) \in Record /\ Spend(db[t]) # NoRecord
          /\ Spend(db[t]).used = db[t].used + 1 /\ Spend(db[t]).maxUses = db[t].maxUses
          /\ ~Spend(db[t]).revoked
      BY <2>2, SpendType, StoreAssumption
    <3>3. db[t].used \in Nat /\ db[t].maxUses \in Nat
      BY <2>2, LimitAssumption DEF Record
    <3>4. Cap[t] = db[t].maxUses - db[t].used
      BY <2>2, <3>1 DEF Cap
    <3> HIDE DEF t
    <3>5. db'[t] = Spend(db[t]) /\ \A u \in Token \ {t} : db'[u] = db[u]
      BY <2>2, <3>1 DEF Typed, TypeOK
    <3>6. Cap'[t] = Cap[t] - 1
      BY <3>1, <3>2, <3>3, <3>4, <3>5 DEF Cap
    <3>7. Cap' = [Cap EXCEPT ![t] = @ - 1]
      BY <3>1, <3>5, <3>6 DEF Cap
    <3>8. Contract!Use(t)
      BY <2>2, <3>1, <3>3, <3>4, <3>7 DEF Contract!Use
    <3>9. QED
      BY <3>1, <3>8 DEF Contract!ContractNext
  <2>3. QED
    BY <1>3, <2>1, <2>2, ConsumeEvalEffect
<1>4. ASSUME NEW S \in SUBSET Token, UNCHANGED <<granted, spent>>,
             \A u \in Token \ S : db'[u] = db[u],
             \A u \in S : db'[u] = NoRecord \/ db'[u].revoked
      PROVE  Contract!ContractNext
  <2>1. Cap' = [u \in Token |-> IF u \in S THEN 0 ELSE Cap[u]]
    BY <1>4 DEF Cap
  <2>2. Contract!Withdraw(S)
    BY <1>4, <2>1 DEF Contract!Withdraw
  <2>3. QED
    BY <2>2 DEF Contract!ContractNext
<1>5. ASSUME NEW p \in Proc, RevokeSet(p) PROVE Contract!ContractNext
  <2> DEFINE S == {call[p].token}
  <2>1. S \in SUBSET Token /\ UNCHANGED <<granted, spent>>
    BY <1>5, RevokeSetEffect
  <2>2. \A u \in Token \ S : db'[u] = db[u]
    BY <1>5, RevokeSetEffect DEF Typed, TypeOK
  <2>3. \A u \in S : db'[u] = NoRecord \/ db'[u].revoked
    BY <1>5, RevokeSetEffect DEF Typed, TypeOK, Pending
  <2>4. QED
    BY <1>4, <2>1, <2>2, <2>3
<1>6. ASSUME NEW p \in Proc, CleanupDel(p) PROVE Contract!ContractNext
  <2> DEFINE S == {call[p].token}
  <2>1. S \in SUBSET Token /\ UNCHANGED <<granted, spent>>
    BY <1>6 DEF CleanupDel, history, Typed, TypeOK, Call
  <2>2. \A u \in Token \ S : db'[u] = db[u]
    BY <1>6 DEF CleanupDel, Typed, TypeOK
  <2>3. \A u \in S : db'[u] = NoRecord \/ db'[u].revoked
    BY <1>6, <2>1 DEF CleanupDel, Typed, TypeOK
  <2>4. QED
    BY <1>4, <2>1, <2>2, <2>3
<1>7. CASE Tick
  <2> DEFINE S == {u \in Token : deadline[u] <= now + 1}
  <2>1. S \in SUBSET Token /\ UNCHANGED <<granted, spent>>
    BY <1>7 DEF Tick, history
  <2>2. /\ \A u \in Token \ S : db'[u] = db[u]
        /\ \A u \in S : db'[u] = NoRecord \/ db'[u].revoked
    BY <1>7 DEF Tick
  <2>3. QED
    BY <1>4, <2>1, <2>2
<1>8. CASE UNCHANGED vars
  BY <1>8 DEF vars, history, Cap
<1>9. QED
  BY <1>1, <1>2, <1>3, <1>5, <1>6, <1>7, <1>8, NextCases

(* The Redis store, with its multi-command revocation and cleanup, is an   *)
(* implementation of the token contract.                                   *)
THEOREM RedisRefinesContract == Spec => ImplementsContract
<1>1. Init => Contract!ContractInit
  BY DEF Init, Cap, Contract!ContractInit
<1>2. QED
  BY <1>1, ContractStep, SafeInvariant, PTL DEF Spec, ImplementsContract, Contract!ContractSpec

-----------------------------------------------------------------------------
(* Records outlive their tokens.                                           *)

LEMMA LastingStep == Typed /\ Lasting /\ [Next]_vars => Lasting'
<1> SUFFICES ASSUME Typed, Lasting, [Next]_vars PROVE Lasting'
  OBVIOUS
<1> DEFINE Sends(q) == call[q].step \in {"issueSet", "revokeSet"}
           Covers(q) == now + call[q].px >= call[q].record.expiresAt + Grace
<1>0. now \in Nat /\ Grace \in Nat /\ \A q \in Proc : call[q] \in Call /\ call[q].px \in Nat
  BY StoreAssumption DEF Typed, TypeOK, Call
<1> USE DEF Lasting, TombstoneOutlivesToken
<1>1. ASSUME NEW p \in Proc, NEW t \in Token, Moves(p, t) PROVE Lasting'
  <2>1. db' = db /\ deadline' = deadline /\ now' = now
    BY <1>1, MovesAreLocal DEF Local
  <2>2. ASSUME Others(p), Sends(p)' => Covers(p)' PROVE Lasting'
    BY <2>1, <2>2 DEF Others
  <2>3. CASE IssueToken(p, t)
    <3>1. /\ Others(p) /\ call'[p].px \in Nat /\ call'[p].record.expiresAt \in Int
          /\ now + call'[p].px = call'[p].record.expiresAt + Grace
      BY <2>3, IssueTokenEffect DEF Call, Record
    <3>2. QED
      BY <1>0, <2>1, <2>2, <3>1
  <2>4. CASE ConsumeToken(p, t)
    BY <2>2, <2>4, ConsumeTokenEffect
  <2>5. CASE RevokeToken(p, t)
    BY <2>2, <2>5, RevokeTokenEffect
  <2>6. CASE CleanupGet(p, t)
    BY <2>2, <2>6, CleanupGetEffect
  <2>7. CASE RevokeGet(p)
    BY <2>2, <2>7, RevokeGetEffect
  <2>8. CASE RevokeReply(p)
    BY <2>1, <2>2, <2>8, RevokeReplyEffect
  <2>9. CASE CleanupExpired(p)
    BY <2>2, <2>9, CleanupExpiredEffect
  <2>10. CASE CleanupReturn(p) \/ CommandLost(p)
    BY <2>2, <2>10, EndEffect
  <2>11. CASE GiveUp(p)
    BY <2>1, <2>2, <2>11, GiveUpEffect
  <2>12. QED
    BY <1>1, <2>3, <2>4, <2>5, <2>6, <2>7, <2>8, <2>9, <2>10, <2>11 DEF Moves
<1>2. ASSUME NEW p \in Proc, IssueSet(p) PROVE Lasting'
  <2>1. Others(p) /\ call'[p].step = "idle" /\ now' = now
    BY <1>2, EndEffect, IssueSetEffect
  <2>2. now + call[p].px >= call[p].record.expiresAt + Grace
    BY <1>2, IssueSetEffect
  <2>3. QED
    BY <1>2, <2>1, <2>2, IssueSetEffect DEF Others, Typed, TypeOK
<1>3. ASSUME NEW p \in Proc, ConsumeEval(p) PROVE Lasting'
  <2>1. Others(p) /\ call'[p].step = "idle" /\ now' = now /\ deadline' = deadline
    BY <1>3, EndEffect, ConsumeEvalEffect
  <2>2. \A t \in Token : db'[t] # NoRecord
                           => db[t] # NoRecord /\ db'[t].expiresAt = db[t].expiresAt
    BY <1>3, ConsumeEvalEffect, SpendType DEF Typed, TypeOK
  <2>3. QED
    BY <2>1, <2>2 DEF Others
<1>4. ASSUME NEW p \in Proc, RevokeSet(p) PROVE Lasting'
  <2>1. Others(p) /\ call'[p].step = "idle" /\ now' = now
    BY <1>4, EndEffect, RevokeSetEffect
  <2>2. now + call[p].px >= call[p].record.expiresAt + Grace
    BY <1>4, RevokeSetEffect
  <2>3. QED
    BY <1>4, <2>1, <2>2, RevokeSetEffect DEF Others, Typed, TypeOK
<1>5. ASSUME NEW p \in Proc, CleanupDel(p) PROVE Lasting'
  <2>1. Others(p) /\ call'[p].step \in {"idle", "cleanupGet"}
    BY <1>5, CleanupDelEffect
  <2>2. now' = now /\ deadline' = deadline
        /\ \A t \in Token : db'[t] # NoRecord => db'[t] = db[t]
    BY <1>5 DEF CleanupDel, Typed, TypeOK
  <2>3. QED
    BY <2>1, <2>2 DEF Others
<1>6. CASE Tick
  <2>1. now' = now + 1 /\ call' = call /\ deadline' = deadline
    BY <1>6 DEF Tick
  <2>2. \A t \in Token : db'[t] # NoRecord => db'[t] = db[t]
    BY <1>6 DEF Tick
  <2>3. ASSUME NEW q \in Proc, Sends(q) PROVE now + 1 + call[q].px >= call[q].record.expiresAt + Grace
    <3>1. call[q].record \in Record /\ call[q].record.expiresAt \in Int
      BY <2>3 DEF Typed, Holding, Record
    <3>2. QED
      BY <1>0, <2>3, <3>1
  <2>4. QED
    BY <2>1, <2>2, <2>3
<1>7. CASE UNCHANGED vars
  BY <1>7 DEF vars
<1>8. QED
  BY <1>1, <1>2, <1>3, <1>4, <1>5, <1>6, <1>7, NextCases

(* A consumed or revoked record blocks a second issue of its value for the *)
(* whole grace period after its expiry.                                    *)
THEOREM TombstonesLast == Spec => []TombstoneOutlivesToken
<1>1. Init => Lasting
  <2>1. Idle.step = "idle"
    BY DEF Idle
  <2>2. QED
    BY <2>1 DEF Init, Lasting, TombstoneOutlivesToken
<1>2. Spec => []Typed
  BY TypedInit, TypedStep, PTL DEF Spec
<1>3. Lasting => TombstoneOutlivesToken
  BY DEF Lasting
<1>4. QED
  BY <1>1, <1>2, <1>3, LastingStep, PTL DEF Spec

-----------------------------------------------------------------------------
(* A token issued once is not lost before its expiry.                      *)

LEMMA CopiesStep == Typed /\ Copies /\ [Next]_vars => Copies'
<1> SUFFICES ASSUME Typed, Copies, [Next]_vars PROVE Copies'
  OBVIOUS
<1>0. /\ now \in Nat
      /\ \A q \in Proc : call[q].token \in Token /\ call[q].at \in Nat
      /\ \A t \in Token : issues[t] \in Nat
  BY DEF Typed, TypeOK, Call
<1> USE DEF Copies
<1>1. ASSUME NEW p \in Proc, NEW t \in Token, Moves(p, t) PROVE Copies'
  <2>1. db' = db /\ issues' = issues /\ now' = now
    BY <1>1, MovesAreLocal DEF Local, history
  \* the call drops out, or starts a cleanup
  <2>2. ASSUME Others(p), call'[p].step \notin Reading,
               call'[p].step = "cleanupGet" => call'[p].at <= now
        PROVE  Copies'
    BY <2>1, <2>2 DEF Others, Reading
  \* the call keeps its copy, or gives up waiting
  <2>3. ASSUME Others(p), call'[p].token = call[p].token,
               call'[p].step \in Reading => call[p].step \in Reading
                                            /\ call'[p].record.expiresAt = call[p].record.expiresAt,
               call'[p].step \in {"cleanupGet", "cleanupDel"} => call'[p].at <= now,
               call'[p].step = "cleanupDel" => call[p].step = "cleanupDel"
        PROVE  Copies'
    BY <2>1, <2>3 DEF Others, Reading
  \* the call takes a copy of the stored record
  <2>4. ASSUME Others(p), call'[p].token \in Token, db[call'[p].token] # NoRecord,
               call'[p].record = db[call'[p].token],
               call'[p].step = "revokeReply"
               \/ (call'[p].step = "cleanupDel" /\ call'[p].at <= now
                   /\ call'[p].record.expiresAt <= now)
        PROVE  Copies'
    BY <1>0, <2>1, <2>4 DEF Others, Reading
  <2>5. CASE IssueToken(p, t)
    BY <2>2, <2>5, IssueTokenEffect DEF Reading
  <2>6. CASE ConsumeToken(p, t)
    BY <2>2, <2>6, ConsumeTokenEffect DEF Reading
  <2>7. CASE RevokeToken(p, t)
    BY <2>2, <2>7, RevokeTokenEffect DEF Reading
  <2>8. CASE CleanupGet(p, t)
    <3>1. CASE call'[p].step = "cleanupDel"
      <4>1. /\ Others(p) /\ call[p].step = "cleanupGet" /\ call'[p].at = call[p].at
            /\ call'[p].token = t /\ db[t] # NoRecord /\ call'[p].record = db[t]
            /\ call'[p].record.expiresAt <= call[p].at /\ call'[p].record.expiresAt \in Int
        BY <2>8, <3>1, CleanupGetEffect DEF Record
      <4>2. call[p].at <= now
        BY <4>1
      <4>3. call'[p].record.expiresAt <= now
        BY <1>0, <4>1, <4>2
      <4>4. QED
        BY <2>4, <3>1, <4>1, <4>2, <4>3
    <3>2. CASE call'[p].step # "cleanupDel"
      BY <2>2, <2>8, <3>2, CleanupGetEffect DEF Reading
    <3>3. QED
      BY <3>1, <3>2
  <2>9. CASE RevokeGet(p)
    <3>1. CASE call'[p].step = "idle"
      BY <2>2, <2>9, <3>1, RevokeGetEffect DEF Reading
    <3>2. CASE call'[p].step # "idle"
      BY <1>0, <2>4, <2>9, <3>2, RevokeGetEffect
    <3>3. QED
      BY <3>1, <3>2
  <2>10. CASE RevokeReply(p)
    BY <2>3, <2>10, RevokeReplyEffect DEF Reading
  <2>11. CASE CleanupExpired(p)
    BY <1>0, <2>2, <2>11, CleanupExpiredEffect DEF Reading
  <2>12. CASE CleanupReturn(p) \/ CommandLost(p)
    BY <2>2, <2>12, EndEffect DEF Reading
  <2>13. CASE GiveUp(p)
    BY <2>3, <2>13, GiveUpEffect
  <2>14. QED
    BY <1>1, <2>5, <2>6, <2>7, <2>8, <2>9, <2>10, <2>11, <2>12, <2>13 DEF Moves
<1>2. ASSUME NEW p \in Proc, IssueSet(p) PROVE Copies'
  <2>1. Others(p) /\ call'[p].step = "idle" /\ now' = now
    BY <1>2, EndEffect, IssueSetEffect
  <2> DEFINE t == call[p].token
  <2>2. t \in Token
    BY <1>0
  <2>3. CASE UNCHANGED <<db, issues>>
    BY <2>1, <2>3 DEF Others, Reading
  <2>4. CASE db[t] = NoRecord /\ issues' = [issues EXCEPT ![t] = @ + 1]
             /\ \A u \in Token \ {t} : db'[u] = db[u]
    <3>1. issues'[t] = issues[t] + 1 /\ \A u \in Token \ {t} : issues'[u] = issues[u]
      BY <2>2, <2>4 DEF Typed, TypeOK
    <3>2. \A q \in Proc : call[q].step \in Reading /\ call[q].token = t => issues'[t] > 1
      BY <1>0, <2>2, <3>1
    <3> HIDE DEF t
    <3>3. issues'[t] >= 1
      BY <1>0, <2>2, <3>1
    <3>4. \A q \in Proc : call'[q].step \in Reading => q # p /\ call'[q] = call[q]
      BY <2>1 DEF Others, Reading
    <3>5. \A q \in Proc : call'[q].step \in Reading => issues'[call'[q].token] >= 1
      BY <1>0, <3>1, <3>3, <3>4
    <3>6. \A q \in Proc : call'[q].step \in Reading /\ issues'[call'[q].token] <= 1
                            => call'[q].token # t /\ issues[call[q].token] <= 1
      BY <1>0, <3>1, <3>2, <3>4
    <3>7. \A u \in Token : db'[u] # NoRecord => issues'[u] >= 1
      BY <2>4, <3>1, <3>3
    <3>8. \A q \in Proc : call'[q].step \in {"cleanupGet", "cleanupDel"} => call'[q] = call[q]
      BY <2>1 DEF Others
    <3>9. QED
      BY <1>0, <2>1, <2>4, <3>4, <3>5, <3>6, <3>7, <3>8
  <2>5. QED
    BY <1>2, <2>3, <2>4, IssueSetEffect DEF history, Typed, TypeOK
<1>3. ASSUME NEW p \in Proc, ConsumeEval(p) PROVE Copies'
  <2>1. Others(p) /\ call'[p].step = "idle" /\ now' = now /\ issues' = issues
    BY <1>3, EndEffect, ConsumeEvalEffect
  <2>2. \A t \in Token : db'[t] # NoRecord
                           => db[t] # NoRecord /\ db'[t].expiresAt = db[t].expiresAt
    BY <1>3, ConsumeEvalEffect, SpendType DEF Typed, TypeOK
  <2>3. QED
    BY <1>0, <2>1, <2>2 DEF Others, Reading
<1>4. ASSUME NEW p \in Proc, RevokeSet(p) PROVE Copies'
  <2>1. Others(p) /\ call'[p].step = "idle" /\ now' = now /\ issues' = issues
    BY <1>4, EndEffect, RevokeSetEffect
  <2>2. /\ db'[call[p].token] = call[p].record /\ call[p].step \in Reading
        /\ \A u \in Token : u # call[p].token => db'[u] = db[u]
    BY <1>4, RevokeSetEffect DEF Typed, TypeOK, Reading
  <2>3. \A q \in Proc : call'[q].step \in Reading => q # p /\ call'[q] = call[q]
    BY <2>1 DEF Others, Reading
  <2>4. QED
    BY <1>0, <2>1, <2>2, <2>3 DEF Others
<1>5. ASSUME NEW p \in Proc, CleanupDel(p) PROVE Copies'
  <2>1. /\ Others(p)
        /\ call'[p].step = "idle" \/ (call'[p].step = "cleanupGet" /\ call'[p].at = call[p].at)
    BY <1>5, CleanupDelEffect
  <2>2. /\ now' = now /\ issues' = issues /\ call[p].step = "cleanupDel"
        /\ \A t \in Token : db'[t] # NoRecord => db'[t] = db[t]
    BY <1>5 DEF CleanupDel, history, Typed, TypeOK
  <2>3. QED
    BY <1>0, <2>1, <2>2 DEF Others, Reading
<1>6. CASE Tick
  <2>1. now' = now + 1 /\ call' = call /\ issues' = issues
    BY <1>6 DEF Tick, history
  <2>2. \A t \in Token : db'[t] # NoRecord => db'[t] = db[t]
    BY <1>6 DEF Tick
  <2>3. \A q \in Proc : call[q].step = "cleanupDel" => call[q].record.expiresAt \in Int
    BY DEF Typed, Holding, Record
  <2>4. QED
    BY <1>0, <2>1, <2>2, <2>3
<1>7. CASE UNCHANGED vars
  BY <1>7 DEF vars, history
<1>8. QED
  BY <1>1, <1>2, <1>3, <1>4, <1>5, <1>6, <1>7, NextCases

(* Cleanup and eviction take a token that was issued once only after its   *)
(* expiry.                                                                 *)
THEOREM LiveRecordsKept == Spec => LiveRecordsSurvive
<1> DEFINE Kept == \A t \in Token : db[t] # NoRecord /\ db'[t] = NoRecord
                                      => db[t].expiresAt <= now' \/ issues[t] > 1
           Inv == Typed /\ Copies /\ Lasting
<1>1. Init => Inv
  <2>1. Idle.step = "idle"
    BY DEF Idle
  <2>2. QED
    BY <2>1, TypedInit DEF Init, Copies, Lasting, TombstoneOutlivesToken, Reading
<1>2. Inv /\ [Next]_vars => Inv'
  BY TypedStep, CopiesStep, LastingStep
<1>3. Inv /\ [Next]_vars => [Kept]_vars
  <2> SUFFICES ASSUME Inv, [Next]_vars, NEW t \in Token, db[t] # NoRecord, db'[t] = NoRecord
               PROVE  db[t].expiresAt <= now' \/ issues[t] > 1
    OBVIOUS
  <2>1. ASSUME NEW p \in Proc, NEW u \in Token, Moves(p, u) PROVE FALSE
    BY <2>1, MovesAreLocal DEF Local
  <2>2. ASSUME NEW p \in Proc, IssueSet(p) PROVE FALSE
    BY <2>2, IssueSetEffect, StoreAssumption DEF Typed, TypeOK
  <2>3. ASSUME NEW p \in Proc, ConsumeEval(p) PROVE FALSE
    BY <2>3, ConsumeEvalEffect, SpendType, StoreAssumption DEF Typed, TypeOK
  <2>4. ASSUME NEW p \in Proc, RevokeSet(p) PROVE FALSE
    BY <2>4, RevokeSetEffect, StoreAssumption DEF Typed, TypeOK
  <2>5. ASSUME NEW p \in Proc, CleanupDel(p) PROVE db[t].expiresAt <= now' \/ issues[t] > 1
    <3>1. call[p].token = t /\ call[p].step = "cleanupDel" /\ now' = now
      BY <2>5 DEF CleanupDel, Typed, TypeOK
    <3>2. call[p].record.expiresAt <= now /\ issues[t] \in Nat
      BY <3>1 DEF Copies, Typed, TypeOK
    <3>3. issues[t] <= 1 => call[p].record.expiresAt = db[t].expiresAt
      BY <3>1 DEF Copies, Reading
    <3>4. QED
      BY <3>1, <3>2, <3>3
  <2>6. CASE Tick
    <3>1. deadline[t] <= now + 1 /\ now' = now + 1
      BY <2>6 DEF Tick
    <3>2. deadline[t] >= db[t].expiresAt + Grace
      BY DEF Lasting, TombstoneOutlivesToken
    <3>3. db[t].expiresAt \in Int /\ Grace \in Nat /\ deadline[t] \in Nat /\ now \in Nat
      BY StoreAssumption DEF Typed, TypeOK, Record
    <3>4. QED
      BY <3>1, <3>2, <3>3
  <2>7. CASE UNCHANGED vars
    BY <2>7 DEF vars
  <2>8. QED
    BY <2>1, <2>2, <2>3, <2>4, <2>5, <2>6, <2>7, NextCases
<1>4. QED
  BY <1>1, <1>2, <1>3, PTL DEF Spec, LiveRecordsSurvive

=============================================================================
