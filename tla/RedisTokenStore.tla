--------------------------- MODULE RedisTokenStore ---------------------------
(***************************************************************************)
(* createRedisTokenStore (server/tokens/redis_token_store.js): several     *)
(* server instances share one Redis.  Every asynchronous call of the store *)
(* is a process p; each Redis command it sends is one atomic step, and     *)
(* other calls, the clock and key expiry run between two of its commands.  *)
(*                                                                         *)
(* A caller that lost its connection or waited past the command timeout    *)
(* gets an error while its command may still reach Redis: `listening` says *)
(* whether somebody still waits for the answer.  The clocks of the         *)
(* instances and of Redis are taken to agree.                              *)
(***************************************************************************)
EXTENDS TokenRecords

CONSTANTS Token, Proc,
          NoRecord,          \* the answer of GET for a key that does not exist
          Ttls, UseCounts,   \* arguments callers pass as ttlMs and maxUses
          IssueArgs,         \* the scope, ids and metadata arguments of issueToken
          ExpectedArgs,      \* the `expected` arguments of consumeToken
          Grace,             \* expiredRecordGraceMs
          MaxTime,           \* bound: the clock stops here
          MaxIssues          \* bound: no issue of a token starts after this many

ASSUME StoreAssumption ==
    /\ NoRecord \notin Record
    /\ Grace \in Nat
    /\ Ttls \subseteq Int /\ UseCounts \subseteq Int
    /\ IssueArgs \subseteq [scope: Scopes, ids: Expectations(IdKeys),
                            metadata: Bindings(MetaKeys)]
    /\ ExpectedArgs \subseteq Expected
    /\ MaxTime \in Nat /\ MaxIssues \in Nat
    /\ Token # {} /\ ExpectedArgs # {}

VARIABLES
    db,          \* db[t]: the record stored under t's hash, or NoRecord
    deadline,    \* deadline[t]: when Redis drops that key (PX)
    now,         \* the clock
    call,        \* call[p]: the step and the local variables of call p
    \* history, read by the properties only
    granted,     \* granted[t]: maxUses of the latest issue of t
    spent,       \* spent[t]: consumes of t that Redis executed since then
    accepted,    \* accepted[t]: those whose caller was told so
    revoked,     \* revoked[t]: a revocation was written since then
    issues       \* issues[t]: how many times t was issued

history == <<granted, spent, accepted, revoked, issues>>
vars == <<db, deadline, now, call, history>>

(* Steps at which a command is on its way to Redis or being executed.      *)
Awaiting == {"issueSet", "consumeEval", "revokeGet", "revokeSet", "cleanupGet", "cleanupDel"}
Steps == Awaiting \cup {"idle", "revokeReply"}

Call == [step: Steps, token: Token, record: Record \cup {NoRecord}, expected: ExpectedArgs,
         at: Nat, px: Nat, todo: SUBSET Token, listening: BOOLEAN]

Idle == [step |-> "idle", token |-> CHOOSE t \in Token : TRUE, record |-> NoRecord,
         expected |-> CHOOSE e \in ExpectedArgs : TRUE,
         at |-> 0, px |-> 0, todo |-> {}, listening |-> FALSE]

(* setRecord: PX = max(1, expiresAt - now + grace).                        *)
RevokePx_NoGrace(r) == IF r.expiresAt - now > 1 THEN r.expiresAt - now ELSE 1
RevokePx(r) == IF r.expiresAt - now + Grace > 1 THEN r.expiresAt - now + Grace ELSE 1

(* The test of cleanupExpired.                                             *)
ExpiredAt_OffByOne(r, time) == r.expiresAt <= time + 1
ExpiredAt(r, time) == r.expiresAt <= time

Init ==
    /\ db = [t \in Token |-> NoRecord]
    /\ deadline = [t \in Token |-> 0]
    /\ now = 0
    /\ call = [p \in Proc |-> Idle]
    /\ granted = [t \in Token |-> 0]
    /\ spent = [t \in Token |-> 0]
    /\ accepted = [t \in Token |-> 0]
    /\ revoked = [t \in Token |-> FALSE]
    /\ issues = [t \in Token |-> 0]

(* Call p waits at step s with local variables c; Return ends it; Continue *)
(* is what the arrival of an answer does: nothing if the caller gave up.   *)
Await(p, s, c) == call' = [call EXCEPT ![p] = [c EXCEPT !.step = s, !.listening = TRUE]]
Return(p) == call' = [call EXCEPT ![p] = Idle]
Continue(p, s, c) == IF call[p].listening THEN Await(p, s, c) ELSE Return(p)

-----------------------------------------------------------------------------
(* issueToken: the record and its expiry are computed before the command   *)
(* is sent; SET NX PX stores it if the key is free.                        *)
IssueToken(p, t) ==
    /\ call[p].step = "idle"
    /\ issues[t] < MaxIssues
    /\ \E a \in IssueArgs, ttl \in Ttls, m \in UseCounts :
         /\ IssuableArgs(ttl, m)
         /\ Await(p, "issueSet",
                  [Idle EXCEPT !.token = t, !.px = ttl + Grace,
                               !.record = NewRecord(a.scope, a.ids, a.metadata, now + ttl, m)])
    /\ UNCHANGED <<db, deadline, now, history>>

IssueSet(p) ==
    LET t == call[p].token
        r == call[p].record
    IN /\ call[p].step = "issueSet"
       /\ \/ /\ db[t] = NoRecord
             /\ db' = [db EXCEPT ![t] = r]
             /\ deadline' = [deadline EXCEPT ![t] = now + call[p].px]
             /\ granted' = [granted EXCEPT ![t] = r.maxUses]
             /\ spent' = [spent EXCEPT ![t] = 0]
             /\ accepted' = [accepted EXCEPT ![t] = 0]
             /\ revoked' = [revoked EXCEPT ![t] = FALSE]
             /\ issues' = [issues EXCEPT ![t] = @ + 1]
          \/ /\ db[t] # NoRecord                      \* duplicate_token
             /\ UNCHANGED <<db, deadline, history>>
       /\ Return(p)
       /\ UNCHANGED now

(* consumeToken: the clock is read when the script is sent.                *)
ConsumeToken(p, t) ==
    /\ call[p].step = "idle"
    /\ \E e \in ExpectedArgs :
         Await(p, "consumeEval", [Idle EXCEPT !.token = t, !.expected = e, !.at = now])
    /\ UNCHANGED <<db, deadline, now, history>>

(* CONSUME_SCRIPT, atomic in Redis; SET KEEPTTL leaves the deadline alone. *)
ConsumeEval(p) ==
    LET t == call[p].token
        admitted == db[t] # NoRecord /\ ScriptAdmits(db[t], call[p].expected, call[p].at)
    IN /\ call[p].step = "consumeEval"
       /\ \/ /\ admitted
             /\ db' = [db EXCEPT ![t] = Spend(@)]
             /\ spent' = [spent EXCEPT ![t] = @ + 1]
             /\ accepted' = IF call[p].listening THEN [accepted EXCEPT ![t] = @ + 1]
                                                 ELSE accepted
          \/ ~admitted /\ UNCHANGED <<db, spent, accepted>>
       /\ Return(p)
       /\ UNCHANGED <<deadline, now, granted, revoked, issues>>

(* revokeToken: GET (directly, or by a SCAN for the fingerprint), then a   *)
(* SET of the record read, marked revoked, with a PX computed in between.  *)
RevokeToken(p, t) ==
    /\ call[p].step = "idle"
    /\ Await(p, "revokeGet", [Idle EXCEPT !.token = t])
    /\ UNCHANGED <<db, deadline, now, history>>

RevokeGet(p) ==
    LET found == db[call[p].token]
    IN /\ call[p].step = "revokeGet"
       /\ IF found = NoRecord THEN Return(p)
          ELSE Continue(p, "revokeReply", [call[p] EXCEPT !.record = found])
       /\ UNCHANGED <<db, deadline, now, history>>

RevokeReply(p) ==
    LET r == call[p].record
    IN /\ call[p].step = "revokeReply"
       /\ Await(p, "revokeSet", [call[p] EXCEPT !.record = Revoke(r),
                                                !.px = RevokePx(r)])
       /\ UNCHANGED <<db, deadline, now, history>>

RevokeSet(p) ==
    LET t == call[p].token
    IN /\ call[p].step = "revokeSet"
       /\ db' = [db EXCEPT ![t] = call[p].record]
       /\ deadline' = [deadline EXCEPT ![t] = now + call[p].px]
       /\ revoked' = [revoked EXCEPT ![t] = TRUE]
       /\ Return(p)
       /\ UNCHANGED <<now, granted, spent, accepted, issues>>

(* cleanupExpired: one clock reading, then GET and DEL key by key.         *)
CleanupExpired(p) ==
    /\ call[p].step = "idle"
    /\ Await(p, "cleanupGet", [Idle EXCEPT !.at = now, !.todo = Token])
    /\ UNCHANGED <<db, deadline, now, history>>

CleanupGet(p, t) ==
    /\ call[p].step = "cleanupGet"
    /\ t \in call[p].todo
    /\ LET c == [call[p] EXCEPT !.todo = @ \ {t}]
       IN IF db[t] # NoRecord /\ ExpiredAt(db[t], call[p].at)
          THEN Continue(p, "cleanupDel", [c EXCEPT !.token = t, !.record = db[t]])
          ELSE Continue(p, "cleanupGet", c)
    /\ UNCHANGED <<db, deadline, now, history>>

CleanupDel(p) ==
    /\ call[p].step = "cleanupDel"
    /\ db' = [db EXCEPT ![call[p].token] = NoRecord]
    /\ Continue(p, "cleanupGet", [Idle EXCEPT !.at = call[p].at, !.todo = call[p].todo])
    /\ UNCHANGED <<deadline, now, history>>

CleanupReturn(p) ==
    /\ call[p].step = "cleanupGet"
    /\ call[p].todo = {}
    /\ Return(p)
    /\ UNCHANGED <<db, deadline, now, history>>

-----------------------------------------------------------------------------
(* The caller gets an error (timeout, connection lost) while its command   *)
(* is still under way: it may be executed later, unseen.                   *)
GiveUp(p) ==
    /\ call[p].step \in Awaiting
    /\ call[p].listening
    /\ call' = [call EXCEPT ![p].listening = FALSE]
    /\ UNCHANGED <<db, deadline, now, history>>

(* The command never reaches Redis: connect failed, or the socket closed.  *)
CommandLost(p) ==
    /\ call[p].step \in Awaiting
    /\ Return(p)
    /\ UNCHANGED <<db, deadline, now, history>>

(* Time passes; Redis drops the keys whose PX has run out.                 *)
Tick ==
    /\ now < MaxTime
    /\ now' = now + 1
    /\ db' = [t \in Token |-> IF deadline[t] <= now + 1 THEN NoRecord ELSE db[t]]
    /\ UNCHANGED <<deadline, call, history>>

Next ==
    \/ \E p \in Proc, t \in Token : \/ IssueToken(p, t) \/ ConsumeToken(p, t)
                                    \/ RevokeToken(p, t) \/ CleanupGet(p, t)
    \/ \E p \in Proc : \/ IssueSet(p) \/ ConsumeEval(p)
                       \/ RevokeGet(p) \/ RevokeReply(p) \/ RevokeSet(p)
                       \/ CleanupExpired(p) \/ CleanupDel(p) \/ CleanupReturn(p)
                       \/ GiveUp(p) \/ CommandLost(p)
    \/ Tick

Spec == Init /\ [][Next]_vars

-----------------------------------------------------------------------------
(* Every variable keeps its type: in particular what parseRecord and the   *)
(* script find in Redis always has the shape issueToken stored.            *)
TypeOK ==
    /\ db \in [Token -> Record \cup {NoRecord}]
    /\ deadline \in [Token -> Nat]
    /\ now \in Nat
    /\ call \in [Proc -> Call]
    /\ granted \in [Token -> 0..MaxUsesLimit]
    /\ spent \in [Token -> Nat]
    /\ accepted \in [Token -> Nat]
    /\ revoked \in [Token -> BOOLEAN]
    /\ issues \in [Token -> Nat]

(* The uses Redis can still hand out for t.  An expired record that is     *)
(* still stored counts: a script sent before the expiry may still spend it.*)
Cap == [t \in Token |-> IF db[t] # NoRecord /\ ~db[t].revoked
                        THEN db[t].maxUses - db[t].used ELSE 0]

Contract == INSTANCE TokenContract WITH cap <- Cap, MaxGrant <- MaxUsesLimit

(* The store keeps the contract of token_store.js at every interleaving:   *)
(* revokeToken's SET of a record read earlier rewinds `used` or revives a  *)
(* deleted key, but never gives a use back.                                *)
ImplementsContract == Contract!ContractSpec

(* Replay prevention across instances: however consumes, revocations,      *)
(* cleanups and lost answers interleave, no more callers are told that     *)
(* they consumed a token than maxUses allows.                              *)
UsesWithinGrant ==
    /\ \A t \in Token : accepted[t] <= spent[t]
    /\ Contract!WithinGrant

(* Once revokeToken has written its record, no consume of that token       *)
(* succeeds until it is issued anew: not one sent before the revocation,   *)
(* not after a second revocation holding an older record, not after the    *)
(* key was dropped.                                                        *)
RevocationIsFinal ==
    [][\A t \in Token : revoked[t] /\ revoked'[t] => spent'[t] = spent[t]]_vars

(* cleanupExpired deletes without looking again and Redis evicts on its    *)
(* own: still, a token value issued only once disappears only after its    *)
(* expiry.  (A value issued twice can lose its second record to a DEL      *)
(* decided on the first.)                                                  *)
LiveRecordsSurvive ==
    [][\A t \in Token : db[t] # NoRecord /\ db'[t] = NoRecord
                           => db[t].expiresAt <= now' \/ issues[t] > 1]_vars

(* A stored record stays for the grace period after its expiry, whoever    *)
(* wrote it: a consumed or revoked token keeps blocking SET NX of the same *)
(* value for as long as an old copy of the token could pass its expiry     *)
(* check.                                                                  *)
TombstoneOutlivesToken ==
    \A t \in Token : db[t] # NoRecord => deadline[t] >= db[t].expiresAt + Grace
=============================================================================
