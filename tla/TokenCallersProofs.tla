------------------------- MODULE TokenCallersProofs -------------------------
(***************************************************************************)
(* Proofs about TokenCallers for any number of tokens, processes and       *)
(* arguments.  Every step of a caller is a step of the store or none, so   *)
(* what is proved of the store holds under its callers.  A worker's second *)
(* call is tied to its first by what the caller keeps across it            *)
(* (Consuming) and, for the job id, by the agreement of every copy of a    *)
(* record of a token value issued once (JobsAgree): the copy in Redis, the *)
(* ones a revocation holds and will write back, and the ones a preflight   *)
(* has read.                                                               *)
(***************************************************************************)
EXTENDS TokenCallers, RedisTokenStoreProofs

Registration == [want: ExpectedArgs, record: Record]

CallersTyped == /\ Typed
                /\ caller \in [Proc -> Caller]
                /\ relayUp \in BOOLEAN /\ relayWaste \in BOOLEAN
                /\ workers \in [Token -> SUBSET Registration]

Preflighting == {"preflightGet", "preflightReply"}

(* What process p keeps while consumeWorkloadToken waits.                  *)
Consuming(p) ==
    /\ caller[p].step \in Preflighting \cup {"consume"} => caller[p].want \in WorkloadExpected
    /\ caller[p].step = "preflightReply" => caller[p].found \in Record
    /\ caller[p].step = "consume" =>
         /\ call[p].step = "consumeEval" /\ call[p].token = caller[p].token
         /\ \A k \in IdKeys : caller[p].want.ids[k] \in Values \cup {Undefined}
         /\ call[p].expected.scope = "slaif.workload"
         /\ call[p].expected.ids = caller[p].want.ids
         /\ call[p].expected.metadata["payloadId"] = caller[p].want.metadata["payloadId"]

CallerInv == CallersTyped /\ (\A p \in Proc : Consuming(p)) /\ RegistrationMatchesRecord

(* The job ids under which copies of t's record are around.                *)
JobIds == Values \cup {Undefined}
Rewriting == {"revokeReply", "revokeSet"}
StoreSees(t, j) ==
    \/ db[t] # NoRecord /\ j = db[t].metadata["jobId"]
    \/ \E p \in Proc : /\ call[p].step \in Rewriting /\ call[p].token = t
                       /\ j = call[p].record.metadata["jobId"]
CallerSees(t, j) ==
    \E p \in Proc : /\ caller[p].step = "preflightReply" /\ caller[p].token = t
                    /\ j = caller[p].found.metadata["jobId"]
Sees(t, j) == StoreSees(t, j) \/ CallerSees(t, j)

Waits(p, t) == caller[p].step = "consume" /\ caller[p].token = t

JobsAgree(t) ==
    /\ \A j \in JobIds : Sees(t, j) => issues[t] >= 1
    /\ \A p \in Proc : Waits(p, t) => issues[t] >= 1
    /\ issues[t] <= 1 =>
         /\ \A j, k \in JobIds : Sees(t, j) /\ Sees(t, k) => j = k
         /\ \A p \in Proc : Waits(p, t) =>
              \A j \in JobIds : Sees(t, j) => j \in {Undefined, caller[p].want.metadata["jobId"]}

JobInv == CallerInv /\ (\A t \in Token : JobsAgree(t)) /\ JobBindingHeld

-----------------------------------------------------------------------------
(* The callers use the store through its operations.                       *)

LEMMA CallersStepOfStore ==
  ASSUME caller \in [Proc -> Caller], [CallersNext]_allVars
  PROVE  [Next]_vars
<1>1. ASSUME NEW p \in Proc, NEW t \in Token, ResolveRelayToken(p, t) PROVE [Next]_vars
  BY <1>1 DEF ResolveRelayToken, Next
<1>2. ASSUME NEW p \in Proc, PreflightReply(p) PROVE [Next]_vars
  <2>1. caller[p].token \in Token
    BY DEF Caller
  <2>2. QED
    BY <1>2, <2>1 DEF PreflightReply, Next
<1>3. ASSUME NEW p \in Proc,
             WorkloadEval(p) \/ RelayEval(p) \/ CallerGivesUp(p) \/ CallerLost(p) \/ Maintenance(p)
      PROVE  [Next]_vars
  BY <1>3 DEF WorkloadEval, RelayEval, CallerGivesUp, CallerLost, Maintenance, Next
<1>4. QED
  BY <1>1, <1>2, <1>3 DEF CallersNext, allVars, ConsumeWorkloadToken, PreflightGet, PreflightLost, Next

LEMMA NoCallerType == NoCaller \in Caller /\ NoCaller.step = "none"
<1>1. (CHOOSE t \in Token : TRUE) \in Token
  BY StoreAssumption
<1>2. (CHOOSE e \in ExpectedArgs : TRUE) \in ExpectedArgs
  BY StoreAssumption
<1>3. QED
  BY <1>1, <1>2 DEF NoCaller, Caller, CallerSteps

(* The caller of p moves, the others stay.                                 *)
LEMMA BecomesEffect ==
  ASSUME caller \in [Proc -> Caller], NEW p \in Proc, NEW c \in Caller, Becomes(p, c)
  PROVE  /\ caller' \in [Proc -> Caller] /\ caller'[p] = c
         /\ \A q \in Proc \ {p} : caller'[q] = caller[q]
BY DEF Becomes

LEMMA ConsumeWorkloadEffect ==
  ASSUME CallersTyped, NEW p \in Proc, NEW t \in Token, NEW e \in WorkloadExpected,
         ConsumeWorkloadToken(p, t, e)
  PROVE  /\ caller' \in [Proc -> Caller] /\ \A q \in Proc \ {p} : caller'[q] = caller[q]
         /\ caller'[p].step = "preflightGet" /\ caller'[p].want = e
         /\ UNCHANGED <<vars, relayUp, workers, relayWaste>>
<1> DEFINE c == [NoCaller EXCEPT !.step = "preflightGet", !.token = t, !.want = e]
<1>1. c \in Caller /\ c.step = "preflightGet" /\ c.want = e
  BY NoCallerType, CallerAssumption DEF Caller, CallerSteps
<1>2. Becomes(p, c)
  BY DEF ConsumeWorkloadToken
<1> HIDE DEF c
<1>3. QED
  BY <1>1, <1>2, BecomesEffect DEF CallersTyped, ConsumeWorkloadToken

LEMMA ResolveRelayEffect ==
  ASSUME CallersTyped, NEW p \in Proc, NEW t \in Token, ResolveRelayToken(p, t)
  PROVE  /\ caller' \in [Proc -> Caller] /\ \A q \in Proc \ {p} : caller'[q] = caller[q]
         /\ caller'[p].step = "relay"
         /\ UNCHANGED <<relayUp, workers, relayWaste>>
<1> DEFINE c == [NoCaller EXCEPT !.step = "relay", !.token = t]
<1>1. c \in Caller /\ c.step = "relay"
  BY NoCallerType DEF Caller, CallerSteps
<1>2. Becomes(p, c)
  BY DEF ResolveRelayToken
<1> HIDE DEF c
<1>3. QED
  BY <1>1, <1>2, BecomesEffect DEF CallersTyped, ResolveRelayToken

LEMMA PreflightGetEffect ==
  ASSUME CallersTyped, NEW p \in Proc, PreflightGet(p)
  PROVE  /\ caller' \in [Proc -> Caller] /\ \A q \in Proc \ {p} : caller'[q] = caller[q]
         /\ caller[p].step = "preflightGet" /\ caller[p].token \in Token
         /\ \/ caller'[p].step = "none"
            \/ /\ caller'[p].step = "preflightReply" /\ caller'[p].token = caller[p].token
               /\ caller'[p].want = caller[p].want /\ caller'[p].found \in Record
               /\ db[caller[p].token] # NoRecord /\ caller'[p].found = db[caller[p].token]
         /\ UNCHANGED <<vars, relayUp, workers, relayWaste>>
<1> DEFINE t == caller[p].token
           c == [caller[p] EXCEPT !.step = "preflightReply", !.found = db[t]]
<1>1. caller[p] \in Caller /\ t \in Token /\ db[t] \in Record \cup {NoRecord}
  BY DEF CallersTyped, Caller, Typed, TypeOK
<1>2. /\ c \in Caller /\ c.step = "preflightReply" /\ c.token = caller[p].token
      /\ c.want = caller[p].want /\ c.found = db[t]
  BY <1>1 DEF Caller, CallerSteps
<1>3. /\ caller[p].step = "preflightGet"
      /\ db[t] = NoRecord => Becomes(p, NoCaller)
      /\ db[t] # NoRecord => Becomes(p, c)
  BY DEF PreflightGet
<1> HIDE DEF c, t
<1>4. QED
  BY <1>1, <1>2, <1>3, BecomesEffect, NoCallerType DEF CallersTyped, PreflightGet, t

(* What the caller carries from the first call into the second.            *)
LEMMA BindingEffect ==
  ASSUME NEW r \in Record, NEW e \in WorkloadExpected
  PROVE  /\ ConsumeBinding(r, e).scope = "slaif.workload"
         /\ ConsumeBinding(r, e).ids = e.ids
         /\ ConsumeBinding(r, e).metadata["payloadId"] = e.metadata["payloadId"]
<1>1. e \in Expected /\ e.scope = "slaif.workload"
  BY CallerAssumption, StoreAssumption
<1>2. QED
  BY <1>1, CallerAssumption DEF ConsumeBinding, Expected, Expectations

LEMMA PreflightReplyEffect ==
  ASSUME CallersTyped, NEW p \in Proc, PreflightReply(p)
  PROVE  LET c == caller[p]
         IN  /\ caller' \in [Proc -> Caller] /\ \A q \in Proc \ {p} : caller'[q] = caller[q]
             /\ c.step = "preflightReply" /\ c.token \in Token
             /\ \/ caller'[p].step = "none" /\ UNCHANGED vars
                \/ /\ CheckRecord(c.found, c.want, now) /\ AssertJobBindingSatisfied(c.found, c.want)
                   /\ ConsumeToken(p, c.token)
                   /\ call'[p].expected = ConsumeBinding(c.found, c.want)
                   /\ caller'[p].step = "consume" /\ caller'[p].token = c.token
                   /\ caller'[p].want = c.want
             /\ UNCHANGED <<relayUp, workers, relayWaste>>
<1> DEFINE c == caller[p]
           n == [c EXCEPT !.step = "consume", !.found = NoRecord]
<1>1. c \in Caller /\ c.token \in Token
  BY DEF CallersTyped, Caller
<1>2. n \in Caller /\ n.step = "consume" /\ n.token = c.token /\ n.want = c.want
  BY <1>1 DEF Caller, CallerSteps
<1>3. c.step = "preflightReply" /\ UNCHANGED <<relayUp, workers, relayWaste>>
  BY DEF PreflightReply
<1>4. \/ Becomes(p, NoCaller) /\ UNCHANGED vars
      \/ /\ CheckRecord(c.found, c.want, now) /\ AssertJobBindingSatisfied(c.found, c.want)
         /\ ConsumeToken(p, c.token)
         /\ call'[p].expected = ConsumeBinding(c.found, c.want)
         /\ Becomes(p, n)
  BY DEF PreflightReply
<1> HIDE DEF c, n
<1>5. QED
  BY <1>1, <1>2, <1>3, <1>4, BecomesEffect, NoCallerType DEF CallersTyped, c

(* The steps that end a caller's call.                                     *)
LEMMA CallerEndEffect ==
  ASSUME CallersTyped, NEW p \in Proc,
         PreflightLost(p) \/ WorkloadEval(p) \/ RelayEval(p) \/ CallerLost(p)
  PROVE  /\ caller' \in [Proc -> Caller] /\ \A q \in Proc \ {p} : caller'[q] = caller[q]
         /\ caller'[p].step = "none"
<1>1. Becomes(p, NoCaller)
  BY DEF PreflightLost, WorkloadEval, RelayEval, CallerLost
<1>2. QED
  BY <1>1, BecomesEffect, NoCallerType DEF CallersTyped

(* A worker is registered when the script has admitted its call.           *)
LEMMA WorkloadEvalEffect ==
  ASSUME CallersTyped, NEW p \in Proc, WorkloadEval(p), Consuming(p)
  PROVE  LET t == caller[p].token
             w == [want |-> caller[p].want, record |-> db[t]]
         IN  /\ caller[p].step = "consume" /\ t \in Token
             /\ UNCHANGED <<relayUp, relayWaste, issues>>
             /\ \/ workers' = workers
                \/ /\ workers' = [workers EXCEPT ![t] = @ \cup {w}]
                   /\ db[t] \in Record /\ db[t] # NoRecord /\ w \in Registration
                   /\ ScriptAdmits(db[t], call[p].expected, call[p].at)
<1> DEFINE t == caller[p].token
           w == [want |-> caller[p].want, record |-> db[t]]
<1>1. /\ caller[p] \in Caller /\ t \in Token /\ caller[p].want \in ExpectedArgs
      /\ db[t] \in Record \cup {NoRecord}
  BY DEF CallersTyped, Caller, Typed, TypeOK
<1>2. caller[p].step = "consume" /\ call[p].token = t
  BY DEF WorkloadEval, Consuming
<1>3. CASE accepted' = accepted
  BY <1>1, <1>2, <1>3 DEF WorkloadEval, ConsumeEval
<1>4. CASE accepted' # accepted
  <2>1. db[t] # NoRecord /\ ScriptAdmits(db[t], call[p].expected, call[p].at)
    BY <1>2, <1>4 DEF WorkloadEval, ConsumeEval
  <2>2. workers' = [workers EXCEPT ![t] = @ \cup {w}]
    BY <1>4 DEF WorkloadEval
  <2>3. UNCHANGED <<relayUp, relayWaste, issues>>
    BY DEF WorkloadEval, ConsumeEval
  <2>4. w \in Registration /\ db[t] \in Record
    BY <1>1, <2>1 DEF Registration
  <2>5. QED
    BY <1>1, <1>2, <2>1, <2>2, <2>3, <2>4
<1>5. QED
  BY <1>3, <1>4

LEMMA MaintenanceEffect ==
  ASSUME CallersTyped, NEW p \in Proc, Maintenance(p)
  PROVE  /\ Others(p) /\ caller[p].step = "none"
         /\ workers' = [t \in Token |-> IF issues'[t] = issues[t] THEN workers[t] ELSE {}]
         /\ UNCHANGED <<caller, relayUp, relayWaste>>
<1>1. Others(p)
  BY IssueTokenEffect, RevokeTokenEffect, CleanupGetEffect, RevokeGetEffect, RevokeReplyEffect,
     CleanupExpiredEffect, CleanupDelEffect, GiveUpEffect, EndEffect DEF CallersTyped, Maintenance
<1>2. QED
  BY <1>1 DEF Maintenance

-----------------------------------------------------------------------------
(* Types, and what a waiting worker holds.                                 *)

LEMMA CallersTypedInit == CallersInit => CallersTyped
<1> SUFFICES ASSUME CallersInit PROVE CallersTyped
  OBVIOUS
<1>1. Typed
  BY TypedInit DEF CallersInit
<1>2. QED
  BY <1>1, NoCallerType DEF CallersInit, CallersTyped

LEMMA CallersTypedStep ==
  ASSUME CallersTyped, \A p \in Proc : Consuming(p), [CallersNext]_allVars
  PROVE  CallersTyped'
<1>0. Typed'
  BY CallersStepOfStore, TypedStep DEF CallersTyped
<1>1. ASSUME NEW p \in Proc, NEW t \in Token, NEW e \in WorkloadExpected,
             ConsumeWorkloadToken(p, t, e)
      PROVE  CallersTyped'
  BY <1>0, <1>1, ConsumeWorkloadEffect DEF CallersTyped
<1>2. ASSUME NEW p \in Proc, NEW t \in Token, ResolveRelayToken(p, t) PROVE CallersTyped'
  BY <1>0, <1>2, ResolveRelayEffect DEF CallersTyped
<1>3. ASSUME NEW p \in Proc, PreflightGet(p) PROVE CallersTyped'
  BY <1>0, <1>3, PreflightGetEffect DEF CallersTyped
<1>4. ASSUME NEW p \in Proc, PreflightReply(p) PROVE CallersTyped'
  BY <1>0, <1>4, PreflightReplyEffect DEF CallersTyped
<1>5. ASSUME NEW p \in Proc, PreflightLost(p) \/ RelayEval(p) \/ CallerLost(p) PROVE CallersTyped'
  <2>1. workers' = workers /\ relayUp' \in BOOLEAN /\ relayWaste' \in BOOLEAN
    BY <1>5 DEF PreflightLost, RelayEval, CallerLost, CallersTyped
  <2>2. QED
    BY <1>0, <1>5, <2>1, CallerEndEffect DEF CallersTyped
<1>6. ASSUME NEW p \in Proc, WorkloadEval(p) PROVE CallersTyped'
  <2>1. workers' \in [Token -> SUBSET Registration] /\ UNCHANGED <<relayUp, relayWaste>>
    <3> DEFINE u == caller[p].token
               w == [want |-> caller[p].want, record |-> db[u]]
    <3>1. /\ UNCHANGED <<relayUp, relayWaste>> /\ u \in Token
          /\ \/ workers' = workers
             \/ workers' = [workers EXCEPT ![u] = @ \cup {w}] /\ w \in Registration
      BY <1>6, WorkloadEvalEffect
    <3> HIDE DEF w, u
    <3>2. QED
      BY <3>1 DEF CallersTyped
  <2>2. QED
    BY <1>0, <1>6, <2>1, CallerEndEffect DEF CallersTyped
<1>7. ASSUME NEW p \in Proc, CallerGivesUp(p) PROVE CallersTyped'
  <2>1. relayUp' \in BOOLEAN /\ UNCHANGED <<caller, workers, relayWaste>>
    BY <1>7 DEF CallerGivesUp, CallersTyped
  <2>2. QED
    BY <1>0, <2>1 DEF CallersTyped
<1>8. ASSUME NEW p \in Proc, Maintenance(p) PROVE CallersTyped'
  BY <1>0, <1>8, MaintenanceEffect DEF CallersTyped
<1>9. CASE UNCHANGED callerVars
  BY <1>0, <1>9 DEF callerVars, CallersTyped
<1>10. QED
  BY <1>1, <1>2, <1>3, <1>4, <1>5, <1>6, <1>7, <1>8, <1>9 DEF CallersNext, allVars

LEMMA ConsumingStep ==
  ASSUME CallersTyped, [CallersNext]_allVars, NEW q \in Proc, Consuming(q)
  PROVE  Consuming(q)'
<1>0. Typed
  BY DEF CallersTyped
<1>1. CASE caller'[q] = caller[q] /\ call'[q] = call[q]
  BY <1>1 DEF Consuming
<1>2. ASSUME NEW p \in Proc, NEW t \in Token, NEW e \in WorkloadExpected,
             ConsumeWorkloadToken(p, t, e)
      PROVE  Consuming(q)'
  BY <1>1, <1>2, ConsumeWorkloadEffect DEF Consuming, vars
<1>3. ASSUME NEW p \in Proc, NEW t \in Token, ResolveRelayToken(p, t) PROVE Consuming(q)'
  <2>1. Others(p)
    BY <1>0, <1>3, ConsumeTokenEffect DEF ResolveRelayToken
  <2>2. QED
    BY <1>1, <1>3, <2>1, ResolveRelayEffect DEF Consuming, Others, Preflighting
<1>4. ASSUME NEW p \in Proc, PreflightGet(p) PROVE Consuming(q)'
  BY <1>1, <1>4, PreflightGetEffect DEF Consuming, vars, Preflighting
<1>5. ASSUME NEW p \in Proc, PreflightReply(p) PROVE Consuming(q)'
  <2> DEFINE c == caller[p]
  <2>1. CASE p # q
    <3>1. call'[q] = call[q]
      BY <1>0, <1>5, <2>1, PreflightReplyEffect, ConsumeTokenEffect DEF Others, vars
    <3>2. QED
      BY <1>1, <1>5, <2>1, <3>1, PreflightReplyEffect
  <2>2. CASE p = q /\ caller'[p].step = "none"
    BY <2>2 DEF Consuming, Preflighting
  <2>3. CASE p = q /\ caller'[p].step # "none"
    <3>1. /\ CheckRecord(c.found, c.want, now)
          /\ ConsumeToken(p, c.token) /\ c.token \in Token /\ c.step = "preflightReply"
          /\ call'[p].expected = ConsumeBinding(c.found, c.want)
          /\ caller'[p].step = "consume" /\ caller'[p].token = c.token
          /\ caller'[p].want = c.want
      BY <1>5, <2>3, PreflightReplyEffect
    <3>2. call'[p].step = "consumeEval" /\ call'[p].token = c.token
      BY <1>0, <3>1, ConsumeTokenEffect
    <3>3. c.found \in Record /\ c.want \in WorkloadExpected
      BY <2>3, <3>1 DEF Consuming, Preflighting
    <3>4. \A k \in IdKeys : c.want.ids[k] \in Values \cup {Undefined}
      BY <3>1, <3>3 DEF CheckRecord, Record, Bindings
    <3> HIDE DEF c
    <3>5. QED
      BY <2>3, <3>1, <3>2, <3>3, <3>4, BindingEffect DEF Consuming
  <2>4. QED
    BY <2>1, <2>2, <2>3
<1>6. ASSUME NEW p \in Proc, PreflightLost(p) \/ WorkloadEval(p) \/ RelayEval(p) \/ CallerLost(p)
      PROVE  Consuming(q)'
  <2>1. Others(p)
    BY <1>0, <1>6, EndEffect DEF PreflightLost, WorkloadEval, RelayEval, CallerLost, Others, vars
  <2>2. QED
    BY <1>1, <1>6, <2>1, CallerEndEffect DEF Consuming, Others, Preflighting
<1>7. ASSUME NEW p \in Proc, CallerGivesUp(p) PROVE Consuming(q)'
  <2>1. GiveUp(p) /\ caller' = caller
    BY <1>7 DEF CallerGivesUp
  <2>2. QED
    BY <1>0, <1>1, <2>1, GiveUpEffect DEF Consuming, Others
<1>8. ASSUME NEW p \in Proc, Maintenance(p) PROVE Consuming(q)'
  BY <1>1, <1>8, MaintenanceEffect DEF Consuming, Others, Preflighting
<1>9. CASE (Tick /\ UNCHANGED callerVars) \/ UNCHANGED allVars
  BY <1>1, <1>9 DEF Tick, callerVars, allVars, vars
<1>10. QED
  BY <1>2, <1>3, <1>4, <1>5, <1>6, <1>7, <1>8, <1>9 DEF CallersNext

LEMMA RegistrationStep ==
  ASSUME CallerInv, [CallersNext]_allVars
  PROVE  RegistrationMatchesRecord'
<1> USE DEF CallerInv
<1> DEFINE Matches(w) ==
             /\ w.record.scope = "slaif.workload"
             /\ w.record.metadata["payloadId"] = w.want.metadata["payloadId"]
             /\ \A k \in IdKeys : w.want.ids[k] # Undefined => w.record.ids[k] = w.want.ids[k]
<1>1. ASSUME \A t \in Token : workers'[t] \subseteq workers[t] PROVE RegistrationMatchesRecord'
  BY <1>1 DEF RegistrationMatchesRecord
<1>2. ASSUME NEW p \in Proc, WorkloadEval(p) PROVE RegistrationMatchesRecord'
  <2> DEFINE t == caller[p].token
             w == [want |-> caller[p].want, record |-> db[t]]
             e == call[p].expected
  <2>1. CASE workers' = workers
    BY <1>1, <2>1
  <2>2. CASE workers' # workers
    <3>1. /\ workers' = [workers EXCEPT ![t] = @ \cup {w}] /\ t \in Token
          /\ db[t] \in Record /\ ScriptAdmits(db[t], e, call[p].at)
          /\ caller[p].step = "consume"
      BY <1>2, <2>2, WorkloadEvalEffect
    <3>2. /\ \A k \in IdKeys : w.want.ids[k] \in Values \cup {Undefined}
          /\ e.scope = "slaif.workload" /\ e.ids = w.want.ids
          /\ e.metadata["payloadId"] = w.want.metadata["payloadId"]
          /\ w.want \in WorkloadExpected
      BY <3>1 DEF Consuming
    <3>3. w.record.scope = "slaif.workload"
      BY <3>1, <3>2, BindingAssumption, CallerAssumption DEF ScriptAdmits, ScopeMatches
    <3>4. w.record.metadata["payloadId"] = w.want.metadata["payloadId"]
      BY <3>1, <3>2, BindingAssumption, CallerAssumption DEF ScriptAdmits, MetadataMatches
    <3>5. \A k \in IdKeys : w.want.ids[k] # Undefined => w.record.ids[k] = w.want.ids[k]
      BY <3>1, <3>2, BindingAssumption DEF ScriptAdmits
    <3>6. Matches(w)
      BY <3>3, <3>4, <3>5
    <3>7. \A u \in Token : workers'[u] \subseteq workers[u] \cup {w}
      BY <3>1 DEF CallersTyped
    <3> HIDE DEF w
    <3>8. QED
      BY <3>6, <3>7 DEF RegistrationMatchesRecord
  <2>3. QED
    BY <2>1, <2>2
<1>3. ASSUME NEW p \in Proc, Maintenance(p) PROVE RegistrationMatchesRecord'
  BY <1>1, <1>3, MaintenanceEffect
<1>4. CASE UNCHANGED workers
  BY <1>1, <1>4
<1>5. QED
  BY <1>2, <1>3, <1>4 DEF CallersNext, allVars, callerVars, ConsumeWorkloadToken, ResolveRelayToken,
                          PreflightGet, PreflightLost, PreflightReply, RelayEval, CallerGivesUp,
                          CallerLost

LEMMA CallerInvariance == CallersSpec => []CallerInv
<1>1. CallersInit => CallerInv
  <2> SUFFICES ASSUME CallersInit PROVE CallerInv
    OBVIOUS
  <2>1. \A p \in Proc : Consuming(p)
    BY NoCallerType DEF CallersInit, Consuming, Preflighting
  <2>2. RegistrationMatchesRecord
    BY DEF CallersInit, RegistrationMatchesRecord
  <2>3. QED
    BY <2>1, <2>2, CallersTypedInit DEF CallerInv
<1>2. CallerInv /\ [CallersNext]_allVars => CallerInv'
  <2> SUFFICES ASSUME CallerInv, [CallersNext]_allVars PROVE CallerInv'
    OBVIOUS
  <2>1. CallersTyped'
    BY CallersTypedStep DEF CallerInv
  <2>2. \A p \in Proc : Consuming(p)'
    BY ConsumingStep DEF CallerInv
  <2>3. QED
    BY <2>1, <2>2, RegistrationStep DEF CallerInv
<1>3. QED
  BY <1>1, <1>2, PTL DEF CallersSpec

(* The store, the callers and the registrations keep their types, at every *)
(* interleaving of workers, relays, revocations and cleanups.              *)
THEOREM CallersTypeCorrect == CallersSpec => []CallersTypeOK
<1>1. CallerInv => CallersTypeOK
  BY DEF CallerInv, CallersTyped, Typed, CallersTypeOK, Registration
<1>2. QED
  BY <1>1, CallerInvariance, PTL

(* The workload tokens and the relay use the store only through its        *)
(* operations: every behaviour of the callers is a behaviour of the store, *)
(* so each property proved of RedisTokenStore holds for them too.          *)
THEOREM CallersImplementStore == CallersSpec => Spec
<1>1. CallersInit => Init
  BY DEF CallersInit
<1>2. CallerInv /\ [CallersNext]_allVars => [Next]_vars
  BY CallersStepOfStore DEF CallerInv, CallersTyped
<1>3. QED
  BY <1>1, <1>2, CallerInvariance, PTL DEF CallersSpec, Spec

(* A worker is registered against a record of its session and payload,     *)
(* whatever became of the token between the preflight and the consume of   *)
(* consumeWorkloadToken.                                                   *)
THEOREM RegistrationsMatch == CallersSpec => []RegistrationMatchesRecord
<1>1. CallerInv => RegistrationMatchesRecord
  BY DEF CallerInv
<1>2. QED
  BY <1>1, CallerInvariance, PTL

-----------------------------------------------------------------------------
(* The job binding.                                                        *)

(* The copies the store holds after a step: those it held before, and the  *)
(* record of a new issue.                                                  *)
LEMMA StoreSeesStep ==
  ASSUME Typed, [Next]_vars, NEW t \in Token
  PROVE  \/ issues'[t] = issues[t] /\ \A j \in JobIds : StoreSees(t, j)' => StoreSees(t, j)
         \/ /\ issues'[t] = issues[t] + 1
            /\ \E i : \A j \in JobIds : StoreSees(t, j)' => StoreSees(t, j) \/ j = i
<1> DEFINE Kept == \A j \in JobIds : StoreSees(t, j)' => StoreSees(t, j)
           Job(r) == r.metadata["jobId"]
<1>0. \A q \in Proc : call[q].token \in Token
  BY DEF Typed, TypeOK, Call
<1>1. ASSUME NEW p \in Proc, Others(p),
             db'[t] # NoRecord => StoreSees(t, Job(db'[t])),
             call'[p].step \in Rewriting /\ call'[p].token = t => StoreSees(t, Job(call'[p].record))
      PROVE  Kept
  <2> SUFFICES ASSUME NEW j \in JobIds, StoreSees(t, j)' PROVE StoreSees(t, j)
    OBVIOUS
  <2>1. CASE db'[t] # NoRecord /\ j = Job(db'[t])
    BY <1>1, <2>1
  <2>2. ASSUME NEW q \in Proc, call'[q].step \in Rewriting, call'[q].token = t,
               j = Job(call'[q].record)
        PROVE  StoreSees(t, j)
    <3>1. CASE q = p
      BY <1>1, <2>2, <3>1
    <3>2. CASE q # p
      BY <1>1, <2>2, <3>2 DEF Others, StoreSees
    <3>3. QED
      BY <3>1, <3>2
  <2>3. QED
    BY <2>1, <2>2 DEF StoreSees
<1>2. db[t] # NoRecord => StoreSees(t, Job(db[t]))
  BY DEF StoreSees
<1>3. \A q \in Proc : call[q].step \in Rewriting /\ call[q].token = t
                        => StoreSees(t, Job(call[q].record))
  BY DEF StoreSees
<1>4. ASSUME NEW p \in Proc, NEW u \in Token, Moves(p, u) PROVE Kept /\ issues'[t] = issues[t]
  <2>1. UNCHANGED <<db, issues>>
    BY <1>4, MovesAreLocal DEF Local, history
  <2>2. Others(p)
    BY <1>4, IssueTokenEffect, ConsumeTokenEffect, RevokeTokenEffect, CleanupGetEffect,
       RevokeGetEffect, RevokeReplyEffect, CleanupExpiredEffect, GiveUpEffect, EndEffect DEF Moves
  <2>3. CASE RevokeGet(p)
    <3>1. \/ call'[p].step = "idle"
          \/ /\ call'[p].token = call[p].token /\ db[call[p].token] # NoRecord
             /\ call'[p].record = db[call[p].token]
      BY <2>3, RevokeGetEffect
    <3>2. call'[p].step \in Rewriting /\ call'[p].token = t => StoreSees(t, Job(call'[p].record))
      BY <1>2, <3>1 DEF Rewriting
    <3>3. QED
      BY <1>1, <1>2, <2>1, <2>2, <3>2
  <2>4. CASE RevokeReply(p)
    <3>1. /\ call[p].step = "revokeReply" /\ call'[p].token = call[p].token
          /\ Job(call'[p].record) = Job(call[p].record)
      BY <2>4, RevokeReplyEffect
    <3>2. call'[p].step \in Rewriting /\ call'[p].token = t => StoreSees(t, Job(call'[p].record))
      BY <1>3, <3>1 DEF Rewriting
    <3>3. QED
      BY <1>1, <1>2, <2>1, <2>2, <3>2
  <2>5. CASE GiveUp(p)
    <3>1. /\ call'[p].step = call[p].step /\ call'[p].token = call[p].token
          /\ call'[p].record = call[p].record
      BY <2>5, GiveUpEffect
    <3>2. QED
      BY <1>1, <1>2, <1>3, <2>1, <2>2, <3>1
  <2>6. CASE ~RevokeGet(p) /\ ~RevokeReply(p) /\ ~GiveUp(p)
    <3>1. call'[p].step \notin Rewriting
      BY <1>4, <2>6, IssueTokenEffect, ConsumeTokenEffect, RevokeTokenEffect, CleanupGetEffect,
         CleanupExpiredEffect, EndEffect DEF Moves, Rewriting
    <3>2. QED
      BY <1>1, <1>2, <2>1, <2>2, <3>1
  <2>7. QED
    BY <2>3, <2>4, <2>5, <2>6
<1>5. ASSUME NEW p \in Proc, ConsumeEval(p) PROVE Kept /\ issues'[t] = issues[t]
  <2>1. Others(p) /\ call'[p].step = "idle" /\ issues' = issues
    BY <1>5, EndEffect, ConsumeEvalEffect
  <2>2. db'[t] # NoRecord => db[t] # NoRecord /\ Job(db'[t]) = Job(db[t])
    BY <1>5, ConsumeEvalEffect, SpendType DEF Typed, TypeOK
  <2>3. QED
    BY <1>1, <1>2, <2>1, <2>2 DEF Rewriting
<1>6. ASSUME NEW p \in Proc, RevokeSet(p) PROVE Kept /\ issues'[t] = issues[t]
  <2>1. Others(p) /\ call'[p].step = "idle" /\ issues' = issues
    BY <1>6, EndEffect, RevokeSetEffect
  <2>2. call[p].step = "revokeSet" /\ db' = [db EXCEPT ![call[p].token] = call[p].record]
    BY <1>6, RevokeSetEffect
  <2>3. db'[t] = db[t] \/ (call[p].token = t /\ db'[t] = call[p].record)
    BY <2>2 DEF Typed, TypeOK
  <2>4. QED
    BY <1>1, <1>2, <1>3, <2>1, <2>2, <2>3 DEF Rewriting
<1>7. ASSUME NEW p \in Proc, CleanupDel(p) PROVE Kept /\ issues'[t] = issues[t]
  <2>1. Others(p) /\ call'[p].step \notin Rewriting
    BY <1>7, CleanupDelEffect DEF Rewriting
  <2>2. issues' = issues /\ (db'[t] = db[t] \/ db'[t] = NoRecord)
    BY <1>0, <1>7 DEF CleanupDel, history, Typed, TypeOK
  <2>3. QED
    BY <1>1, <1>2, <2>1, <2>2
<1>8. CASE Tick
  <2>1. UNCHANGED <<call, issues>> /\ (db'[t] = db[t] \/ db'[t] = NoRecord)
    BY <1>8 DEF Tick, history
  <2>2. QED
    BY <2>1 DEF StoreSees
<1>9. CASE UNCHANGED vars
  BY <1>9 DEF vars, history, StoreSees
<1>10. ASSUME NEW p \in Proc, IssueSet(p)
       PROVE  \/ issues'[t] = issues[t] /\ Kept
              \/ /\ issues'[t] = issues[t] + 1
                 /\ \E i : \A j \in JobIds : StoreSees(t, j)' => StoreSees(t, j) \/ j = i
  <2>1. Others(p) /\ call'[p].step = "idle"
    BY <1>10, EndEffect
  <2>2. CASE issues'[t] = issues[t] /\ db'[t] = db[t]
    BY <1>1, <1>2, <2>1, <2>2 DEF Rewriting
  <2>3. CASE issues'[t] = issues[t] + 1
    <3>1. \A j \in JobIds : StoreSees(t, j)' => StoreSees(t, j) \/ j = Job(db'[t])
      BY <2>1 DEF StoreSees, Rewriting, Others
    <3>2. QED
      BY <2>3, <3>1
  <2>4. QED
    <3>1. issues[t] \in Nat
      BY DEF Typed, TypeOK
    <3>2. \/ issues'[t] = issues[t] /\ db'[t] = db[t]
          \/ issues'[t] = issues[t] + 1
      BY <1>10, IssueSetEffect DEF Typed, TypeOK, history
    <3>3. QED
      BY <2>2, <2>3, <3>2
<1>11. QED
  BY <1>4, <1>5, <1>6, <1>7, <1>8, <1>9, <1>10, NextCases

LEMMA JobIdType ==
  ASSUME NEW r \in Record
  PROVE  r.metadata["jobId"] \in JobIds
BY CallerAssumption DEF Record, Bindings, JobIds

(* A preflight reads what the store holds.                                 *)
LEMMA CallerSeesStep ==
  ASSUME CallerInv, [CallersNext]_allVars, NEW t \in Token, NEW j \in JobIds, CallerSees(t, j)'
  PROVE  Sees(t, j)
<1> USE DEF CallerInv
<1>0. PICK q \in Proc : /\ caller'[q].step = "preflightReply" /\ caller'[q].token = t
                        /\ j = caller'[q].found.metadata["jobId"]
  BY DEF CallerSees
<1>1. CASE caller'[q] = caller[q]
  BY <1>0, <1>1 DEF Sees, CallerSees
<1>2. ASSUME NEW p \in Proc, PreflightGet(p) PROVE Sees(t, j)
  BY <1>0, <1>1, <1>2, PreflightGetEffect DEF Sees, StoreSees
<1>3. ASSUME NEW p \in Proc, NEW u \in Token, NEW e \in WorkloadExpected,
             ConsumeWorkloadToken(p, u, e)
      PROVE  Sees(t, j)
  BY <1>0, <1>1, <1>3, ConsumeWorkloadEffect
<1>4. ASSUME NEW p \in Proc, NEW u \in Token, ResolveRelayToken(p, u) PROVE Sees(t, j)
  BY <1>0, <1>1, <1>4, ResolveRelayEffect
<1>5. ASSUME NEW p \in Proc, PreflightReply(p) PROVE Sees(t, j)
  BY <1>0, <1>1, <1>5, PreflightReplyEffect
<1>6. ASSUME NEW p \in Proc, PreflightLost(p) \/ WorkloadEval(p) \/ RelayEval(p) \/ CallerLost(p)
      PROVE  Sees(t, j)
  BY <1>0, <1>1, <1>6, CallerEndEffect
<1>7. CASE UNCHANGED caller
  BY <1>1, <1>7
<1>8. QED
  BY <1>2, <1>3, <1>4, <1>5, <1>6, <1>7
     DEF CallersNext, allVars, callerVars, CallerGivesUp, Maintenance

(* A worker that starts to wait for its second call has seen the job id of *)
(* a copy of the record.                                                   *)
LEMMA WaitsStep ==
  ASSUME CallerInv, [CallersNext]_allVars, NEW t \in Token, NEW q \in Proc, Waits(q, t)'
  PROVE  \/ Waits(q, t) /\ caller'[q].want = caller[q].want
         \/ /\ issues' = issues
            /\ \E i \in JobIds : Sees(t, i) /\ i \in {Undefined, caller'[q].want.metadata["jobId"]}
<1> USE DEF CallerInv
<1>0. caller'[q].step = "consume" /\ caller'[q].token = t
  BY DEF Waits
<1>1. CASE caller'[q] = caller[q]
  BY <1>1 DEF Waits
<1>2. ASSUME NEW p \in Proc, PreflightReply(p), caller'[q] # caller[q]
      PROVE  /\ issues' = issues
             /\ \E i \in JobIds : Sees(t, i) /\ i \in {Undefined, caller'[q].want.metadata["jobId"]}
  <2> DEFINE c == caller[p]
             i == c.found.metadata["jobId"]
  <2>1. p = q
    BY <1>2, PreflightReplyEffect
  <2>2. /\ c.step = "preflightReply" /\ c.token = t /\ AssertJobBindingSatisfied(c.found, c.want)
        /\ ConsumeToken(p, c.token) /\ caller'[q].want = c.want
    BY <1>0, <1>2, <2>1, PreflightReplyEffect
  <2>3. c.found \in Record
    BY <2>2 DEF Consuming
  <2>4. i \in JobIds
    BY <2>3, JobIdType
  <2>5. Sees(t, i)
    BY <2>2 DEF Sees, CallerSees
  <2>6. i \in {Undefined, caller'[q].want.metadata["jobId"]}
    BY <2>2 DEF AssertJobBindingSatisfied
  <2>7. issues' = issues
    BY <2>2 DEF ConsumeToken, history
  <2> HIDE DEF i
  <2>8. QED
    BY <2>4, <2>5, <2>6, <2>7
<1>3. ASSUME NEW p \in Proc, NEW u \in Token, NEW e \in WorkloadExpected,
             ConsumeWorkloadToken(p, u, e)
      PROVE  caller'[q] = caller[q]
  BY <1>0, <1>3, ConsumeWorkloadEffect
<1>4. ASSUME NEW p \in Proc, NEW u \in Token, ResolveRelayToken(p, u) PROVE caller'[q] = caller[q]
  BY <1>0, <1>4, ResolveRelayEffect
<1>5. ASSUME NEW p \in Proc, PreflightGet(p) PROVE caller'[q] = caller[q]
  BY <1>0, <1>5, PreflightGetEffect
<1>6. ASSUME NEW p \in Proc, PreflightLost(p) \/ WorkloadEval(p) \/ RelayEval(p) \/ CallerLost(p)
      PROVE  caller'[q] = caller[q]
  BY <1>0, <1>6, CallerEndEffect
<1>7. \/ caller'[q] = caller[q]
      \/ \E p \in Proc : PreflightReply(p)
  BY <1>3, <1>4, <1>5, <1>6 DEF CallersNext, allVars, callerVars, CallerGivesUp, Maintenance
<1>8. QED
  BY <1>1, <1>2, <1>7

LEMMA JobsAgreeStep ==
  ASSUME JobInv, [CallersNext]_allVars, NEW t \in Token
  PROVE  JobsAgree(t)'
<1> USE DEF JobInv
<1>0. JobsAgree(t) /\ Typed /\ [Next]_vars /\ issues[t] \in Nat
  BY CallersStepOfStore DEF CallerInv, CallersTyped, Typed, TypeOK
<1>1. CASE issues'[t] = issues[t] /\ \A j \in JobIds : StoreSees(t, j)' => StoreSees(t, j)
  <2>1. \A j \in JobIds : Sees(t, j)' => Sees(t, j)
    BY <1>1, CallerSeesStep DEF Sees
  <2>2. ASSUME NEW q \in Proc, Waits(q, t)'
        PROVE  /\ issues[t] >= 1
               /\ issues[t] <= 1 => \A j \in JobIds : Sees(t, j)
                                      => j \in {Undefined, caller'[q].want.metadata["jobId"]}
    BY <1>0, <2>2, WaitsStep DEF JobsAgree
  <2>3. QED
    BY <1>0, <1>1, <2>1, <2>2 DEF JobsAgree
<1>2. ASSUME issues'[t] = issues[t] + 1,
             NEW i, \A j \in JobIds : StoreSees(t, j)' => StoreSees(t, j) \/ j = i
      PROVE  JobsAgree(t)'
  <2>1. issues'[t] >= 1
    BY <1>0, <1>2
  <2>2. CASE issues'[t] <= 1
    <3>1. issues[t] = 0 /\ issues'[t] # issues[t]
      BY <1>0, <1>2, <2>2
    <3>2. \A j \in JobIds : ~Sees(t, j)
      BY <1>0, <3>1 DEF JobsAgree
    <3>3. \A j \in JobIds : Sees(t, j)' => j = i
      BY <1>2, <3>2, CallerSeesStep DEF Sees
    <3>4. \A q \in Proc : ~Waits(q, t)'
      BY <1>0, <3>1, <3>2, WaitsStep DEF JobsAgree
    <3>5. QED
      BY <2>1, <3>3, <3>4 DEF JobsAgree
  <2>3. CASE ~(issues'[t] <= 1)
    BY <2>1, <2>3 DEF JobsAgree
  <2>4. QED
    BY <2>2, <2>3
<1>3. QED
  BY <1>0, <1>1, <1>2, StoreSeesStep

LEMMA JobBindingStep ==
  ASSUME JobInv, [CallersNext]_allVars
  PROVE  JobBindingHeld'
<1> USE DEF JobInv
<1>0. ASSUME NEW t \in Token
      PROVE  issues[t] \in Nat /\ issues'[t] \in Nat /\ issues[t] <= issues'[t]
  <2>1. Typed /\ [Next]_vars /\ issues[t] \in Nat
    BY CallersStepOfStore DEF CallerInv, CallersTyped, Typed, TypeOK
  <2>2. issues'[t] = issues[t] \/ issues'[t] = issues[t] + 1
    BY <2>1, StoreSeesStep
  <2>3. QED
    BY <2>1, <2>2
<1>1. ASSUME \A t \in Token : workers'[t] \subseteq workers[t] PROVE JobBindingHeld'
  <2> SUFFICES ASSUME NEW t \in Token, issues'[t] <= 1, NEW w \in workers[t]
               PROVE  w.record.metadata["jobId"] \in {Undefined, w.want.metadata["jobId"]}
    BY <1>1 DEF JobBindingHeld
  <2>1. issues[t] <= 1
    BY <1>0
  <2>2. QED
    BY <2>1 DEF JobBindingHeld
<1>2. ASSUME NEW p \in Proc, WorkloadEval(p) PROVE JobBindingHeld'
  <2> DEFINE u == caller[p].token
             w == [want |-> caller[p].want, record |-> db[u]]
             Bound(x) == x.record.metadata["jobId"] \in {Undefined, x.want.metadata["jobId"]}
  <2>1. CASE workers' = workers
    BY <1>1, <2>1
  <2>2. CASE workers' # workers
    <3>1. /\ workers' = [workers EXCEPT ![u] = @ \cup {w}] /\ u \in Token
          /\ db[u] \in Record /\ db[u] # NoRecord /\ issues' = issues
          /\ caller[p].step = "consume"
      BY <1>2, <2>2, WorkloadEvalEffect DEF CallerInv
    <3>2. JobsAgree(u) /\ Waits(p, u) /\ Sees(u, w.record.metadata["jobId"])
          /\ w.record.metadata["jobId"] \in JobIds
      BY <3>1, JobIdType DEF Waits, Sees, StoreSees
    <3>3. issues[u] <= 1 => Bound(w)
      BY <3>2 DEF JobsAgree
    <3>4. \A t \in Token : workers'[t] = workers[t] \/ (t = u /\ workers'[t] = workers[t] \cup {w})
      BY <3>1 DEF CallerInv, CallersTyped
    <3> HIDE DEF w
    <3>5. \A t \in Token : issues'[t] <= 1 => \A x \in workers'[t] : Bound(x)
      BY <3>1, <3>3, <3>4 DEF JobBindingHeld
    <3>6. QED
      BY <3>5 DEF JobBindingHeld
  <2>3. QED
    BY <2>1, <2>2
<1>3. ASSUME NEW p \in Proc, Maintenance(p) PROVE JobBindingHeld'
  BY <1>1, <1>3, MaintenanceEffect DEF CallerInv
<1>4. CASE UNCHANGED workers
  BY <1>1, <1>4
<1>5. QED
  BY <1>2, <1>3, <1>4 DEF CallersNext, allVars, callerVars, ConsumeWorkloadToken, ResolveRelayToken,
                          PreflightGet, PreflightLost, PreflightReply, RelayEval, CallerGivesUp,
                          CallerLost

(* A job-bound workload token is spent only by a worker that names its     *)
(* job, for token values issued once: assertJobBindingSatisfied looks at a *)
(* copy of the record read earlier, and no revocation, cleanup or expiry   *)
(* in between brings back another job id.                                  *)
THEOREM JobBindingsHold == CallersSpec => []JobBindingHeld
<1>1. CallersInit => (\A t \in Token : JobsAgree(t)) /\ JobBindingHeld
  <2> SUFFICES ASSUME CallersInit PROVE (\A t \in Token : JobsAgree(t)) /\ JobBindingHeld
    OBVIOUS
  <2>1. Idle.step = "idle"
    BY DEF Idle
  <2>2. ASSUME NEW t \in Token, NEW j PROVE ~Sees(t, j)
    BY <2>1, NoCallerType DEF CallersInit, Init, Sees, StoreSees, CallerSees, Rewriting
  <2>3. \A p \in Proc, t \in Token : ~Waits(p, t)
    BY NoCallerType DEF CallersInit, Waits
  <2>4. JobBindingHeld
    BY DEF CallersInit, JobBindingHeld
  <2>5. QED
    BY <2>2, <2>3, <2>4 DEF JobsAgree
<1> DEFINE I == (\A t \in Token : JobsAgree(t)) /\ JobBindingHeld
<1>2. CallerInv /\ I /\ [CallersNext]_allVars => I'
  BY JobsAgreeStep, JobBindingStep DEF JobInv
<1>3. I => JobBindingHeld
  OBVIOUS
<1> HIDE DEF I
<1>4. CallersInit => I
  BY <1>1 DEF I
<1>5. QED
  BY <1>2, <1>3, <1>4, CallerInvariance, PTL DEF CallersSpec
=============================================================================
