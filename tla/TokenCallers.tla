---------------------------- MODULE TokenCallers ----------------------------
(***************************************************************************)
(* The callers of the Redis store that use it in their own way: the        *)
(* workload token functions (server/workloads/workload_token.js), whose    *)
(* consume is two calls of the store, and the relay's resolveRelayToken    *)
(* (server/relay/relay.js), which was written for the in-memory registry   *)
(* and does not wait for the store's promise.                              *)
(*                                                                         *)
(* Each caller runs as a process p of RedisTokenStore; revocations and     *)
(* cleanups of other processes run between its steps.                      *)
(***************************************************************************)
EXTENDS RedisTokenStore

CONSTANTS WorkloadExpected,   \* the `expected` arguments of consumeWorkloadToken
          RelayExpected       \* the `expected` resolveRelayToken builds

ASSUME CallerAssumption ==
    /\ {"slaif.relay", "slaif.workload"} \subseteq Scopes
    /\ {"payloadId", "jobId"} \subseteq MetaKeys
    /\ WorkloadExpected \cup {RelayExpected} \subseteq ExpectedArgs
    /\ \A e \in WorkloadExpected : e.scope = "slaif.workload"
    \* validateJobId and validatePayloadId: no empty job id, always a payload
    /\ \A e \in WorkloadExpected : e.metadata["jobId"] # Empty /\ e.metadata["payloadId"] \in Values
    \* expectedBinding with the job id of the preflight
    /\ \A e \in WorkloadExpected, v \in Values \cup {Undefined} :
         [e EXCEPT !.metadata["jobId"] = v] \in ExpectedArgs
    /\ RelayExpected.scope = "slaif.relay"

VARIABLES
    caller,      \* caller[p]: what p's call belongs to, and what it has read
    relayUp,     \* the relay process is running
    \* history
    workers,     \* workers[t]: registrations since t was issued, with the record spent
    relayWaste   \* a use was spent for a client that the relay had turned away

callerVars == <<caller, relayUp, workers, relayWaste>>
allVars == <<vars, callerVars>>

CallerSteps == {"none", "preflightGet", "preflightReply", "consume", "relay"}
Caller == [step: CallerSteps, token: Token, want: ExpectedArgs, found: Record \cup {NoRecord}]
NoCaller == [step |-> "none", token |-> CHOOSE t \in Token : TRUE,
             want |-> CHOOSE e \in ExpectedArgs : TRUE, found |-> NoRecord]

CallersInit ==
    /\ Init
    /\ caller = [p \in Proc |-> NoCaller]
    /\ relayUp = TRUE
    /\ workers = [t \in Token |-> {}]
    /\ relayWaste = FALSE

Free(p) == call[p].step = "idle" /\ caller[p].step = "none"
Becomes(p, c) == caller' = [caller EXCEPT ![p] = c]

-----------------------------------------------------------------------------
(* consumeWorkloadToken.                                                   *)

(* validateWorkloadToken sends a GET ...                                   *)
ConsumeWorkloadToken(p, t, e) ==
    /\ Free(p)
    /\ Becomes(p, [NoCaller EXCEPT !.step = "preflightGet", !.token = t, !.want = e])
    /\ UNCHANGED <<vars, relayUp, workers, relayWaste>>

(* ... which Redis executes, or which is lost and the call fails.          *)
PreflightGet(p) ==
    /\ caller[p].step = "preflightGet"
    /\ Becomes(p, IF db[caller[p].token] = NoRecord THEN NoCaller
                  ELSE [caller[p] EXCEPT !.step = "preflightReply",
                                         !.found = db[caller[p].token]])
    /\ UNCHANGED <<vars, relayUp, workers, relayWaste>>

PreflightLost(p) ==
    /\ caller[p].step = "preflightGet"
    /\ Becomes(p, NoCaller)
    /\ UNCHANGED <<vars, relayUp, workers, relayWaste>>

(* assertJobBindingSatisfied: a job-bound token wants its job id; a worker *)
(* that names none is not let through by checkRecord's silence.            *)
AssertJobBindingSatisfied_Skipped(r, e) == TRUE
AssertJobBindingSatisfied(r, e) ==
    r.metadata["jobId"] # Undefined => e.metadata["jobId"] = r.metadata["jobId"]

(* The binding of the second call: preflight.metadata.jobId ?? jobId.      *)
ConsumeBinding_ScopeOnly(r, e) ==
    [e EXCEPT !.metadata = [k \in MetaKeys |-> Undefined]]
ConsumeBinding(r, e) ==
    IF r.metadata["jobId"] = Undefined THEN e
    ELSE [e EXCEPT !.metadata["jobId"] = r.metadata["jobId"]]

(* The GET is answered: the record is checked against the clock of now,    *)
(* and the consume is sent.                                                *)
PreflightReply(p) ==
    LET c == caller[p]
    IN  /\ c.step = "preflightReply"
        /\ IF CheckRecord(c.found, c.want, now) /\ AssertJobBindingSatisfied(c.found, c.want)
           THEN /\ ConsumeToken(p, c.token)
                /\ call'[p].expected = ConsumeBinding(c.found, c.want)
                /\ Becomes(p, [c EXCEPT !.step = "consume", !.found = NoRecord])
           ELSE Becomes(p, NoCaller) /\ UNCHANGED vars
        /\ UNCHANGED <<relayUp, workers, relayWaste>>

(* CONSUME_SCRIPT runs; a caller that still listens is told of its success *)
(* and registers the worker.                                               *)
WorkloadEval(p) ==
    LET t == caller[p].token
    IN  /\ caller[p].step = "consume"
        /\ ConsumeEval(p)
        /\ workers' = IF accepted' = accepted THEN workers
                      ELSE [workers EXCEPT ![t] = @ \cup {[want |-> caller[p].want,
                                                            record |-> db[t]]}]
        /\ Becomes(p, NoCaller)
        /\ UNCHANGED <<relayUp, relayWaste>>

-----------------------------------------------------------------------------
(* resolveRelayToken over the Redis store: the record is a promise, it has *)
(* no hpc, and the function returns null; the handler turns the client     *)
(* away.  The script is on its way nevertheless.                           *)
ResolveRelayToken(p, t) ==
    /\ Free(p) /\ relayUp
    /\ ConsumeToken(p, t)
    /\ call'[p].expected = RelayExpected
    /\ Becomes(p, [NoCaller EXCEPT !.step = "relay", !.token = t])
    /\ UNCHANGED <<relayUp, workers, relayWaste>>

(* Nobody handles the promise when it is rejected (not admitted, or the    *)
(* store gave up): Node ends the process on the unhandled rejection.       *)
RelayEval(p) ==
    /\ caller[p].step = "relay"
    /\ ConsumeEval(p)
    /\ relayUp' = (relayUp /\ (spent' # spent \/ ~call[p].listening))
    /\ relayWaste' = (relayWaste \/ spent' # spent)
    /\ Becomes(p, NoCaller)
    /\ UNCHANGED workers

(* A caller of either kind gets an error while its script is under way, or *)
(* the script never gets there.                                            *)
CallerGivesUp(p) ==
    /\ caller[p].step \in {"consume", "relay"}
    /\ GiveUp(p)
    /\ relayUp' = (relayUp /\ caller[p].step # "relay")
    /\ UNCHANGED <<caller, workers, relayWaste>>

CallerLost(p) ==
    /\ caller[p].step \in {"consume", "relay"}
    /\ CommandLost(p)
    /\ Becomes(p, NoCaller)
    /\ relayUp' = (relayUp /\ (caller[p].step # "relay" \/ ~call[p].listening))
    /\ UNCHANGED <<workers, relayWaste>>

-----------------------------------------------------------------------------
(* issueWorkloadToken passes its arguments to issueToken; revocation and   *)
(* cleanup run as in the store.                                            *)
Maintenance(p) ==
    /\ caller[p].step = "none"
    /\ \/ \E t \in Token : IssueToken(p, t) \/ RevokeToken(p, t) \/ CleanupGet(p, t)
       \/ IssueSet(p) \/ RevokeGet(p) \/ RevokeReply(p) \/ RevokeSet(p)
       \/ CleanupExpired(p) \/ CleanupDel(p) \/ CleanupReturn(p)
       \/ GiveUp(p) \/ CommandLost(p)
    /\ workers' = [t \in Token |-> IF issues'[t] = issues[t] THEN workers[t] ELSE {}]
    /\ UNCHANGED <<caller, relayUp, relayWaste>>

CallersNext ==
    \/ \E p \in Proc, t \in Token, e \in WorkloadExpected : ConsumeWorkloadToken(p, t, e)
    \/ \E p \in Proc, t \in Token : ResolveRelayToken(p, t)
    \/ \E p \in Proc : \/ PreflightGet(p) \/ PreflightLost(p) \/ PreflightReply(p)
                       \/ WorkloadEval(p) \/ RelayEval(p)
                       \/ CallerGivesUp(p) \/ CallerLost(p)
                       \/ Maintenance(p)
    \/ Tick /\ UNCHANGED callerVars

CallersSpec == CallersInit /\ [][CallersNext]_allVars

-----------------------------------------------------------------------------
(* Every variable keeps its type.                                          *)
CallersTypeOK ==
    /\ TypeOK
    /\ caller \in [Proc -> Caller]
    /\ relayUp \in BOOLEAN
    /\ \A t \in Token : workers[t] \subseteq [want: ExpectedArgs, record: Record]
    /\ relayWaste \in BOOLEAN

(* A worker is registered against a record issued for the session and the  *)
(* payload it named, whatever happened to the token value between the two  *)
(* calls: expiry, deletion, or an issue for another payload.               *)
RegistrationMatchesRecord ==
    \A t \in Token : \A w \in workers[t] :
        /\ w.record.scope = "slaif.workload"
        /\ w.record.metadata["payloadId"] = w.want.metadata["payloadId"]
        /\ \A k \in IdKeys : w.want.ids[k] # Undefined => w.record.ids[k] = w.want.ids[k]

(* A job-bound workload token is spent only by a worker that names its job *)
(* (docs/WORKLOAD_RUNTIME_PROTOCOL.md), for token values issued once: the  *)
(* job id is compared in the first call only when the worker names none.   *)
JobBindingHeld ==
    \A t \in Token : issues[t] <= 1 =>
        \A w \in workers[t] : w.record.metadata["jobId"] \in {Undefined, w.want.metadata["jobId"]}

(* docs/TOKEN_LIFECYCLE.md: the relay consumes a token when authentication *)
(* accepts the connection.  Violated over the Redis store: the client is   *)
(* turned away and its token is spent.                                     *)
RelaySpendsOnAccept == ~relayWaste
=============================================================================
