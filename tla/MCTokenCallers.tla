--------------------------- MODULE MCTokenCallers ---------------------------
(***************************************************************************)
(* Small instances of TokenCallers: one token value and two processes.     *)
(* The value is issued for two payloads, with or without a job, and as a   *)
(* relay token; workers name their job or do not.                          *)
(***************************************************************************)
EXTENDS TokenCallers, TLC

CONSTANTS s1, pay1, pay2, job1

Issue(scope, payload, job) ==
    [scope |-> scope, ids |-> [sessionId |-> s1, origin |-> Empty],
     metadata |-> [payloadId |-> payload, jobId |-> job]]

MCIssueArgs == {Issue("slaif.workload", pay1, Undefined), Issue("slaif.workload", pay1, job1),
                Issue("slaif.workload", pay2, Undefined), Issue("slaif.relay", pay1, Undefined)}

RelayTokens == {Issue("slaif.relay", pay1, Undefined)}

Want(scope, session, payload, job) ==
    [scope |-> scope, ids |-> [sessionId |-> session, origin |-> Undefined],
     metadata |-> [payloadId |-> payload, jobId |-> job]]

MCWorkloadExpected == {Want("slaif.workload", s1, pay1, Undefined), Want("slaif.workload", s1, pay1, job1)}
MCRelayExpected == Want("slaif.relay", Undefined, Undefined, Undefined)
MCExpectedArgs == {[e EXCEPT !.metadata = m] : e \in MCWorkloadExpected \cup {MCRelayExpected},
                                               m \in Bindings(MetaKeys)}

Symmetry == Permutations(Proc)
=============================================================================
