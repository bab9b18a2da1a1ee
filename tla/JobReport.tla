------------------------------ MODULE JobReport ------------------------------
(***************************************************************************)
(* From the terminal output of the remote command to the job report the    *)
(* session API keeps: extension/js/job_output_parser.js,                   *)
(* buildJobReportPayload of extension/js/slaif_job_reporter.js, and the    *)
(* report checks of the two reference stacks                               *)
(* (tools/start-extension-dev-stack.mjs, start-real-hpc-pilot-stack.mjs).  *)
(*                                                                         *)
(* A line of output says that job `id` was submitted, in sbatch's own form *)
(* or behind the prefix "sbatch:", or it says something else.              *)
(***************************************************************************)
EXTENDS Integers, Sequences

CONSTANTS JobIds,
          LongIds,        \* those of more than 32 digits
          OutputCap,      \* lines that 64 KiB hold (capture and parser alike)
          NoJob

Forms == {"canonical", "prefixed", "other"}
Line == [form: Forms, id: JobIds \cup {NoJob}]
Submitted(form, id) == [form |-> form, id |-> id]
OtherText == [form |-> "other", id |-> NoJob]

Statuses == {"submitted", "job_id_not_found", "ssh_failed"}
Report == [status: Statuses, scheduler: {"slurm", "none"}, jobId: JobIds \cup {NoJob},
           sshExitCode: 0..255]

ASSUME ReportAssumption ==
    LongIds \subseteq JobIds /\ NoJob \notin JobIds /\ OutputCap \in Nat \ {0}

(* The capture keeps a tail, and boundSchedulerOutput cuts to the same     *)
(* length.                                                                 *)
BoundOutput_Head(lines) ==
    IF Len(lines) <= OutputCap THEN lines ELSE SubSeq(lines, 1, OutputCap)
BoundOutput(lines) ==
    IF Len(lines) <= OutputCap THEN lines
    ELSE SubSeq(lines, Len(lines) - OutputCap + 1, Len(lines))

(* parseSlurmJobSubmission: the job id, or NoJob when there is none or     *)
(* more than one.                                                          *)
JobIdsIn(lines) ==
    {lines[n].id : n \in {m \in DOMAIN lines : lines[m].form \in {"canonical", "prefixed"}}}
ParseJobId_First(lines) ==
    LET hits == {n \in DOMAIN lines : lines[n].form # "other"}
    IN  IF hits = {} THEN NoJob ELSE lines[CHOOSE n \in hits : \A m \in hits : n <= m].id
ParseJobId(lines) ==
    LET ids == JobIdsIn(lines)
    IN  IF \E id \in ids : ids = {id} THEN CHOOSE id \in ids : TRUE ELSE NoJob

(* reportSchedulerJob and buildJobReportPayload: job id and scheduler only *)
(* in a submitted report.  Any number of digits is a job id for the parser *)
(* but not for validateSlurmJobId, which throws.                           *)
ValidateSlurmJobId(jobId) == jobId \notin LongIds
BuildReport_NoScheduler(jobId, exitCode) ==
    [status |-> IF jobId = NoJob THEN "job_id_not_found" ELSE "submitted",
     scheduler |-> "none", jobId |-> jobId, sshExitCode |-> exitCode]
BuildReport(jobId, exitCode) ==
    [status |-> IF jobId = NoJob THEN "job_id_not_found" ELSE "submitted",
     scheduler |-> IF jobId = NoJob THEN "none" ELSE "slurm",
     jobId |-> jobId, sshExitCode |-> exitCode]

(* The body checks of the job-report routes.  The pilot stack does not     *)
(* look at scheduler and job id.                                           *)
DevStackAccepts(r) ==
    /\ r.status \in Statuses
    /\ r.status = "submitted" => r.scheduler = "slurm" /\ r.jobId # NoJob
PilotStackAccepts(r) == r.status \in Statuses
=============================================================================
