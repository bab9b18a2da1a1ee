------------------------------- MODULE HpcJob -------------------------------
(***************************************************************************)
(* The remote half of a launch: the command that the policy's template     *)
(* names runs on the login node as remote/launcher/slaif-launch, which     *)
(* checks the session's intent file, resolves a Slurm profile and submits  *)
(* a job (lib/launcher-intent.py), or submits a site script; the session   *)
(* page captures the output, finds the job id and reports it               *)
(* (extension/js/session.js).                                              *)
(*                                                                         *)
(* Runs of several sessions share the two files: the template names fixed  *)
(* paths (start-extension-dev-stack.mjs, line 842), and the files may be   *)
(* replaced at any time.  Each file is read once, in a step of its own.    *)
(* sbatch and the login node's own output are external.                    *)
(***************************************************************************)
EXTENDS LaunchIntent, JobReport

CONSTANTS Assigned,       \* the payload the session API gave each session
          Commands,       \* the launches of a session: the kind of command its host's
                          \* template names, the job a development launch expects
          Catalogs,       \* the profile files an operator may install
          IntentTtl,      \* lifetime of an intent, 10 minutes
          Greetings,      \* what a session's login node may print before the command does
          MaxTime, MaxNoise,
          TestJobId,      \* SLAIF_LAUNCHER_TEST_JOB_ID, 424242
          NoFile, SiteScript

ASSUME HpcJobAssumption ==
    /\ Assigned \in [Session -> PayloadId]
    /\ Commands \in [Session -> SUBSET [mode: {"intent", "dryRun", "script", "testJob"},
                                         expected: JobIds \cup {NoJob}]]
    /\ Catalogs \subseteq Catalog
    /\ IntentTtl \in Nat \ {0} /\ MaxTime \in Nat \ {0} /\ MaxNoise \in Nat
    /\ TestJobId \in JobIds /\ TestJobId \notin Nat \ {0}
    /\ Greetings \in [Session -> SUBSET Seq(Line)]
    /\ NoFile \notin Intent /\ SiteScript \notin PayloadId

VARIABLES
    now,
    intentFile,     \* /keys/session-intent.json
    profileFile,    \* /keys/slurm-profiles.json
    launcher,       \* launcher[s]: the remote process of session s
    page,           \* page[s]: what the session page has come to
    jobs,           \* jobs[n]: the job the scheduler gave number n
    jobReports      \* what the API's routes stored

vars == <<now, intentFile, profileFile, launcher, page, jobs, jobReports>>

Modes == {"intent", "dryRun", "script", "testJob"}
Steps == {"idle", "readIntent", "readProfile", "sbatch", "siteScript", "exited"}
Job == [session: Session, payload: PayloadId \cup {SiteScript}, template: Templates \cup {SiteScript}]

TypeOK ==
    /\ now \in 0..MaxTime
    /\ intentFile \in Intent \cup {NoFile}
    /\ profileFile \in Catalogs
    /\ \A s \in Session :
          /\ launcher[s].mode \in Modes /\ launcher[s].step \in Steps
          /\ launcher[s].expected \in JobIds \cup {NoJob}
          /\ launcher[s].payload \in PayloadId \cup {SiteScript}
          /\ launcher[s].template \in Templates \cup {SiteScript}
          /\ launcher[s].out \in Seq(Line) /\ launcher[s].exit \in 0..255
    /\ page \in [Session -> {"waiting", "failed", "refused", "completed"}]
    /\ jobs \in Seq(Job)
    /\ jobReports \in [Session -> SUBSET Report]

Init ==
    /\ now = 1
    /\ intentFile = NoFile
    /\ profileFile \in Catalogs
    /\ launcher = [s \in Session |->
           [mode |-> "intent", step |-> "idle", expected |-> NoJob, payload |-> SiteScript,
            template |-> SiteScript, out |-> <<>>, exit |-> 0]]
    /\ page = [s \in Session |-> "waiting"]
    /\ jobs = <<>>
    /\ jobReports = [s \in Session |-> {}]

-----------------------------------------------------------------------------
(* localIntentForPayload writes the file for one session.  Files written   *)
(* by hand, which the launcher has to refuse, are the variants.            *)
IntentFor(s) ==
    [session |-> s, payloadId |-> Assigned[s], createdAt |-> now - 1,
     expiresAt |-> now + IntentTtl, zoned |-> TRUE, mode |-> "normal",
     forbidden |-> FALSE, wellFormed |-> TRUE]

HandWritten(i) ==
    {[i EXCEPT !.zoned = FALSE], [i EXCEPT !.mode = "other"], [i EXCEPT !.forbidden = TRUE],
     [i EXCEPT !.wellFormed = FALSE], [i EXCEPT !.expiresAt = i.createdAt],
     [i EXCEPT !.createdAt = i.createdAt - 1, !.expiresAt = now]}

WriteIntent(s) ==
    /\ intentFile' \in {IntentFor(s)} \cup HandWritten(IntentFor(s))
    /\ UNCHANGED <<now, profileFile, launcher, page, jobs, jobReports>>

ReplaceProfiles ==
    /\ profileFile' \in Catalogs
    /\ UNCHANGED <<now, intentFile, launcher, page, jobs, jobReports>>

Tick ==
    /\ now < MaxTime
    /\ now' = now + 1
    /\ UNCHANGED <<intentFile, profileFile, launcher, page, jobs, jobReports>>

-----------------------------------------------------------------------------
Noise(n) == [m \in 1..n |-> OtherText]

(* The launcher prints `lines` and ends with `code`; its variables go.     *)
Exit(s, lines, code) ==
    launcher' = [launcher EXCEPT ![s].out = @ \o lines, ![s].exit = code,
                                 ![s].step = "exited",
                                 ![s].payload = SiteScript, ![s].template = SiteScript]

(* The page starts the command.  The login node's greeting may name other  *)
(* jobs.  slaif-launch wants both files to exist.                          *)
Start(s) ==
    /\ launcher[s].step = "idle" /\ page[s] = "waiting"
    /\ \E c \in Commands[s], greeting \in Greetings[s] :
          LET byIntent == c.mode \in {"intent", "dryRun"}
              missing == byIntent /\ intentFile = NoFile
          IN  launcher' = [launcher EXCEPT
                  ![s].mode = c.mode, ![s].expected = c.expected, ![s].out = greeting,
                  ![s].exit = IF missing THEN 4 ELSE 0,
                  ![s].step = IF missing THEN "exited"
                              ELSE IF byIntent THEN "readIntent" ELSE "siteScript"]
    /\ UNCHANGED <<now, intentFile, profileFile, page, jobs, jobReports>>

(* main of launcher-intent.py, up to validate_intent.  Exit code 4 is a    *)
(* refusal, 1 an exception nobody catches.                                 *)
ReadIntent(s) ==
    /\ launcher[s].step = "readIntent"
    /\ IF PyAccepts(intentFile, s, now)
       THEN launcher' = [launcher EXCEPT ![s].payload = intentFile.payloadId,
                                         ![s].step = "readProfile"]
       ELSE Exit(s, Noise(1), IF PyRaises(intentFile, s) THEN 1 ELSE 4)
    /\ UNCHANGED <<now, intentFile, profileFile, page, jobs, jobReports>>

(* resolve_profile, ensure_work_dir and render_script, which may refuse    *)
(* the directory or miss the template; a dry run ends here.                *)
ReadProfile(s) ==
    /\ launcher[s].step = "readProfile"
    /\ LET profile == PyResolve(profileFile, launcher[s].payload)
       IN  \/ Exit(s, Noise(1), 4)
           \/ /\ profile # NoProfile
              /\ IF launcher[s].mode = "dryRun" THEN Exit(s, Noise(1), 0)
                 ELSE launcher' = [launcher EXCEPT ![s].template = profile.template,
                                                   ![s].step = "sbatch"]
    /\ UNCHANGED <<now, intentFile, profileFile, page, jobs, jobReports>>

(* What sbatch may do: refuse, or accept the job, while the scheduler has  *)
(* a number left, and announce it in some form, followed by other text.    *)
SubmitJob(s, form, noise, code) ==
    LET id == Len(jobs) + 1
        line == IF form = "other" THEN OtherText ELSE Submitted(form, id)
    IN  /\ id \in JobIds
        /\ jobs' = Append(jobs, [session |-> s, payload |-> launcher[s].payload,
                                 template |-> launcher[s].template])
        /\ Exit(s, <<line>> \o Noise(noise), code)

(* The end of main: an accepted job that is not announced in the canonical *)
(* form is a refusal all the same.                                         *)
SubmitExit_Raw(form) == IF form = "canonical" THEN 0 ELSE -1
SubmitExit_Trusting(form) == 0
SubmitExit(form) == IF form = "canonical" THEN 0 ELSE 4

Sbatch(s) ==
    /\ launcher[s].step = "sbatch"
    /\ \/ /\ \E code \in {1, 4} : Exit(s, Noise(1), code)   \* sbatch fails, or is not there
          /\ UNCHANGED jobs
       \/ \E form \in Forms, noise \in {0, MaxNoise} : SubmitJob(s, form, noise, SubmitExit(form))
    /\ UNCHANGED <<now, intentFile, profileFile, page, jobReports>>

(* slaif-launch without intent files: the test job id, or the site's own   *)
(* script, whose output is not looked at.                                  *)
SiteScriptRun(s) ==
    /\ launcher[s].step = "siteScript"
    /\ \/ /\ launcher[s].mode = "testJob"
          /\ Exit(s, <<Submitted("canonical", TestJobId)>>, 0)
          /\ UNCHANGED jobs
       \/ /\ launcher[s].mode = "script"
          /\ \/ (\E code \in {4, 5} : Exit(s, Noise(1), code)) /\ UNCHANGED jobs
             \/ \E form \in Forms, noise \in {0, MaxNoise} : SubmitJob(s, form, noise, 0)
    /\ UNCHANGED <<now, intentFile, profileFile, page, jobReports>>

-----------------------------------------------------------------------------
(* The connection is lost: OpenSSH ends with 255 and the page fails, while *)
(* the remote command, which has no terminal, goes on.                     *)
ConnectionLost(s) ==
    /\ page[s] = "waiting" /\ launcher[s].step # "idle"
    /\ page' = [page EXCEPT ![s] = "failed"]
    /\ UNCHANGED <<now, intentFile, profileFile, launcher, jobs, jobReports>>

(* startSshOverRelay after the command has ended, and reportSchedulerJob:  *)
(* nothing is reported unless the exit code is 0, the output holds what a  *)
(* development launch expects, and the job id found, if any, is a valid    *)
(* one.  Either stack may answer.                                          *)
RunEnds(s) ==
    LET l == launcher[s]
        id == ParseJobId(BoundOutput(l.out))
        report == BuildReport(id, l.exit)
        accepted(stack) == IF stack = "dev" THEN DevStackAccepts(report)
                           ELSE PilotStackAccepts(report)
    IN  /\ page[s] = "waiting" /\ l.step = "exited"
        /\ \/ /\ \/ l.exit # 0
                 \/ l.expected # NoJob /\ \A n \in DOMAIN l.out : l.out[n].id # l.expected
                 \/ ~ValidateSlurmJobId(id)
              /\ page' = [page EXCEPT ![s] = "failed"]
              /\ UNCHANGED jobReports
           \/ /\ l.exit = 0 /\ ValidateSlurmJobId(id)
              /\ l.expected # NoJob => \E n \in DOMAIN l.out : l.out[n].id = l.expected
              /\ \E stack \in {"dev", "pilot"} :
                    IF accepted(stack)
                    THEN /\ jobReports' = [jobReports EXCEPT ![s] = @ \cup {report}]
                         /\ page' = [page EXCEPT ![s] = "completed"]
                    ELSE page' = [page EXCEPT ![s] = "refused"] /\ UNCHANGED jobReports
        /\ UNCHANGED <<now, intentFile, profileFile, launcher, jobs>>

Next ==
    \/ Tick \/ ReplaceProfiles
    \/ \E s \in Session :
          \/ WriteIntent(s) \/ Start(s) \/ ReadIntent(s) \/ ReadProfile(s) \/ Sbatch(s)
          \/ SiteScriptRun(s) \/ ConnectionLost(s) \/ RunEnds(s)

Spec == Init /\ [][Next]_vars

-----------------------------------------------------------------------------
(* A job number that an intent-mode run reports is the number of the only  *)
(* job the session has, whatever numbers the login node printed before the *)
(* command and whatever the scheduler's wording was: the launcher ends     *)
(* with code 0 only after a canonical line, the parser refuses two         *)
(* different numbers, and what is cut from a long output is its beginning  *)
(* (launcher-intent.py, line 307; job_output_parser.js, lines 11 and 26).  *)
ReportedJobIsTheSessions ==
    \A s \in Session : \A r \in jobReports[s] :
        launcher[s].mode = "intent" /\ r.status = "submitted"
          => {n \in DOMAIN jobs : jobs[n].session = s} = {r.jobId}

(* A job submitted by intent runs the payload the API assigned to its      *)
(* session, from a template allowed for that payload, although both files  *)
(* are shared by all sessions and may be replaced while a run is under way *)
(* (validate_intent, resolve_profile).                                     *)
JobRunsApprovedPayload ==
    \A n \in DOMAIN jobs :
        LET j == jobs[n]
        IN  j.payload # SiteScript
              => /\ j.payload = Assigned[j.session]
                 /\ j.template \in Templates
                 /\ j.payload = ChatPayload => j.template = ChatTemplate

(* No stack refuses the body of a report for what it says: what            *)
(* buildJobReportPayload builds, in every case in which it does not throw, *)
(* passes the body checks of both job-report routes.  (A report refused    *)
(* for its token is in SessionLaunch.)                                     *)
ReportsNeverRefused == \A s \in Session : page[s] # "refused"

(* Where every profile sits under its payload's own id, as the stack and   *)
(* the examples write it, the server's and the launcher's resolver never   *)
(* take different profiles for a payload, although one checks the whole    *)
(* catalog and looks the id up, the other checks only up to the first      *)
(* profile for the payload, and either may refuse what the other takes     *)
(* (slurm_profile.js, line 184; launcher-intent.py, line 204).             *)
ResolversAgree ==
    (\A n \in DOMAIN profileFile.profiles :
        profileFile.profiles[n].key = profileFile.profiles[n].payloadId)
      => \A p \in PayloadId :
            LET js == JSResolve(profileFile, p)
                py == PyResolve(profileFile, p)
            IN  js # NoProfile /\ py # NoProfile => js = py
=============================================================================
