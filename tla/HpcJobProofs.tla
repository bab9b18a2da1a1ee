---------------------------- MODULE HpcJobProofs ----------------------------
(***************************************************************************)
(* The properties of HpcJob for any number of sessions, any catalogs and   *)
(* any amount of other output.                                             *)
(*                                                                         *)
(* What makes a reported number right is a chain: a session has no job     *)
(* before its launcher exits and one at most afterwards; an intent run     *)
(* exits with 0 only if the last line of its output that can name a job    *)
(* names that one; and the captured tail either still holds that line, so  *)
(* that any other number makes two, or holds nothing but other text.       *)
(***************************************************************************)
EXTENDS HpcJob, TLAPS, WellFoundedInduction, NaturalsInduction

Process == [mode: Modes, step: Steps, expected: JobIds \cup {NoJob},
            payload: PayloadId \cup {SiteScript}, template: Templates \cup {SiteScript},
            out: Seq(Line), exit: 0..255]

Types ==
    /\ now \in 0..MaxTime
    /\ intentFile \in Intent \cup {NoFile}
    /\ profileFile \in Catalogs
    /\ launcher \in [Session -> Process]
    /\ page \in [Session -> {"waiting", "failed", "refused", "completed"}]
    /\ jobs \in Seq(Job)
    /\ jobReports \in [Session -> SUBSET Report]

JobsOf(s) == {n \in DOMAIN jobs : jobs[n].session = s}

(* Whoever wrote the intent file, its payload is the one its session was   *)
(* assigned.                                                               *)
IntentOK == intentFile # NoFile => intentFile.payloadId = Assigned[intentFile.session]

Approved(payload, template, s) ==
    /\ payload = Assigned[s]
    /\ template \in Templates
    /\ payload = ChatPayload => template = ChatTemplate

(* What a launcher knows at each step.                                     *)
StepOK(l, s) ==
    /\ l.step \in {"idle", "readIntent", "siteScript", "exited"}
         => l.payload = SiteScript /\ l.template = SiteScript
    /\ l.step = "readIntent" => intentFile # NoFile
    /\ l.step \in {"readIntent", "readProfile", "sbatch"} => l.mode \in {"intent", "dryRun"}
    /\ l.step = "siteScript" => l.mode \in {"script", "testJob"}
    /\ l.step = "readProfile" => l.payload = Assigned[s]
    /\ l.step = "sbatch" => Approved(l.payload, l.template, s)

(* The last line of `out` that can name a job is canonical and names `id`. *)
EndsWith(out, id) ==
    \E p \in DOMAIN out :
        /\ out[p] = Submitted("canonical", id)
        /\ \A q \in DOMAIN out : q > p => out[q].form = "other"

OutputOK(l, s) ==
    /\ l.step # "exited" => JobsOf(s) = {} /\ jobReports[s] = {}
    /\ l.step = "exited" /\ l.mode = "intent" /\ l.exit = 0
         => \E id \in Nat \ {0} : JobsOf(s) = {id} /\ EndsWith(l.out, id)

Inv ==
    /\ Types /\ IntentOK
    /\ \A s \in Session : StepOK(launcher[s], s) /\ OutputOK(launcher[s], s)
    /\ ReportedJobIsTheSessions /\ JobRunsApprovedPayload /\ ReportsNeverRefused

-----------------------------------------------------------------------------
(* The launch's files.                                                     *)

(* The least element that First takes exists.                              *)
LEMMA LeastIndex ==
    ASSUME NEW S \in SUBSET Nat, S # {}
    PROVE  \E n \in S : \A m \in S : n <= m
<1>1. PICK n \in S : \A m \in S : ~(<<m, n>> \in OpToRel(<, Nat))
  BY WFMin, NatLessThanWellFounded, Zenon
<1>2. \A m \in S : ~(m < n)
  BY <1>1 DEF OpToRel
<1> QED
  BY <1>2

(* resolve_profile, when it returns, returns a sound profile for the       *)
(* payload it was asked for.                                               *)
LEMMA PyResolved ==
    ASSUME NEW c \in Catalog, NEW payload, PyResolve(c, payload) # NoProfile
    PROVE  /\ PyResolve(c, payload).payloadId = payload
           /\ SoundEntry(PyResolve(c, payload), "launcher")
<1> DEFINE hits == {n \in DOMAIN c.profiles :
                      c.profiles[n].payloadId = payload \/ ~SoundEntry(c.profiles[n], "launcher")}
           k == CHOOSE n \in hits : \A m \in hits : n <= m
<1>1. hits # {} /\ PyResolve(c, payload) = c.profiles[k] /\ SoundEntry(c.profiles[k], "launcher")
  BY DEF PyResolve, First
<1>2. hits \in SUBSET Nat
  BY DEF Catalog
<1>3. k \in hits
  BY <1>1, <1>2, LeastIndex
<1> QED
  BY <1>1, <1>3

(* The first profile for the payload, if the launcher takes it, is the one *)
(* under the payload's id.                                                 *)
LEMMA SameProfile ==
    ASSUME NEW c \in Catalog, NEW payload,
           \A n \in DOMAIN c.profiles : c.profiles[n].key = c.profiles[n].payloadId,
           JSResolve(c, payload) # NoProfile, PyResolve(c, payload) # NoProfile
    PROVE  JSResolve(c, payload) = PyResolve(c, payload)
<1> DEFINE D == DOMAIN c.profiles
           unsound(n) == ~SoundEntry(c.profiles[n], "launcher")
           byKey == {n \in D : c.profiles[n].key = payload}
           byPayload == {n \in D : c.profiles[n].payloadId = payload}
           hits == {n \in D : c.profiles[n].payloadId = payload \/ unsound(n)}
           least(S) == CHOOSE n \in S : \A m \in S : n <= m
           at(S) == IF S = {} THEN NoProfile ELSE c.profiles[least(S)]
<1>1. JSResolve(c, payload) = IF at(byKey) # NoProfile THEN at(byKey) ELSE at(byPayload)
  BY DEF JSResolve, First
<1>2. PyResolve(c, payload) = at(hits) /\ hits # {} /\ ~unsound(least(hits))
  BY DEF PyResolve, First
<1>3. byKey = byPayload
  OBVIOUS
<1>4. byPayload \subseteq hits /\ hits \subseteq Nat
  BY DEF Catalog
<1>5. least(hits) \in hits /\ \A m \in hits : least(hits) <= m
  <2> HIDE DEF hits
  <2>1. \E n \in hits : \A m \in hits : n <= m
    BY <1>2, <1>4, LeastIndex
  <2> QED
    BY <2>1
<1>6. least(hits) \in byPayload
  BY <1>2, <1>5
<1>7. least(byPayload) = least(hits) /\ byPayload # {}
  <2> HIDE DEF hits, byPayload
  <2>1. least(byPayload) \in byPayload /\ \A m \in byPayload : least(byPayload) <= m
    BY <1>4, <1>5, <1>6
  <2>2. least(byPayload) <= least(hits) /\ least(hits) <= least(byPayload)
    BY <1>4, <1>5, <1>6, <2>1
  <2>3. least(byPayload) \in Nat /\ least(hits) \in Nat
    BY <1>4, <1>5, <2>1
  <2> HIDE DEF least
  <2> QED
    BY <1>6, <2>2, <2>3
<1> HIDE DEF hits, byPayload, byKey, least
<1> QED
  BY <1>1, <1>2, <1>3, <1>7

-----------------------------------------------------------------------------
(* From the output to the report.                                          *)

(* The parser returns the one number it has seen, or none.                 *)
LEMMA ParsedIds ==
    ASSUME NEW out
    PROVE  ParseJobId(out) = NoJob \/ JobIdsIn(out) = {ParseJobId(out)}
<1>1. CASE \E id \in JobIdsIn(out) : JobIdsIn(out) = {id}
  <2>1. PICK id \in JobIdsIn(out) : JobIdsIn(out) = {id}
    BY <1>1
  <2>2. (CHOOSE x \in JobIdsIn(out) : TRUE) = id
    BY <2>1
  <2> QED
    BY <1>1, <2>1, <2>2 DEF ParseJobId
<1>2. CASE ~\E id \in JobIdsIn(out) : JobIdsIn(out) = {id}
  BY <1>2 DEF ParseJobId
<1> QED
  BY <1>1, <1>2

(* Where the output ends with a canonical line and other text, the parser  *)
(* finds that line's number in the tail, or none.                          *)
LEMMA ParsedTail ==
    ASSUME NEW out \in Seq(Line), NEW id, EndsWith(out, id)
    PROVE  ParseJobId(BoundOutput(out)) \in {id, NoJob}
<1>1. PICK p \in DOMAIN out :
          /\ out[p] = Submitted("canonical", id)
          /\ \A q \in DOMAIN out : q > p => out[q].form = "other"
  BY DEF EndsWith
<1> DEFINE b == BoundOutput(out)
<1>2. id \in JobIdsIn(b) \/ JobIdsIn(b) = {}
  <2>1. CASE Len(out) <= OutputCap
    <3>1. b = out
      BY <2>1 DEF BoundOutput
    <3> HIDE DEF b
    <3> QED
      BY <1>1, <3>1 DEF JobIdsIn, Submitted
  <2>2. CASE ~(Len(out) <= OutputCap)
    <3> DEFINE k == Len(out) - OutputCap + 1
    <3>1. OutputCap \in Nat \ {0} /\ Len(out) \in Nat /\ k \in 1..Len(out)
      BY <2>2, ReportAssumption
    <3>2. b = SubSeq(out, k, Len(out))
      BY <2>2 DEF BoundOutput
    <3>3. DOMAIN b = 1..OutputCap /\ \A n \in 1..OutputCap : b[n] = out[k + n - 1]
      BY <3>1, <3>2
    <3> HIDE DEF b
    <3>4. CASE p >= k
      <4>1. p - k + 1 \in DOMAIN b /\ b[p - k + 1] = out[p]
        BY <1>1, <3>1, <3>3, <3>4
      <4> QED
        BY <1>1, <4>1 DEF JobIdsIn, Submitted
    <3>5. CASE ~(p >= k)
      <4>1. \A n \in DOMAIN b : b[n].form = "other"
        BY <1>1, <3>1, <3>3, <3>5
      <4> QED
        BY <4>1 DEF JobIdsIn
    <3> QED
      BY <3>4, <3>5
  <2> QED
    BY <2>1, <2>2
<1>3. ParseJobId(b) \in {id, NoJob}
  <2> HIDE DEF b
  <2> QED
    BY <1>2, ParsedIds
<1> QED
  BY <1>3

LEMMA BoundType == ASSUME NEW out \in Seq(Line) PROVE BoundOutput(out) \in Seq(Line)
<1>1. OutputCap \in Nat \ {0}
  BY ReportAssumption
<1> QED
  BY <1>1 DEF BoundOutput

LEMMA ParseType == ASSUME NEW out \in Seq(Line) PROVE ParseJobId(out) \in JobIds \cup {NoJob}
<1>1. JobIdsIn(out) \subseteq JobIds \cup {NoJob}
  <2>1. \A n \in DOMAIN out : out[n] \in Line
    OBVIOUS
  <2>2. \A x \in Line : x.id \in JobIds \cup {NoJob}
    BY DEF Line
  <2> QED
    BY <2>1, <2>2 DEF JobIdsIn
<1> QED
  BY <1>1, ParsedIds

(* What buildJobReportPayload builds is what both routes accept.           *)
LEMMA ReportType ==
    ASSUME NEW id \in JobIds \cup {NoJob}, NEW code \in 0..255
    PROVE  /\ BuildReport(id, code) \in Report
           /\ DevStackAccepts(BuildReport(id, code)) /\ PilotStackAccepts(BuildReport(id, code))
           /\ BuildReport(id, code).jobId = id
           /\ BuildReport(id, code).status = "submitted" => id # NoJob
  BY DEF BuildReport, Report, Statuses, DevStackAccepts, PilotStackAccepts

(* The lines a launcher adds.                                              *)
LEMMA NoiseType ==
    ASSUME NEW n \in Nat
    PROVE  /\ Noise(n) \in Seq(Line) /\ Len(Noise(n)) = n
           /\ \A m \in DOMAIN Noise(n) : Noise(n)[m].form = "other"
<1>1. OtherText \in Line /\ OtherText.form = "other"
  BY DEF OtherText, Line, Forms
<1>2. Noise(n) = [m \in 1..n |-> OtherText]
  BY DEF Noise
<1>3. Noise(n) \in [1..n -> Line]
  BY <1>1, <1>2
<1>4. Noise(n) \in Seq(Line) /\ Len(Noise(n)) = n
  BY <1>3
<1> QED
  BY <1>1, <1>2, <1>4

LEMMA Concatenated ==
    ASSUME NEW a \in Seq(Line), NEW c \in Seq(Line)
    PROVE  /\ a \o c \in Seq(Line) /\ Len(a \o c) = Len(a) + Len(c)
           /\ \A n \in 1..Len(c) : (a \o c)[Len(a) + n] = c[n]
  OBVIOUS

LEMMA Announced ==
    ASSUME NEW a \in Seq(Line), NEW c \in Seq(Line), \A m \in DOMAIN c : c[m].form = "other",
           NEW id, Submitted("canonical", id) \in Line
    PROVE  EndsWith(a \o (<<Submitted("canonical", id)>> \o c), id)
<1> DEFINE l == Submitted("canonical", id)
           e == <<l>> \o c
           d == a \o e
<1>1. e \in Seq(Line) /\ Len(e) = Len(c) + 1 /\ e[1] = l
      /\ \A n \in 2..Len(e) : e[n] = c[n - 1]
  OBVIOUS
<1> HIDE DEF e, l
<1>2. /\ d \in Seq(Line) /\ Len(d) = Len(a) + Len(e) /\ d[Len(a) + 1] = l
      /\ \A n \in 1..Len(e) : d[Len(a) + n] = e[n]
  <2>1. d \in Seq(Line) /\ Len(d) = Len(a) + Len(e)
        /\ \A n \in 1..Len(e) : d[Len(a) + n] = e[n]
    BY <1>1, Concatenated
  <2>2. 1 \in 1..Len(e)
    BY <1>1
  <2> HIDE DEF d
  <2> QED
    BY <1>1, <2>1, <2>2
<1>3. \A q \in DOMAIN d : q > Len(a) + 1 => d[q].form = "other"
  <2> SUFFICES ASSUME NEW q \in DOMAIN d, q > Len(a) + 1 PROVE d[q].form = "other"
    OBVIOUS
  <2> DEFINE n == q - Len(a)
  <2>1. n \in 2..Len(e) /\ q = Len(a) + n
    BY <1>1, <1>2
  <2>2. d[q] = c[n - 1] /\ n - 1 \in DOMAIN c
    BY <1>1, <1>2, <2>1
  <2> QED
    BY <2>2
<1>4. Len(a) + 1 \in DOMAIN d
  BY <1>1, <1>2
<1> HIDE DEF d
<1>5. EndsWith(d, id)
  BY <1>2, <1>3, <1>4 DEF EndsWith, l
<1> QED
  BY <1>5 DEF d, e, l

-----------------------------------------------------------------------------
(* The invariant and the variables that an action leaves alone.            *)
LEMMA InitInv == Init => Inv
<1> SUFFICES ASSUME Init PROVE Inv
  OBVIOUS
<1> DEFINE l == [mode |-> "intent", step |-> "idle", expected |-> NoJob, payload |-> SiteScript,
                 template |-> SiteScript, out |-> <<>>, exit |-> 0]
<1>1. l \in Process
  BY DEF Process, Modes, Steps
<1>2. launcher = [s \in Session |-> l] /\ l.step = "idle" /\ l.payload = SiteScript
      /\ l.template = SiteScript
  BY DEF Init
<1> HIDE DEF l
<1>3. now \in 0..MaxTime /\ intentFile = NoFile /\ profileFile \in Catalogs
  BY HpcJobAssumption DEF Init
<1>4. jobs = <<>> /\ jobs \in Seq(Job) /\ DOMAIN jobs = {}
  BY DEF Init
<1>5. page = [s \in Session |-> "waiting"] /\ jobReports = [s \in Session |-> {}]
  BY DEF Init
<1>6. Types
  BY <1>1, <1>2, <1>3, <1>4, <1>5 DEF Types
<1>7. IntentOK
  BY <1>3 DEF IntentOK
<1>8. \A s \in Session : StepOK(launcher[s], s) /\ OutputOK(launcher[s], s)
  BY <1>2, <1>4, <1>5 DEF StepOK, OutputOK, JobsOf
<1>9. ReportedJobIsTheSessions /\ JobRunsApprovedPayload /\ ReportsNeverRefused
  BY <1>4, <1>5 DEF ReportedJobIsTheSessions, JobRunsApprovedPayload, ReportsNeverRefused
<1> QED
  BY <1>6, <1>7, <1>8, <1>9 DEF Inv

(* Clock, files and nothing else: a file, once written, is never removed.  *)
LEMMA FilesStep ==
    ASSUME Inv, UNCHANGED <<launcher, page, jobs, jobReports>>,
           now' \in 0..MaxTime, intentFile' \in Intent \cup {NoFile}, profileFile' \in Catalogs,
           intentFile # NoFile => intentFile' # NoFile, IntentOK'
    PROVE  Inv'
<1>1. Types'
  BY DEF Inv, Types
<1>2. \A s \in Session : StepOK(launcher[s], s)' /\ OutputOK(launcher[s], s)'
  <2> SUFFICES ASSUME NEW s \in Session
               PROVE  StepOK(launcher[s], s)' /\ OutputOK(launcher[s], s)'
    OBVIOUS
  <2>1. StepOK(launcher[s], s) /\ OutputOK(launcher[s], s)
    BY DEF Inv
  <2>2. StepOK(launcher[s], s)'
    BY <2>1 DEF StepOK
  <2>3. OutputOK(launcher[s], s)'
    BY <2>1 DEF OutputOK, JobsOf
  <2> QED
    BY <2>2, <2>3
<1>3. ReportedJobIsTheSessions' /\ JobRunsApprovedPayload' /\ ReportsNeverRefused'
  BY DEF Inv, ReportedJobIsTheSessions, JobRunsApprovedPayload, ReportsNeverRefused
<1> QED
  BY <1>1, <1>2, <1>3 DEF Inv

LEMMA TickInv == ASSUME Inv, Tick PROVE Inv'
<1>1. now' \in 0..MaxTime
  BY HpcJobAssumption DEF Tick, Inv, Types
<1>2. UNCHANGED <<intentFile, profileFile, launcher, page, jobs, jobReports>>
  BY DEF Tick
<1>3. IntentOK'
  BY <1>2 DEF Inv, IntentOK
<1>4. intentFile' \in Intent \cup {NoFile} /\ profileFile' \in Catalogs
  BY <1>2 DEF Inv, Types
<1> QED
  BY <1>1, <1>2, <1>3, <1>4, FilesStep

LEMMA ReplaceProfilesInv == ASSUME Inv, ReplaceProfiles PROVE Inv'
<1>1. UNCHANGED <<now, intentFile, launcher, page, jobs, jobReports>> /\ profileFile' \in Catalogs
  BY DEF ReplaceProfiles
<1>2. IntentOK'
  BY <1>1 DEF Inv, IntentOK
<1>3. intentFile' \in Intent \cup {NoFile} /\ now' \in 0..MaxTime
  BY <1>1 DEF Inv, Types
<1> QED
  BY <1>1, <1>2, <1>3, FilesStep

(* Whatever else is wrong with a file written by hand, it names the        *)
(* session's payload.                                                      *)
LEMMA HandWrittenKeeps ==
    ASSUME NEW i \in Intent, now \in Int, NEW x \in HandWritten(i)
    PROVE  x \in Intent /\ x.session = i.session /\ x.payloadId = i.payloadId
<1>1. CASE x = [i EXCEPT !.zoned = FALSE]
  BY <1>1 DEF Intent
<1>2. CASE x = [i EXCEPT !.mode = "other"]
  BY <1>2 DEF Intent
<1>3. CASE x = [i EXCEPT !.forbidden = TRUE]
  BY <1>3 DEF Intent
<1>4. CASE x = [i EXCEPT !.wellFormed = FALSE]
  BY <1>4 DEF Intent
<1>5. CASE x = [i EXCEPT !.expiresAt = i.createdAt]
  BY <1>5 DEF Intent
<1>6. CASE x = [i EXCEPT !.createdAt = i.createdAt - 1, !.expiresAt = now]
  <2>1. i.createdAt - 1 \in Int
    BY DEF Intent
  <2> QED
    BY <1>6, <2>1 DEF Intent
<1> QED
  BY <1>1, <1>2, <1>3, <1>4, <1>5, <1>6 DEF HandWritten

LEMMA WriteIntentInv == ASSUME Inv, NEW s \in Session, WriteIntent(s) PROVE Inv'
<1> DEFINE i == IntentFor(s)
<1>1. now \in Int /\ IntentTtl \in Int /\ Assigned[s] \in PayloadId
  BY HpcJobAssumption DEF Inv, Types
<1>2. i \in Intent /\ i.session = s /\ i.payloadId = Assigned[s]
  BY <1>1 DEF IntentFor, Intent
<1> HIDE DEF i
<1>3. \A x \in {i} \cup HandWritten(i) :
          x \in Intent /\ x.session = s /\ x.payloadId = Assigned[s]
  BY <1>1, <1>2, HandWrittenKeeps
<1>4. intentFile' \in {i} \cup HandWritten(i)
  BY DEF WriteIntent, i
<1>5. UNCHANGED <<now, profileFile, launcher, page, jobs, jobReports>>
  BY DEF WriteIntent
<1>6. intentFile' \in Intent /\ intentFile' # NoFile
  BY <1>3, <1>4, HpcJobAssumption
<1>7. IntentOK'
  BY <1>3, <1>4 DEF IntentOK
<1>8. now' \in 0..MaxTime /\ profileFile' \in Catalogs
  BY <1>5 DEF Inv, Types
<1> QED
  BY <1>5, <1>6, <1>7, <1>8, FilesStep

-----------------------------------------------------------------------------
(* A step of one launcher.                                                 *)
Becomes(s, l) == launcher' = [launcher EXCEPT ![s] = l]

LEMMA LauncherStep ==
    ASSUME Inv, NEW s \in Session, NEW l \in Process,
           Becomes(s, l),
           launcher[s].step # "exited",
           UNCHANGED <<now, intentFile, profileFile, page, jobs, jobReports>>,
           StepOK(l, s),
           ~(l.step = "exited" /\ l.mode = "intent" /\ l.exit = 0)
    PROVE  Inv'
<1>1. launcher \in [Session -> Process] /\ launcher' \in [Session -> Process]
      /\ launcher'[s] = l /\ \A t \in Session : t # s => launcher'[t] = launcher[t]
  BY DEF Inv, Types, Becomes
<1>2. Types'
  BY <1>1 DEF Inv, Types
<1>3. IntentOK'
  BY DEF Inv, IntentOK
<1>4. \A t \in Session : StepOK(launcher[t], t)' /\ OutputOK(launcher[t], t)'
  <2> SUFFICES ASSUME NEW t \in Session
               PROVE  StepOK(launcher[t], t)' /\ OutputOK(launcher[t], t)'
    OBVIOUS
  <2>1. StepOK(launcher[t], t) /\ OutputOK(launcher[t], t)
    BY DEF Inv
  <2>2. JobsOf(t)' = JobsOf(t) /\ jobReports'[t] = jobReports[t]
    BY DEF JobsOf
  <2>3. CASE t = s
    <3>1. launcher'[t] = l /\ JobsOf(t) = {} /\ jobReports[t] = {}
      BY <1>1, <2>1, <2>3 DEF OutputOK
    <3>2. StepOK(launcher[t], t)'
      BY <2>3, <3>1 DEF StepOK
    <3>3. OutputOK(launcher[t], t)'
      BY <2>2, <3>1 DEF OutputOK
    <3> QED
      BY <3>2, <3>3
  <2>4. CASE t # s
    <3>1. launcher'[t] = launcher[t]
      BY <1>1, <2>4
    <3>2. StepOK(launcher[t], t)'
      BY <2>1, <3>1 DEF StepOK
    <3>3. OutputOK(launcher[t], t)'
      BY <2>1, <2>2, <3>1 DEF OutputOK
    <3> QED
      BY <3>2, <3>3
  <2> QED
    BY <2>3, <2>4
<1>5. ReportedJobIsTheSessions'
  <2> SUFFICES ASSUME NEW t \in Session, NEW r \in jobReports[t],
                      launcher'[t].mode = "intent", r.status = "submitted"
               PROVE  JobsOf(t) = {r.jobId}
    BY DEF ReportedJobIsTheSessions, JobsOf
  <2>1. t # s
    BY DEF Inv, OutputOK
  <2> QED
    BY <1>1, <2>1 DEF Inv, ReportedJobIsTheSessions, JobsOf
<1>6. JobRunsApprovedPayload' /\ ReportsNeverRefused'
  BY DEF Inv, JobRunsApprovedPayload, ReportsNeverRefused
<1> QED
  BY <1>2, <1>3, <1>4, <1>5, <1>6 DEF Inv

(* The launcher's record after Exit.                                       *)
LEMMA ExitEffect ==
    ASSUME Types, NEW s \in Session, NEW lines \in Seq(Line), NEW code \in 0..255,
           Exit(s, lines, code)
    PROVE  \E l \in Process :
               /\ Becomes(s, l)
               /\ StepOK(l, s)
               /\ l.step = "exited" /\ l.mode = launcher[s].mode /\ l.exit = code
               /\ l.out = launcher[s].out \o lines
<1> DEFINE k == launcher[s]
           o == k.out \o lines
           l == [k EXCEPT !.out = o, !.exit = code, !.step = "exited", !.payload = SiteScript,
                          !.template = SiteScript]
<1>1. k \in Process /\ k.out \in Seq(Line)
  BY DEF Types, Process
<1>2. o \in Seq(Line)
  BY <1>1, Concatenated
<1>3. Becomes(s, l)
  BY DEF Exit, Types, Becomes
<1> HIDE DEF k, o
<1>4. /\ l \in Process
      /\ l.step = "exited" /\ l.mode = k.mode /\ l.exit = code /\ l.out = o
      /\ l.payload = SiteScript /\ l.template = SiteScript
  BY <1>1, <1>2 DEF Process, Steps
<1> HIDE DEF l
<1>5. StepOK(l, s)
  BY <1>4 DEF StepOK
<1> QED
  BY <1>3, <1>4, <1>5 DEF k, o

LEMMA Appended ==
    ASSUME NEW q \in Seq(Job), NEW j \in Job
    PROVE  /\ Append(q, j) \in Seq(Job) /\ DOMAIN Append(q, j) = 1..(Len(q) + 1)
           /\ Append(q, j)[Len(q) + 1] = j
           /\ \A n \in 1..Len(q) : Append(q, j)[n] = q[n]
           /\ DOMAIN q = 1..Len(q) /\ Len(q) \in Nat
  OBVIOUS

(* The scheduler accepts a job: it is the session's first, and the last.   *)
LEMMA SubmitStep ==
    ASSUME Inv, NEW s \in Session, NEW form \in Forms, NEW noise \in Nat, NEW code \in 0..255,
           SubmitJob(s, form, noise, code),
           UNCHANGED <<now, intentFile, profileFile, page, jobReports>>,
           launcher[s].step # "exited",
           launcher[s].payload = SiteScript \/ Approved(launcher[s].payload, launcher[s].template, s),
           launcher[s].mode = "intent" /\ code = 0 => form = "canonical"
    PROVE  Inv'
<1> DEFINE k == launcher[s]
           id == Len(jobs) + 1
           line == IF form = "other" THEN OtherText ELSE Submitted(form, id)
           lines == <<line>> \o Noise(noise)
           j == [session |-> s, payload |-> k.payload, template |-> k.template]
<1>1. Types /\ launcher \in [Session -> Process] /\ k \in Process /\ jobs \in Seq(Job)
  BY DEF Inv, Types
<1>2. id \in JobIds /\ jobs' = Append(jobs, j) /\ Exit(s, lines, code)
  BY DEF SubmitJob
<1>3. j \in Job /\ j.session = s /\ j.payload = k.payload /\ j.template = k.template
  BY <1>1 DEF Job, Process
<1>4. Noise(noise) \in Seq(Line) /\ \A m \in DOMAIN Noise(noise) : Noise(noise)[m].form = "other"
  BY NoiseType
<1>5. line \in Line
  BY <1>2 DEF Submitted, OtherText, Line, Forms
<1>6. lines \in Seq(Line)
  <2> HIDE DEF line
  <2>1. <<line>> \in Seq(Line)
    BY <1>5
  <2> QED
    BY <1>4, <2>1, Concatenated
<1>7. PICK l \in Process :
          /\ Becomes(s, l)
          /\ StepOK(l, s)
          /\ l.step = "exited" /\ l.mode = k.mode /\ l.exit = code
          /\ l.out = k.out \o lines
  <2> HIDE DEF lines
  <2> QED
    BY <1>1, <1>2, <1>6, ExitEffect
<1>8. k.mode = "intent" /\ code = 0 => EndsWith(l.out, id)
  <2> SUFFICES ASSUME k.mode = "intent", code = 0 PROVE EndsWith(l.out, id)
    OBVIOUS
  <2>1. form = "canonical" /\ line = Submitted("canonical", id) /\ k.out \in Seq(Line)
    BY <1>1 DEF Process
  <2>2. l.out = k.out \o (<<Submitted("canonical", id)>> \o Noise(noise))
    BY <1>7, <2>1
  <2>3. Submitted("canonical", id) \in Line
    BY <1>5, <2>1
  <2>4. EndsWith(k.out \o (<<Submitted("canonical", id)>> \o Noise(noise)), id)
    <3> HIDE DEF k, id
    <3> QED
      BY <1>4, <2>1, <2>3, Announced
  <2> QED
    BY <2>2, <2>4
<1> HIDE DEF lines, line, j
<1>9. /\ jobs' \in Seq(Job) /\ DOMAIN jobs' = 1..id /\ jobs'[id] = j
      /\ \A n \in DOMAIN jobs : jobs'[n] = jobs[n] /\ n # id
      /\ DOMAIN jobs' = DOMAIN jobs \cup {id} /\ id \in Nat \ {0}
  <2>1. Append(jobs, j) \in Seq(Job) /\ DOMAIN Append(jobs, j) = 1..(Len(jobs) + 1)
        /\ Append(jobs, j)[Len(jobs) + 1] = j
        /\ (\A n \in 1..Len(jobs) : Append(jobs, j)[n] = jobs[n])
        /\ DOMAIN jobs = 1..Len(jobs) /\ Len(jobs) \in Nat
    BY <1>1, <1>3, Appended
  <2> QED
    BY <1>2, <2>1
<1> HIDE DEF id
<1>10. JobsOf(s)' = {id} /\ \A t \in Session : t # s => JobsOf(t)' = JobsOf(t)
  <2>1. JobsOf(s) = {}
    BY DEF Inv, OutputOK
  <2> QED
    BY <1>3, <1>9, <2>1 DEF JobsOf
<1>11. launcher' \in [Session -> Process] /\ launcher'[s] = l
       /\ \A t \in Session : t # s => launcher'[t] = launcher[t]
  BY <1>1, <1>7 DEF Becomes
<1> HIDE DEF k
<1>12. Types'
  BY <1>9, <1>11 DEF Inv, Types
<1>13. IntentOK'
  BY DEF Inv, IntentOK
<1>14. \A t \in Session : StepOK(launcher[t], t)' /\ OutputOK(launcher[t], t)'
  <2> SUFFICES ASSUME NEW t \in Session
               PROVE  StepOK(launcher[t], t)' /\ OutputOK(launcher[t], t)'
    OBVIOUS
  <2>1. CASE t = s
    <3>1. StepOK(launcher[t], t)'
      BY <1>7, <1>11, <2>1 DEF StepOK
    <3>2. OutputOK(launcher[t], t)'
      BY <1>7, <1>8, <1>9, <1>10, <1>11, <2>1 DEF OutputOK
    <3> QED
      BY <3>1, <3>2
  <2>2. CASE t # s
    <3>1. StepOK(launcher[t], t) /\ OutputOK(launcher[t], t)
      BY DEF Inv
    <3>2. launcher'[t] = launcher[t] /\ JobsOf(t)' = JobsOf(t) /\ jobReports'[t] = jobReports[t]
      BY <1>10, <1>11, <2>2
    <3>3. StepOK(launcher[t], t)'
      BY <3>1, <3>2 DEF StepOK
    <3>4. OutputOK(launcher[t], t)'
      BY <3>1, <3>2 DEF OutputOK
    <3> QED
      BY <3>3, <3>4
  <2> QED
    BY <2>1, <2>2
<1>15. ReportedJobIsTheSessions'
  <2> SUFFICES ASSUME NEW t \in Session, NEW r \in jobReports[t],
                      launcher'[t].mode = "intent", r.status = "submitted"
               PROVE  JobsOf(t)' = {r.jobId}
    BY DEF ReportedJobIsTheSessions, JobsOf
  <2>1. t # s
    BY DEF Inv, OutputOK
  <2>2. JobsOf(t) = {r.jobId}
    BY <1>11, <2>1 DEF Inv, ReportedJobIsTheSessions, JobsOf
  <2> QED
    BY <1>10, <2>1, <2>2
<1>16. JobRunsApprovedPayload'
  <2> SUFFICES ASSUME NEW n \in DOMAIN jobs', jobs'[n].payload # SiteScript
               PROVE  Approved(jobs'[n].payload, jobs'[n].template, jobs'[n].session)
    BY DEF JobRunsApprovedPayload, Approved
  <2>1. CASE n = id
    BY <1>3, <1>9, <2>1 DEF k
  <2>2. CASE n # id
    BY <1>9, <2>2 DEF Inv, JobRunsApprovedPayload, Approved
  <2> QED
    BY <2>1, <2>2
<1>17. ReportsNeverRefused'
  BY DEF Inv, ReportsNeverRefused
<1> QED
  BY <1>12, <1>13, <1>14, <1>15, <1>16, <1>17 DEF Inv

-----------------------------------------------------------------------------
(* The launcher's actions.                                                 *)
LEMMA TestLine == <<Submitted("canonical", TestJobId)>> \in Seq(Line) /\ <<>> \in Seq(Line)
<1> DEFINE x == Submitted("canonical", TestJobId)
<1>1. x \in Line
  BY HpcJobAssumption DEF Submitted, Line, Forms
<1> HIDE DEF x
<1>2. <<x>> \in Seq(Line) /\ <<>> \in Seq(Line)
  BY <1>1
<1> QED
  BY <1>2 DEF x

LEMMA StartInv == ASSUME Inv, NEW s \in Session, Start(s) PROVE Inv'
<1> DEFINE k == launcher[s]
<1>1. PICK c \in Commands[s], greeting \in Greetings[s] :
          LET byIntent == c.mode \in {"intent", "dryRun"}
              missing == byIntent /\ intentFile = NoFile
          IN  launcher' = [launcher EXCEPT
                  ![s].mode = c.mode, ![s].expected = c.expected, ![s].out = greeting,
                  ![s].exit = IF missing THEN 4 ELSE 0,
                  ![s].step = IF missing THEN "exited"
                              ELSE IF byIntent THEN "readIntent" ELSE "siteScript"]
  BY DEF Start
<1> DEFINE byIntent == c.mode \in {"intent", "dryRun"}
           missing == byIntent /\ intentFile = NoFile
           code == IF missing THEN 4 ELSE 0
           step == IF missing THEN "exited" ELSE IF byIntent THEN "readIntent" ELSE "siteScript"
           l == [k EXCEPT !.mode = c.mode, !.expected = c.expected, !.out = greeting,
                          !.exit = code, !.step = step]
<1>2. k.step = "idle" /\ UNCHANGED <<now, intentFile, profileFile, page, jobs, jobReports>>
  BY DEF Start
<1>3. launcher \in [Session -> Process] /\ k \in Process
  BY DEF Inv, Types
<1>4. c.mode \in Modes /\ c.expected \in JobIds \cup {NoJob}
  BY HpcJobAssumption DEF Modes
<1>5. greeting \in Seq(Line)
  BY HpcJobAssumption
<1>6. Becomes(s, l)
  BY <1>1, <1>3 DEF Becomes
<1>7. code \in 0..255 /\ step \in Steps
  BY DEF Steps
<1>8. /\ (step = "exited" => code = 4) /\ (step = "readIntent" => byIntent /\ intentFile # NoFile)
      /\ (step = "siteScript" => ~byIntent) /\ step \in {"exited", "readIntent", "siteScript"}
  OBVIOUS
<1> HIDE DEF code, step, k
<1>9. /\ l \in Process /\ l.mode = c.mode /\ l.exit = code /\ l.step = step
      /\ l.payload = k.payload /\ l.template = k.template
  BY <1>3, <1>4, <1>5, <1>7 DEF Process
<1> HIDE DEF l
<1>10. k.payload = SiteScript /\ k.template = SiteScript
  BY <1>2 DEF Inv, StepOK, k
<1>11. StepOK(l, s)
  BY <1>4, <1>8, <1>9, <1>10 DEF StepOK, Modes
<1>12. ~(l.step = "exited" /\ l.mode = "intent" /\ l.exit = 0)
  BY <1>8, <1>9
<1> QED
  BY <1>2, <1>6, <1>9, <1>11, <1>12, LauncherStep DEF k

(* An exit of a launcher that submitted nothing.                           *)
LEMMA ExitStep ==
    ASSUME Inv, NEW s \in Session, NEW lines \in Seq(Line), NEW code \in 0..255,
           Exit(s, lines, code), launcher[s].step # "exited",
           UNCHANGED <<now, intentFile, profileFile, page, jobs, jobReports>>,
           launcher[s].mode = "intent" => code # 0
    PROVE  Inv'
<1>1. PICK l \in Process :
          /\ Becomes(s, l)
          /\ StepOK(l, s)
          /\ l.step = "exited" /\ l.mode = launcher[s].mode /\ l.exit = code
          /\ l.out = launcher[s].out \o lines
  <2>1. Types
    BY DEF Inv
  <2> QED
    BY <2>1, ExitEffect
<1> QED
  BY <1>1, LauncherStep

LEMMA ReadIntentInv == ASSUME Inv, NEW s \in Session, ReadIntent(s) PROVE Inv'
<1>1. launcher[s].step = "readIntent"
      /\ UNCHANGED <<now, intentFile, profileFile, page, jobs, jobReports>>
  BY DEF ReadIntent
<1>2. CASE /\ PyAccepts(intentFile, s, now)
           /\ launcher' = [launcher EXCEPT ![s].payload = intentFile.payloadId,
                                           ![s].step = "readProfile"]
  <2> DEFINE k == launcher[s]
             l == [k EXCEPT !.payload = intentFile.payloadId, !.step = "readProfile"]
  <2>1. intentFile \in Intent /\ intentFile.session = s /\ intentFile.payloadId = Assigned[s]
    BY <1>1, <1>2 DEF Inv, Types, StepOK, IntentOK, PyAccepts, PyReachesClock
  <2>2. intentFile.payloadId \in PayloadId
    BY <2>1 DEF Intent
  <2>3. launcher \in [Session -> Process] /\ k \in Process /\ k.mode \in {"intent", "dryRun"}
    BY <1>1 DEF Inv, Types, StepOK
  <2>4. Becomes(s, l)
    BY <1>2, <2>3 DEF Becomes
  <2> HIDE DEF k
  <2>5. /\ l \in Process /\ l.step = "readProfile" /\ l.mode = k.mode
        /\ l.payload = Assigned[s]
    BY <2>1, <2>2, <2>3 DEF Process, Steps
  <2> HIDE DEF l
  <2>6. StepOK(l, s)
    BY <2>3, <2>5 DEF StepOK
  <2> QED
    BY <1>1, <2>4, <2>5, <2>6, LauncherStep
<1>3. CASE Exit(s, Noise(1), IF PyRaises(intentFile, s) THEN 1 ELSE 4)
  <2> DEFINE code == IF PyRaises(intentFile, s) THEN 1 ELSE 4
  <2>1. code \in 0..255 /\ code # 0 /\ Noise(1) \in Seq(Line)
    BY NoiseType
  <2> HIDE DEF code
  <2>2. Exit(s, Noise(1), code)
    BY <1>3 DEF code
  <2> QED
    BY <1>1, <2>1, <2>2, ExitStep
<1> QED
  BY <1>2, <1>3 DEF ReadIntent

LEMMA ReadProfileInv == ASSUME Inv, NEW s \in Session, ReadProfile(s) PROVE Inv'
<1> DEFINE k == launcher[s]
           profile == PyResolve(profileFile, k.payload)
<1>1. k.step = "readProfile" /\ UNCHANGED <<now, intentFile, profileFile, page, jobs, jobReports>>
  BY DEF ReadProfile
<1>2. CASE Exit(s, Noise(1), 4)
  BY <1>1, <1>2, NoiseType, ExitStep
<1>3. CASE k.mode = "dryRun" /\ Exit(s, Noise(1), 0)
  <2>1. Noise(1) \in Seq(Line) /\ 0 \in 0..255
    BY NoiseType
  <2> QED
    BY <1>1, <1>3, <2>1, ExitStep
<1>4. CASE /\ profile # NoProfile
           /\ launcher' = [launcher EXCEPT ![s].template = profile.template, ![s].step = "sbatch"]
  <2> DEFINE l == [k EXCEPT !.template = profile.template, !.step = "sbatch"]
  <2>1. profileFile \in Catalog
    BY HpcJobAssumption DEF Inv, Types
  <2>2. profile.payloadId = k.payload /\ SoundEntry(profile, "launcher")
    BY <1>4, <2>1, PyResolved
  <2>3. launcher \in [Session -> Process] /\ k \in Process /\ k.mode \in {"intent", "dryRun"}
        /\ k.payload = Assigned[s]
    BY <1>1 DEF Inv, Types, StepOK
  <2>4. Becomes(s, l)
    BY <1>4, <2>3 DEF Becomes
  <2> HIDE DEF profile
  <2>5. profile.template \in Templates /\ (k.payload = ChatPayload => profile.template = ChatTemplate)
    BY <2>2 DEF SoundEntry
  <2> HIDE DEF k
  <2>6. /\ l \in Process /\ l.step = "sbatch" /\ l.mode = k.mode
        /\ l.payload = k.payload /\ l.template = profile.template
    BY <2>3, <2>5 DEF Process, Steps
  <2> HIDE DEF l
  <2>7. StepOK(l, s)
    BY <2>3, <2>5, <2>6 DEF StepOK, Approved
  <2> QED
    BY <1>1, <2>4, <2>6, <2>7, LauncherStep DEF k
<1> QED
  BY <1>2, <1>3, <1>4 DEF ReadProfile

LEMMA SbatchInv == ASSUME Inv, NEW s \in Session, Sbatch(s) PROVE Inv'
<1>1. launcher[s].step = "sbatch" /\ UNCHANGED <<now, intentFile, profileFile, page, jobReports>>
  BY DEF Sbatch
<1>2. CASE (\E code \in {1, 4} : Exit(s, Noise(1), code)) /\ UNCHANGED jobs
  <2>1. PICK code \in {1, 4} : Exit(s, Noise(1), code)
    BY <1>2
  <2>2. Noise(1) \in Seq(Line) /\ code \in 0..255 /\ code # 0
    BY NoiseType
  <2> QED
    BY <1>1, <1>2, <2>1, <2>2, ExitStep
<1>3. CASE \E form \in Forms, noise \in {0, MaxNoise} : SubmitJob(s, form, noise, SubmitExit(form))
  <2>1. PICK form \in Forms, noise \in {0, MaxNoise} : SubmitJob(s, form, noise, SubmitExit(form))
    BY <1>3
  <2>2. SubmitExit(form) \in 0..255 /\ (SubmitExit(form) = 0 => form = "canonical")
    BY DEF SubmitExit
  <2>3. noise \in Nat
    BY HpcJobAssumption
  <2>4. Approved(launcher[s].payload, launcher[s].template, s)
    BY <1>1 DEF Inv, StepOK
  <2> DEFINE code == SubmitExit(form)
  <2> HIDE DEF code
  <2> QED
    BY <1>1, <2>1, <2>2, <2>3, <2>4, SubmitStep DEF code
<1> QED
  BY <1>2, <1>3 DEF Sbatch

LEMMA SiteScriptRunInv == ASSUME Inv, NEW s \in Session, SiteScriptRun(s) PROVE Inv'
<1>1. launcher[s].step = "siteScript"
      /\ UNCHANGED <<now, intentFile, profileFile, page, jobReports>>
  BY DEF SiteScriptRun
<1>2. launcher[s].mode # "intent" /\ launcher[s].payload = SiteScript
  BY <1>1 DEF Inv, StepOK
<1>3. CASE Exit(s, <<Submitted("canonical", TestJobId)>>, 0) /\ UNCHANGED jobs
  <2> DEFINE x == <<Submitted("canonical", TestJobId)>>
  <2>1. x \in Seq(Line) /\ 0 \in 0..255 /\ Exit(s, x, 0)
    BY <1>3, TestLine
  <2> HIDE DEF x
  <2> QED
    BY <1>1, <1>2, <1>3, <2>1, ExitStep
<1>4. CASE (\E code \in {4, 5} : Exit(s, Noise(1), code)) /\ UNCHANGED jobs
  <2>1. PICK code \in {4, 5} : Exit(s, Noise(1), code)
    BY <1>4
  <2>2. Noise(1) \in Seq(Line) /\ code \in 0..255 /\ code # 0
    BY NoiseType
  <2> QED
    BY <1>1, <1>4, <2>1, <2>2, ExitStep
<1>5. CASE \E form \in Forms, noise \in {0, MaxNoise} : SubmitJob(s, form, noise, 0)
  <2>1. PICK form \in Forms, noise \in {0, MaxNoise} : SubmitJob(s, form, noise, 0)
    BY <1>5
  <2>2. noise \in Nat
    BY HpcJobAssumption
  <2> QED
    BY <1>1, <1>2, <2>1, <2>2, SubmitStep
<1> QED
  BY <1>3, <1>4, <1>5 DEF SiteScriptRun

-----------------------------------------------------------------------------
(* The session page's actions: the launcher has started, or has ended.     *)
LEMMA PageStep ==
    ASSUME Inv, NEW s \in Session, NEW v \in {"failed", "completed"}, NEW R \in SUBSET Report,
           page' = [page EXCEPT ![s] = v], jobReports' = [jobReports EXCEPT ![s] = R],
           UNCHANGED <<now, intentFile, profileFile, launcher, jobs>>,
           R = jobReports[s] \/ launcher[s].step = "exited",
           \A r \in R : launcher[s].mode = "intent" /\ r.status = "submitted"
                          => JobsOf(s) = {r.jobId}
    PROVE  Inv'
<1>1. Types'
  BY DEF Inv, Types
<1>2. jobReports'[s] = R /\ \A t \in Session : t # s => jobReports'[t] = jobReports[t]
  BY DEF Inv, Types
<1>3. IntentOK'
  BY DEF Inv, IntentOK
<1>4. \A t \in Session : StepOK(launcher[t], t)' /\ OutputOK(launcher[t], t)'
  <2> SUFFICES ASSUME NEW t \in Session
               PROVE  StepOK(launcher[t], t)' /\ OutputOK(launcher[t], t)'
    OBVIOUS
  <2>1. StepOK(launcher[t], t) /\ OutputOK(launcher[t], t)
    BY DEF Inv
  <2>2. JobsOf(t)' = JobsOf(t) /\ launcher'[t] = launcher[t]
    BY DEF JobsOf
  <2>3. StepOK(launcher[t], t)'
    BY <2>1, <2>2 DEF StepOK
  <2>4. launcher[t].step # "exited" => jobReports'[t] = jobReports[t]
    BY <1>2
  <2>5. OutputOK(launcher[t], t)'
    BY <2>1, <2>2, <2>4 DEF OutputOK
  <2> QED
    BY <2>3, <2>5
<1>5. ReportedJobIsTheSessions'
  <2> SUFFICES ASSUME NEW t \in Session, NEW r \in jobReports'[t],
                      launcher[t].mode = "intent", r.status = "submitted"
               PROVE  JobsOf(t) = {r.jobId}
    BY DEF ReportedJobIsTheSessions, JobsOf
  <2>1. CASE t = s
    BY <1>2, <2>1
  <2>2. CASE t # s
    BY <1>2, <2>2 DEF Inv, ReportedJobIsTheSessions, JobsOf
  <2> QED
    BY <2>1, <2>2
<1>6. JobRunsApprovedPayload'
  BY DEF Inv, JobRunsApprovedPayload
<1>7. ReportsNeverRefused'
  BY DEF Inv, Types, ReportsNeverRefused
<1> QED
  BY <1>1, <1>3, <1>4, <1>5, <1>6, <1>7 DEF Inv

(* The page fails: nothing is reported.                                    *)
LEMMA PageFails ==
    ASSUME Inv, NEW s \in Session, page' = [page EXCEPT ![s] = "failed"],
           UNCHANGED <<now, intentFile, profileFile, launcher, jobs, jobReports>>
    PROVE  Inv'
<1> DEFINE R == jobReports[s]
<1>1. R \in SUBSET Report /\ jobReports' = [jobReports EXCEPT ![s] = R]
  BY DEF Inv, Types
<1>2. \A r \in R : launcher[s].mode = "intent" /\ r.status = "submitted"
                     => JobsOf(s) = {r.jobId}
  BY DEF Inv, ReportedJobIsTheSessions, JobsOf
<1> QED
  BY <1>1, <1>2, PageStep

LEMMA ConnectionLostInv == ASSUME Inv, NEW s \in Session, ConnectionLost(s) PROVE Inv'
  BY PageFails DEF ConnectionLost

LEMMA RunEndsInv == ASSUME Inv, NEW s \in Session, RunEnds(s) PROVE Inv'
<1> DEFINE l == launcher[s]
           id == ParseJobId(BoundOutput(l.out))
           report == BuildReport(id, l.exit)
<1>1. l.step = "exited" /\ UNCHANGED <<now, intentFile, profileFile, launcher, jobs>>
  BY DEF RunEnds
<1>2. l \in Process /\ l.out \in Seq(Line) /\ l.exit \in 0..255
  BY DEF Inv, Types, Process
<1>3. id \in JobIds \cup {NoJob}
  <2> HIDE DEF l
  <2> QED
    BY <1>2, BoundType, ParseType
<1>4. /\ report \in Report /\ DevStackAccepts(report) /\ PilotStackAccepts(report)
      /\ report.jobId = id /\ (report.status = "submitted" => id # NoJob)
  <2> HIDE DEF id, l
  <2> QED
    BY <1>2, <1>3, ReportType
<1>5. CASE page' = [page EXCEPT ![s] = "failed"] /\ UNCHANGED jobReports
  BY <1>1, <1>5, PageFails
<1>6. CASE /\ l.exit = 0
           /\ jobReports' = [jobReports EXCEPT ![s] = @ \cup {report}]
           /\ page' = [page EXCEPT ![s] = "completed"]
  <2> DEFINE R == jobReports[s] \cup {report}
  <2> HIDE DEF report
  <2>1. R \in SUBSET Report /\ jobReports' = [jobReports EXCEPT ![s] = R]
    BY <1>4, <1>6 DEF Inv, Types
  <2>2. l.mode = "intent" /\ report.status = "submitted" => JobsOf(s) = {report.jobId}
    <3> SUFFICES ASSUME l.mode = "intent", report.status = "submitted"
                 PROVE  JobsOf(s) = {report.jobId}
      OBVIOUS
    <3>1. PICK n \in Nat \ {0} : JobsOf(s) = {n} /\ EndsWith(l.out, n)
      BY <1>1, <1>6 DEF Inv, OutputOK
    <3>2. id \in {n, NoJob}
      <4> HIDE DEF l
      <4> QED
        BY <1>2, <3>1, ParsedTail
    <3> HIDE DEF id
    <3> QED
      BY <1>4, <3>1, <3>2
  <2>3. \A r \in R : l.mode = "intent" /\ r.status = "submitted" => JobsOf(s) = {r.jobId}
    BY <2>2 DEF Inv, ReportedJobIsTheSessions, JobsOf
  <2> HIDE DEF R
  <2> QED
    BY <1>1, <1>6, <2>1, <2>3, PageStep
<1> QED
  <2> HIDE DEF id
  <2> QED
    BY <1>4, <1>5, <1>6 DEF RunEnds, id

-----------------------------------------------------------------------------
LEMMA NextInv == Inv /\ [Next]_vars => Inv'
<1> SUFFICES ASSUME Inv, [Next]_vars PROVE Inv'
  OBVIOUS
<1>1. CASE UNCHANGED vars
  <2>1. UNCHANGED <<now, intentFile, profileFile, launcher, page, jobs, jobReports>>
    BY <1>1 DEF vars
  <2>2. IntentOK'
    BY <2>1 DEF Inv, IntentOK
  <2>3. now' \in 0..MaxTime /\ intentFile' \in Intent \cup {NoFile} /\ profileFile' \in Catalogs
    BY <2>1 DEF Inv, Types
  <2> QED
    BY <2>1, <2>2, <2>3, FilesStep
<1>2. CASE Tick
  BY <1>2, TickInv
<1>3. CASE ReplaceProfiles
  BY <1>3, ReplaceProfilesInv
<1>4. ASSUME NEW s \in Session,
             \/ WriteIntent(s) \/ Start(s) \/ ReadIntent(s) \/ ReadProfile(s) \/ Sbatch(s)
             \/ SiteScriptRun(s) \/ ConnectionLost(s) \/ RunEnds(s)
      PROVE  Inv'
  BY <1>4, WriteIntentInv, StartInv, ReadIntentInv, ReadProfileInv, SbatchInv,
     SiteScriptRunInv, ConnectionLostInv, RunEndsInv
<1> QED
  BY <1>1, <1>2, <1>3, <1>4 DEF Next

LEMMA SpecInv == Spec => []Inv
  BY InitInv, NextInv, PTL DEF Spec

LEMMA InvType == Inv => TypeOK
<1> SUFFICES ASSUME Inv PROVE TypeOK
  OBVIOUS
<1>1. ASSUME NEW s \in Session
      PROVE  /\ launcher[s].mode \in Modes /\ launcher[s].step \in Steps
             /\ launcher[s].expected \in JobIds \cup {NoJob}
             /\ launcher[s].payload \in PayloadId \cup {SiteScript}
             /\ launcher[s].template \in Templates \cup {SiteScript}
             /\ launcher[s].out \in Seq(Line) /\ launcher[s].exit \in 0..255
  BY DEF Inv, Types, Process
<1> QED
  BY <1>1 DEF Inv, Types, TypeOK

LEMMA InvAgree == Inv => ResolversAgree
<1> SUFFICES ASSUME Inv PROVE ResolversAgree
  OBVIOUS
<1>1. profileFile \in Catalog
  BY HpcJobAssumption DEF Inv, Types
<1>2. ASSUME \A n \in DOMAIN profileFile.profiles :
                 profileFile.profiles[n].key = profileFile.profiles[n].payloadId,
             NEW p \in PayloadId,
             JSResolve(profileFile, p) # NoProfile, PyResolve(profileFile, p) # NoProfile
      PROVE  JSResolve(profileFile, p) = PyResolve(profileFile, p)
  BY <1>1, <1>2, SameProfile
<1> QED
  BY <1>2 DEF ResolversAgree

(* Every variable keeps its type; in particular the launcher's exit codes  *)
(* are those a process can have, and every report is one the API's schema  *)
(* admits.                                                                 *)
THEOREM HpcTypeCorrect == Spec => []TypeOK
  BY SpecInv, InvType, PTL

(* For any number of sessions that share the two files, any greeting and   *)
(* any amount of text behind the announcement, a number that an intent run *)
(* reports is that of the session's only job (launcher-intent.py, line     *)
(* 307; job_output_parser.js, line 26).                                    *)
THEOREM ReportedJobIsRight == Spec => []ReportedJobIsTheSessions
<1>1. Inv => ReportedJobIsTheSessions
  BY DEF Inv
<1> QED
  BY <1>1, SpecInv, PTL

(* Whatever catalogs an operator installs and whenever, and whatever       *)
(* intent files replace one another, a job submitted by intent runs its    *)
(* session's payload from a template that payload allows (validate_intent, *)
(* resolve_profile).                                                       *)
THEOREM JobsRunApprovedPayload == Spec => []JobRunsApprovedPayload
<1>1. Inv => JobRunsApprovedPayload
  BY DEF Inv
<1> QED
  BY <1>1, SpecInv, PTL

(* The body of every report that a page builds passes the checks of both   *)
(* job-report routes.                                                      *)
THEOREM ReportsAreAccepted == Spec => []ReportsNeverRefused
<1>1. Inv => ReportsNeverRefused
  BY DEF Inv
<1> QED
  BY <1>1, SpecInv, PTL

(* Whatever catalogs are installed and whatever each side refuses of them, *)
(* where profiles sit under their payload's id the two resolvers take the  *)
(* same profile for every payload (slurm_profile.js, line 184;             *)
(* launcher-intent.py, line 204).                                          *)
THEOREM ResolversAlwaysAgree == Spec => []ResolversAgree
  BY SpecInv, InvAgree, PTL
=============================================================================
