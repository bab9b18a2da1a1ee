---------------------------- MODULE SessionLaunch ----------------------------
(***************************************************************************)
(* A session from the launch message to the job report: the extension's    *)
(* background worker (extension/js/background.js), its session pages       *)
(* (extension/js/session.js and what it calls) and the session API of the  *)
(* reference stack (tools/start-extension-dev-stack.mjs), which serves one *)
(* session per process and shares its token registry with the relay.       *)
(*                                                                         *)
(* Pages run concurrently and share chrome.storage: the pending launch and *)
(* the accepted policy.  Every await of main() ends a step.  A page takes  *)
(* the production path (no dev_runtime.local.json).  Aliases, payloads and *)
(* URLs are those of the session throughout, so the checks that compare    *)
(* them are left out; SSH itself is a run that ends with some exit code.   *)
(***************************************************************************)
EXTENDS TokenRegistry

CONSTANTS Window,       \* launches in progress, each with the window it opens
          Session,
          Policy,       \* policies some release of the extension is packaged with
          PayloadId,
          TokenTtl,     \* tokenTtlMs
          None,
          MaxReloads,   \* bound: reloads of session pages
          MaxUpdates    \* bound: updates of the extension and browser restarts

Granted == {"slaif.launch", "slaif.relay", "slaif.jobReport"}

ASSUME SessionAssumption ==
    /\ Token = Granted \X Session
    /\ Granted \subseteq Scopes
    /\ Session \cup {PayloadId} \subseteq Values
    /\ IdKeys = {"sessionId"} /\ MetaKeys = {"payloadId"}
    /\ TokenTtl \in Nat \ {0}
    /\ None \notin Session \cup Policy \cup [launch: Window, session: Session]
    /\ \A p \in Policy : p.sequence \in Nat \ {0}     \* validateSignedPolicyPayload
    /\ \A p, q \in Policy : p.fingerprint = q.fingerprint => p = q  \* SHA-256 of its content
    /\ MaxReloads \in Nat /\ MaxUpdates \in Nat

VARIABLES
    slot,        \* chrome.storage.session: pendingSlaifSession
    accepted,    \* chrome.storage.local: acceptedSignedHpcPolicy
    packaged,    \* the policy file of the installed release
    page,        \* page[w]: the launch w and the session page opened for it
    api,         \* api[s]: is the process that serves session s up?
    uploads,     \* report requests that were authorised and whose body is being read
    jobReports,  \* jobReports[s]: number of reports the API keeps for s
    reloads, updates,
    \* history, read by the properties only
    descriptors, \* descriptors[s]: session descriptors handed out
    runs,        \* runs[s]: SSH connections the relay opened
    highest      \* highest[i]: highest sequence ever accepted for policyId i

storageVars == <<slot, accepted, packaged, updates, highest>>
extensionVars == <<storageVars, page, reloads>>
apiVars == <<api, uploads, jobReports, descriptors, runs>>
vars == <<registryVars, extensionVars, apiVars>>

PolicyIds == {p.policyId : p \in Policy}
Pending == [launch: Window, session: Session]

Final == {"failed", "completed"}
PastPolicy == {"fetching", "descriptor", "ssh", "running", "exited", "posting", "reading",
               "answer"}
Step == {"none", "setting", "opening", "policy", "checking", "storing"}
          \cup PastPolicy \cup Final

NoPage == [step |-> "none", launch |-> None, pending |-> None, policy |-> None]

TypeOK ==
    /\ RegistryTypeOK
    /\ slot \in Pending \cup {None}
    /\ accepted \in Policy \cup {None}
    /\ packaged \in Policy
    /\ page \in [Window -> [step: Step, launch: Session \cup {None},
                            pending: Pending \cup {None}, policy: Policy \cup {None}]]
    /\ api \in [Session -> {"up", "crashed"}]
    /\ uploads \subseteq [window: Window, session: Session]
    /\ jobReports \in [Session -> Nat]
    /\ reloads \in 0..MaxReloads /\ updates \in 0..MaxUpdates
    /\ descriptors \in [Session -> Nat]
    /\ runs \in [Session -> Nat]
    /\ highest \in [PolicyIds -> Nat]

(* The stack issues the three tokens of a session before it serves it.     *)
IssuedToken(t) ==
    NewRecord(t[1], [k \in IdKeys |-> t[2]],
              [k \in MetaKeys |-> IF t[1] = "slaif.relay" THEN Undefined ELSE PayloadId],
              TokenTtl, 1)

Init ==
    /\ records = [t \in Token |-> IssuedToken(t)]
    /\ now = 0
    /\ granted = [t \in Token |-> 1]
    /\ spent = [t \in Token |-> 0]
    /\ issues = [t \in Token |-> 1]
    /\ slot = None /\ accepted = None
    /\ packaged \in Policy
    /\ page = [w \in Window |-> NoPage]
    /\ api = [s \in Session |-> "up"]
    /\ uploads = {}
    /\ jobReports = [s \in Session |-> 0]
    /\ reloads = 0 /\ updates = 0
    /\ descriptors = [s \in Session |-> 0]
    /\ runs = [s \in Session |-> 0]
    /\ highest = [i \in PolicyIds |-> 0]

(* What the API and the relay expect of a token presented for session s.   *)
ApiExpects(scope, s) == [scope |-> scope, ids |-> [k \in IdKeys |-> s],
                         metadata |-> [k \in MetaKeys |-> PayloadId]]
RelayExpects == [scope |-> "slaif.relay", ids |-> [k \in IdKeys |-> Undefined],
                 metadata |-> [k \in MetaKeys |-> Undefined]]

SessionOf(w) == page[w].pending.session
Expired(t) == records[t].expiresAt <= now

Goto(w, step) == page' = [page EXCEPT ![w].step = step]

-----------------------------------------------------------------------------
(* The background worker.                                                  *)

(* handleExternalMessage: a message that names session s, from an allowed  *)
(* origin; any other is answered with an error and changes nothing.        *)
LaunchMessage(w, s) ==
    /\ page[w].step = "none"
    /\ page' = [page EXCEPT ![w] = [NoPage EXCEPT !.step = "setting", !.launch = s]]
    /\ UNCHANGED <<registryVars, apiVars, storageVars, reloads>>

(* chrome.storage.session.set, whose callback creates the window.          *)
StorePending(w) ==
    /\ page[w].step = "setting"
    /\ slot' = [launch |-> w, session |-> page[w].launch]
    /\ Goto(w, "opening")
    /\ UNCHANGED <<registryVars, apiVars, accepted, packaged, reloads, updates, highest>>

-----------------------------------------------------------------------------
(* main() of the session page.                                             *)

(* getPendingSession: the record stays in the slot.                        *)
ReadPending(w) ==
    /\ page[w].step = "opening"
    /\ slot # None
    /\ page' = [page EXCEPT ![w].step = "policy", ![w].pending = slot]
    /\ UNCHANGED <<registryVars, apiVars, storageVars, reloads>>

(* loadVerifiedHpcPolicy: the packaged policy, its signature and validity  *)
(* checked (a page whose policy does not pass is one that Fails).          *)
LoadPolicy(w) ==
    /\ page[w].step = "policy"
    /\ page' = [page EXCEPT ![w].step = "checking", ![w].policy = packaged]
    /\ UNCHANGED <<registryVars, apiVars, storageVars, reloads>>

(* evaluatePolicyRollback does not throw.                                  *)
NoRollback_SequenceOnly(p, previous) ==
    \/ previous = None
    \/ previous.policyId # p.policyId
    \/ previous.sequence <= p.sequence
NoRollback(p, previous) ==
    \/ previous = None
    \/ previous.policyId # p.policyId
    \/ previous.sequence < p.sequence
    \/ previous.sequence = p.sequence /\ previous.fingerprint = p.fingerprint

(* rememberProductionPolicy up to the await of the write.                  *)
CheckPolicy(w) ==
    /\ page[w].step = "checking"
    /\ Goto(w, IF NoRollback(page[w].policy, accepted) THEN "storing" ELSE "failed")
    /\ UNCHANGED <<registryVars, apiVars, storageVars, reloads>>

(* The write, then the synchronous checks of the launch against the policy *)
(* and the descriptor request.                                             *)
StorePolicy_NoFingerprint(w) ==
    /\ page[w].step = "storing"
    /\ accepted' = [policyId |-> page[w].policy.policyId, sequence |-> page[w].policy.sequence]
    /\ Goto(w, "fetching")
    /\ UNCHANGED <<registryVars, apiVars, slot, packaged, reloads, updates, highest>>
StorePolicy_NotStored(w) ==
    /\ page[w].step = "storing"
    /\ Goto(w, "fetching")
    /\ UNCHANGED <<registryVars, apiVars, storageVars, reloads>>
StorePolicy(w) ==
    /\ page[w].step = "storing"
    /\ accepted' = page[w].policy
    /\ LET i == page[w].policy.policyId
       IN  highest' = [highest EXCEPT ![i] = IF @ < page[w].policy.sequence
                                             THEN page[w].policy.sequence ELSE @]
    /\ Goto(w, "fetching")
    /\ UNCHANGED <<registryVars, apiVars, slot, packaged, reloads, updates>>

(* validateSessionDescriptor, then SlaifRelay and startBrowserSshSession.  *)
DescriptorArrives(w) ==
    /\ page[w].step = "descriptor"
    /\ Goto(w, IF \/ Expired(<<"slaif.relay", SessionOf(w)>>)
                  \/ Expired(<<"slaif.jobReport", SessionOf(w)>>)
               THEN "failed" ELSE "ssh")
    /\ UNCHANGED <<registryVars, apiVars, storageVars, reloads>>

(* The SSH program exits: startBrowserSshSession sets the status of the    *)
(* page, "completed" for exit code 0, and returns; startSshOverRelay goes  *)
(* on only with exit code 0.                                               *)
SshExits(w, exitCode) ==
    /\ page[w].step = "running"
    /\ Goto(w, IF exitCode # 0 THEN "failed" ELSE "exited")
    /\ UNCHANGED <<registryVars, apiVars, storageVars, reloads>>

(* The state setStatusState shows (data-slaif-status); the states of work  *)
(* in progress are not told apart.                                         *)
Status(w) == CASE page[w].step \in {"exited", "completed"} -> "completed"
               [] page[w].step = "failed" -> "failed"
               [] OTHER -> "working"

(* reportSchedulerJob: the status is one of work in progress again, and    *)
(* postJobReport looks at the expiry of its token once more.               *)
ReportSchedulerJob_NotAwaited(w) ==
    /\ page[w].step = "exited"
    /\ Goto(w, IF Expired(<<"slaif.jobReport", SessionOf(w)>>) THEN "failed" ELSE "completed")
    /\ UNCHANGED <<registryVars, apiVars, storageVars, reloads>>
ReportSchedulerJob(w) ==
    /\ page[w].step = "exited"
    /\ Goto(w, IF Expired(<<"slaif.jobReport", SessionOf(w)>>) THEN "failed" ELSE "posting")
    /\ UNCHANGED <<registryVars, apiVars, storageVars, reloads>>

(* postJobReport has its answer 200.                                       *)
ReportAnswered(w) ==
    /\ page[w].step = "answer"
    /\ Goto(w, "completed")
    /\ UNCHANGED <<registryVars, apiVars, storageVars, reloads>>

(* A storage call, a fetch, the relay or the SSH program fails, or a check *)
(* throws: main() ends in its catch.                                       *)
Fails(w) ==
    /\ page[w].step \notin Final \cup {"none", "setting"}
    /\ Goto(w, "failed")
    /\ UNCHANGED <<registryVars, apiVars, storageVars, reloads>>

(* The worker could not store the launch or open the window and answered   *)
(* with an error, or the user closes the window.                           *)
Close(w) ==
    /\ page[w].step # "none"
    /\ page' = [page EXCEPT ![w] = NoPage]
    /\ UNCHANGED <<registryVars, apiVars, storageVars, reloads>>

(* The user reloads the session page: main() starts over.                  *)
Reload(w) ==
    /\ reloads < MaxReloads
    /\ page[w].step \notin {"none", "setting", "opening"}
    /\ page' = [page EXCEPT ![w] = [NoPage EXCEPT !.step = "opening", !.launch = page[w].launch]]
    /\ reloads' = reloads + 1
    /\ UNCHANGED <<registryVars, apiVars, storageVars>>

(* A new release is installed, or the browser restarts (p = packaged):     *)
(* every extension page is gone and the session storage is empty.          *)
UpdateExtension(p) ==
    /\ updates < MaxUpdates
    /\ packaged' = p
    /\ slot' = None
    /\ page' = [w \in Window |-> NoPage]
    /\ updates' = updates + 1
    /\ UNCHANGED <<registryVars, apiVars, accepted, reloads, highest>>

-----------------------------------------------------------------------------
(* The session API and the relay of the reference stack.                   *)

(* GET /api/connect/session/<id>: the launch token is consumed, or 401.    *)
ApiDescriptor_NotConsumed(w) ==
    LET s == SessionOf(w) t == <<"slaif.launch", s>>
    IN  /\ page[w].step = "fetching" /\ api[s] = "up"
        /\ Admits(t, ApiExpects("slaif.launch", s))
        /\ descriptors' = [descriptors EXCEPT ![s] = @ + 1]
        /\ Goto(w, "descriptor")
        /\ UNCHANGED <<registryVars, api, uploads, jobReports, runs,
                       storageVars, reloads>>
ApiDescriptor(w) ==
    LET s == SessionOf(w) t == <<"slaif.launch", s>>
    IN  /\ page[w].step = "fetching" /\ api[s] = "up"
        /\ ConsumeToken(t, ApiExpects("slaif.launch", s))
        /\ descriptors' = [descriptors EXCEPT ![s] = @ + 1]
        /\ Goto(w, "descriptor")
        /\ UNCHANGED <<api, uploads, jobReports, runs,
                       storageVars, reloads>>

(* The relay accepts the relay token and connects to the SSH server.       *)
RelayConnect(w) ==
    LET s == SessionOf(w)
    IN  /\ page[w].step = "ssh" /\ api[s] = "up"
        /\ ConsumeToken(<<"slaif.relay", s>>, RelayExpects)
        /\ runs' = [runs EXCEPT ![s] = @ + 1]
        /\ Goto(w, "running")
        /\ UNCHANGED <<api, uploads, jobReports, descriptors,
                       storageVars, reloads>>

(* The relay consumes the token and then fails to reach the SSH server.    *)
RelayConnectFails(w) ==
    /\ page[w].step = "ssh" /\ api[SessionOf(w)] = "up"
    /\ ConsumeToken(<<"slaif.relay", SessionOf(w)>>, RelayExpects)
    /\ Goto(w, "failed")
    /\ UNCHANGED <<apiVars, storageVars, reloads>>

(* POST .../job-report: the token is validated when the request arrives.   *)
ApiReport(w) ==
    LET s == SessionOf(w)
    IN  /\ page[w].step = "posting" /\ api[s] = "up"
        /\ Admits(<<"slaif.jobReport", s>>, ApiExpects("slaif.jobReport", s))
        /\ uploads' = uploads \cup {[window |-> w, session |-> s]}
        /\ Goto(w, "reading")
        /\ UNCHANGED <<registryVars, api, jobReports, descriptors, runs,
                       storageVars, reloads>>

(* 401 to any of the two requests, or the relay's rejection.               *)
ApiRejects(w) ==
    LET s == SessionOf(w)
    IN  /\ \/ /\ page[w].step = "fetching"
              /\ ~Admits(<<"slaif.launch", s>>, ApiExpects("slaif.launch", s))
           \/ /\ page[w].step = "ssh"
              /\ ~Admits(<<"slaif.relay", s>>, RelayExpects)
           \/ /\ page[w].step = "posting"
              /\ ~Admits(<<"slaif.jobReport", s>>, ApiExpects("slaif.jobReport", s))
        /\ api[s] = "up"
        /\ Goto(w, "failed")
        /\ UNCHANGED <<registryVars, apiVars, storageVars, reloads>>

Waits(u) == page[u.window].step = "reading" /\ page[u.window].pending.session = u.session

(* The 'end' handler: the whole body is there, whether or not the page is. *)
UploadEnds(u) ==
    LET s == u.session
    IN  /\ u \in uploads
        /\ ConsumeToken(<<"slaif.jobReport", s>>, ApiExpects("slaif.jobReport", s))
        /\ jobReports' = [jobReports EXCEPT ![s] = @ + 1]
        /\ uploads' = uploads \ {u}
        /\ page' = [page EXCEPT ![u.window].step = IF Waits(u) THEN "answer" ELSE @]
        /\ UNCHANGED <<api, descriptors, runs, storageVars, reloads>>

(* consumeToken throws in that handler, outside its try: the exception is  *)
(* uncaught and ends the process.                                          *)
UploadThrows(u) ==
    LET s == u.session
    IN  /\ u \in uploads
        /\ ~Admits(<<"slaif.jobReport", s>>, ApiExpects("slaif.jobReport", s))
        /\ api' = [api EXCEPT ![s] = "crashed"]
        /\ uploads' = {v \in uploads : v.session # s}
        /\ page' = [page EXCEPT ![u.window].step = IF Waits(u) THEN "failed" ELSE @]
        /\ UNCHANGED <<registryVars, jobReports, descriptors, runs,
                       storageVars, reloads>>

(* The page went away before the body was complete.                        *)
UploadAborted(u) ==
    /\ u \in uploads /\ ~Waits(u)
    /\ uploads' = uploads \ {u}
    /\ UNCHANGED <<registryVars, extensionVars, api, jobReports, descriptors, runs>>

-----------------------------------------------------------------------------
Next ==
    \/ \E w \in Window, s \in Session : LaunchMessage(w, s)
    \/ \E w \in Window :
         \/ StorePending(w) \/ ReadPending(w)
         \/ LoadPolicy(w) \/ CheckPolicy(w) \/ StorePolicy(w)
         \/ ApiDescriptor(w) \/ DescriptorArrives(w)
         \/ RelayConnect(w) \/ RelayConnectFails(w)
         \/ (\E exitCode \in {0, 1} : SshExits(w, exitCode))
         \/ ReportSchedulerJob(w) \/ ApiReport(w) \/ ReportAnswered(w)
         \/ ApiRejects(w) \/ Fails(w) \/ Close(w) \/ Reload(w)
    \/ \E u \in uploads : UploadEnds(u) \/ UploadThrows(u) \/ UploadAborted(u)
    \/ \E p \in Policy : UpdateExtension(p)
    \/ Tick /\ UNCHANGED <<extensionVars, apiVars>>

Spec == Init /\ [][Next]_vars

-----------------------------------------------------------------------------
(* A session is run and reported at most once, and only as far as its      *)
(* launch went, however often it is launched, reloaded or retried: each    *)
(* report follows an SSH connection, which follows the one descriptor.     *)
LaunchChain ==
    \A s \in Session : /\ jobReports[s] <= runs[s]
                       /\ runs[s] <= descriptors[s]
                       /\ descriptors[s] <= 1

(* A page whose main() has ended with the status "completed" has its job   *)
(* report recorded by the API, whatever reloads, aborted or late uploads   *)
(* and expiries lie in between (session.js waits for postJobReport).       *)
SettledIsReported ==
    \A w \in Window : page[w].step = "completed" => jobReports[SessionOf(w)] = 1

(* Every page that went past rememberProductionPolicy works with the       *)
(* policy on record, so the next rollback check is against it.             *)
PolicyOfRecord ==
    \A w \in Window : page[w].step \in PastPolicy => page[w].policy = accepted

(* The policy on record is never replaced by one with the same policyId    *)
(* and a lower sequence, or the same sequence and another content,         *)
(* although the check and the write are two steps of concurrent pages.     *)
AcceptedMonotone ==
    [][accepted # None /\ accepted' # accepted /\ accepted'.policyId = accepted.policyId
         => accepted'.sequence > accepted.sequence]_accepted

(* A policy with a lower sequence than one accepted before is rejected     *)
(* (docs/HOST_KEY_ROTATION.md).  Violated: the record of one policyId is   *)
(* lost when a policy with another is accepted.                            *)
RollbackRejected ==
    [][accepted' # accepted => accepted'.sequence >= highest[accepted'.policyId]]_accepted

-----------------------------------------------------------------------------
(* What documents and tests say of a launch, and the code does not keep.   *)

(* docs/SESSION_LAUNCH_PROTOCOL.md, lines 12-14: a window runs the launch  *)
(* it was opened for.                                                      *)
OwnLaunch ==
    \A w \in Window : page[w].step \in {"running", "exited"} => page[w].pending.launch = w

(* docs/SESSION_LAUNCH_PROTOCOL.md, line 161: an expired job report token  *)
(* is rejected, and the API stays up.                                      *)
ExpiryIsRejected == \A s \in Session : api[s] = "up"

(* Once the page says "completed", its job report is there: tests/browser/ *)
(* extension-observability.spec.mjs waits for the status at lines 28-30    *)
(* and expects one report at line 31.                                      *)
CompletedIsReported ==
    \A w \in Window : Status(w) = "completed" => jobReports[SessionOf(w)] = 1

(* In every state at least one of the three is kept.  Violated, by a state *)
(* that breaks all of them: the slot held a later launch by the time the   *)
(* page of the first read it; a token that expired while the body was      *)
(* being read took a stack down; and a page says "completed" as soon as    *)
(* its SSH program exits, with the report still to be sent.                *)
SomePromiseKept == OwnLaunch \/ ExpiryIsRejected \/ CompletedIsReported
=============================================================================
