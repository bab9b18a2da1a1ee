--------------------------- MODULE PageAdmission ---------------------------
(***************************************************************************)
(* What the extension lets a launch do.  The background worker             *)
(* (extension/js/background.js) accepts a message from a web page, and the *)
(* session page (extension/js/session.js) reads its configuration, its     *)
(* policy and the session descriptor one after the other and checks each   *)
(* against the ones before, until it opens SSH through the relay.          *)
(*                                                                         *)
(* A page works in the production context or in the local development one. *)
(* The files of the second are written and removed by a local stack        *)
(* (tools/start-real-hpc-pilot-stack.mjs, start-extension-dev-stack.mjs)   *)
(* in another process while pages read them; a killed stack leaves them    *)
(* behind.  The descriptor is whatever the API answers.                    *)
(*                                                                         *)
(* Tokens, the pending slot and the rollback check are in SessionLaunch; a *)
(* launch that they stop is one that Fails.                                *)
(***************************************************************************)
EXTENDS HpcPolicy

CONSTANTS Session,
          WebOrigins,     \* ALLOWED_WEB_ORIGINS
          SenderOrigins,  \* the origins of the web pages that send messages
          Packaged,       \* signed policies a release may be packaged with
          ProductionRoots,
          LocalStacks,    \* what local stacks are started with
          Descriptors,    \* answers of the API
          MaxTime, MaxLaunches, MaxStacks,
          None

LocalOrigin == [secure |-> FALSE, host |-> "127.0.0.1"]

(* dev_runtime.local.json, the policy and the trust roots of a stack; the  *)
(* pilot stack's configuration names no relay.                             *)
Config == [session: Session, hpc: Alias, payloadId: PayloadId, api: Origin,
           relay: Origin \cup {None}]
Stack == [config: Config, envelope: Envelope, roots: SUBSET Key, relay: Origin]

Launch == [session: Session, hpc: Alias, payloadId: PayloadId, origin: Origin]

Descriptor == [session: Session, hpc: Alias, payloadId: PayloadId, relay: Origin,
               wellFormed: BOOLEAN]     \* type, tokens and their expiry, forbidden fields

ASSUME PageAssumption ==
    /\ WebOrigins \subseteq Origin /\ \A o \in WebOrigins : o.secure
    /\ SenderOrigins \subseteq Origin
    /\ Packaged \subseteq Envelope /\ ProductionRoots \subseteq Key
    /\ LocalStacks \subseteq Stack /\ Descriptors \subseteq Descriptor
    /\ None \notin Launch
    /\ MaxTime \in Nat /\ MaxLaunches \in Nat /\ MaxStacks \in Nat

VARIABLES
    now,
    packaged,    \* config/hpc_policy.signed.example.json of the release
    files,       \* the three local files, None where a file is missing
    stack,       \* the local stack: what it was started with, and how far it is
    page,        \* the session page, NoPage when none is at work
    accepted,    \* chrome.storage.local: acceptedSignedHpcPolicy
    sent,        \* tokens this page has sent: which, where to, from which context
    runs,        \* the SSH session it has opened
    launches, stacks

vars == <<now, packaged, files, stack, page, accepted, sent, runs, launches, stacks>>

Pages == [step: {"none", "config", "load", "remember", "admit", "descriptor", "running"},
          direct: BOOLEAN,                 \* opened with ?dev=1
          pending: Launch \cup {None},
          dev: Config \cup {None},         \* devRuntimeConfig
          envelope: Envelope \cup {None}, roots: SUBSET Key \cup {None}]
NoPage == [step |-> "none", direct |-> FALSE, pending |-> None, dev |-> None,
           envelope |-> None, roots |-> None]
StackDown == [with |-> None, phase |-> "down", step |-> "end"]

TypeOK ==
    /\ now \in 0..MaxTime
    /\ packaged \in Packaged
    /\ files.config \in {s.config : s \in LocalStacks} \cup {None}
    /\ files.policy \in {s.envelope : s \in LocalStacks} \cup {None}
    /\ files.roots \in {s.roots : s \in LocalStacks} \cup {None}
    /\ stack.with \in LocalStacks \cup {None}
    /\ page.pending = None \/ page.pending \in Launch
    /\ page.dev = None \/ page.dev \in Config
    /\ page.step \in {"remember", "admit", "descriptor", "running"}
         => page.envelope \in Packaged \cup {s.envelope : s \in LocalStacks}
    /\ page.step = "descriptor" => page.pending # None
    /\ accepted \in Packaged \cup {s.envelope : s \in LocalStacks} \cup {None}

Init ==
    /\ now = 0
    /\ packaged \in Packaged
    /\ files = [config |-> None, policy |-> None, roots |-> None]
    /\ stack = StackDown
    /\ page = NoPage
    /\ accepted = None
    /\ sent = {} /\ runs = {}
    /\ launches = 0 /\ stacks = 0

Tick ==
    /\ now < MaxTime
    /\ now' = now + 1
    /\ UNCHANGED <<packaged, files, stack, page, accepted, sent, runs, launches, stacks>>

-----------------------------------------------------------------------------
(* The local stack.                                                        *)

(* startRealHpcPilotStack checks the policy it was given before it starts  *)
(* its servers; the development stack writes whatever it has signed.       *)
IsPilot(s) == s.config.relay = None
PilotChecks(s) ==
    LET p == s.envelope.payload
    IN  /\ VerifySignedPolicyEnvelope(s.envelope, s.roots)
        /\ ValidatePolicy(p, TRUE, now)
        /\ RequireKnownHpcAlias(p, s.config.hpc)
        /\ ResolveAllowedPayload(p, s.config.hpc, s.config.payloadId)
        /\ PolicyAllowsRelayUrl(p, s.relay, TRUE)
        /\ PolicyAllowsApiBaseUrl(p, s.config.api, TRUE)

StackStarts(s) ==
    /\ stack.phase = "down" /\ stacks < MaxStacks
    /\ IsPilot(s) => PilotChecks(s)
    /\ stack' = [with |-> s, phase |-> "writing", step |-> "config"]
    /\ stacks' = stacks + 1
    /\ UNCHANGED <<now, packaged, files, page, accepted, sent, runs, launches>>

(* It writes its three files in this order, and stop() removes them in it. *)
Following == [config |-> "policy", policy |-> "roots", roots |-> "end"]
Content(s) == [config |-> s.config, policy |-> s.envelope, roots |-> s.roots]

StackWrites ==
    LET f == stack.step
    IN  /\ stack.phase = "writing" /\ f # "end"
        /\ files' = [files EXCEPT ![f] = Content(stack.with)[f]]
        /\ stack' = [stack EXCEPT !.step = Following[f]]
        /\ UNCHANGED <<now, packaged, page, accepted, sent, runs, launches, stacks>>

StackRemoves ==
    /\ \/ stack.phase = "writing" /\ stack.step = "end"
       \/ stack.phase = "removing"
    /\ LET f == IF stack.phase = "writing" THEN "config" ELSE stack.step
       IN  /\ files' = [files EXCEPT ![f] = None]
           /\ stack' = IF Following[f] = "end" THEN StackDown
                       ELSE [stack EXCEPT !.phase = "removing", !.step = Following[f]]
    /\ UNCHANGED <<now, packaged, page, accepted, sent, runs, launches, stacks>>

(* The process is killed, whatever it was doing.                           *)
StackKilled ==
    /\ stack.phase # "down"
    /\ stack' = StackDown
    /\ UNCHANGED <<now, packaged, files, page, accepted, sent, runs, launches, stacks>>

-----------------------------------------------------------------------------
(* The background worker: isAllowedExternalOrigin and buildPendingLaunch.  *)
IsLocalDevOrigin(o) == ~o.secure /\ o.host = "127.0.0.1"
IsAllowedExternalOrigin(o) == o \in WebOrigins \/ IsLocalDevOrigin(o)

LaunchMessage(o) ==
    /\ page.step = "none" /\ launches < MaxLaunches
    /\ IsAllowedExternalOrigin(o)
    /\ \E s \in Session, a \in Alias, id \in PayloadId :
          page' = [NoPage EXCEPT !.step = "config",
                       !.pending = [session |-> s, hpc |-> a, payloadId |-> id, origin |-> o]]
    /\ launches' = launches + 1
    /\ sent' = {} /\ runs' = {}
    /\ UNCHANGED <<now, packaged, files, stack, accepted, stacks>>

(* A developer opens the page with ?dev=1.                                 *)
OpenDirectly ==
    /\ page.step = "none" /\ launches < MaxLaunches
    /\ page' = [NoPage EXCEPT !.step = "config", !.direct = TRUE]
    /\ launches' = launches + 1
    /\ sent' = {} /\ runs' = {}
    /\ UNCHANGED <<now, packaged, files, stack, accepted, stacks>>

-----------------------------------------------------------------------------
(* main() of the session page.                                             *)
AllowLocalDev == page.dev # None
PolicyOfPage == page.envelope.payload

(* loadDevelopmentRuntimeConfig: read for a launch from a local origin     *)
(* only; a page opened directly needs it.                                  *)
ReadConfig_AnyOrigin ==
    /\ page.step = "config"
    /\ page' = IF page.direct /\ files.config = None THEN NoPage
               ELSE [page EXCEPT !.dev = files.config, !.step = "load"]
    /\ UNCHANGED <<now, packaged, files, stack, accepted, sent, runs, launches, stacks>>
ReadConfig ==
    /\ page.step = "config"
    /\ LET config == IF page.direct \/ IsLocalDevOrigin(page.pending.origin)
                     THEN files.config ELSE None
       IN  page' = IF page.direct /\ config = None THEN NoPage
                   ELSE [page EXCEPT !.dev = config, !.step = "load"]
    /\ UNCHANGED <<now, packaged, files, stack, accepted, sent, runs, launches, stacks>>

(* loadVerifiedHpcPolicy fetches the policy and the trust roots at once.   *)
FetchPolicy ==
    /\ page.step = "load" /\ page.envelope = None
    /\ page' = IF AllowLocalDev /\ files.policy = None THEN NoPage
               ELSE [page EXCEPT !.envelope = IF AllowLocalDev THEN files.policy ELSE packaged]
    /\ UNCHANGED <<now, packaged, files, stack, accepted, sent, runs, launches, stacks>>

FetchTrustRoots ==
    /\ page.step = "load" /\ page.roots = None
    /\ page' = IF AllowLocalDev /\ files.roots = None THEN NoPage
               ELSE [page EXCEPT !.roots = IF AllowLocalDev THEN files.roots ELSE ProductionRoots]
    /\ UNCHANGED <<now, packaged, files, stack, accepted, sent, runs, launches, stacks>>

VerifyPolicy ==
    /\ page.step = "load" /\ page.envelope # None /\ page.roots # None
    /\ page' = IF /\ VerifySignedPolicyEnvelope(page.envelope, page.roots)
                  /\ ValidatePolicy(PolicyOfPage, AllowLocalDev, now)
               THEN [page EXCEPT !.step = "remember"] ELSE NoPage
    /\ UNCHANGED <<now, packaged, files, stack, accepted, sent, runs, launches, stacks>>

(* rememberProductionPolicy.                                               *)
Remember_PayloadOnly ==
    /\ page.step = "remember"
    /\ accepted' = IF AllowLocalDev THEN accepted ELSE page.envelope.payload
    /\ page' = [page EXCEPT !.step = "admit"]
    /\ UNCHANGED <<now, packaged, files, stack, sent, runs, launches, stacks>>
Remember_Always ==
    /\ page.step = "remember"
    /\ accepted' = page.envelope
    /\ page' = [page EXCEPT !.step = "admit"]
    /\ UNCHANGED <<now, packaged, files, stack, sent, runs, launches, stacks>>
Remember ==
    /\ page.step = "remember"
    /\ accepted' = IF AllowLocalDev THEN accepted ELSE page.envelope
    /\ page' = [page EXCEPT !.step = "admit"]
    /\ UNCHANGED <<now, packaged, files, stack, sent, runs, launches, stacks>>

Token(kind, to) == [kind |-> kind, to |-> to, local |-> AllowLocalDev,
                    legacy |-> PolicyOfPage.legacy]
Run(session, alias, id, relay) ==
    [session |-> session, hpc |-> alias, payloadId |-> id, relay |-> relay,
     envelope |-> page.envelope, roots |-> page.roots, pending |-> page.pending,
     local |-> AllowLocalDev]

(* apiBaseUrlFromPolicy, unless the configuration has one.                 *)
ApiBaseUrl == IF AllowLocalDev THEN page.dev.api ELSE PolicyOfPage.apis[1]

(* The checks between the policy and the descriptor request, which carries *)
(* the launch token.                                                       *)
AdmitLaunch ==
    LET p == PolicyOfPage
    IN  /\ page.step = "admit" /\ ~page.direct
        /\ IF /\ AllowLocalDev \/ p.apis # <<>>
              /\ RequireKnownHpcAlias(p, page.pending.hpc)
              /\ ResolveAllowedPayload(p, page.pending.hpc, page.pending.payloadId)
              /\ PolicyAllowsApiBaseUrl(p, ApiBaseUrl, AllowLocalDev)
              /\ FetchAllows(ApiBaseUrl)
           THEN /\ page' = [page EXCEPT !.step = "descriptor"]
                /\ sent' = sent \cup {Token("launch", ApiBaseUrl)}
           ELSE page' = NoPage /\ UNCHANGED sent
        /\ UNCHANGED <<now, packaged, files, stack, accepted, runs, launches, stacks>>

(* validateSessionDescriptor.                                              *)
ValidateSessionDescriptor_Unbound(d, pending, p, allowLocalDev) ==
    /\ d.wellFormed
    /\ d.hpc = pending.hpc
    /\ p.hosts[pending.hpc].keyAlias = d.hpc
    /\ ValidateRelayUrl(d.relay, allowLocalDev)
    /\ PolicyAllowsRelayUrl(p, d.relay, allowLocalDev)
ValidateSessionDescriptor(d, pending, p, allowLocalDev) ==
    /\ d.wellFormed
    /\ d.session = pending.session /\ d.hpc = pending.hpc /\ d.payloadId = pending.payloadId
    /\ ResolveAllowedPayload(p, d.hpc, d.payloadId)
    /\ p.hosts[pending.hpc].keyAlias = d.hpc
    /\ ValidateRelayUrl(d.relay, allowLocalDev)
    /\ PolicyAllowsRelayUrl(p, d.relay, allowLocalDev)

(* The descriptor arrives: SlaifRelay and startBrowserSshSession follow.   *)
DescriptorArrives(d) ==
    /\ page.step = "descriptor"
    /\ IF /\ ValidateSessionDescriptor(d, page.pending, PolicyOfPage, AllowLocalDev)
          /\ RequireLaunchableKnownHosts(PolicyOfPage.hosts[page.pending.hpc])
       THEN /\ page' = [page EXCEPT !.step = "running"]
            /\ sent' = sent \cup {Token("relay", d.relay)}
            /\ runs' = runs \cup {Run(d.session, d.hpc, d.payloadId, d.relay)}
       ELSE page' = NoPage /\ UNCHANGED <<sent, runs>>
    /\ UNCHANGED <<now, packaged, files, stack, accepted, launches, stacks>>

(* startDevelopmentSession after its policy: the run is the configured one.*)
StartDirectly ==
    LET p == PolicyOfPage
        c == page.dev
    IN  /\ page.step = "admit" /\ page.direct
        /\ IF /\ RequireKnownHpcAlias(p, c.hpc)
              /\ ResolveAllowedPayload(p, c.hpc, c.payloadId)
              /\ PolicyAllowsApiBaseUrl(p, c.api, TRUE)
              /\ c.relay # None /\ PolicyAllowsRelayUrl(p, c.relay, TRUE)
              /\ RequireLaunchableKnownHosts(p.hosts[c.hpc])
           THEN /\ page' = [page EXCEPT !.step = "running"]
                /\ sent' = sent \cup {Token("relay", c.relay)}
                /\ runs' = runs \cup {Run(c.session, c.hpc, c.payloadId, c.relay)}
           ELSE page' = NoPage /\ UNCHANGED <<sent, runs>>
        /\ UNCHANGED <<now, packaged, files, stack, accepted, launches, stacks>>

(* The run ends.  A launch reports: buildJobReportEndpoint checks the API  *)
(* again, and the report token goes with the request.                      *)
Report ==
    /\ page.step = "running"
    /\ page' = NoPage
    /\ sent' = IF ~page.direct /\ PolicyAllowsApiBaseUrl(PolicyOfPage, ApiBaseUrl, AllowLocalDev)
               THEN sent \cup {Token("jobReport", ApiBaseUrl)} ELSE sent
    /\ UNCHANGED <<now, packaged, files, stack, accepted, runs, launches, stacks>>

(* A fetch, the storage, the rollback check or the run fails, or the user  *)
(* closes the window.                                                      *)
Fails ==
    /\ page.step # "none"
    /\ page' = NoPage
    /\ sent' = {} /\ runs' = {}
    /\ UNCHANGED <<now, packaged, files, stack, accepted, launches, stacks>>

(* A new release: the pages are gone, the build's local files stay.        *)
UpdateExtension ==
    /\ packaged' \in Packaged
    /\ page' = NoPage
    /\ sent' = {} /\ runs' = {}
    /\ UNCHANGED <<now, files, stack, accepted, launches, stacks>>

Next ==
    \/ Tick \/ StackWrites \/ StackRemoves \/ StackKilled \/ OpenDirectly
    \/ \E s \in LocalStacks : StackStarts(s)
    \/ \E o \in SenderOrigins : LaunchMessage(o)
    \/ ReadConfig \/ FetchPolicy \/ FetchTrustRoots \/ VerifyPolicy \/ Remember \/ AdmitLaunch
    \/ \E d \in Descriptors : DescriptorArrives(d)
    \/ StartDirectly \/ Report \/ Fails \/ UpdateExtension

Spec == Init /\ [][Next]_vars

(* A page that has both responses goes on, as a resolved promise resumes   *)
(* main().  Nothing is assumed of fetches, stacks and users.               *)
FairSpec == Spec /\ WF_vars(VerifyPolicy) /\ WF_vars(Remember)

-----------------------------------------------------------------------------
(* A token leaves the page over an unencrypted connection only to this     *)
(* machine and only in the development context: to 127.0.0.1, or, under a  *)
(* legacy policy, to the name localhost (slaif_policy.js, lines 164 and    *)
(* 401).  A production page sends it to secure origins even if its policy  *)
(* calls itself a development policy and lists local origins, which        *)
(* validatePolicy lets pass, and whatever files a local stack has left     *)
(* (lines 150, 394 and 417).                                               *)
PlaintextIsLocal ==
    \A m \in sent :
        \/ m.to.secure
        \/ m.local /\ (m.to.host = "127.0.0.1" \/ (m.legacy /\ m.to.host = "localhost"))

(* Every SSH session is one that somebody authorised: the policy is signed *)
(* by a root of the page's own context; the context is local only after a  *)
(* launch from a local origin or a page opened by hand; session, host and  *)
(* payload are those of the launch message, whatever the descriptor says;  *)
(* and the policy lists the payload for the host, the relay, and host keys *)
(* to check the host against (session.js, lines 334-353).  What the docs   *)
(* ask beyond that is FixedCommandIsLocal and ExpiredPolicyRejected.       *)
RunIsAuthorised ==
    \A r \in runs :
        LET p == r.envelope.payload
        IN  /\ r.envelope.signer \in r.roots
            /\ IF r.local THEN r.pending = None \/ r.pending.origin = LocalOrigin
               ELSE r.roots = ProductionRoots /\ r.envelope \in Packaged
            /\ r.pending # None
                 => /\ r.session = r.pending.session /\ r.hpc = r.pending.hpc
                    /\ r.payloadId = r.pending.payloadId
                    /\ r.pending.origin \in WebOrigins \cup {LocalOrigin}
            /\ r.payloadId \in p.hosts[r.hpc].payloads
            /\ r.relay \in p.relays
            /\ p.hosts[r.hpc].knownHosts = "keys" /\ p.hosts[r.hpc].keyAlias = r.hpc

(* The rollback protection's memory is that of production: nothing that a  *)
(* local stack signed ever gets into acceptedSignedHpcPolicy, also when a  *)
(* page reads the files of two stacks (session.js, line 158).              *)
AcceptedIsProduction == accepted # None => accepted.signer \in ProductionRoots

-----------------------------------------------------------------------------
(* What docs/HPC_POLICY.md says of production, and the code does not keep. *)

(* Line 161: "Pilot fixed-command mode is local/manual only".              *)
FixedCommandIsLocal ==
    \A r \in runs : r.envelope.payload.hosts[r.hpc].command = "fixed" => r.local

(* Line 103: production builds reject expired and not-yet-valid policy.  A *)
(* policy that a production page has validated was in force at some time   *)
(* up to now.                                                              *)
InForce(p, t) == p.validFrom <= t /\ t < p.validUntil
ExpiredPolicyRejected ==
    page.step = "remember" /\ ~AllowLocalDev => \E t \in 0..now : InForce(PolicyOfPage, t)

(* In every behaviour at least one of the two is kept.  Violated, by a     *)
(* behaviour that breaks both.  validatePolicy takes the word of a policy  *)
(* that calls itself a development policy (slaif_policy.js, line 150), so  *)
(* a production page runs the fixed command of a packaged pilot policy;    *)
(* and its branch for payloads of another type (lines 153-171) looks at no *)
(* date, so a production page takes a policy whose validity is over.       *)
FixedOrExpiredRefused == []FixedCommandIsLocal \/ []ExpiredPolicyRejected
=============================================================================
