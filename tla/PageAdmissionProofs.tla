----------------------- MODULE PageAdmissionProofs -----------------------
(***************************************************************************)
(* The properties of PageAdmission for every value of its constants: every *)
(* packaged policy, every local stack and every descriptor.                *)
(*                                                                         *)
(* The invariant says what a page knows at each step of main(): who sent   *)
(* the launch and which context that puts it in, where in that context its *)
(* policy and its trust roots were read, and from VerifyPolicy on that the *)
(* policy was signed by one of these roots and was valid at some moment.   *)
(* Not now: the policy may expire while the page works with it.            *)
(***************************************************************************)
EXTENDS PageAdmission, TLAPS

Configs == {s.config : s \in LocalStacks}
Envelopes == {s.envelope : s \in LocalStacks}
RootSets == {s.roots : s \in LocalStacks}

FilesOK ==
    files \in [config: Configs \cup {None}, policy: Envelopes \cup {None},
               roots: RootSets \cup {None}]

StackOK ==
    /\ stack \in [with: LocalStacks \cup {None}, phase: {"down", "writing", "removing"},
                  step: {"config", "policy", "roots", "end"}]
    /\ stack.phase # "down" => stack.with \in LocalStacks
    /\ stack.phase = "removing" => stack.step # "end"

PageOK ==
    page \in [step: {"none", "config", "load", "remember", "admit", "descriptor", "running"},
              direct: BOOLEAN, pending: Launch \cup {None}, dev: Configs \cup {None},
              envelope: Packaged \cup Envelopes \cup {None},
              roots: RootSets \cup {ProductionRoots, None}]

(* Who opened the page, and the context it works in.                       *)
ContextOK ==
    /\ page.step \in {"none", "config"}
         => page.dev = None /\ page.envelope = None /\ page.roots = None
    /\ page.step # "none" /\ ~page.direct
         => /\ page.pending \in Launch
            /\ page.pending.origin \in WebOrigins \cup {LocalOrigin}
            /\ page.dev # None => page.pending.origin = LocalOrigin
    /\ page.step # "none" /\ page.direct
         => /\ page.pending = None
            /\ page.step # "config" => page.dev # None
            /\ page.step # "descriptor"

(* A page of the production context reads nothing that a local stack wrote.*)
FetchedOK ==
    page.dev = None => page.envelope \in Packaged \cup {None}
                       /\ page.roots \in {ProductionRoots, None}

(* The policy was verified in the page's context.                          *)
VerifiedOK ==
    page.step \in {"remember", "admit", "descriptor", "running"}
      => /\ page.envelope # None /\ page.roots # None
         /\ VerifySignedPolicyEnvelope(page.envelope, page.roots)
         /\ \E t \in Nat : ValidatePolicy(page.envelope.payload, AllowLocalDev, t)

AcceptedOK == accepted \in Packaged \cup Envelopes \cup {None}

PageInv == PageOK /\ ContextOK /\ FetchedOK /\ VerifiedOK
Inv ==
    /\ now \in 0..MaxTime /\ packaged \in Packaged
    /\ FilesOK /\ StackOK /\ PageInv
    /\ AcceptedOK /\ AcceptedIsProduction
    /\ PlaintextIsLocal /\ RunIsAuthorised

-----------------------------------------------------------------------------
(* What a policy that validatePolicy let pass says of its hosts and, when  *)
(* it is a legacy one, of its relay.                                       *)
LEMMA ValidPolicy ==
    ASSUME NEW p, NEW allow \in BOOLEAN, NEW t, ValidatePolicy(p, allow, t)
    PROVE  /\ \A a \in DOMAIN p.hosts : p.hosts[a].keyAlias = a
           /\ p.legacy => \A o \in p.relays : o.secure \/ o.host \in LocalHosts
  BY DEF ValidatePolicy, ValidateSignedPolicyPayload, ValidatePolicyHost

(* A page that closed leaves nothing to be said.                           *)
LEMMA Closed == page' = NoPage => PageInv'
  BY DEF NoPage, PageInv, PageOK, ContextOK, FetchedOK, VerifiedOK

LEMMA InitInv == Init => Inv
<1> SUFFICES ASSUME Init PROVE Inv
  OBVIOUS
<1>1. now \in 0..MaxTime /\ packaged \in Packaged
  BY PageAssumption DEF Init
<1>2. FilesOK /\ StackOK
  BY DEF Init, FilesOK, StackOK, StackDown
<1>3. PageInv
  BY DEF Init, NoPage, PageInv, PageOK, ContextOK, FetchedOK, VerifiedOK
<1>4. AcceptedOK /\ AcceptedIsProduction /\ PlaintextIsLocal /\ RunIsAuthorised
  BY DEF Init, AcceptedOK, AcceptedIsProduction, PlaintextIsLocal, RunIsAuthorised
<1> QED
  BY <1>1, <1>2, <1>3, <1>4 DEF Inv

(* The invariant speaks of the variables only.                             *)
LEMMA PageKept == UNCHANGED page /\ PageInv => PageInv'
  BY DEF PageInv, PageOK, ContextOK, FetchedOK, VerifiedOK, AllowLocalDev

LEMMA RestKept ==
    /\ UNCHANGED <<now, packaged>> /\ Inv => now' \in 0..MaxTime /\ packaged' \in Packaged
    /\ UNCHANGED files /\ Inv => FilesOK'
    /\ UNCHANGED stack /\ Inv => StackOK'
    /\ UNCHANGED accepted /\ Inv => AcceptedOK' /\ AcceptedIsProduction'
    /\ UNCHANGED sent /\ Inv => PlaintextIsLocal'
    /\ UNCHANGED runs /\ Inv => RunIsAuthorised'
    /\ sent' = {} => PlaintextIsLocal'
    /\ runs' = {} => RunIsAuthorised'
  BY DEF Inv, FilesOK, StackOK, AcceptedOK, AcceptedIsProduction, PlaintextIsLocal,
         RunIsAuthorised

-----------------------------------------------------------------------------
(* The local stack touches only its files.                                 *)
LEMMA StackStartsInv ==
    ASSUME Inv, NEW s \in LocalStacks, StackStarts(s) PROVE Inv'
<1>1. StackOK'
  BY DEF StackStarts, StackOK
<1>2. UNCHANGED <<now, packaged, files, page, accepted, sent, runs>>
  BY DEF StackStarts
<1> QED
  BY <1>1, <1>2, PageKept, RestKept DEF Inv

LEMMA StackWritesInv ==
    ASSUME Inv, StackWrites PROVE Inv'
<1> DEFINE s == stack.with
           f == stack.step
<1>1. s \in LocalStacks /\ f \in {"config", "policy", "roots"}
  BY DEF StackWrites, Inv, StackOK
<1>2. s.config \in Configs /\ s.envelope \in Envelopes /\ s.roots \in RootSets
  BY <1>1 DEF Configs, Envelopes, RootSets
<1>3. FilesOK'
  <2> HIDE DEF s
  <2>1. /\ Content(s)["config"] \in Configs
        /\ Content(s)["policy"] \in Envelopes
        /\ Content(s)["roots"] \in RootSets
    BY <1>2 DEF Content
  <2>2. files' = [files EXCEPT ![f] = Content(s)[f]]
    BY DEF StackWrites, s
  <2>3. FilesOK
    BY DEF Inv
  <2>4. CASE f = "config"
    BY <2>1, <2>2, <2>3, <2>4 DEF FilesOK
  <2>5. CASE f = "policy"
    BY <2>1, <2>2, <2>3, <2>5 DEF FilesOK
  <2>6. CASE f = "roots"
    BY <2>1, <2>2, <2>3, <2>6 DEF FilesOK
  <2> QED
    BY <1>1, <2>4, <2>5, <2>6
<1>4. StackOK'
  <2>1. Following[f] \in {"policy", "roots", "end"}
    BY <1>1 DEF Following
  <2>2. stack' = [stack EXCEPT !.step = Following[f]] /\ stack.phase = "writing"
    BY DEF StackWrites
  <2> QED
    BY <1>1, <2>1, <2>2 DEF Inv, StackOK
<1>5. UNCHANGED <<now, packaged, page, accepted, sent, runs>>
  BY DEF StackWrites
<1> QED
  BY <1>3, <1>4, <1>5, PageKept, RestKept DEF Inv

LEMMA StackRemovesInv ==
    ASSUME Inv, StackRemoves PROVE Inv'
<1> DEFINE f == IF stack.phase = "writing" THEN "config" ELSE stack.step
<1>1. f \in {"config", "policy", "roots"} /\ stack.phase \in {"writing", "removing"}
  BY DEF StackRemoves, Inv, StackOK
<1>2. /\ files' = [files EXCEPT ![f] = None]
      /\ stack' = IF Following[f] = "end" THEN StackDown
                  ELSE [stack EXCEPT !.phase = "removing", !.step = Following[f]]
  BY DEF StackRemoves
<1>3. Following[f] \in {"policy", "roots", "end"}
  BY <1>1 DEF Following
<1> HIDE DEF f
<1>4. FilesOK'
  BY <1>1, <1>2 DEF Inv, FilesOK
<1>5. StackOK'
  <2>1. CASE Following[f] = "end"
    BY <1>2, <2>1 DEF StackDown, StackOK
  <2>2. CASE Following[f] # "end"
    BY <1>1, <1>2, <1>3, <2>2 DEF Inv, StackOK
  <2> QED
    BY <2>1, <2>2
<1>6. UNCHANGED <<now, packaged, page, accepted, sent, runs>>
  BY DEF StackRemoves
<1> QED
  BY <1>4, <1>5, <1>6, PageKept, RestKept DEF Inv

LEMMA StackKilledInv ==
    ASSUME Inv, StackKilled PROVE Inv'
<1>1. StackOK'
  BY DEF StackKilled, StackDown, StackOK
<1>2. UNCHANGED <<now, packaged, files, page, accepted, sent, runs>>
  BY DEF StackKilled
<1> QED
  BY <1>1, <1>2, PageKept, RestKept DEF Inv

LEMMA TickInv ==
    ASSUME Inv, Tick PROVE Inv'
<1>1. now' \in 0..MaxTime
  BY PageAssumption DEF Tick, Inv
<1>2. UNCHANGED <<packaged, files, stack, page, accepted, sent, runs>>
  BY DEF Tick
<1>3. packaged' \in Packaged
  BY <1>2 DEF Inv
<1> QED
  BY <1>1, <1>2, <1>3, PageKept, RestKept DEF Inv

-----------------------------------------------------------------------------
(* The page opens.                                                         *)
LEMMA LaunchMessageInv ==
    ASSUME Inv, NEW o \in SenderOrigins, LaunchMessage(o) PROVE Inv'
<1>1. PICK s \in Session, a \in Alias, id \in PayloadId :
          page' = [NoPage EXCEPT !.step = "config",
                       !.pending = [session |-> s, hpc |-> a, payloadId |-> id, origin |-> o]]
  BY DEF LaunchMessage
<1>2. o \in Origin /\ o \in WebOrigins \cup {LocalOrigin}
  BY PageAssumption
     DEF LaunchMessage, IsAllowedExternalOrigin, IsLocalDevOrigin, LocalOrigin, Origin
<1> DEFINE l == [session |-> s, hpc |-> a, payloadId |-> id, origin |-> o]
<1>3. l \in Launch /\ l.origin = o
  BY <1>2 DEF Launch
<1>4. page' = [step |-> "config", direct |-> FALSE, pending |-> l, dev |-> None,
               envelope |-> None, roots |-> None]
  BY <1>1 DEF NoPage
<1> HIDE DEF l
<1>5. PageInv'
  BY <1>2, <1>3, <1>4 DEF PageInv, PageOK, ContextOK, FetchedOK, VerifiedOK
<1>6. UNCHANGED <<now, packaged, files, stack, accepted>> /\ sent' = {} /\ runs' = {}
  BY DEF LaunchMessage
<1> QED
  BY <1>5, <1>6, RestKept DEF Inv

LEMMA OpenDirectlyInv ==
    ASSUME Inv, OpenDirectly PROVE Inv'
<1>1. PageInv'
  BY DEF OpenDirectly, NoPage, PageInv, PageOK, ContextOK, FetchedOK, VerifiedOK
<1>2. UNCHANGED <<now, packaged, files, stack, accepted>> /\ sent' = {} /\ runs' = {}
  BY DEF OpenDirectly
<1> QED
  BY <1>1, <1>2, RestKept DEF Inv

(* The page closes, for whatever reason.                                   *)
LEMMA FailsInv ==
    ASSUME Inv, Fails PROVE Inv'
<1>1. page' = NoPage /\ UNCHANGED <<now, packaged, files, stack, accepted>>
      /\ sent' = {} /\ runs' = {}
  BY DEF Fails
<1> QED
  BY <1>1, Closed, RestKept DEF Inv

LEMMA UpdateExtensionInv ==
    ASSUME Inv, UpdateExtension PROVE Inv'
<1>1. page' = NoPage /\ UNCHANGED <<now, files, stack, accepted>>
      /\ sent' = {} /\ runs' = {} /\ packaged' \in Packaged
  BY DEF UpdateExtension
<1>2. now' \in 0..MaxTime
  BY <1>1 DEF Inv
<1> QED
  BY <1>1, <1>2, Closed, RestKept DEF Inv

-----------------------------------------------------------------------------
(* main() reads and verifies.                                              *)
LEMMA ReadConfigInv ==
    ASSUME Inv, ReadConfig PROVE Inv'
<1> DEFINE local == page.direct \/ IsLocalDevOrigin(page.pending.origin)
           config == IF local THEN files.config ELSE None
<1>1. UNCHANGED <<now, packaged, files, stack, accepted, sent, runs>>
  BY DEF ReadConfig
<1>2. config \in Configs \cup {None}
  BY DEF Inv, FilesOK
<1>3. config # None /\ ~page.direct => page.pending.origin = LocalOrigin
  <2> SUFFICES ASSUME config # None, ~page.direct PROVE page.pending.origin = LocalOrigin
    OBVIOUS
  <2>1. page.pending \in Launch /\ IsLocalDevOrigin(page.pending.origin)
    BY DEF Inv, PageInv, ContextOK, ReadConfig
  <2> QED
    BY <2>1 DEF Launch, Origin, LocalOrigin, IsLocalDevOrigin
<1>4. page.step = "config"
  BY DEF ReadConfig
<1>5. page' = IF page.direct /\ config = None THEN NoPage
              ELSE [page EXCEPT !.dev = config, !.step = "load"]
  BY DEF ReadConfig
<1> HIDE DEF config
<1>6. CASE page.direct /\ config = None
  BY <1>1, <1>5, <1>6, Closed, RestKept DEF Inv
<1>7. CASE ~(page.direct /\ config = None)
  <2>1. page' = [page EXCEPT !.dev = config, !.step = "load"]
    BY <1>5, <1>7
  <2>2. PageInv
    BY DEF Inv
  <2>3. PageOK'
    BY <1>2, <2>1, <2>2 DEF PageInv, PageOK
  <2>4. ContextOK'
    BY <1>3, <1>4, <1>7, <2>1, <2>2 DEF PageInv, PageOK, ContextOK
  <2>5. FetchedOK' /\ VerifiedOK'
    BY <1>4, <2>1, <2>2 DEF PageInv, PageOK, ContextOK, FetchedOK, VerifiedOK
  <2> QED
    BY <1>1, <2>3, <2>4, <2>5, RestKept DEF Inv, PageInv
<1> QED
  BY <1>6, <1>7

LEMMA FetchPolicyInv ==
    ASSUME Inv, FetchPolicy PROVE Inv'
<1> DEFINE e == IF AllowLocalDev THEN files.policy ELSE packaged
<1>1. UNCHANGED <<now, packaged, files, stack, accepted, sent, runs>> /\ page.step = "load"
  BY DEF FetchPolicy
<1>2. e \in Packaged \cup Envelopes \cup {None} /\ (page.dev = None => e \in Packaged)
  BY DEF Inv, FilesOK, AllowLocalDev
<1>3. page' = NoPage \/ page' = [page EXCEPT !.envelope = e]
  BY DEF FetchPolicy
<1> HIDE DEF e
<1>4. CASE page' = NoPage
  BY <1>1, <1>4, Closed, RestKept DEF Inv
<1>5. CASE page' = [page EXCEPT !.envelope = e]
  <2>1. PageInv'
    BY <1>1, <1>2, <1>5 DEF Inv, PageInv, PageOK, ContextOK, FetchedOK, VerifiedOK
  <2> QED
    BY <1>1, <2>1, RestKept DEF Inv
<1> QED
  BY <1>3, <1>4, <1>5

LEMMA FetchTrustRootsInv ==
    ASSUME Inv, FetchTrustRoots PROVE Inv'
<1> DEFINE r == IF AllowLocalDev THEN files.roots ELSE ProductionRoots
<1>1. UNCHANGED <<now, packaged, files, stack, accepted, sent, runs>> /\ page.step = "load"
  BY DEF FetchTrustRoots
<1>2. r \in RootSets \cup {ProductionRoots, None} /\ (page.dev = None => r = ProductionRoots)
  BY DEF Inv, FilesOK, AllowLocalDev
<1>3. page' = NoPage \/ page' = [page EXCEPT !.roots = r]
  BY DEF FetchTrustRoots
<1> HIDE DEF r
<1>4. CASE page' = NoPage
  BY <1>1, <1>4, Closed, RestKept DEF Inv
<1>5. CASE page' = [page EXCEPT !.roots = r]
  <2>1. PageInv'
    BY <1>1, <1>2, <1>5 DEF Inv, PageInv, PageOK, ContextOK, FetchedOK, VerifiedOK
  <2> QED
    BY <1>1, <2>1, RestKept DEF Inv
<1> QED
  BY <1>3, <1>4, <1>5

(* A step of main() that moves on and keeps what the page has read.        *)
LEMMA Advance ==
    ASSUME PageInv, page.step # "none", page.step # "config",
           NEW to \in {"remember", "admit", "descriptor", "running"},
           to = "descriptor" => ~page.direct,
           /\ page.envelope # None /\ page.roots # None
           /\ VerifySignedPolicyEnvelope(page.envelope, page.roots)
           /\ \E t \in Nat : ValidatePolicy(page.envelope.payload, AllowLocalDev, t),
           page' = [page EXCEPT !.step = to]
    PROVE  PageInv'
<1>1. /\ page'.step = to /\ page'.direct = page.direct /\ page'.pending = page.pending
      /\ page'.dev = page.dev /\ page'.envelope = page.envelope /\ page'.roots = page.roots
  BY DEF PageInv, PageOK
<1>2. PageOK'
  BY DEF PageInv, PageOK
<1>3. ContextOK'
  BY <1>1 DEF PageInv, ContextOK
<1>4. FetchedOK'
  BY <1>1 DEF PageInv, FetchedOK
<1>5. VerifiedOK'
  BY <1>1 DEF VerifiedOK, AllowLocalDev
<1> QED
  BY <1>2, <1>3, <1>4, <1>5 DEF PageInv

LEMMA VerifyPolicyInv ==
    ASSUME Inv, VerifyPolicy PROVE Inv'
<1>1. UNCHANGED <<now, packaged, files, stack, accepted, sent, runs>> /\ page.step = "load"
      /\ page.envelope # None /\ page.roots # None
  BY DEF VerifyPolicy
<1>2. CASE page' = NoPage
  BY <1>1, <1>2, Closed, RestKept DEF Inv
<1>3. CASE /\ VerifySignedPolicyEnvelope(page.envelope, page.roots)
           /\ ValidatePolicy(PolicyOfPage, AllowLocalDev, now)
           /\ page' = [page EXCEPT !.step = "remember"]
  <2>1. now \in Nat
    BY PageAssumption DEF Inv
  <2>2. \E t \in Nat : ValidatePolicy(page.envelope.payload, AllowLocalDev, t)
    BY <1>3, <2>1 DEF PolicyOfPage
  <2>3. PageInv'
    BY <1>1, <1>3, <2>2, Advance DEF Inv
  <2> QED
    BY <1>1, <2>3, RestKept DEF Inv
<1> QED
  BY <1>2, <1>3 DEF VerifyPolicy

LEMMA RememberInv ==
    ASSUME Inv, Remember PROVE Inv'
<1>1. UNCHANGED <<now, packaged, files, stack, sent, runs>> /\ page.step = "remember"
      /\ page' = [page EXCEPT !.step = "admit"]
      /\ accepted' = IF AllowLocalDev THEN accepted ELSE page.envelope
  BY DEF Remember
<1>2. /\ page.envelope # None /\ page.roots # None
      /\ VerifySignedPolicyEnvelope(page.envelope, page.roots)
      /\ \E t \in Nat : ValidatePolicy(page.envelope.payload, AllowLocalDev, t)
  BY <1>1 DEF Inv, PageInv, VerifiedOK
<1>3. PageInv'
  BY <1>1, <1>2, Advance DEF Inv
<1>4. AcceptedOK' /\ AcceptedIsProduction'
  <2>1. CASE AllowLocalDev
    BY <1>1, <2>1 DEF Inv, AcceptedOK, AcceptedIsProduction
  <2>2. CASE ~AllowLocalDev
    <3>1. page.envelope \in Packaged /\ page.roots = ProductionRoots
      BY <1>2, <2>2 DEF Inv, PageInv, FetchedOK, AllowLocalDev
    <3> QED
      BY <1>1, <1>2, <2>2, <3>1
         DEF AcceptedOK, AcceptedIsProduction, VerifySignedPolicyEnvelope
  <2> QED
    BY <2>1, <2>2
<1> QED
  BY <1>1, <1>3, <1>4, RestKept DEF Inv

-----------------------------------------------------------------------------
(* Where the page sends its tokens, and what it runs.                      *)
TokenOK(m) ==
    \/ m.to.secure
    \/ m.local /\ (m.to.host = "127.0.0.1" \/ (m.legacy /\ m.to.host = "localhost"))

LEMMA ApiToken ==
    ASSUME NEW o, NEW kind, PolicyAllowsApiBaseUrl(PolicyOfPage, o, AllowLocalDev)
    PROVE  TokenOK(Token(kind, o))
  BY DEF PolicyAllowsApiBaseUrl, AssertOrigin, LocalHosts, TokenOK, Token

LEMMA RelayToken ==
    ASSUME NEW o, NEW kind, PolicyAllowsRelayUrl(PolicyOfPage, o, AllowLocalDev),
           o.secure \/ AllowLocalDev,
           \E t \in Nat : ValidatePolicy(page.envelope.payload, AllowLocalDev, t)
    PROVE  TokenOK(Token(kind, o))
<1>1. PolicyOfPage.legacy => \A x \in PolicyOfPage.relays : x.secure \/ x.host \in LocalHosts
  BY ValidPolicy DEF PolicyOfPage, AllowLocalDev
<1> QED
  BY <1>1 DEF PolicyAllowsRelayUrl, AssertOrigin, LocalHosts, TokenOK, Token

LEMMA SentGrows ==
    ASSUME PlaintextIsLocal, NEW m, TokenOK(m), sent' = sent \cup {m}
    PROVE  PlaintextIsLocal'
  BY DEF PlaintextIsLocal, TokenOK

LEMMA AdmitLaunchInv ==
    ASSUME Inv, AdmitLaunch PROVE Inv'
<1>1. UNCHANGED <<now, packaged, files, stack, accepted, runs>> /\ page.step = "admit"
      /\ ~page.direct
  BY DEF AdmitLaunch
<1>2. CASE page' = NoPage /\ UNCHANGED sent
  BY <1>1, <1>2, Closed, RestKept DEF Inv
<1>3. CASE /\ PolicyAllowsApiBaseUrl(PolicyOfPage, ApiBaseUrl, AllowLocalDev)
           /\ page' = [page EXCEPT !.step = "descriptor"]
           /\ sent' = sent \cup {Token("launch", ApiBaseUrl)}
  <2>1. PageInv'
    BY <1>1, <1>3, Advance DEF Inv, PageInv, VerifiedOK
  <2>2. PlaintextIsLocal'
    BY <1>3, ApiToken, SentGrows DEF Inv
  <2> QED
    BY <1>1, <2>1, <2>2, RestKept DEF Inv
<1> QED
  BY <1>2, <1>3 DEF AdmitLaunch

LEMMA ReportInv ==
    ASSUME Inv, Report PROVE Inv'
<1>1. UNCHANGED <<now, packaged, files, stack, accepted, runs>> /\ page' = NoPage
  BY DEF Report
<1>2. PlaintextIsLocal'
  <2>1. CASE UNCHANGED sent
    BY <2>1, RestKept
  <2>2. CASE /\ PolicyAllowsApiBaseUrl(PolicyOfPage, ApiBaseUrl, AllowLocalDev)
             /\ sent' = sent \cup {Token("jobReport", ApiBaseUrl)}
    BY <2>2, ApiToken, SentGrows DEF Inv
  <2> QED
    BY <2>1, <2>2 DEF Report
<1> QED
  BY <1>1, <1>2, Closed, RestKept DEF Inv

(* The conjuncts of RunIsAuthorised for one run.                           *)
RunOK(r) ==
    LET p == r.envelope.payload
    IN  /\ r.envelope.signer \in r.roots
        /\ IF r.local THEN r.pending = None \/ r.pending.origin = LocalOrigin
           ELSE r.roots = ProductionRoots /\ r.envelope \in Packaged
        /\ r.pending # None
             => /\ r.session = r.pending.session /\ r.hpc = r.pending.hpc
                /\ r.payloadId = r.pending.payloadId
                /\ r.pending.origin \in WebOrigins \cup {LocalOrigin}
        /\ r.payloadId \in p.hosts[r.hpc].payloads
        /\ r.relay \in p.relays
        /\ p.hosts[r.hpc].knownHosts = "keys" /\ p.hosts[r.hpc].keyAlias = r.hpc

LEMMA RunsGrow ==
    ASSUME RunIsAuthorised, NEW r, RunOK(r), runs' = runs \cup {r}
    PROVE  RunIsAuthorised'
  BY DEF RunIsAuthorised, RunOK

(* The checks that both ways of starting a run share.                      *)
LEMMA RunStarts ==
    ASSUME Inv, page.step \in {"admit", "descriptor"},
           NEW session, NEW alias, NEW id, NEW relay,
           ResolveAllowedPayload(PolicyOfPage, alias, id),
           PolicyAllowsRelayUrl(PolicyOfPage, relay, AllowLocalDev),
           RequireLaunchableKnownHosts(PolicyOfPage.hosts[alias]),
           ~page.direct => /\ session = page.pending.session /\ alias = page.pending.hpc
                           /\ id = page.pending.payloadId
    PROVE  RunOK(Run(session, alias, id, relay))
<1> DEFINE p == PolicyOfPage
           r == Run(session, alias, id, relay)
<1>1. /\ page.envelope # None /\ page.roots # None
      /\ VerifySignedPolicyEnvelope(page.envelope, page.roots)
      /\ \E t \in Nat : ValidatePolicy(page.envelope.payload, AllowLocalDev, t)
  BY DEF Inv, PageInv, VerifiedOK
<1>2. /\ r.session = session /\ r.hpc = alias /\ r.payloadId = id /\ r.relay = relay
      /\ r.envelope = page.envelope /\ r.roots = page.roots /\ r.pending = page.pending
      /\ r.local = AllowLocalDev
  BY DEF Run
<1> HIDE DEF r
<1>3. r.envelope.signer \in r.roots
  BY <1>1, <1>2 DEF VerifySignedPolicyEnvelope
<1>4. IF r.local THEN r.pending = None \/ r.pending.origin = LocalOrigin
      ELSE r.roots = ProductionRoots /\ r.envelope \in Packaged
  BY <1>1, <1>2 DEF Inv, PageInv, PageOK, ContextOK, FetchedOK, AllowLocalDev
<1>5. r.pending # None
        => /\ r.session = r.pending.session /\ r.hpc = r.pending.hpc
           /\ r.payloadId = r.pending.payloadId
           /\ r.pending.origin \in WebOrigins \cup {LocalOrigin}
  BY <1>2 DEF Inv, PageInv, PageOK, ContextOK
<1>6. alias \in DOMAIN p.hosts /\ id \in p.hosts[alias].payloads /\ relay \in p.relays
      /\ p.hosts[alias].knownHosts = "keys"
  BY DEF ResolveAllowedPayload, PolicyAllowsRelayUrl, RequireLaunchableKnownHosts
<1>7. p.hosts[alias].keyAlias = alias
  BY <1>1, <1>6, ValidPolicy DEF PolicyOfPage, AllowLocalDev
<1>8. r.envelope.payload = p
  BY <1>2 DEF PolicyOfPage
<1> HIDE DEF p
<1>9. RunOK(r)
  BY <1>2, <1>3, <1>4, <1>5, <1>6, <1>7, <1>8 DEF RunOK
<1> QED
  BY <1>9 DEF r

LEMMA DescriptorArrivesInv ==
    ASSUME Inv, NEW d \in Descriptors, DescriptorArrives(d) PROVE Inv'
<1>1. UNCHANGED <<now, packaged, files, stack, accepted>> /\ page.step = "descriptor"
  BY DEF DescriptorArrives
<1>2. CASE page' = NoPage /\ UNCHANGED <<sent, runs>>
  BY <1>1, <1>2, Closed, RestKept DEF Inv
<1>3. CASE /\ ValidateSessionDescriptor(d, page.pending, PolicyOfPage, AllowLocalDev)
           /\ RequireLaunchableKnownHosts(PolicyOfPage.hosts[page.pending.hpc])
           /\ page' = [page EXCEPT !.step = "running"]
           /\ sent' = sent \cup {Token("relay", d.relay)}
           /\ runs' = runs \cup {Run(d.session, d.hpc, d.payloadId, d.relay)}
  <2>1. /\ d.session = page.pending.session /\ d.hpc = page.pending.hpc
        /\ d.payloadId = page.pending.payloadId
        /\ ResolveAllowedPayload(PolicyOfPage, d.hpc, d.payloadId)
        /\ PolicyAllowsRelayUrl(PolicyOfPage, d.relay, AllowLocalDev)
        /\ d.relay.secure \/ AllowLocalDev
    BY <1>3 DEF ValidateSessionDescriptor, ValidateRelayUrl
  <2>2. PageInv'
    BY <1>1, <1>3, Advance DEF Inv, PageInv, VerifiedOK
  <2>3. PlaintextIsLocal'
    BY <1>1, <1>3, <2>1, RelayToken, SentGrows DEF Inv, PageInv, VerifiedOK
  <2>4. RunOK(Run(d.session, d.hpc, d.payloadId, d.relay))
    BY <1>1, <1>3, <2>1, RunStarts
  <2>5. RunIsAuthorised'
    BY <1>3, <2>4, RunsGrow DEF Inv
  <2> QED
    BY <1>1, <2>2, <2>3, <2>5, RestKept DEF Inv
<1> QED
  BY <1>2, <1>3 DEF DescriptorArrives

LEMMA StartDirectlyInv ==
    ASSUME Inv, StartDirectly PROVE Inv'
<1> DEFINE c == page.dev
<1>1. UNCHANGED <<now, packaged, files, stack, accepted>> /\ page.step = "admit"
      /\ page.direct
  BY DEF StartDirectly
<1>2. CASE page' = NoPage /\ UNCHANGED <<sent, runs>>
  BY <1>1, <1>2, Closed, RestKept DEF Inv
<1>3. CASE /\ ResolveAllowedPayload(PolicyOfPage, c.hpc, c.payloadId)
           /\ PolicyAllowsRelayUrl(PolicyOfPage, c.relay, TRUE)
           /\ RequireLaunchableKnownHosts(PolicyOfPage.hosts[c.hpc])
           /\ page' = [page EXCEPT !.step = "running"]
           /\ sent' = sent \cup {Token("relay", c.relay)}
           /\ runs' = runs \cup {Run(c.session, c.hpc, c.payloadId, c.relay)}
  <2>1. AllowLocalDev
    BY <1>1 DEF Inv, PageInv, ContextOK, AllowLocalDev
  <2>2. PolicyAllowsRelayUrl(PolicyOfPage, c.relay, AllowLocalDev)
    BY <1>3, <2>1 DEF PolicyAllowsRelayUrl, AssertOrigin
  <2>3. PageInv'
    BY <1>1, <1>3, Advance DEF Inv, PageInv, VerifiedOK
  <2>4. PlaintextIsLocal'
    BY <1>1, <1>3, <2>1, <2>2, RelayToken, SentGrows DEF Inv, PageInv, VerifiedOK
  <2>5. RunOK(Run(c.session, c.hpc, c.payloadId, c.relay))
    BY <1>1, <1>3, <2>2, RunStarts
  <2>6. RunIsAuthorised'
    BY <1>3, <2>5, RunsGrow DEF Inv
  <2> QED
    BY <1>1, <2>3, <2>4, <2>6, RestKept DEF Inv
<1> QED
  BY <1>2, <1>3 DEF StartDirectly

-----------------------------------------------------------------------------
LEMMA NextInv == Inv /\ [Next]_vars => Inv'
<1> SUFFICES ASSUME Inv, [Next]_vars PROVE Inv'
  OBVIOUS
<1>1. CASE UNCHANGED vars
  BY <1>1, PageKept, RestKept DEF Inv, vars
<1>2. CASE Next
  BY <1>2, TickInv, StackStartsInv, StackWritesInv, StackRemovesInv, StackKilledInv,
     LaunchMessageInv, OpenDirectlyInv, ReadConfigInv, FetchPolicyInv, FetchTrustRootsInv,
     VerifyPolicyInv, RememberInv, AdmitLaunchInv, DescriptorArrivesInv, StartDirectlyInv,
     ReportInv, FailsInv, UpdateExtensionInv DEF Next
<1> QED
  BY <1>1, <1>2

LEMMA SpecInv == Spec => []Inv
  BY InitInv, NextInv, PTL DEF Spec

LEMMA InvType == Inv => TypeOK
<1> SUFFICES ASSUME Inv PROVE TypeOK
  OBVIOUS
<1>1. Configs \subseteq Config
  BY PageAssumption DEF Configs, Stack
<1>2. page.step = "descriptor" => page.pending # None
  BY PageAssumption DEF Inv, PageInv, ContextOK
<1>3. page.step \in {"remember", "admit", "descriptor", "running"}
        => page.envelope \in Packaged \cup {s.envelope : s \in LocalStacks}
  BY DEF Inv, PageInv, PageOK, VerifiedOK, Envelopes
<1>4. /\ page.pending = None \/ page.pending \in Launch
      /\ page.dev = None \/ page.dev \in Config
  BY <1>1 DEF Inv, PageInv, PageOK
<1> QED
  BY <1>2, <1>3, <1>4
     DEF Inv, TypeOK, FilesOK, StackOK, AcceptedOK, Configs, Envelopes, RootSets

(* Every variable keeps its type; in particular a page asks for a          *)
(* descriptor only for a launch it has, and works with no other envelope   *)
(* than one of the release or of a local stack.                            *)
THEOREM PageTypeCorrect == Spec => []TypeOK
  BY SpecInv, InvType, PTL

(* Whatever policies are packaged or written by local stacks, killed ones  *)
(* included, and whatever the descriptors say, a token is sent in the      *)
(* clear only to this machine and only by a page of the local context      *)
(* (slaif_policy.js, lines 150, 394, 401 and 417).                         *)
THEOREM PlaintextStaysLocal == Spec => []PlaintextIsLocal
<1>1. Inv => PlaintextIsLocal
  BY DEF Inv
<1> QED
  BY <1>1, SpecInv, PTL

(* Every SSH session was authorised: by a policy signed by a root of the   *)
(* page's own context, for the session, the host and the payload of the    *)
(* launch (session.js, lines 334-353).                                     *)
THEOREM RunsAreAuthorised == Spec => []RunIsAuthorised
<1>1. Inv => RunIsAuthorised
  BY DEF Inv
<1> QED
  BY <1>1, SpecInv, PTL

(* acceptedSignedHpcPolicy is signed by a production root: a page that     *)
(* reads local files never remembers their policy (session.js, line 158).  *)
THEOREM AcceptedStaysProduction == Spec => []AcceptedIsProduction
<1>1. Inv => AcceptedIsProduction
  BY DEF Inv
<1> QED
  BY <1>1, SpecInv, PTL
=============================================================================
