------------------------- MODULE SessionLaunchProofs -------------------------
(***************************************************************************)
(* Proofs about SessionLaunch for any number of windows, sessions,         *)
(* policies, reloads and updates.                                          *)
(*                                                                         *)
(* The chain launch, descriptor, SSH run, report is counted by the uses of *)
(* three single-use tokens, and a page or an upload that is about to spend *)
(* the next token carries the evidence that the previous one was spent     *)
(* (PageChain, UploadChain).  For the policy, every page alive was opened  *)
(* by the installed release, so all of them check and store the same       *)
(* packaged policy (PagePolicy).                                           *)
(***************************************************************************)
EXTENDS SessionLaunch, TLAPS

PageRecord == [step: Step, launch: Session \cup {None},
               pending: Pending \cup {None}, policy: Policy \cup {None}]

(* The steps at which main() works on the pending launch it read.          *)
AfterRead == {"policy", "checking", "storing", "completed"} \cup PastPolicy

(* The three tokens of every session stay on record and are single-use.    *)
SingleUse == \A t \in Token : /\ records[t] \in Record
                              /\ records[t].maxUses = 1
                              /\ records[t].used <= 1

(* Every step of the chain has spent its token.                            *)
CountedUses ==
    \A s \in Session : /\ descriptors[s] <= records[<<"slaif.launch", s>>].used
                       /\ runs[s] <= records[<<"slaif.relay", s>>].used
                       /\ jobReports[s] <= records[<<"slaif.jobReport", s>>].used

(* What a page in the middle of main() implies about the counters.         *)
PageChainAt(w) ==
    /\ page[w].step = "setting" => page[w].launch \in Session
    /\ page[w].step \in AfterRead => page[w].pending \in Pending
    /\ page[w].step \in {"descriptor", "ssh"} => descriptors[page[w].pending.session] >= 1
    /\ page[w].step \in {"running", "exited", "posting", "reading"} => runs[page[w].pending.session] >= 1
    /\ page[w].step \in {"answer", "completed"} => jobReports[page[w].pending.session] >= 1
PageChain == \A w \in Window : PageChainAt(w)

UploadChain == \A u \in uploads : runs[u.session] >= 1

(* What a page in the middle of main() implies about the policies.         *)
PagePolicyAt(w) ==
    /\ page[w].step \in {"checking", "storing"} => page[w].policy = packaged
    /\ page[w].step \in PastPolicy => page[w].policy = packaged /\ accepted = packaged
    /\ page[w].step = "storing" => NoRollback(packaged, accepted)
PagePolicy == \A w \in Window : PagePolicyAt(w)

IInv == /\ TypeOK
        /\ SingleUse
        /\ CountedUses
        /\ LaunchChain
        /\ PageChain
        /\ UploadChain
        /\ PagePolicy
-----------------------------------------------------------------------------
(* Facts about the steps that several actions share.                       *)

(* The tokens of a session are tokens.                                     *)
LEMMA SessionTokens ==
    ASSUME NEW s \in Session
    PROVE  /\ <<"slaif.launch", s>> \in Token
           /\ <<"slaif.relay", s>> \in Token
           /\ <<"slaif.jobReport", s>> \in Token
  BY SessionAssumption DEF Granted

(* Goto changes the step of one page and nothing else of any page.         *)
LEMMA GotoEffect ==
    ASSUME page \in [Window -> PageRecord], NEW w \in Window, NEW x \in Step, Goto(w, x)
    PROVE  /\ page' \in [Window -> PageRecord]
           /\ page'[w].step = x
           /\ page'[w].pending = page[w].pending
           /\ page'[w].policy = page[w].policy
           /\ \A v \in Window \ {w} : page'[v] = page[v]
  BY DEF Goto, PageRecord

(* A page that is written as a whole.                                      *)
LEMMA WriteEffect ==
    ASSUME page \in [Window -> PageRecord], NEW w \in Window, NEW p \in PageRecord,
           page' = [page EXCEPT ![w] = p]
    PROVE  /\ page' \in [Window -> PageRecord]
           /\ page'[w] = p
           /\ \A v \in Window \ {w} : page'[v] = page[v]
  OBVIOUS

(* A successful consume spends the one use of its token, so it was unspent *)
(* before and no other token changes.                                      *)
LEMMA ConsumeEffect ==
    ASSUME RegistryTypeOK, SingleUse, NEW t \in Token, NEW e, ConsumeToken(t, e)
    PROVE  /\ RegistryTypeOK'
           /\ SingleUse'
           /\ records[t].used = 0
           /\ records'[t].used = 1
           /\ \A x \in Token \ {t} : records'[x] = records[x]
  <1> DEFINE r == records[t]
  <1>1. r \in Record /\ r.maxUses = 1 /\ r.used < r.maxUses
    BY DEF SingleUse, ConsumeToken, Admits, CheckRecord, Usable
  <1>2. r.used = 0 /\ r.used \in Nat
    BY <1>1 DEF Record
  <1>3. Spend(r) \in Record /\ Spend(r).used = 1 /\ Spend(r).maxUses = 1
    BY <1>1, <1>2 DEF Spend, Record
  <1>4. /\ records' = [records EXCEPT ![t] = Spend(r)]
        /\ records \in [Token -> Record \cup {NoRecord}]
    BY DEF ConsumeToken, RegistryTypeOK
  <1> HIDE DEF r
  <1>5. /\ records' \in [Token -> Record \cup {NoRecord}]
        /\ records'[t] = Spend(r)
        /\ \A x \in Token \ {t} : records'[x] = records[x]
    BY <1>3, <1>4
  <1>6. SingleUse'
    BY <1>3, <1>5 DEF SingleUse
  <1>7. RegistryTypeOK'
    BY <1>5 DEF ConsumeToken, RegistryTypeOK
  <1> QED BY <1>2, <1>3, <1>5, <1>6, <1>7 DEF r

(* The state the pages look at only moves in one direction: if one page is *)
(* rewritten, the counters do not fall and the policies stay, the others   *)
(* keep their invariants.                                                  *)
LEMMA OnePageChanges ==
    ASSUME TypeOK, PageChain, PagePolicy, NEW w \in Window,
           \A v \in Window \ {w} : page'[v] = page[v],
           \A s \in Session : /\ descriptors'[s] \in Nat /\ descriptors'[s] >= descriptors[s]
                              /\ runs'[s] \in Nat /\ runs'[s] >= runs[s]
                              /\ jobReports'[s] \in Nat /\ jobReports'[s] >= jobReports[s],
           packaged' = packaged, accepted' = accepted,
           PageChainAt(w)', PagePolicyAt(w)'
    PROVE  PageChain' /\ PagePolicy'
  <1>1. ASSUME NEW v \in Window \ {w} PROVE PageChainAt(v)' /\ PagePolicyAt(v)'
    <2>1. PageChainAt(v) /\ PagePolicyAt(v) /\ page'[v] = page[v]
      BY DEF PageChain, PagePolicy
    <2>2. page[v].step \in {"descriptor", "ssh", "running", "exited", "posting", "reading", "answer",
                            "completed"}
            => page[v].pending.session \in Session
      BY <2>1 DEF PageChainAt, AfterRead, PastPolicy, Pending
    <2>3. PageChainAt(v)'
      BY <2>1, <2>2 DEF PageChainAt, TypeOK
    <2>4. PagePolicyAt(v)'
      BY <2>1 DEF PagePolicyAt, NoRollback
    <2> QED BY <2>3, <2>4
  <1> QED BY <1>1 DEF PageChain, PagePolicy

(* A step of one page that leaves the registry, the API and the storage    *)
(* alone preserves the invariant if the page it leads to satisfies it.     *)
LEMMA PageStep ==
    ASSUME IInv, NEW w \in Window, page' \in [Window -> PageRecord],
           \A v \in Window \ {w} : page'[v] = page[v],
           UNCHANGED <<registryVars, apiVars>>,
           slot' \in Pending \cup {None}, accepted' = accepted, packaged' = packaged,
           reloads' \in 0..MaxReloads, updates' = updates, highest' = highest,
           PageChainAt(w)', PagePolicyAt(w)'
    PROVE  IInv'
  <1>1. TypeOK'
    BY DEF IInv, TypeOK, RegistryTypeOK, registryVars, apiVars, PageRecord
  <1>2. SingleUse' /\ CountedUses' /\ LaunchChain' /\ UploadChain'
    BY DEF IInv, SingleUse, CountedUses, LaunchChain, UploadChain, registryVars, apiVars
  <1>3. \A s \in Session : /\ descriptors'[s] \in Nat /\ descriptors'[s] >= descriptors[s]
                           /\ runs'[s] \in Nat /\ runs'[s] >= runs[s]
                           /\ jobReports'[s] \in Nat /\ jobReports'[s] >= jobReports[s]
    BY DEF IInv, TypeOK, apiVars
  <1>4. PageChain' /\ PagePolicy'
    BY <1>3, OnePageChanges DEF IInv
  <1> QED BY <1>1, <1>2, <1>4 DEF IInv

(* A page that has not read its launch yet satisfies its invariants.       *)
LEMMA EarlyPage ==
    ASSUME NEW w, page'[w].step \in {"none", "opening", "failed"}
    PROVE  PageChainAt(w)' /\ PagePolicyAt(w)'
  BY DEF PageChainAt, PagePolicyAt, AfterRead, PastPolicy

(* The types of what IInv says of one page.                                *)
LEMMA PageFacts ==
    ASSUME IInv, NEW w \in Window
    PROVE  /\ page \in [Window -> PageRecord]
           /\ PageChainAt(w) /\ PagePolicyAt(w)
           /\ page[w].step \in AfterRead =>
                page[w].pending \in Pending /\ page[w].pending.session \in Session
  <1>1. PageChainAt(w) /\ PagePolicyAt(w)
    BY DEF IInv, PageChain, PagePolicy
  <1> QED BY <1>1 DEF IInv, TypeOK, PageRecord, PageChainAt, Pending

-----------------------------------------------------------------------------
(* Each action preserves the invariant.                                    *)

LEMMA InitIInv == Init => IInv
  <1> SUFFICES ASSUME Init PROVE IInv OBVIOUS
  <1>1. ASSUME NEW t \in Token
        PROVE  records[t] \in Record /\ records[t].maxUses = 1 /\ records[t].used = 0
    <2>1. t[1] \in Scopes /\ t[2] \in Values
      BY SessionAssumption
    <2>2. records[t] = IssuedToken(t)
      BY DEF Init
    <2>3. /\ AssertBindingValue([k \in IdKeys |-> t[2]]) \in Bindings(IdKeys)
          /\ [k \in MetaKeys |-> IF t[1] = "slaif.relay" THEN Undefined ELSE PayloadId]
               \in Bindings(MetaKeys)
      BY <2>1, SessionAssumption DEF AssertBindingValue, Bindings
    <2>4. TokenTtl \in Int /\ 1 \in 1..MaxUsesLimit
      BY SessionAssumption, LimitAssumption
    <2> QED BY <2>1, <2>2, <2>3, <2>4 DEF IssuedToken, NewRecord, Record
  <1>2. SingleUse
    BY <1>1 DEF SingleUse
  <1>3. RegistryTypeOK
    <2>1. records \in [Token -> Record]
      BY <1>1 DEF Init
    <2> QED BY <2>1, LimitAssumption DEF Init, RegistryTypeOK
  <1>4. TypeOK
    BY <1>3, SessionAssumption DEF Init, TypeOK, NoPage, Step
  <1>5. CountedUses
    <2> SUFFICES ASSUME NEW s \in Session
                 PROVE  /\ descriptors[s] <= records[<<"slaif.launch", s>>].used
                        /\ runs[s] <= records[<<"slaif.relay", s>>].used
                        /\ jobReports[s] <= records[<<"slaif.jobReport", s>>].used
      BY DEF CountedUses
    <2>1. descriptors[s] = 0 /\ runs[s] = 0 /\ jobReports[s] = 0
      BY DEF Init
    <2>2. /\ records[<<"slaif.launch", s>>].used = 0
          /\ records[<<"slaif.relay", s>>].used = 0
          /\ records[<<"slaif.jobReport", s>>].used = 0
      BY <1>1, SessionTokens
    <2> QED BY <2>1, <2>2
  <1>6. LaunchChain /\ UploadChain
    BY DEF Init, LaunchChain, UploadChain
  <1>7. PageChain /\ PagePolicy
    BY DEF Init, NoPage, PageChain, PageChainAt, PagePolicy, PagePolicyAt, AfterRead, PastPolicy
  <1> QED BY <1>2, <1>4, <1>5, <1>6, <1>7 DEF IInv

LEMMA LaunchMessageIInv ==
    ASSUME IInv, NEW w \in Window, NEW s \in Session, LaunchMessage(w, s)
    PROVE  IInv'
  <1> DEFINE p == [NoPage EXCEPT !.step = "setting", !.launch = s]
  <1>1. p \in PageRecord /\ p.step = "setting" /\ p.launch = s
    BY DEF NoPage, PageRecord, Step
  <1>2. page' = [page EXCEPT ![w] = p]
    BY DEF LaunchMessage
  <1> HIDE DEF p
  <1>3. /\ page' \in [Window -> PageRecord] /\ page'[w] = p
        /\ \A v \in Window \ {w} : page'[v] = page[v]
    BY <1>1, <1>2, WriteEffect, PageFacts
  <1>4. PageChainAt(w)' /\ PagePolicyAt(w)'
    BY <1>1, <1>3 DEF PageChainAt, PagePolicyAt, AfterRead, PastPolicy
  <1> QED BY <1>3, <1>4, PageStep DEF LaunchMessage, storageVars, IInv, TypeOK

LEMMA StorePendingIInv ==
    ASSUME IInv, NEW w \in Window, StorePending(w)
    PROVE  IInv'
  <1>1. /\ page' \in [Window -> PageRecord] /\ page'[w].step = "opening"
        /\ \A v \in Window \ {w} : page'[v] = page[v]
    BY GotoEffect, PageFacts DEF StorePending, Step
  <1>2. PageChainAt(w)' /\ PagePolicyAt(w)'
    BY <1>1, EarlyPage
  <1>3. slot' \in Pending
    BY PageFacts DEF StorePending, Pending, PageChainAt
  <1> QED BY <1>1, <1>2, <1>3, PageStep DEF StorePending, IInv, TypeOK

LEMMA ReadPendingIInv ==
    ASSUME IInv, NEW w \in Window, ReadPending(w)
    PROVE  IInv'
  <1>1. slot \in Pending
    BY DEF ReadPending, IInv, TypeOK
  <1>2. /\ page' \in [Window -> PageRecord]
        /\ page'[w].step = "policy" /\ page'[w].pending = slot
        /\ \A v \in Window \ {w} : page'[v] = page[v]
    BY <1>1, PageFacts DEF ReadPending, PageRecord, Step
  <1>3. PageChainAt(w)' /\ PagePolicyAt(w)'
    BY <1>1, <1>2 DEF PageChainAt, PagePolicyAt, PastPolicy, Pending
  <1> QED BY <1>2, <1>3, PageStep DEF ReadPending, storageVars, IInv, TypeOK

LEMMA LoadPolicyIInv ==
    ASSUME IInv, NEW w \in Window, LoadPolicy(w)
    PROVE  IInv'
  <1>1. packaged \in Policy /\ packaged' = packaged
    BY DEF LoadPolicy, IInv, TypeOK, storageVars
  <1>2. /\ page' \in [Window -> PageRecord]
        /\ page'[w].step = "checking" /\ page'[w].policy = packaged
        /\ page'[w].pending = page[w].pending
        /\ \A v \in Window \ {w} : page'[v] = page[v]
    BY <1>1, PageFacts DEF LoadPolicy, PageRecord, Step
  <1>3. page[w].pending \in Pending
    BY PageFacts DEF LoadPolicy, AfterRead
  <1>4. PageChainAt(w)' /\ PagePolicyAt(w)'
    BY <1>1, <1>2, <1>3 DEF PageChainAt, PagePolicyAt, PastPolicy, Pending
  <1> QED BY <1>2, <1>4, PageStep DEF LoadPolicy, storageVars, IInv, TypeOK

LEMMA CheckPolicyIInv ==
    ASSUME IInv, NEW w \in Window, CheckPolicy(w)
    PROVE  IInv'
  <1>1. page[w].pending \in Pending /\ page[w].policy = packaged
    BY PageFacts DEF CheckPolicy, AfterRead, PagePolicyAt
  <1>2. PICK x \in {"storing", "failed"} :
          Goto(w, x) /\ (x = "storing" => NoRollback(packaged, accepted))
    BY <1>1 DEF CheckPolicy
  <1>3. /\ page' \in [Window -> PageRecord]
        /\ page'[w].step = x
        /\ page'[w].pending = page[w].pending /\ page'[w].policy = page[w].policy
        /\ \A v \in Window \ {w} : page'[v] = page[v]
    BY <1>2, GotoEffect, PageFacts DEF Step, Final
  <1>4. packaged' = packaged /\ accepted' = accepted
    BY DEF CheckPolicy, storageVars
  <1>5. PageChainAt(w)' /\ PagePolicyAt(w)'
    BY <1>1, <1>2, <1>3, <1>4 DEF PageChainAt, PagePolicyAt, PastPolicy, AfterRead, Pending, NoRollback
  <1> QED BY <1>3, <1>5, PageStep DEF CheckPolicy, storageVars, IInv, TypeOK

LEMMA DescriptorArrivesIInv ==
    ASSUME IInv, NEW w \in Window, DescriptorArrives(w)
    PROVE  IInv'
  <1>1. PageChainAt(w) /\ PagePolicyAt(w) /\ page[w].step = "descriptor"
    BY PageFacts DEF DescriptorArrives
  <1>2. PICK x \in {"ssh", "failed"} : Goto(w, x)
    BY DEF DescriptorArrives
  <1>3. /\ page' \in [Window -> PageRecord]
        /\ page'[w].step = x
        /\ page'[w].pending = page[w].pending /\ page'[w].policy = page[w].policy
        /\ \A v \in Window \ {w} : page'[v] = page[v]
    BY <1>2, GotoEffect, PageFacts DEF Step, PastPolicy, Final
  <1>4. UNCHANGED <<packaged, accepted, descriptors, runs, jobReports>>
    BY DEF DescriptorArrives, storageVars, apiVars
  <1>5. PageChainAt(w)' /\ PagePolicyAt(w)'
    BY <1>1, <1>3, <1>4 DEF PageChainAt, PagePolicyAt, PastPolicy, AfterRead
  <1> QED BY <1>3, <1>5, PageStep DEF DescriptorArrives, storageVars, IInv, TypeOK

LEMMA SshExitsIInv ==
    ASSUME IInv, NEW w \in Window, NEW exitCode, SshExits(w, exitCode)
    PROVE  IInv'
  <1>1. PageChainAt(w) /\ PagePolicyAt(w) /\ page[w].step = "running"
    BY PageFacts DEF SshExits
  <1>2. PICK x \in {"exited", "failed"} : Goto(w, x)
    BY DEF SshExits
  <1>3. /\ page' \in [Window -> PageRecord]
        /\ page'[w].step = x
        /\ page'[w].pending = page[w].pending /\ page'[w].policy = page[w].policy
        /\ \A v \in Window \ {w} : page'[v] = page[v]
    BY <1>2, GotoEffect, PageFacts DEF Step, PastPolicy, Final
  <1>4. UNCHANGED <<packaged, accepted, descriptors, runs, jobReports>>
    BY DEF SshExits, storageVars, apiVars
  <1>5. PageChainAt(w)' /\ PagePolicyAt(w)'
    BY <1>1, <1>3, <1>4 DEF PageChainAt, PagePolicyAt, PastPolicy, AfterRead
  <1> QED BY <1>3, <1>5, PageStep DEF SshExits, storageVars, IInv, TypeOK

LEMMA ReportSchedulerJobIInv ==
    ASSUME IInv, NEW w \in Window, ReportSchedulerJob(w)
    PROVE  IInv'
  <1>1. PageChainAt(w) /\ PagePolicyAt(w) /\ page[w].step = "exited"
    BY PageFacts DEF ReportSchedulerJob
  <1>2. PICK x \in {"posting", "failed"} : Goto(w, x)
    BY DEF ReportSchedulerJob
  <1>3. /\ page' \in [Window -> PageRecord]
        /\ page'[w].step = x
        /\ page'[w].pending = page[w].pending /\ page'[w].policy = page[w].policy
        /\ \A v \in Window \ {w} : page'[v] = page[v]
    BY <1>2, GotoEffect, PageFacts DEF Step, PastPolicy, Final
  <1>4. UNCHANGED <<packaged, accepted, descriptors, runs, jobReports>>
    BY DEF ReportSchedulerJob, storageVars, apiVars
  <1>5. PageChainAt(w)' /\ PagePolicyAt(w)'
    BY <1>1, <1>3, <1>4 DEF PageChainAt, PagePolicyAt, PastPolicy, AfterRead
  <1> QED BY <1>3, <1>5, PageStep DEF ReportSchedulerJob, storageVars, IInv, TypeOK

LEMMA ReportAnsweredIInv ==
    ASSUME IInv, NEW w \in Window, ReportAnswered(w)
    PROVE  IInv'
  <1>1. PageChainAt(w) /\ PagePolicyAt(w) /\ page[w].step = "answer"
    BY PageFacts DEF ReportAnswered
  <1>2. /\ page' \in [Window -> PageRecord]
        /\ page'[w].step = "completed"
        /\ page'[w].pending = page[w].pending
        /\ \A v \in Window \ {w} : page'[v] = page[v]
    BY GotoEffect, PageFacts DEF ReportAnswered, Step, PastPolicy, Final
  <1>3. UNCHANGED <<descriptors, runs, jobReports>>
    BY DEF ReportAnswered, apiVars
  <1>4. PageChainAt(w)' /\ PagePolicyAt(w)'
    BY <1>1, <1>2, <1>3 DEF PageChainAt, PagePolicyAt, PastPolicy, AfterRead
  <1> QED BY <1>2, <1>4, PageStep DEF ReportAnswered, storageVars, IInv, TypeOK

LEMMA FailsIInv ==
    ASSUME IInv, NEW w \in Window, Fails(w) \/ ApiRejects(w)
    PROVE  IInv'
  <1>1. /\ page' \in [Window -> PageRecord] /\ page'[w].step = "failed"
        /\ \A v \in Window \ {w} : page'[v] = page[v]
    BY GotoEffect, PageFacts DEF Fails, ApiRejects, Step, Final
  <1>2. PageChainAt(w)' /\ PagePolicyAt(w)'
    BY <1>1, EarlyPage
  <1> QED BY <1>1, <1>2, PageStep DEF Fails, ApiRejects, storageVars, IInv, TypeOK

LEMMA CloseIInv ==
    ASSUME IInv, NEW w \in Window, Close(w)
    PROVE  IInv'
  <1>1. NoPage \in PageRecord /\ NoPage.step = "none"
    BY DEF NoPage, PageRecord, Step
  <1>2. /\ page' \in [Window -> PageRecord] /\ page'[w] = NoPage
        /\ \A v \in Window \ {w} : page'[v] = page[v]
    BY <1>1, WriteEffect, PageFacts DEF Close
  <1>3. PageChainAt(w)' /\ PagePolicyAt(w)'
    BY <1>1, <1>2, EarlyPage
  <1> QED BY <1>2, <1>3, PageStep DEF Close, storageVars, IInv, TypeOK

LEMMA ReloadIInv ==
    ASSUME IInv, NEW w \in Window, Reload(w)
    PROVE  IInv'
  <1> DEFINE p == [NoPage EXCEPT !.step = "opening", !.launch = page[w].launch]
  <1>1. p \in PageRecord /\ p.step = "opening"
    BY PageFacts DEF NoPage, PageRecord, Step
  <1>2. page' = [page EXCEPT ![w] = p]
    BY DEF Reload
  <1> HIDE DEF p
  <1>3. /\ page' \in [Window -> PageRecord] /\ page'[w] = p
        /\ \A v \in Window \ {w} : page'[v] = page[v]
    BY <1>1, <1>2, WriteEffect, PageFacts
  <1>4. PageChainAt(w)' /\ PagePolicyAt(w)'
    BY <1>1, <1>3, EarlyPage
  <1>5. reloads' \in 0..MaxReloads
    BY SessionAssumption DEF Reload, IInv, TypeOK
  <1> QED BY <1>3, <1>4, <1>5, PageStep DEF Reload, storageVars, IInv, TypeOK

LEMMA StorePolicyIInv ==
    ASSUME IInv, NEW w \in Window, StorePolicy(w)
    PROVE  IInv'
  <1> DEFINE p == page[w].policy
  <1>1. /\ page[w].step = "storing" /\ page[w].pending \in Pending
        /\ p = packaged /\ packaged \in Policy
    BY PageFacts DEF StorePolicy, AfterRead, PagePolicyAt, IInv, TypeOK
  <1>2. /\ page' \in [Window -> PageRecord] /\ page'[w].step = "fetching"
        /\ page'[w].pending = page[w].pending /\ page'[w].policy = p
        /\ \A v \in Window \ {w} : page'[v] = page[v]
    BY GotoEffect, PageFacts DEF StorePolicy, Step, PastPolicy
  <1>3. accepted' = packaged /\ packaged' = packaged /\ UNCHANGED <<registryVars, apiVars>>
    BY <1>1 DEF StorePolicy
  <1>4. highest' \in [PolicyIds -> Nat]
    <2>1. p.sequence \in Nat /\ highest \in [PolicyIds -> Nat]
      BY <1>1, SessionAssumption DEF IInv, TypeOK
    <2> QED BY <2>1 DEF StorePolicy
  <1>5. TypeOK'
    BY <1>1, <1>2, <1>3, <1>4
    DEF StorePolicy, IInv, TypeOK, RegistryTypeOK, registryVars, apiVars, PageRecord
  <1>6. SingleUse' /\ CountedUses' /\ LaunchChain' /\ UploadChain'
    BY <1>3 DEF IInv, SingleUse, CountedUses, LaunchChain, UploadChain, registryVars, apiVars
  <1>7. ASSUME NEW v \in Window PROVE PageChainAt(v)' /\ PagePolicyAt(v)'
    <2>1. UNCHANGED <<descriptors, runs, jobReports>>
      BY <1>3 DEF apiVars
    <2>2. NoRollback(packaged, packaged)
      BY DEF NoRollback
    <2>3. CASE v = w
      BY <1>1, <1>2, <1>3, <2>3 DEF PageChainAt, PagePolicyAt, PastPolicy
    <2>4. CASE v # w
      <3>1. page'[v] = page[v] /\ PageChainAt(v) /\ PagePolicyAt(v)
        BY <1>2, <2>4, PageFacts
      <3>2. PageChainAt(v)'
        BY <2>1, <3>1 DEF PageChainAt
      <3>3. PagePolicyAt(v)'
        BY <1>3, <2>2, <3>1 DEF PagePolicyAt, NoRollback
      <3> QED BY <3>2, <3>3
    <2> QED BY <2>3, <2>4
  <1> QED BY <1>5, <1>6, <1>7 DEF IInv, PageChain, PagePolicy

LEMMA UpdateExtensionIInv ==
    ASSUME IInv, NEW p \in Policy, UpdateExtension(p)
    PROVE  IInv'
  <1>1. /\ page' \in [Window -> PageRecord]
        /\ \A w \in Window : page'[w].step = "none"
    BY DEF UpdateExtension, NoPage, PageRecord, Step
  <1>2. UNCHANGED <<registryVars, apiVars>>
    BY DEF UpdateExtension
  <1>3. updates' \in 0..MaxUpdates
    BY SessionAssumption DEF UpdateExtension, IInv, TypeOK
  <1>4. TypeOK'
    BY <1>1, <1>2, <1>3
    DEF UpdateExtension, IInv, TypeOK, RegistryTypeOK, registryVars, apiVars, PageRecord
  <1>5. SingleUse' /\ CountedUses' /\ LaunchChain' /\ UploadChain'
    BY <1>2 DEF IInv, SingleUse, CountedUses, LaunchChain, UploadChain, registryVars, apiVars
  <1>6. PageChain' /\ PagePolicy'
    BY <1>1, EarlyPage DEF PageChain, PagePolicy
  <1> QED BY <1>4, <1>5, <1>6 DEF IInv

LEMMA ApiDescriptorIInv ==
    ASSUME IInv, NEW w \in Window, ApiDescriptor(w)
    PROVE  IInv'
  <1> DEFINE s == page[w].pending.session
             t == <<"slaif.launch", s>>
  <1>1. /\ page[w].step = "fetching" /\ page[w].pending \in Pending /\ s \in Session
        /\ PagePolicyAt(w)
    BY PageFacts DEF ApiDescriptor, AfterRead, PastPolicy
  <1>2. t \in Token /\ ConsumeToken(t, ApiExpects("slaif.launch", s))
    BY <1>1, SessionTokens DEF ApiDescriptor, SessionOf
  <1>3. /\ RegistryTypeOK' /\ SingleUse'
        /\ records[t].used = 0 /\ records'[t].used = 1
        /\ \A x \in Token \ {t} : records'[x] = records[x]
    BY <1>2, ConsumeEffect DEF IInv, TypeOK
  <1>4. /\ page' \in [Window -> PageRecord] /\ page'[w].step = "descriptor"
        /\ page'[w].pending = page[w].pending /\ page'[w].policy = page[w].policy
        /\ \A v \in Window \ {w} : page'[v] = page[v]
    BY GotoEffect, PageFacts DEF ApiDescriptor, Step, PastPolicy
  <1>5. /\ descriptors' = [descriptors EXCEPT ![s] = @ + 1]
        /\ UNCHANGED <<api, uploads, jobReports, runs, storageVars, reloads>>
    BY DEF ApiDescriptor, SessionOf
  <1> HIDE DEF s
  <1>6. /\ descriptors \in [Session -> Nat] /\ descriptors' \in [Session -> Nat]
        /\ descriptors[s] = 0 /\ descriptors'[s] = 1
        /\ \A x \in Session \ {s} : descriptors'[x] = descriptors[x]
    <2>1. descriptors \in [Session -> Nat] /\ descriptors[s] <= records[t].used
      BY <1>1 DEF IInv, TypeOK, CountedUses
    <2>2. descriptors[s] = 0
      BY <1>1, <1>3, <2>1
    <2> QED BY <1>1, <1>5, <2>1, <2>2
  <1>7. TypeOK'
    BY <1>3, <1>4, <1>5, <1>6 DEF IInv, TypeOK, PageRecord, storageVars
  <1>8. CountedUses'
    <2> SUFFICES ASSUME NEW x \in Session
                 PROVE  /\ descriptors'[x] <= records'[<<"slaif.launch", x>>].used
                        /\ runs'[x] <= records'[<<"slaif.relay", x>>].used
                        /\ jobReports'[x] <= records'[<<"slaif.jobReport", x>>].used
      BY DEF CountedUses
    <2>1. records'[<<"slaif.relay", x>>] = records[<<"slaif.relay", x>>]
      BY <1>3, SessionTokens
    <2>2. records'[<<"slaif.jobReport", x>>] = records[<<"slaif.jobReport", x>>]
      BY <1>3, SessionTokens
    <2>3. x # s => records'[<<"slaif.launch", x>>] = records[<<"slaif.launch", x>>]
      BY <1>3, SessionTokens
    <2> QED BY <1>3, <1>5, <1>6, <2>1, <2>2, <2>3 DEF IInv, CountedUses
  <1>9. LaunchChain'
    BY <1>5, <1>6 DEF IInv, LaunchChain, TypeOK
  <1>10. UploadChain'
    BY <1>5 DEF IInv, UploadChain
  <1>11. PageChain' /\ PagePolicy'
    <2>1. \A x \in Session : /\ descriptors'[x] \in Nat /\ descriptors'[x] >= descriptors[x]
                             /\ runs'[x] \in Nat /\ runs'[x] >= runs[x]
                             /\ jobReports'[x] \in Nat /\ jobReports'[x] >= jobReports[x]
      BY <1>5, <1>6 DEF IInv, TypeOK
    <2>2. packaged' = packaged /\ accepted' = accepted
      BY <1>5 DEF storageVars
    <2>3. PageChainAt(w)' /\ PagePolicyAt(w)'
      BY <1>1, <1>4, <1>6, <2>2 DEF PageChainAt, PagePolicyAt, PastPolicy, s
    <2> QED BY <1>4, <2>1, <2>2, <2>3, OnePageChanges DEF IInv
  <1> QED BY <1>3, <1>7, <1>8, <1>9, <1>10, <1>11 DEF IInv

LEMMA RelayConnectIInv ==
    ASSUME IInv, NEW w \in Window, RelayConnect(w)
    PROVE  IInv'
  <1> DEFINE s == page[w].pending.session
             t == <<"slaif.relay", s>>
  <1>1. /\ page[w].step = "ssh" /\ page[w].pending \in Pending /\ s \in Session
        /\ PagePolicyAt(w) /\ descriptors[s] >= 1
    BY PageFacts DEF RelayConnect, AfterRead, PastPolicy, PageChainAt
  <1>2. t \in Token /\ ConsumeToken(t, RelayExpects)
    BY <1>1, SessionTokens DEF RelayConnect, SessionOf
  <1>3. /\ RegistryTypeOK' /\ SingleUse'
        /\ records[t].used = 0 /\ records'[t].used = 1
        /\ \A x \in Token \ {t} : records'[x] = records[x]
    BY <1>2, ConsumeEffect DEF IInv, TypeOK
  <1>4. /\ page' \in [Window -> PageRecord] /\ page'[w].step = "running"
        /\ page'[w].pending = page[w].pending /\ page'[w].policy = page[w].policy
        /\ \A v \in Window \ {w} : page'[v] = page[v]
    BY GotoEffect, PageFacts DEF RelayConnect, Step, PastPolicy
  <1>5. /\ runs' = [runs EXCEPT ![s] = @ + 1]
        /\ UNCHANGED <<api, uploads, jobReports, descriptors, storageVars, reloads>>
    BY DEF RelayConnect, SessionOf
  <1> HIDE DEF s
  <1>6. /\ runs \in [Session -> Nat] /\ runs' \in [Session -> Nat]
        /\ runs[s] = 0 /\ runs'[s] = 1
        /\ \A x \in Session \ {s} : runs'[x] = runs[x]
    <2>1. runs \in [Session -> Nat] /\ runs[s] <= records[t].used
      BY <1>1 DEF IInv, TypeOK, CountedUses
    <2>2. runs[s] = 0
      BY <1>1, <1>3, <2>1
    <2> QED BY <1>1, <1>5, <2>1, <2>2
  <1>7. TypeOK'
    BY <1>3, <1>4, <1>5, <1>6 DEF IInv, TypeOK, PageRecord, storageVars
  <1>8. CountedUses'
    <2> SUFFICES ASSUME NEW x \in Session
                 PROVE  /\ descriptors'[x] <= records'[<<"slaif.launch", x>>].used
                        /\ runs'[x] <= records'[<<"slaif.relay", x>>].used
                        /\ jobReports'[x] <= records'[<<"slaif.jobReport", x>>].used
      BY DEF CountedUses
    <2>1. records'[<<"slaif.launch", x>>] = records[<<"slaif.launch", x>>]
      BY <1>3, SessionTokens
    <2>2. records'[<<"slaif.jobReport", x>>] = records[<<"slaif.jobReport", x>>]
      BY <1>3, SessionTokens
    <2>3. x # s => records'[<<"slaif.relay", x>>] = records[<<"slaif.relay", x>>]
      BY <1>3, SessionTokens
    <2> QED BY <1>3, <1>5, <1>6, <2>1, <2>2, <2>3 DEF IInv, CountedUses
  <1>9. LaunchChain'
    BY <1>1, <1>5, <1>6 DEF IInv, LaunchChain, TypeOK
  <1>10. UploadChain'
    BY <1>5, <1>6 DEF IInv, UploadChain, TypeOK
  <1>11. PageChain' /\ PagePolicy'
    <2>1. \A x \in Session : /\ descriptors'[x] \in Nat /\ descriptors'[x] >= descriptors[x]
                             /\ runs'[x] \in Nat /\ runs'[x] >= runs[x]
                             /\ jobReports'[x] \in Nat /\ jobReports'[x] >= jobReports[x]
      BY <1>5, <1>6 DEF IInv, TypeOK
    <2>2. packaged' = packaged /\ accepted' = accepted
      BY <1>5 DEF storageVars
    <2>3. PageChainAt(w)' /\ PagePolicyAt(w)'
      BY <1>1, <1>4, <1>6, <2>2 DEF PageChainAt, PagePolicyAt, PastPolicy, s
    <2> QED BY <1>4, <2>1, <2>2, <2>3, OnePageChanges DEF IInv
  <1> QED BY <1>3, <1>7, <1>8, <1>9, <1>10, <1>11 DEF IInv

LEMMA RelayConnectFailsIInv ==
    ASSUME IInv, NEW w \in Window, RelayConnectFails(w)
    PROVE  IInv'
  <1> DEFINE s == page[w].pending.session
             t == <<"slaif.relay", s>>
  <1>1. page[w].step = "ssh" /\ s \in Session
    BY PageFacts DEF RelayConnectFails, AfterRead, PastPolicy
  <1>2. t \in Token /\ ConsumeToken(t, RelayExpects)
    BY <1>1, SessionTokens DEF RelayConnectFails, SessionOf
  <1>3. /\ RegistryTypeOK' /\ SingleUse'
        /\ records[t].used = 0 /\ records'[t].used = 1
        /\ \A x \in Token \ {t} : records'[x] = records[x]
    BY <1>2, ConsumeEffect DEF IInv, TypeOK
  <1>4. /\ page' \in [Window -> PageRecord] /\ page'[w].step = "failed"
        /\ \A v \in Window \ {w} : page'[v] = page[v]
    BY GotoEffect, PageFacts DEF RelayConnectFails, Step, Final
  <1>5. UNCHANGED <<apiVars, storageVars, reloads>>
    BY DEF RelayConnectFails
  <1> HIDE DEF s
  <1>6. TypeOK'
    BY <1>3, <1>4, <1>5 DEF IInv, TypeOK, PageRecord, storageVars, apiVars
  <1>7. CountedUses'
    <2> SUFFICES ASSUME NEW x \in Session
                 PROVE  /\ descriptors'[x] <= records'[<<"slaif.launch", x>>].used
                        /\ runs'[x] <= records'[<<"slaif.relay", x>>].used
                        /\ jobReports'[x] <= records'[<<"slaif.jobReport", x>>].used
      BY DEF CountedUses
    <2>1. records'[<<"slaif.launch", x>>] = records[<<"slaif.launch", x>>]
      BY <1>3, SessionTokens
    <2>2. records'[<<"slaif.jobReport", x>>] = records[<<"slaif.jobReport", x>>]
      BY <1>3, SessionTokens
    <2>3. x # s => records'[<<"slaif.relay", x>>] = records[<<"slaif.relay", x>>]
      BY <1>3, SessionTokens
    <2>4. /\ runs[x] \in Nat /\ runs[x] <= records[<<"slaif.relay", x>>].used
          /\ descriptors[x] <= records[<<"slaif.launch", x>>].used
          /\ jobReports[x] <= records[<<"slaif.jobReport", x>>].used
      BY DEF IInv, TypeOK, CountedUses
    <2>5. runs[x] <= records'[<<"slaif.relay", x>>].used
      BY <1>3, <2>3, <2>4
    <2> QED BY <1>5, <2>1, <2>2, <2>4, <2>5 DEF apiVars
  <1>8. LaunchChain' /\ UploadChain'
    BY <1>5 DEF IInv, LaunchChain, UploadChain, apiVars
  <1>9. PageChain' /\ PagePolicy'
    <2>1. \A x \in Session : /\ descriptors'[x] \in Nat /\ descriptors'[x] >= descriptors[x]
                             /\ runs'[x] \in Nat /\ runs'[x] >= runs[x]
                             /\ jobReports'[x] \in Nat /\ jobReports'[x] >= jobReports[x]
      BY <1>5 DEF IInv, TypeOK, apiVars
    <2>2. packaged' = packaged /\ accepted' = accepted
      BY <1>5 DEF storageVars
    <2>3. PageChainAt(w)' /\ PagePolicyAt(w)'
      BY <1>4, EarlyPage
    <2> QED BY <1>4, <2>1, <2>2, <2>3, OnePageChanges DEF IInv
  <1> QED BY <1>3, <1>6, <1>7, <1>8, <1>9 DEF IInv

LEMMA ApiReportIInv ==
    ASSUME IInv, NEW w \in Window, ApiReport(w)
    PROVE  IInv'
  <1> DEFINE s == page[w].pending.session
  <1>1. /\ page[w].step = "posting" /\ page[w].pending \in Pending /\ s \in Session
        /\ PagePolicyAt(w) /\ runs[s] >= 1
    BY PageFacts DEF ApiReport, AfterRead, PastPolicy, PageChainAt
  <1>2. /\ page' \in [Window -> PageRecord] /\ page'[w].step = "reading"
        /\ page'[w].pending = page[w].pending /\ page'[w].policy = page[w].policy
        /\ \A v \in Window \ {w} : page'[v] = page[v]
    BY GotoEffect, PageFacts DEF ApiReport, Step, PastPolicy
  <1>3. /\ uploads' = uploads \cup {[window |-> w, session |-> s]}
        /\ UNCHANGED <<registryVars, api, jobReports, descriptors, runs, storageVars, reloads>>
    BY DEF ApiReport, SessionOf
  <1>4. TypeOK'
    BY <1>1, <1>2, <1>3 DEF IInv, TypeOK, RegistryTypeOK, PageRecord, storageVars, registryVars
  <1>5. SingleUse' /\ CountedUses' /\ LaunchChain'
    BY <1>3 DEF IInv, SingleUse, CountedUses, LaunchChain, registryVars
  <1>6. UploadChain'
    BY <1>1, <1>3 DEF IInv, UploadChain
  <1>7. PageChain' /\ PagePolicy'
    <2>1. \A x \in Session : /\ descriptors'[x] \in Nat /\ descriptors'[x] >= descriptors[x]
                             /\ runs'[x] \in Nat /\ runs'[x] >= runs[x]
                             /\ jobReports'[x] \in Nat /\ jobReports'[x] >= jobReports[x]
      BY <1>3 DEF IInv, TypeOK
    <2>2. packaged' = packaged /\ accepted' = accepted /\ runs' = runs
      BY <1>3 DEF storageVars
    <2>3. PageChainAt(w)' /\ PagePolicyAt(w)'
      BY <1>1, <1>2, <2>2 DEF PageChainAt, PagePolicyAt, PastPolicy
    <2> QED BY <1>2, <2>1, <2>2, <2>3, OnePageChanges DEF IInv
  <1> QED BY <1>4, <1>5, <1>6, <1>7 DEF IInv

(* What the end of an upload does to the page that may be waiting for it.  *)
LEMMA UploadPage ==
    ASSUME IInv, NEW u \in uploads, NEW x \in Step,
           page' = [page EXCEPT ![u.window].step = IF Waits(u) THEN x ELSE @]
    PROVE  /\ u.window \in Window /\ u.session \in Session
           /\ page' \in [Window -> PageRecord]
           /\ \A v \in Window \ {u.window} : page'[v] = page[v]
           /\ ~Waits(u) => page'[u.window] = page[u.window]
           /\ Waits(u) => /\ page[u.window].step = "reading"
                          /\ page[u.window].pending.session = u.session
                          /\ page'[u.window].step = x
                          /\ page'[u.window].pending = page[u.window].pending
                          /\ page'[u.window].policy = page[u.window].policy
  <1>1. u.window \in Window /\ u.session \in Session
    BY DEF IInv, TypeOK
  <1>2. page \in [Window -> PageRecord]
    BY <1>1, PageFacts
  <1>3. CASE Waits(u)
    BY <1>1, <1>2, <1>3 DEF Waits, PageRecord
  <1>4. CASE ~Waits(u)
    BY <1>1, <1>2, <1>4 DEF PageRecord
  <1> QED BY <1>1, <1>3, <1>4

LEMMA UploadEndsIInv ==
    ASSUME IInv, NEW u \in uploads, UploadEnds(u)
    PROVE  IInv'
  <1> DEFINE s == u.session
             w == u.window
             t == <<"slaif.jobReport", s>>
  <1>1. /\ w \in Window /\ s \in Session /\ page' \in [Window -> PageRecord]
        /\ \A v \in Window \ {w} : page'[v] = page[v]
        /\ ~Waits(u) => page'[w] = page[w]
        /\ Waits(u) => /\ page[w].step = "reading" /\ page[w].pending.session = s
                       /\ page'[w].step = "answer" /\ page'[w].pending = page[w].pending
                       /\ page'[w].policy = page[w].policy
    BY UploadPage DEF UploadEnds, Step, PastPolicy
  <1>2. t \in Token /\ ConsumeToken(t, ApiExpects("slaif.jobReport", s))
    BY <1>1, SessionTokens DEF UploadEnds
  <1>3. /\ RegistryTypeOK' /\ SingleUse'
        /\ records[t].used = 0 /\ records'[t].used = 1
        /\ \A x \in Token \ {t} : records'[x] = records[x]
    BY <1>2, ConsumeEffect DEF IInv, TypeOK
  <1>4. /\ jobReports' = [jobReports EXCEPT ![s] = @ + 1]
        /\ uploads' = uploads \ {u}
        /\ UNCHANGED <<api, descriptors, runs, storageVars, reloads>>
    BY DEF UploadEnds
  <1>5. runs[s] >= 1
    BY DEF IInv, UploadChain
  <1>6. /\ jobReports \in [Session -> Nat] /\ jobReports' \in [Session -> Nat]
        /\ jobReports[s] = 0 /\ jobReports'[s] = 1
        /\ \A x \in Session \ {s} : jobReports'[x] = jobReports[x]
    <2>1. jobReports \in [Session -> Nat] /\ jobReports[s] <= records[t].used
      BY <1>1 DEF IInv, TypeOK, CountedUses
    <2>2. jobReports[s] = 0
      BY <1>1, <1>3, <2>1
    <2> QED BY <1>1, <1>4, <2>1, <2>2
  <1> HIDE DEF s, w
  <1>7. TypeOK'
    BY <1>1, <1>3, <1>4, <1>6 DEF IInv, TypeOK, PageRecord, storageVars
  <1>8. CountedUses'
    <2> SUFFICES ASSUME NEW x \in Session
                 PROVE  /\ descriptors'[x] <= records'[<<"slaif.launch", x>>].used
                        /\ runs'[x] <= records'[<<"slaif.relay", x>>].used
                        /\ jobReports'[x] <= records'[<<"slaif.jobReport", x>>].used
      BY DEF CountedUses
    <2>1. records'[<<"slaif.launch", x>>] = records[<<"slaif.launch", x>>]
      BY <1>3, SessionTokens
    <2>2. records'[<<"slaif.relay", x>>] = records[<<"slaif.relay", x>>]
      BY <1>3, SessionTokens
    <2>3. x # s => records'[<<"slaif.jobReport", x>>] = records[<<"slaif.jobReport", x>>]
      BY <1>3, SessionTokens
    <2> QED BY <1>3, <1>4, <1>6, <2>1, <2>2, <2>3 DEF IInv, CountedUses
  <1>9. LaunchChain'
    BY <1>4, <1>5, <1>6 DEF IInv, LaunchChain, TypeOK
  <1>10. UploadChain'
    BY <1>4 DEF IInv, UploadChain
  <1>11. PageChain' /\ PagePolicy'
    <2>1. \A x \in Session : /\ descriptors'[x] \in Nat /\ descriptors'[x] >= descriptors[x]
                             /\ runs'[x] \in Nat /\ runs'[x] >= runs[x]
                             /\ jobReports'[x] \in Nat /\ jobReports'[x] >= jobReports[x]
      BY <1>4, <1>6 DEF IInv, TypeOK
    <2>2. packaged' = packaged /\ accepted' = accepted /\ UNCHANGED <<descriptors, runs>>
      BY <1>4 DEF storageVars
    <2>3. PageChainAt(w) /\ PagePolicyAt(w)
      BY <1>1, PageFacts
    <2>4. CASE Waits(u)
      <3>1. PageChainAt(w)' /\ PagePolicyAt(w)'
        BY <1>1, <1>6, <2>2, <2>3, <2>4 DEF PageChainAt, PagePolicyAt, PastPolicy, AfterRead
      <3> QED BY <1>1, <2>1, <2>2, <3>1, OnePageChanges DEF IInv
    <2>5. CASE ~Waits(u)
      <3>1. page[w].step \in {"answer", "completed"} => page[w].pending.session \in Session
        BY <2>3 DEF PageChainAt, AfterRead, PastPolicy, Pending
      <3>2. page'[w] = page[w]
        BY <1>1, <2>5
      <3>3. PageChainAt(w)'
        BY <1>6, <2>1, <2>2, <2>3, <3>1, <3>2 DEF PageChainAt
      <3>4. PagePolicyAt(w)'
        BY <2>2, <2>3, <3>2 DEF PagePolicyAt, NoRollback
      <3> QED BY <1>1, <2>1, <2>2, <3>3, <3>4, OnePageChanges DEF IInv
    <2> QED BY <2>4, <2>5
  <1> QED BY <1>3, <1>7, <1>8, <1>9, <1>10, <1>11 DEF IInv

LEMMA UploadThrowsIInv ==
    ASSUME IInv, NEW u \in uploads, UploadThrows(u)
    PROVE  IInv'
  <1> DEFINE w == u.window
  <1>1. /\ w \in Window /\ u.session \in Session /\ page' \in [Window -> PageRecord]
        /\ \A v \in Window \ {w} : page'[v] = page[v]
        /\ ~Waits(u) => page'[w] = page[w]
        /\ Waits(u) => page'[w].step = "failed"
    BY UploadPage DEF UploadThrows, Step, Final
  <1>2. /\ api' = [api EXCEPT ![u.session] = "crashed"]
        /\ uploads' \subseteq uploads
        /\ UNCHANGED <<registryVars, jobReports, descriptors, runs, storageVars, reloads>>
    BY DEF UploadThrows
  <1> HIDE DEF w
  <1>3. TypeOK'
    BY <1>1, <1>2 DEF IInv, TypeOK, RegistryTypeOK, PageRecord, storageVars, registryVars
  <1>4. SingleUse' /\ CountedUses' /\ LaunchChain' /\ UploadChain'
    BY <1>2 DEF IInv, SingleUse, CountedUses, LaunchChain, UploadChain, registryVars
  <1>5. PageChain' /\ PagePolicy'
    <2>1. \A x \in Session : /\ descriptors'[x] \in Nat /\ descriptors'[x] >= descriptors[x]
                             /\ runs'[x] \in Nat /\ runs'[x] >= runs[x]
                             /\ jobReports'[x] \in Nat /\ jobReports'[x] >= jobReports[x]
      BY <1>2 DEF IInv, TypeOK
    <2>2. UNCHANGED <<packaged, accepted, descriptors, runs, jobReports>>
      BY <1>2 DEF storageVars
    <2>3. PageChainAt(w) /\ PagePolicyAt(w)
      BY <1>1, PageFacts
    <2>4. PageChainAt(w)' /\ PagePolicyAt(w)'
      <3>1. CASE Waits(u)
        BY <1>1, <3>1, EarlyPage
      <3>2. CASE ~Waits(u)
        BY <1>1, <2>2, <2>3, <3>2 DEF PageChainAt, PagePolicyAt, NoRollback
      <3> QED BY <3>1, <3>2
    <2> QED BY <1>1, <2>1, <2>2, <2>4, OnePageChanges DEF IInv
  <1> QED BY <1>3, <1>4, <1>5 DEF IInv

LEMMA UploadAbortedIInv ==
    ASSUME IInv, NEW u \in uploads, UploadAborted(u)
    PROVE  IInv'
  <1>1. /\ uploads' \subseteq uploads
        /\ UNCHANGED <<registryVars, extensionVars, api, jobReports, descriptors, runs>>
    BY DEF UploadAborted
  <1>2. TypeOK'
    BY <1>1 DEF IInv, TypeOK, RegistryTypeOK, extensionVars, storageVars, registryVars
  <1>3. SingleUse' /\ CountedUses' /\ LaunchChain' /\ UploadChain'
    BY <1>1 DEF IInv, SingleUse, CountedUses, LaunchChain, UploadChain, registryVars
  <1>4. PageChain' /\ PagePolicy'
    BY <1>1 DEF IInv, PageChain, PageChainAt, PagePolicy, PagePolicyAt, NoRollback,
                extensionVars, storageVars
  <1> QED BY <1>2, <1>3, <1>4 DEF IInv

LEMMA TickIInv ==
    ASSUME IInv, Tick, UNCHANGED <<extensionVars, apiVars>>
    PROVE  IInv'
  <1>1. TypeOK'
    BY DEF Tick, IInv, TypeOK, RegistryTypeOK, extensionVars, storageVars, apiVars
  <1>2. SingleUse' /\ CountedUses' /\ LaunchChain' /\ UploadChain'
    BY DEF Tick, IInv, SingleUse, CountedUses, LaunchChain, UploadChain, apiVars
  <1>3. PageChain' /\ PagePolicy'
    BY DEF IInv, PageChain, PageChainAt, PagePolicy, PagePolicyAt, NoRollback,
           extensionVars, storageVars, apiVars
  <1> QED BY <1>1, <1>2, <1>3 DEF IInv

LEMMA StutterIInv == ASSUME IInv, UNCHANGED vars PROVE IInv'
  <1>1. TypeOK'
    BY DEF vars, IInv, TypeOK, RegistryTypeOK, extensionVars, storageVars, apiVars, registryVars
  <1>2. SingleUse' /\ CountedUses' /\ LaunchChain' /\ UploadChain'
    BY DEF vars, IInv, SingleUse, CountedUses, LaunchChain, UploadChain, apiVars, registryVars
  <1>3. PageChain' /\ PagePolicy'
    BY DEF vars, IInv, PageChain, PageChainAt, PagePolicy, PagePolicyAt, NoRollback,
           extensionVars, storageVars, apiVars
  <1> QED BY <1>1, <1>2, <1>3 DEF IInv

LEMMA NextIInv == IInv /\ [Next]_vars => IInv'
  <1> SUFFICES ASSUME IInv, [Next]_vars PROVE IInv' OBVIOUS
  <1>1. ASSUME NEW w \in Window, NEW s \in Session, LaunchMessage(w, s) PROVE IInv'
    BY <1>1, LaunchMessageIInv
  <1>2. ASSUME NEW w \in Window, StorePending(w) PROVE IInv'
    BY <1>2, StorePendingIInv
  <1>3. ASSUME NEW w \in Window, ReadPending(w) PROVE IInv'
    BY <1>3, ReadPendingIInv
  <1>4. ASSUME NEW w \in Window, LoadPolicy(w) PROVE IInv'
    BY <1>4, LoadPolicyIInv
  <1>5. ASSUME NEW w \in Window, CheckPolicy(w) PROVE IInv'
    BY <1>5, CheckPolicyIInv
  <1>6. ASSUME NEW w \in Window, StorePolicy(w) PROVE IInv'
    BY <1>6, StorePolicyIInv
  <1>7. ASSUME NEW w \in Window, ApiDescriptor(w) PROVE IInv'
    BY <1>7, ApiDescriptorIInv
  <1>8. ASSUME NEW w \in Window, DescriptorArrives(w) PROVE IInv'
    BY <1>8, DescriptorArrivesIInv
  <1>9. ASSUME NEW w \in Window, RelayConnect(w) PROVE IInv'
    BY <1>9, RelayConnectIInv
  <1>10. ASSUME NEW w \in Window, RelayConnectFails(w) PROVE IInv'
    BY <1>10, RelayConnectFailsIInv
  <1>11. ASSUME NEW w \in Window, NEW exitCode \in {0, 1}, SshExits(w, exitCode) PROVE IInv'
    BY <1>11, SshExitsIInv
  <1>12. ASSUME NEW w \in Window, ApiReport(w) PROVE IInv'
    BY <1>12, ApiReportIInv
  <1>13. ASSUME NEW w \in Window, ReportAnswered(w) PROVE IInv'
    BY <1>13, ReportAnsweredIInv
  <1>14. ASSUME NEW w \in Window, ApiRejects(w) \/ Fails(w) PROVE IInv'
    BY <1>14, FailsIInv
  <1>15. ASSUME NEW w \in Window, Close(w) PROVE IInv'
    BY <1>15, CloseIInv
  <1>16. ASSUME NEW w \in Window, Reload(w) PROVE IInv'
    BY <1>16, ReloadIInv
  <1>17. ASSUME NEW u \in uploads, UploadEnds(u) PROVE IInv'
    BY <1>17, UploadEndsIInv
  <1>18. ASSUME NEW u \in uploads, UploadThrows(u) PROVE IInv'
    BY <1>18, UploadThrowsIInv
  <1>19. ASSUME NEW u \in uploads, UploadAborted(u) PROVE IInv'
    BY <1>19, UploadAbortedIInv
  <1>20. ASSUME NEW p \in Policy, UpdateExtension(p) PROVE IInv'
    BY <1>20, UpdateExtensionIInv
  <1>21. CASE Tick /\ UNCHANGED <<extensionVars, apiVars>>
    BY <1>21, TickIInv
  <1>22. CASE UNCHANGED vars
    BY <1>22, StutterIInv
  <1>23. ASSUME NEW w \in Window, ReportSchedulerJob(w) PROVE IInv'
    BY <1>23, ReportSchedulerJobIInv
  <1> QED
    BY <1>1, <1>2, <1>3, <1>4, <1>5, <1>6, <1>7, <1>8, <1>9, <1>10, <1>11, <1>12, <1>13,
       <1>14, <1>15, <1>16, <1>17, <1>18, <1>19, <1>20, <1>21, <1>22, <1>23 DEF Next

-----------------------------------------------------------------------------
LEMMA Invariance == Spec => []IInv
  BY InitIInv, NextIInv, PTL DEF Spec

(* The slot, the stored policy, the pages and the API only ever hold what  *)
(* the code puts there.                                                    *)
THEOREM LaunchTypeCorrect == Spec => []TypeOK
  <1>1. IInv => TypeOK BY DEF IInv
  <1> QED BY <1>1, Invariance, PTL

(* However many windows race, reload and retry, a session gets at most one *)
(* descriptor, one SSH connection after it and one job report after that.  *)
THEOREM SessionRunsOnce == Spec => []LaunchChain
  <1>1. IInv => LaunchChain BY DEF IInv
  <1> QED BY <1>1, Invariance, PTL

(* A page whose main() has ended with the status "completed" has its job   *)
(* report recorded by the API.                                             *)
THEOREM CompletionMeansReport == Spec => []SettledIsReported
  <1>1. IInv => SettledIsReported
    <2> SUFFICES ASSUME IInv, NEW w \in Window, page[w].step = "completed"
                 PROVE  jobReports[page[w].pending.session] = 1
      BY DEF SettledIsReported, SessionOf
    <2>1. page[w].pending.session \in Session
      BY PageFacts DEF AfterRead
    <2>2. jobReports[page[w].pending.session] >= 1
      BY PageFacts DEF PageChainAt
    <2> QED BY <2>1, <2>2 DEF IInv, TypeOK, LaunchChain
  <1> QED BY <1>1, Invariance, PTL

(* Every page past the policy check runs under the policy on record.       *)
THEOREM PagesUsePolicyOfRecord == Spec => []PolicyOfRecord
  <1>1. IInv => PolicyOfRecord
    BY DEF IInv, PolicyOfRecord, PagePolicy, PagePolicyAt
  <1> QED BY <1>1, Invariance, PTL

(* rememberProductionPolicy checks and writes in two steps, yet no two     *)
(* pages can bring the record of a policyId to a lower or reused sequence. *)
THEOREM PolicyNeverRollsBack == Spec => AcceptedMonotone
  <1> DEFINE Step1 == accepted # None /\ accepted' # accepted
                        /\ accepted'.policyId = accepted.policyId
                      => accepted'.sequence > accepted.sequence
  <1>1. ASSUME IInv, [Next]_vars PROVE [Step1]_accepted
    <2>1. ASSUME NEW w \in Window, StorePolicy(w) PROVE Step1
      <3>1. /\ accepted' = packaged /\ packaged \in Policy /\ accepted \in Policy \cup {None}
            /\ NoRollback(packaged, accepted)
        BY <1>1, <2>1, PageFacts DEF StorePolicy, PagePolicyAt, IInv, TypeOK
      <3>2. \A p \in Policy : p.sequence \in Nat
        BY SessionAssumption
      <3>3. \A p, q \in Policy : p.fingerprint = q.fingerprint => p = q
        BY SessionAssumption
      <3> QED BY <3>1, <3>2, <3>3 DEF NoRollback
    <2>2. ASSUME NEW w \in Window, NEW s \in Session, LaunchMessage(w, s) PROVE accepted' = accepted
      BY <2>2 DEF LaunchMessage, storageVars
    <2>3. ASSUME NEW w \in Window,
                 \/ StorePending(w) \/ ReadPending(w) \/ LoadPolicy(w) \/ CheckPolicy(w)
                 \/ ApiDescriptor(w) \/ DescriptorArrives(w) \/ RelayConnect(w)
                 \/ RelayConnectFails(w) \/ (\E exitCode \in {0, 1} : SshExits(w, exitCode))
                 \/ ReportSchedulerJob(w) \/ ApiReport(w) \/ ReportAnswered(w) \/ ApiRejects(w)
                 \/ Fails(w) \/ Close(w) \/ Reload(w)
          PROVE  accepted' = accepted
      BY <2>3 DEF StorePending, ReadPending, LoadPolicy, CheckPolicy, ApiDescriptor,
                  DescriptorArrives, RelayConnect, RelayConnectFails, SshExits, ReportSchedulerJob,
                  ApiReport, ReportAnswered, ApiRejects, Fails, Close, Reload, storageVars
    <2>4. ASSUME NEW u \in uploads, UploadEnds(u) \/ UploadThrows(u) \/ UploadAborted(u)
          PROVE  accepted' = accepted
      BY <2>4 DEF UploadEnds, UploadThrows, UploadAborted, extensionVars, storageVars
    <2>5. ASSUME NEW p \in Policy, UpdateExtension(p) PROVE accepted' = accepted
      BY <2>5 DEF UpdateExtension
    <2>6. CASE (Tick /\ UNCHANGED <<extensionVars, apiVars>>) \/ UNCHANGED vars
      BY <2>6 DEF vars, extensionVars, storageVars
    <2> QED BY <1>1, <2>1, <2>2, <2>3, <2>4, <2>5, <2>6 DEF Next
  <1> QED BY <1>1, Invariance, PTL DEF Spec, AcceptedMonotone
=============================================================================
