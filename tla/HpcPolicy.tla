------------------------------ MODULE HpcPolicy ------------------------------
(***************************************************************************)
(* The checks the extension makes of a signed HPC policy and of the URLs,  *)
(* hosts and payloads of a launch: extension/js/slaif_policy.js,           *)
(* slaif_policy_signature.js, payload_catalog.js and the URL checks of     *)
(* slaif_session_descriptor.js.  An operator holds when its function       *)
(* returns and is false when it throws.                                    *)
(*                                                                         *)
(* Field patterns that a single line checks (names, versions, ports,       *)
(* forbidden fields) are one flag per object, `wellFormed`.                *)
(***************************************************************************)
EXTENDS Integers, Sequences

CONSTANTS Alias, PayloadId, ChatPayload,
          Site,           \* host names that are not this machine
          Key             \* policy signing keys

LocalHosts == {"127.0.0.1", "localhost"}

(* https or wss (secure), http or ws (not).                                *)
Origin == [secure: BOOLEAN, host: Site \cup LocalHosts]

Definition == [type: {"fast_diagnostic", "interactive_llm"}, gpu: BOOLEAN, outbound: BOOLEAN,
               wellFormed: BOOLEAN]

Host == [keyAlias: Alias, knownHosts: {"keys", "placeholder"}, command: {"session", "fixed"},
         pilotFixed: BOOLEAN,          \* pilotFixedCommand and developmentOnly
         payloads: SUBSET PayloadId, wellFormed: BOOLEAN]

(* `legacy` stands for a payload whose type is not slaif.hpcPolicy: its    *)
(* one relay URL and one API base are `relays` and `apis`.                 *)
Policy == [legacy: BOOLEAN, development: BOOLEAN, pilot: BOOLEAN, wellFormed: BOOLEAN,
           validFrom: Int, validUntil: Int,
           apis: Seq(Origin), relays: SUBSET Origin,
           catalog: UNION {[d -> Definition] : d \in SUBSET PayloadId},
           hosts: UNION {[d -> Host] : d \in SUBSET Alias}]

(* An envelope names a key; `signer` is the key that really signed it.     *)
Envelope == [keyId: Key, signer: Key, payload: Policy]

ASSUME PolicyAssumption == Site \cap LocalHosts = {} /\ ChatPayload \in PayloadId

-----------------------------------------------------------------------------
(* verifySignedPolicyEnvelope.                                             *)
VerifySignedPolicyEnvelope(e, trustRoots) == e.keyId \in trustRoots /\ e.signer = e.keyId

AssertOrigin(o, allowLocalDev) == o.secure \/ (allowLocalDev /\ o.host = "127.0.0.1")

(* validatePayloadCatalog.  The type of a definition is not tied to its    *)
(* payload id.                                                             *)
ValidatePayloadDefinition(id, d) ==
    /\ d.wellFormed
    /\ d.type = "interactive_llm" => d.outbound /\ (id = ChatPayload => d.gpu)
ValidatePayloadCatalog(catalog) ==
    /\ DOMAIN catalog # {}
    /\ \A id \in DOMAIN catalog : ValidatePayloadDefinition(id, catalog[id])

ValidateHostPayloadRefs(host, catalog) ==
    ValidatePayloadCatalog(catalog) /\ host.payloads # {} /\ host.payloads \subseteq DOMAIN catalog

ValidatePolicyHost(alias, host, allowPilotFixedCommand) ==
    /\ host.wellFormed
    /\ host.keyAlias = alias
    /\ host.command = "session" \/ (allowPilotFixedCommand /\ host.pilotFixed)

ValidateSignedPolicyPayload(p, allowLocalDev, now) ==
    /\ p.wellFormed
    /\ p.validFrom < p.validUntil /\ p.validFrom <= now /\ now < p.validUntil
    /\ p.apis # <<>> /\ \A n \in DOMAIN p.apis : AssertOrigin(p.apis[n], allowLocalDev)
    /\ p.relays # {} /\ \A o \in p.relays : AssertOrigin(o, allowLocalDev)
    /\ DOMAIN p.hosts # {}
    /\ ValidatePayloadCatalog(p.catalog)
    /\ \A a \in DOMAIN p.hosts :
          /\ ValidatePolicyHost(a, p.hosts[a], allowLocalDev /\ p.pilot)
          /\ ValidateHostPayloadRefs(p.hosts[a], p.catalog)

(* validatePolicy: a policy may declare itself a development policy.       *)
ValidatePolicy(p, allowLocalDev, now) ==
    IF ~p.legacy THEN ValidateSignedPolicyPayload(p, allowLocalDev \/ p.development, now)
    ELSE /\ \A o \in p.relays : o.secure \/ (p.development /\ o.host \in LocalHosts)
         /\ \A a \in DOMAIN p.hosts : ValidatePolicyHost(a, p.hosts[a], FALSE)

-----------------------------------------------------------------------------
RequireKnownHpcAlias(p, alias) == alias \in DOMAIN p.hosts

ResolveAllowedPayload(p, alias, id) ==
    /\ alias \in DOMAIN p.hosts
    /\ ValidateHostPayloadRefs(p.hosts[alias], p.catalog)
    /\ id \in p.hosts[alias].payloads

PolicyAllowsApiBaseUrl_Development(p, o, allowLocalDev) ==
    (\E n \in DOMAIN p.apis : p.apis[n] = o) /\ AssertOrigin(o, allowLocalDev \/ p.development)
PolicyAllowsApiBaseUrl(p, o, allowLocalDev) ==
    IF p.legacy THEN o.secure \/ (allowLocalDev /\ o.host \in LocalHosts)
    ELSE (\E n \in DOMAIN p.apis : p.apis[n] = o) /\ AssertOrigin(o, allowLocalDev)

PolicyAllowsRelayUrl(p, o, allowLocalDev) ==
    o \in p.relays /\ (p.legacy \/ AssertOrigin(o, allowLocalDev))

(* validateRelayUrl, and the check in buildDescriptorFetchRequest.         *)
ValidateRelayUrl(o, allowLocalDev) == o.secure \/ (allowLocalDev /\ o.host \in LocalHosts)
FetchAllows(o) == o.secure \/ o.host \in LocalHosts

(* requireLaunchableKnownHosts.                                            *)
RequireLaunchableKnownHosts(host) == host.knownHosts = "keys"
=============================================================================
