-------------------------- MODULE MCPageAdmission --------------------------
(***************************************************************************)
(* PageAdmission with two HPC hosts, production policies of every kind     *)
(* that validatePolicy tells apart, two development stacks, one of them    *)
(* with an expired policy, and two pilot stacks, one of them with a legacy *)
(* policy and on the name localhost.                                       *)
(***************************************************************************)
EXTENDS PageAdmission, TLC

CONSTANTS s1, s2, hpc, lab, cpu, chat, slaif, elsewhere, prodKey, devKey, pilotKey

Secure(host) == [secure |-> TRUE, host |-> host]
Plain(host) == [secure |-> FALSE, host |-> host]

MCWebOrigins == {Secure(slaif)}
MCSenderOrigins == {Secure(slaif), Secure(elsewhere), Plain("127.0.0.1"), Plain("localhost")}

HostFor(alias, command, payloads) ==
    [keyAlias |-> alias, knownHosts |-> IF alias = hpc THEN "keys" ELSE "placeholder",
     command |-> command, pilotFixed |-> command = "fixed", payloads |-> payloads,
     wellFormed |-> TRUE]
DefaultCatalog ==                                     \* buildDefaultPayloadCatalog
    (cpu :> [type |-> "fast_diagnostic", gpu |-> FALSE, outbound |-> FALSE, wellFormed |-> TRUE]) @@
    (chat :> [type |-> "interactive_llm", gpu |-> TRUE, outbound |-> TRUE, wellFormed |-> TRUE])

Production ==
    [legacy |-> FALSE, development |-> FALSE, pilot |-> FALSE, wellFormed |-> TRUE,
     validFrom |-> 0, validUntil |-> 1, apis |-> <<Secure(slaif)>>, relays |-> {Secure(slaif)},
     catalog |-> DefaultCatalog,
     hosts |-> (hpc :> HostFor(hpc, "session", {cpu})) @@ (lab :> HostFor(lab, "session", {cpu, chat}))]
SelfDeclared ==                \* a policy that calls itself a development policy
    [Production EXCEPT !.development = TRUE, !.pilot = TRUE, !.validUntil = 2,
                       !.apis = <<Plain("127.0.0.1"), Secure(slaif)>>,
                       !.relays = {Plain("127.0.0.1"), Secure(slaif)},
                       !.hosts = hpc :> HostFor(hpc, "fixed", {cpu})]
MixedRelays == [SelfDeclared EXCEPT !.apis = <<Secure(slaif)>>]
Legacy == [Production EXCEPT !.legacy = TRUE, !.validUntil = 0]
Local ==
    [Production EXCEPT !.validUntil = 2, !.apis = <<Plain("127.0.0.1")>>,
                       !.relays = {Plain("127.0.0.1")},
                       !.hosts = hpc :> HostFor(hpc, "session", {cpu})]
ExpiredLocal == [Local EXCEPT !.validFrom = -1, !.validUntil = 0]
LegacyLocal ==
    [Local EXCEPT !.legacy = TRUE, !.development = TRUE, !.relays = {Plain("localhost")}]
Pilot == [Local EXCEPT !.pilot = TRUE, !.hosts = hpc :> HostFor(hpc, "fixed", {chat})]

Signed(key, p) == [keyId |-> key, signer |-> key, payload |-> p]
MCPackaged == {Signed(prodKey, p) : p \in {Production, SelfDeclared, MixedRelays, Legacy}}
                \cup {[keyId |-> prodKey, signer |-> devKey, payload |-> MixedRelays]}
SomePackaged == {Signed(prodKey, p) : p \in {MixedRelays, Legacy}}

StackWith(key, p, payload, host, relay) ==
    [config |-> [session |-> s1, hpc |-> hpc, payloadId |-> payload,
                 api |-> Plain(host), relay |-> relay],
     envelope |-> Signed(key, p), roots |-> {key}, relay |-> Plain(host)]
MCLocalStacks == {StackWith(devKey, Local, cpu, "127.0.0.1", Plain("127.0.0.1")),
                  StackWith(devKey, ExpiredLocal, cpu, "127.0.0.1", Plain("127.0.0.1")),
                  StackWith(pilotKey, Pilot, chat, "127.0.0.1", None),
                  StackWith(pilotKey, LegacyLocal, cpu, "localhost", None)}

MCDescriptors ==
    {[session |-> s, hpc |-> a, payloadId |-> p, relay |-> o, wellFormed |-> TRUE] :
        s \in {s1, s2}, a \in {hpc, lab}, p \in {cpu, chat},
        o \in {Secure(slaif), Plain("127.0.0.1"), Plain("localhost")}}
    \cup {[session |-> s1, hpc |-> hpc, payloadId |-> cpu, relay |-> Secure(slaif),
           wellFormed |-> FALSE]}
=============================================================================
