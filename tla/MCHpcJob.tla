------------------------------ MODULE MCHpcJob ------------------------------
(***************************************************************************)
(* HpcJob with two sessions whose payloads differ, and the profile files   *)
(* that tell the two resolvers apart.                                      *)
(***************************************************************************)
EXTENDS HpcJob, TLC

CONSTANTS s1, s2, cpu, chat, scaffold, other, long

MCAssigned == (s1 :> cpu) @@ (s2 :> chat)
MCCommands ==
    LET command(mode, expected) == [mode |-> mode, expected |-> expected]
    IN  (s1 :> {command("intent", NoJob), command("script", NoJob)}) @@
        (s2 :> {command("intent", NoJob), command("dryRun", 0), command("testJob", 0)})

Foreign(id) == Submitted("canonical", id)
MCGreetings == (s1 :> {<<>>, <<Foreign(long)>>}) @@ (s2 :> {<<>>, <<OtherText, Foreign(0)>>})

(* A profile for payload p under a key, and as localProfileForPayload      *)
(* writes it.                                                              *)
ProfileOf(key, id, p) ==
    [key |-> key, profileId |-> id, payloadId |-> p,
     template |-> IF p = chat THEN scaffold ELSE p, passes |-> Sides, forbidden |-> "none"]
Local(p) == ProfileOf(p, other, p)
File(entries) == [passes |-> Sides, profiles |-> entries]

MCCatalogs ==
    {\* a profile id that is the id of another payload
     File(<<ProfileOf(cpu, chat, cpu), Local(chat)>>),
     \* the key of one payload on the profile of another, and a second entry
     File(<<ProfileOf(chat, chat, cpu), ProfileOf(other, other, chat)>>),
     \* only the server takes it: fields that the launcher forbids, or checks differently
     File(<<Local(cpu), [Local(chat) EXCEPT !.passes = {"server"}, !.forbidden = "launcher"]>>),
     \* a profile that only the launcher takes, before a chat profile without the scaffold
     File(<<[Local(cpu) EXCEPT !.passes = {"launcher"}], [Local(chat) EXCEPT !.template = cpu]>>)}
=============================================================================
