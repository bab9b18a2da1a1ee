---------------------------- MODULE LaunchIntent ----------------------------
(***************************************************************************)
(* What a launch on the HPC side is checked against: session intents       *)
(* (validate_intent of remote/launcher/lib/launcher-intent.py) and Slurm   *)
(* profile catalogs, whose checks are written twice, for the server        *)
(* (server/workloads/slurm_profile.js) and for the launcher                *)
(* (resolve_profile of the same script).  JS operators are the server's,   *)
(* Py operators the launcher's.                                            *)
(*                                                                         *)
(* The checks of single fields (types, versions, names, limits) are not    *)
(* the same on the two sides: Python takes `true` for 1 and a name that    *)
(* ends in a newline, and no 4.0 for an integer; JavaScript the reverse.   *)
(* `passes` holds the sides whose checks of this kind a profile passes.    *)
(***************************************************************************)
EXTENDS Integers, Sequences

CONSTANTS Session,
          PayloadId,      \* ALLOWED_PAYLOAD_IDS
          ChatPayload,    \* gams_chat_v1
          ChatTemplate,   \* gams_chat_v1_scaffold
          ProfileName,    \* profile ids, some of which may equal a payload id
          NoProfile

Templates == (PayloadId \ {ChatPayload}) \cup {ChatTemplate}   \* ALLOWED_TEMPLATES

ASSUME IntentAssumption ==
    /\ ChatPayload \in PayloadId
    /\ ChatTemplate \notin PayloadId

Intent == [session: Session, payloadId: PayloadId, createdAt: Int, expiresAt: Int,
           zoned: BOOLEAN,        \* the timestamps carry a zone
           mode: {"normal", "other"}, forbidden: BOOLEAN, wellFormed: BOOLEAN]

Sides == {"server", "launcher"}

Entry == [key: PayloadId \cup ProfileName, profileId: ProfileName, payloadId: PayloadId,
          template: PayloadId \cup {ChatTemplate}, passes: SUBSET Sides,
          forbidden: {"none", "launcher", "both"}]   \* whose list has one of its fields

(* A catalog: its own type and version, and its entries in file order.     *)
Catalog == [passes: SUBSET Sides, profiles: Seq(Entry)]

ASSUME NoProfileAssumption == NoProfile \notin Entry

-----------------------------------------------------------------------------
(* validate_intent for the session named on the command line.  Timestamps  *)
(* without a zone cannot be compared with the clock: that comparison       *)
(* raises a TypeError, which main does not turn into exit code 4.          *)
PyReachesClock(i, s) ==
    /\ i.wellFormed /\ ~i.forbidden
    /\ i.session = s
    /\ i.expiresAt > i.createdAt

PyAccepts_AnySession(i, s, now) ==
    PyReachesClock(i, i.session) /\ i.zoned /\ i.expiresAt > now /\ i.mode = "normal"
PyAccepts(i, s, now) ==
    PyReachesClock(i, s) /\ i.zoned /\ i.expiresAt > now /\ i.mode = "normal"

PyRaises(i, s) == PyReachesClock(i, s) /\ ~i.zoned

-----------------------------------------------------------------------------
(* validateSlurmProfile and validate_profile, without the forbidden        *)
(* fields; the key check is that of the catalog loops.                     *)
SoundEntry(e, side) ==
    /\ side \in e.passes
    /\ e.template \in Templates
    /\ e.payloadId = ChatPayload => e.template = ChatTemplate
    /\ e.key \in {e.payloadId, e.profileId}

First(c, P(_)) ==
    LET hits == {n \in DOMAIN c.profiles : P(c.profiles[n])}
    IN  IF hits = {} THEN NoProfile
        ELSE c.profiles[CHOOSE n \in hits : \A m \in hits : n <= m]

(* resolveSlurmProfile: the whole catalog is validated; the entry under    *)
(* the payload's own key wins, then the first entry for the payload.       *)
JSRejects(c) ==
    \/ "server" \notin c.passes
    \/ \E n \in DOMAIN c.profiles : \/ ~SoundEntry(c.profiles[n], "server")
                                    \/ c.profiles[n].forbidden = "both"
JSResolve_ById(c, payload) ==
    LET direct == First(c, LAMBDA e : e.profileId = payload)
    IN  IF JSRejects(c) THEN NoProfile
        ELSE IF direct # NoProfile THEN direct
             ELSE First(c, LAMBDA e : e.payloadId = payload)
JSResolve(c, payload) ==
    LET direct == First(c, LAMBDA e : e.key = payload)
    IN  IF JSRejects(c) THEN NoProfile
        ELSE IF direct # NoProfile THEN direct
             ELSE First(c, LAMBDA e : e.payloadId = payload)

(* resolve_profile: entries are validated up to the first for the payload, *)
(* forbidden fields (a longer list) anywhere.                              *)
PyResolve_ByKey(c, payload) ==
    IF \/ "launcher" \notin c.passes
       \/ \E n \in DOMAIN c.profiles : c.profiles[n].forbidden # "none"
       \/ \E n \in DOMAIN c.profiles : ~SoundEntry(c.profiles[n], "launcher")
    THEN NoProfile
    ELSE First(c, LAMBDA e : e.key = payload)
PyResolve(c, payload) ==
    LET found == First(c, LAMBDA e : e.payloadId = payload \/ ~SoundEntry(e, "launcher"))
    IN  IF \/ "launcher" \notin c.passes
           \/ \E n \in DOMAIN c.profiles : c.profiles[n].forbidden # "none"
           \/ found = NoProfile
        THEN NoProfile
        ELSE IF SoundEntry(found, "launcher") THEN found ELSE NoProfile
=============================================================================
