-------------------------------- MODULE Relay --------------------------------
(***************************************************************************)
(* createRelayServer (server/relay/relay.js) with the in-memory token      *)
(* registry: WebSocket connections that authenticate with a relay token    *)
(* and are then spliced to a TCP connection to an allowed HPC host.        *)
(*                                                                         *)
(* The message handler is asynchronous.  It runs without interruption up   *)
(* to `await resolveRelayToken`, from there to `await connectTcp`, and     *)
(* from there to its end; timers, socket events and further messages run   *)
(* in between.  The closure variables of a connection (activeKey, tcp,     *)
(* authed) are shared by its handlers.  `session` and `target` feed only   *)
(* the audit log after an await and are not kept.  Frames are dispatched   *)
(* while the closing handshake is under way, as the ws library does.       *)
(*                                                                         *)
(* Durations are left out: a pending timer may fire at any time.           *)
(***************************************************************************)
EXTENDS TokenRegistry, FiniteSets

CONSTANTS Conn,                       \* WebSocket connections, each used once
          MaxAuthMessages,            \* bound: authentication messages per connection
          AllowedHosts,               \* aliases with a usable allowlist entry
          MaxConnectionsPerSession,
          RelayExpected,              \* the `expected` resolveRelayToken builds
          None                        \* null: no key, socket or session

ASSUME RelayAssumption ==
    /\ {"sessionId", "hpc"} \subseteq IdKeys
    /\ AllowedHosts \subseteq Values
    /\ MaxConnectionsPerSession \in Nat \ {0}
    /\ MaxAuthMessages \in Nat
    /\ RelayExpected \in Expected
    /\ IsFiniteSet(Conn)

Handler == Conn \X (1..MaxAuthMessages)      \* one run of the message handler
Key == Values \X Values                      \* `${sessionId}:${hpc}`
Session == [sessionId: Values \cup {Undefined}, hpc: Values, expiresAt: Int]

ASSUME NoneAssumption == None \notin Key \cup Handler \cup Session \cup Token

VARIABLES
    accepting,   \* the HTTP server still takes WebSocket upgrades
    ws,          \* ws[c]: readyState of the WebSocket ("none": not connected yet)
    authed,      \* authed[c]
    activeKey,   \* activeKey[c]: the key c holds a slot under, or None
    tcp,         \* tcp[c]: the socket of c, named by the handler that opened it
    timers,      \* timers[c]: the pending timers
    active,      \* activeConnections: the count under each key, 0 when absent
    handler,     \* handler[h]: where message handler h waits and what it resolved
    sock,        \* sock[h]: the TCP socket handler h asked for
    overlapped   \* history, read by the properties only: see MarkOverlap

relayVars == <<accepting, ws, authed, activeKey, tcp, timers, active, handler, sock,
               overlapped>>
vars == <<registryVars, relayVars>>

HandlerSteps == {"none", "resolving", "connecting", "accepted", "rejected"}
NoHandler == [step |-> "none", token |-> None, session |-> None]

ConnOf(h) == h[1]

(* A connection is overlapped once a handler of it starts to connect       *)
(* although its WebSocket is closed or authenticated or another handler    *)
(* connects, or once its WebSocket closes while a handler connects.        *)
(* Nothing in relay.js prevents either; the history variable records it.   *)
Connecting(c) == {h \in Handler : ConnOf(h) = c /\ handler[h].step = "connecting"}
MarkOverlap(c, happens) == overlapped' = IF happens THEN overlapped \cup {c} ELSE overlapped

TypeOK ==
    /\ RegistryTypeOK
    /\ accepting \in BOOLEAN
    /\ ws \in [Conn -> {"none", "open", "closing", "closed"}]
    /\ authed \in [Conn -> BOOLEAN]
    /\ activeKey \in [Conn -> Key \cup {None}]
    /\ tcp \in [Conn -> Handler \cup {None}]
    /\ timers \in [Conn -> SUBSET {"auth", "idle", "max"}]
    /\ active \in [Key -> Nat]
    /\ handler \in [Handler -> [step: HandlerSteps, token: Token \cup {None},
                                session: Session \cup {None}]]
    /\ sock \in [Handler -> {"none", "connecting", "open", "destroyed"}]
    /\ overlapped \subseteq Conn

Init ==
    /\ RegistryInit
    /\ accepting = TRUE
    /\ ws = [c \in Conn |-> "none"]
    /\ authed = [c \in Conn |-> FALSE]
    /\ activeKey = [c \in Conn |-> None]
    /\ tcp = [c \in Conn |-> None]
    /\ timers = [c \in Conn |-> {}]
    /\ active = [k \in Key |-> 0]
    /\ handler = [h \in Handler |-> NoHandler]
    /\ sock = [h \in Handler |-> "none"]
    /\ overlapped = {}

-----------------------------------------------------------------------------
(* safeClose starts the closing handshake; on a socket that is closing or  *)
(* closed it does nothing.                                                 *)
SafeClose(c) == ws' = [ws EXCEPT ![c] = IF @ = "open" THEN "closing" ELSE @]

(* decrementActive: no key, no effect; an absent count stays absent.       *)
DecrementActive(k) ==
    active' = IF k = None THEN active ELSE [active EXCEPT ![k] = IF @ <= 1 THEN 0 ELSE @ - 1]

(* record.hpc || record.metadata?.hpc (`alias` is a second spelling of it) *)
HpcOf(r) == IF r.ids["hpc"] # Undefined THEN r.ids["hpc"]
            ELSE IF "hpc" \in MetaKeys THEN r.metadata["hpc"] ELSE Undefined

(* The result of resolveRelayToken; without an HPC alias it is null.       *)
SessionOf_NoAlias(r) == [sessionId |-> r.ids["sessionId"], hpc |-> HpcOf(r),
                         expiresAt |-> r.expiresAt]
SessionOf(r) == IF HpcOf(r) = Undefined THEN None
                ELSE [sessionId |-> r.ids["sessionId"], hpc |-> HpcOf(r),
                      expiresAt |-> r.expiresAt]

(* incrementActive: a session without sessionId takes no slot.             *)
KeyOf(s) == IF s.sessionId = Undefined THEN None ELSE <<s.sessionId, s.hpc>>
HasSlot_OffByOne(s) == KeyOf(s) # None => active[KeyOf(s)] <= MaxConnectionsPerSession
HasSlot(s) == KeyOf(s) # None => active[KeyOf(s)] < MaxConnectionsPerSession

-----------------------------------------------------------------------------
Connect_NoTimer(c) ==
    /\ accepting /\ ws[c] = "none"
    /\ ws' = [ws EXCEPT ![c] = "open"]
    /\ UNCHANGED <<registryVars, accepting, authed, activeKey, tcp, timers, active, handler,
                   sock, overlapped>>

Connect(c) ==
    /\ accepting /\ ws[c] = "none"
    /\ ws' = [ws EXCEPT ![c] = "open"]
    /\ timers' = [timers EXCEPT ![c] = {"auth"}]
    /\ UNCHANGED <<registryVars, accepting, authed, activeKey, tcp, active, handler, sock,
                   overlapped>>

Dispatching(c) == ws[c] \in {"open", "closing"}

(* A frame before authentication that is binary, too large, not JSON, not  *)
(* of type auth, or that names a host, port or target.                     *)
RejectMessage(c) ==
    /\ Dispatching(c) /\ ~authed[c]
    /\ SafeClose(c)
    /\ UNCHANGED <<registryVars, accepting, authed, activeKey, tcp, timers, active, handler,
                   sock, overlapped>>

(* The handler up to its first await: resolveRelayToken consumes the token *)
(* (or throws) before the handler is suspended.                            *)
AuthMessage(h, t) ==
    LET c == ConnOf(h)
    IN /\ Dispatching(c) /\ ~authed[c]
       /\ handler[h].step = "none"
       /\ \A j \in 1..(h[2] - 1) : handler[<<c, j>>].step # "none"    \* numbered in order
       /\ \/ /\ ConsumeToken(t, RelayExpected)
             /\ handler' = [handler EXCEPT ![h] = [step |-> "resolving", token |-> t,
                                                   session |-> SessionOf(records[t])]]
          \/ /\ ~Admits(t, RelayExpected)
             /\ handler' = [handler EXCEPT ![h] = [step |-> "resolving", token |-> t,
                                                   session |-> None]]
             /\ UNCHANGED registryVars
       /\ UNCHANGED <<accepting, ws, authed, activeKey, tcp, timers, active, sock, overlapped>>

(* From the first await to connectTcp.                                     *)
Admissible(s) == s # None /\ s.expiresAt >= now /\ s.hpc \in AllowedHosts /\ HasSlot(s)

RejectAuth(h) ==
    /\ handler[h].step = "resolving"
    /\ ~Admissible(handler[h].session)
    /\ handler' = [handler EXCEPT ![h].step = "rejected"]
    /\ SafeClose(ConnOf(h))
    /\ UNCHANGED <<registryVars, accepting, authed, activeKey, tcp, timers, active, sock,
                   overlapped>>

ConnectTcp(h) ==
    LET k == KeyOf(handler[h].session)
    IN /\ handler[h].step = "resolving"
       /\ Admissible(handler[h].session)
       /\ activeKey' = [activeKey EXCEPT ![ConnOf(h)] = k]
       /\ active' = IF k = None THEN active ELSE [active EXCEPT ![k] = @ + 1]
       /\ handler' = [handler EXCEPT ![h].step = "connecting"]
       /\ sock' = [sock EXCEPT ![h] = "connecting"]
       /\ LET c == ConnOf(h)
          IN  MarkOverlap(c, ws[c] = "closed" \/ authed[c] \/ Connecting(c) # {})
       /\ UNCHANGED <<registryVars, accepting, ws, authed, tcp, timers>>

TcpConnected_NoLifetime(h) ==
    LET c == ConnOf(h)
    IN /\ handler[h].step = "connecting"
       /\ handler' = [handler EXCEPT ![h].step = "accepted"]
       /\ sock' = [sock EXCEPT ![h] = "open"]
       /\ tcp' = [tcp EXCEPT ![c] = h]
       /\ authed' = [authed EXCEPT ![c] = TRUE]
       /\ timers' = [timers EXCEPT ![c] = (@ \ {"auth"}) \cup {"idle"}]
       /\ UNCHANGED <<registryVars, accepting, ws, activeKey, active, overlapped>>

(* connectTcp resolves: whatever has become of the WebSocket meanwhile.    *)
TcpConnected(h) ==
    LET c == ConnOf(h)
    IN /\ handler[h].step = "connecting"
       /\ handler' = [handler EXCEPT ![h].step = "accepted"]
       /\ sock' = [sock EXCEPT ![h] = "open"]
       /\ tcp' = [tcp EXCEPT ![c] = h]
       /\ authed' = [authed EXCEPT ![c] = TRUE]
       /\ timers' = [timers EXCEPT ![c] = (@ \ {"auth"}) \cup {"idle", "max"}]
       /\ UNCHANGED <<registryVars, accepting, ws, activeKey, active, overlapped>>

TcpConnectFails_KeepsKey(h) ==
    LET c == ConnOf(h)
    IN /\ handler[h].step = "connecting"
       /\ handler' = [handler EXCEPT ![h].step = "rejected"]
       /\ sock' = [sock EXCEPT ![h] = "destroyed"]
       /\ DecrementActive(activeKey[c])
       /\ SafeClose(c)
       /\ UNCHANGED <<registryVars, accepting, authed, activeKey, tcp, timers, overlapped>>

(* connectTcp rejects (refused, or its 15 s timer): the slot of whatever   *)
(* key the connection holds now is given back.                             *)
TcpConnectFails(h) ==
    LET c == ConnOf(h)
    IN /\ handler[h].step = "connecting"
       /\ handler' = [handler EXCEPT ![h].step = "rejected"]
       /\ sock' = [sock EXCEPT ![h] = "destroyed"]
       /\ DecrementActive(activeKey[c])
       /\ activeKey' = [activeKey EXCEPT ![c] = None]
       /\ SafeClose(c)
       /\ UNCHANGED <<registryVars, accepting, authed, tcp, timers, overlapped>>

-----------------------------------------------------------------------------
(* A frame after authentication: text is refused; binary goes to the       *)
(* socket and restarts the idle timer, unless the socket is gone.          *)
TextFrame(c) ==
    /\ Dispatching(c) /\ authed[c]
    /\ SafeClose(c)
    /\ UNCHANGED <<registryVars, accepting, authed, activeKey, tcp, timers, active, handler,
                   sock, overlapped>>

BinaryFrame(c) ==
    /\ Dispatching(c) /\ authed[c]
    /\ IF sock[tcp[c]] = "destroyed"
       THEN SafeClose(c) /\ UNCHANGED timers
       ELSE timers' = [timers EXCEPT ![c] = @ \cup {"idle"}] /\ UNCHANGED ws
    /\ UNCHANGED <<registryVars, accepting, authed, activeKey, tcp, active, handler, sock,
                   overlapped>>

(* The 'data' handler of a socket: every socket of c restarts c's timer.   *)
TcpData(h) ==
    /\ sock[h] = "open"
    /\ timers' = [timers EXCEPT ![ConnOf(h)] = @ \cup {"idle"}]
    /\ UNCHANGED <<registryVars, accepting, ws, authed, activeKey, tcp, active, handler, sock,
                   overlapped>>

TcpClosed_AuthAgain(h) ==
    LET c == ConnOf(h)
    IN /\ sock[h] = "open"
       /\ sock' = [sock EXCEPT ![h] = "destroyed"]
       /\ authed' = [authed EXCEPT ![c] = FALSE]
       /\ DecrementActive(activeKey[c])
       /\ activeKey' = [activeKey EXCEPT ![c] = None]
       /\ SafeClose(c)
       /\ UNCHANGED <<registryVars, accepting, tcp, timers, handler, overlapped>>

(* The HPC side closes the connection, or it fails.                        *)
TcpClosed(h) ==
    /\ sock[h] = "open"
    /\ sock' = [sock EXCEPT ![h] = "destroyed"]
    /\ SafeClose(ConnOf(h))
    /\ UNCHANGED <<registryVars, accepting, authed, activeKey, tcp, timers, active, handler,
                   overlapped>>

Timeout(c, timer) ==
    /\ timer \in timers[c]
    /\ timers' = [timers EXCEPT ![c] = @ \ {timer}]
    /\ SafeClose(c)
    /\ UNCHANGED <<registryVars, accepting, authed, activeKey, tcp, active, handler, sock,
                   overlapped>>

WsClosed_KeepsSocket(c) ==
    /\ Dispatching(c)
    /\ ws' = [ws EXCEPT ![c] = "closed"]
    /\ timers' = [timers EXCEPT ![c] = {}]
    /\ DecrementActive(activeKey[c])
    /\ MarkOverlap(c, Connecting(c) # {})
    /\ UNCHANGED <<registryVars, accepting, authed, activeKey, tcp, handler, sock>>

(* The 'close' event: the handshake is over, or the peer is gone.          *)
WsClosed(c) ==
    /\ Dispatching(c)
    /\ ws' = [ws EXCEPT ![c] = "closed"]
    /\ timers' = [timers EXCEPT ![c] = {}]
    /\ DecrementActive(activeKey[c])
    /\ sock' = IF tcp[c] = None THEN sock ELSE [sock EXCEPT ![tcp[c]] = "destroyed"]
    /\ MarkOverlap(c, Connecting(c) # {})
    /\ UNCHANGED <<registryVars, accepting, authed, activeKey, tcp, handler>>

(* close() of the relay: every client is told to go, and no further        *)
(* connection is taken.                                                    *)
ServerClose ==
    /\ accepting' = FALSE
    /\ ws' = [c \in Conn |-> IF ws[c] = "open" THEN "closing" ELSE ws[c]]
    /\ UNCHANGED <<registryVars, authed, activeKey, tcp, timers, active, handler, sock,
                   overlapped>>

Next ==
    \/ RegistryNext /\ UNCHANGED relayVars
    \/ \E c \in Conn : \/ Connect(c) \/ RejectMessage(c) \/ TextFrame(c) \/ BinaryFrame(c)
                       \/ WsClosed(c)
                       \/ \E timer \in {"auth", "idle", "max"} : Timeout(c, timer)
    \/ \E h \in Handler : \/ \E t \in Token : AuthMessage(h, t)
                          \/ RejectAuth(h) \/ ConnectTcp(h)
                          \/ TcpConnected(h) \/ TcpConnectFails(h)
                          \/ TcpData(h) \/ TcpClosed(h)
    \/ ServerClose

Spec == Init /\ [][Next]_vars

(* What the run time guarantees: a resolved promise resumes its handler,   *)
(* connectTcp settles within 15 s, the authentication and lifetime timers  *)
(* fire, and the ws library ends a closing handshake after 30 s.  The idle *)
(* timer is restarted by traffic, so nothing is assumed of it, nor of the  *)
(* client and the HPC host.                                                *)
Fairness ==
    /\ \A h \in Handler : /\ WF_vars(RejectAuth(h) \/ ConnectTcp(h))
                          /\ WF_vars(TcpConnected(h) \/ TcpConnectFails(h))
    /\ \A c \in Conn : /\ WF_vars(Timeout(c, "auth")) /\ WF_vars(Timeout(c, "max"))
                       /\ WF_vars(ws[c] = "closing" /\ WsClosed(c))

FairSpec == Spec /\ Fairness

-----------------------------------------------------------------------------
(* Properties of every environment.                                        *)

(* The registry keeps the token contract under the relay's use of it.      *)
ImplementsContract == Contract!ContractSpec

(* Token replay prevention, end to end: a relay token opens no more TCP    *)
(* connections than its maxUses, through whichever WebSockets and however  *)
(* many authentication messages it is presented.                           *)
Opened(t) == {h \in Handler : handler[h].token = t /\ sock[h] # "none"}
TokenBoundsConnections ==
    \A t \in Token : issues[t] <= 1 => Cardinality(Opened(t)) <= granted[t]

(* Maximum unauthenticated lifetime: a WebSocket that is not authenticated *)
(* is authenticated or closed in the end, also when its handlers fail or   *)
(* hang, or the client keeps sending.                                      *)
AuthTimeoutEnforced ==
    \A c \in Conn : (Dispatching(c) /\ ~authed[c]) ~> (authed[c] \/ ws[c] = "closed")

(* Absolute maximum lifetime, for the WebSocket: an authenticated          *)
(* connection is closed in the end, whatever traffic it carries.           *)
LifetimeEnforced ==
    \A c \in Conn : (Dispatching(c) /\ authed[c]) ~> (ws[c] = "closed")

-----------------------------------------------------------------------------
(* Slots and sockets.  The code keeps them in order as long as nothing     *)
(* overlaps, and an overlap disturbs only its own connection and the slots *)
(* of the sessions whose tokens that connection presented.                 *)
HasKey(h, k) == handler[h].session # None /\ KeyOf(handler[h].session) = k
Disturbed(k) == \E h \in Handler : ConnOf(h) \in overlapped /\ HasKey(h, k)

(* The count of activeConnections is the number of WebSockets that hold a  *)
(* slot, through refused, failed, timed-out and aborted connections and    *)
(* repeated authentication messages: as long as no connection of the       *)
(* session has overlapped, none is leaked and none is given back twice,    *)
(* whatever happens to the connections of other sessions (relay.js, lines  *)
(* 230-252, 487, 507 and 603).                                             *)
Holders(k) == {c \in Conn : activeKey[c] = k /\ ws[c] # "closed"}
SlotsExact == \A k \in Key : Disturbed(k) \/ active[k] = Cardinality(Holders(k))

(* Per-session connection limit: the relay keeps no more TCP connections   *)
(* open for a session and HPC than maxConnectionsPerSession, as long as no *)
(* connection of that session has overlapped.                              *)
OpenSockets(k) == {h \in Handler : sock[h] = "open" /\ HasKey(h, k)}
WithinLimit(k) == Cardinality(OpenSockets(k)) <= MaxConnectionsPerSession
LimitUnlessDisturbed == \A k \in Key : Disturbed(k) \/ WithinLimit(k)

(* An overlap is the only way in which a TCP connection can outlive its    *)
(* WebSocket.                                                              *)
OrphansOverlapped ==
    \A h \in Handler : sock[h] = "open" /\ ws[ConnOf(h)] = "closed" => ConnOf(h) \in overlapped

(* An overlap is the only way in which an authenticated WebSocket can be   *)
(* moved to another socket.                                                *)
SocketKept == [][\A c \in Conn : tcp[c] # None /\ tcp'[c] # tcp[c] => c \in overlapped]_vars

(* Every TCP connection of a connection that has not overlapped is         *)
(* destroyed in the end, even when neither the client nor the HPC host     *)
(* ever closes.                                                            *)
ReleasedUnlessOverlapped ==
    \A h \in Handler : sock[h] = "open" ~> (sock[h] = "destroyed" \/ ConnOf(h) \in overlapped)

-----------------------------------------------------------------------------
(* What docs/RELAY_HARDENING.md promises of every connection, and the code *)
(* does not keep when connections overlap.                                 *)

(* Line 44, "per-session relay connection limits", for the TCP connections *)
(* of WebSockets in use.                                                   *)
LiveSockets(k) == {h \in OpenSockets(k) : Dispatching(ConnOf(h))}
LiveLimit == \A k \in Key : Cardinality(LiveSockets(k)) <= MaxConnectionsPerSession

(* Line 46, "absolute max connection lifetime", for the TCP connection.    *)
SocketsReleased == \A h \in Handler : sock[h] = "open" ~> sock[h] = "destroyed"

(* In every behaviour at least one of the two promises is kept.  Violated, *)
(* by a behaviour that breaks both: a WebSocket closes while its handler   *)
(* connects, and the failure of that connect gives the slot back a second  *)
(* time; a second authentication message of another WebSocket, under way   *)
(* beside the first, takes the slot; its socket replaces the first one,    *)
(* which nobody destroys.                                                  *)
LimitOrLifetime == []LiveLimit \/ SocketsReleased
=============================================================================
