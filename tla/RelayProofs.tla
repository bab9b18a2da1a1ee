----------------------------- MODULE RelayProofs -----------------------------
(***************************************************************************)
(* Proofs about Relay for any number of connections, authentication        *)
(* messages, tokens and hosts.                                             *)
(*                                                                         *)
(* For every environment: the handlers that resolved a session from a      *)
(* token are no more than the uses spent of it (TokensSpent), which bounds *)
(* the sockets opened with it.                                             *)
(*                                                                         *)
(* For the connections that have not overlapped: one handler connects at   *)
(* a time, only while the WebSocket lives and has no socket yet, and the   *)
(* connection holds the slot that handler took; the open socket and the    *)
(* slot of an authenticated connection belong to one handler (InOrder).    *)
(* A slot held by any connection was taken under the key of one of its     *)
(* handlers (KeyTraced), so the counter of a key that no overlapped        *)
(* connection has presented is moved only by connections in order.         *)
(***************************************************************************)
EXTENDS Relay, TokenRegistryProofs, FiniteSetTheorems

(* What a handler holds, by where it waits.                                *)
HandlerHolds(h) ==
    /\ handler[h].step = "none" => handler[h] = NoHandler
    /\ handler[h].step \in {"connecting", "accepted"} => handler[h].session # None
    /\ sock[h] # "none" => /\ handler[h].session # None
                           /\ handler[h].step \in {"connecting", "accepted", "rejected"}

(* An authenticated connection has a socket that was opened.               *)
SocketHeld(c) == /\ authed[c] <=> tcp[c] # None
                 /\ tcp[c] # None => /\ ConnOf(tcp[c]) = c
                                     /\ sock[tcp[c]] \in {"open", "destroyed"}

(* The handlers to which token t gave a session.                           *)
Resolved(t) == {h \in Handler : handler[h].token = t /\ handler[h].session # None}
TokensSpent == \A t \in Token : issues[t] <= 1 => Cardinality(Resolved(t)) <= spent[t]

AnyInv == /\ TypeOK
          /\ RegistryInv
          /\ \A h \in Handler : HandlerHolds(h)
          /\ \A c \in Conn : SocketHeld(c)
          /\ TokensSpent

(* The connections that have not overlapped.                               *)
HandlerInOrder(h) ==
    LET c == ConnOf(h)
    IN  /\ handler[h].step = "connecting"
             => /\ ws[c] # "closed" /\ ~authed[c]
                /\ activeKey[c] = KeyOf(handler[h].session)
                /\ \A g \in Connecting(c) : g = h
        /\ sock[h] = "open" => tcp[c] = h /\ ws[c] # "closed"

ConnInOrder(c) ==
    /\ authed[c] => activeKey[c] = KeyOf(handler[tcp[c]].session)
    /\ ~authed[c] /\ activeKey[c] # None => Connecting(c) # {}

InOrder(c) == ConnInOrder(c) /\ \A h \in Handler : ConnOf(h) = c => HandlerInOrder(h)

KeyTraced(c) ==
    activeKey[c] # None => \E h \in Handler : ConnOf(h) = c /\ HasKey(h, activeKey[c])

SlotsBounded == \A k \in Key : active[k] <= MaxConnectionsPerSession

RelayInv == /\ AnyInv
            /\ \A c \in Conn : KeyTraced(c)
            /\ \A c \in Conn \ overlapped : InOrder(c)
            /\ SlotsExact
            /\ SlotsBounded

-----------------------------------------------------------------------------
(* Facts about the operators.                                              *)

LEMMA ConnOfType ==
  ASSUME NEW h \in Handler
  PROVE  ConnOf(h) \in Conn
BY DEF Handler, ConnOf

LEMMA HandlersFinite == IsFiniteSet(Handler)
<1>1. IsFiniteSet(1..MaxAuthMessages)
  BY RelayAssumption, FS_Interval
<1>2. QED
  BY <1>1, RelayAssumption, FS_Product DEF Handler

(* resolveRelayToken returns a session with an alias, or null.             *)
LEMMA SessionOfType ==
  ASSUME NEW r \in Record
  PROVE  SessionOf(r) \in Session \cup {None}
<1>1. r.ids["sessionId"] \in Values \cup {Undefined} /\ r.ids["hpc"] \in Values \cup {Undefined}
  BY RelayAssumption DEF Record, Bindings
<1>2. "hpc" \in MetaKeys => r.metadata["hpc"] \in Values \cup {Undefined}
  BY DEF Record, Bindings
<1>3. HpcOf(r) \in Values \cup {Undefined} /\ r.expiresAt \in Int
  BY <1>1, <1>2 DEF HpcOf, Record
<1>4. QED
  BY <1>1, <1>3 DEF SessionOf, Session

(* The key of a session, if it has one, is a key.                          *)
LEMMA KeyOfType ==
  ASSUME NEW s \in Session
  PROVE  KeyOf(s) \in Key \cup {None}
BY DEF KeyOf, Key, Session

(* decrementActive and safeClose keep the types.                           *)
LEMMA DecrementType ==
  ASSUME active \in [Key -> Nat], NEW k \in Key \cup {None}, DecrementActive(k)
  PROVE  active' \in [Key -> Nat]
BY NoneAssumption DEF DecrementActive

LEMMA SafeCloseType ==
  ASSUME ws \in [Conn -> {"none", "open", "closing", "closed"}], NEW c \in Conn, SafeClose(c)
  PROVE  /\ ws' \in [Conn -> {"none", "open", "closing", "closed"}]
         /\ \A d \in Conn : /\ ws'[d] = "closed" <=> ws[d] = "closed"
                            /\ Dispatching(d)' <=> Dispatching(d)
BY DEF SafeClose, Dispatching

-----------------------------------------------------------------------------
(* Every environment.                                                      *)

LEMMA AnyInit == Init => AnyInv
<1> SUFFICES ASSUME Init PROVE AnyInv
  OBVIOUS
<1>1. RegistryInv
  BY RegistryInvInit DEF Init
<1>2. TypeOK
  BY <1>1 DEF Init, TypeOK, RegistryInv, NoHandler, HandlerSteps
<1>3. \A h \in Handler : HandlerHolds(h)
  BY DEF Init, HandlerHolds, NoHandler
<1>4. TokensSpent
  <2> SUFFICES ASSUME NEW t \in Token PROVE Cardinality(Resolved(t)) <= spent[t]
    BY DEF TokensSpent
  <2>1. Resolved(t) = {}
    BY DEF Resolved, Init, NoHandler
  <2>2. QED
    BY <2>1, FS_EmptySet DEF Init, RegistryInit
<1>5. \A c \in Conn : SocketHeld(c)
  BY DEF Init, SocketHeld
<1>6. QED
  BY <1>1, <1>2, <1>3, <1>4, <1>5 DEF AnyInv

(* Steps of the relay that leave the registry alone: all but AuthMessage.  *)
ConnStep(c) == \/ Connect(c) \/ RejectMessage(c) \/ TextFrame(c) \/ BinaryFrame(c) \/ WsClosed(c)
               \/ \E timer \in {"auth", "idle", "max"} : Timeout(c, timer)
HandlerStep(h) == \/ RejectAuth(h) \/ ConnectTcp(h) \/ TcpConnected(h) \/ TcpConnectFails(h)
                  \/ TcpData(h) \/ TcpClosed(h)

LEMMA NextCases ==
  ASSUME [Next]_vars
  PROVE  \/ RegistryNext /\ UNCHANGED relayVars
         \/ \E c \in Conn : ConnStep(c)
         \/ \E h \in Handler : HandlerStep(h)
         \/ \E h \in Handler, t \in Token : AuthMessage(h, t)
         \/ ServerClose
         \/ UNCHANGED vars
BY DEF Next, ConnStep, HandlerStep

LEMMA RegistryUnchanged ==
  ASSUME \/ \E c \in Conn : ConnStep(c)
         \/ \E h \in Handler : HandlerStep(h)
         \/ ServerClose
  PROVE  UNCHANGED registryVars
BY DEF ConnStep, HandlerStep, Connect, RejectMessage, TextFrame, BinaryFrame, WsClosed, Timeout,
       RejectAuth, ConnectTcp, TcpConnected, TcpConnectFails, TcpData, TcpClosed, ServerClose

(* The relay uses the registry as RegistryStep says.                       *)
LEMMA RelayUsesRegistry ==
  ASSUME [Next]_vars
  PROVE  RegistryStep
<1>1. ASSUME NEW h \in Handler, NEW t \in Token, AuthMessage(h, t) PROVE RegistryStep
  BY <1>1, RelayAssumption DEF AuthMessage, RegistryStep
<1>2. QED
  BY <1>1, NextCases, RegistryUnchanged DEF RegistryStep, vars

LEMMA TypeStep ==
  ASSUME AnyInv, [Next]_vars
  PROVE  TypeOK'
<1> USE DEF AnyInv
<1>0. RegistryInv'
  BY RelayUsesRegistry, RegistryInvStep
<1>1. RegistryTypeOK'
  BY <1>0 DEF RegistryInv
<1>2. CASE UNCHANGED relayVars
  BY <1>1, <1>2 DEF relayVars, TypeOK
<1>3. ASSUME NEW c \in Conn, ConnStep(c) PROVE TypeOK'
  <2>1. CASE RejectMessage(c) \/ TextFrame(c)
    BY <1>1, <2>1, SafeCloseType DEF RejectMessage, TextFrame, TypeOK
  <2>2. CASE Connect(c)
    BY <1>1, <2>2 DEF Connect, TypeOK
  <2>3. CASE BinaryFrame(c)
    <3>1. CASE SafeClose(c) /\ UNCHANGED timers
      BY <1>1, <2>3, <3>1, SafeCloseType DEF BinaryFrame, TypeOK
    <3>2. CASE timers' = [timers EXCEPT ![c] = @ \cup {"idle"}] /\ UNCHANGED ws
      BY <1>1, <2>3, <3>2 DEF BinaryFrame, TypeOK
    <3>3. QED
      BY <2>3, <3>1, <3>2 DEF BinaryFrame
  <2>4. CASE WsClosed(c)
    <3>1. active' \in [Key -> Nat]
      BY <2>4, DecrementType DEF WsClosed, TypeOK
    <3>2. sock' \in [Handler -> {"none", "connecting", "open", "destroyed"}]
      BY <2>4 DEF WsClosed, TypeOK
    <3>3. overlapped' \subseteq Conn
      BY <2>4 DEF WsClosed, MarkOverlap, TypeOK
    <3>4. QED
      BY <1>1, <2>4, <3>1, <3>2, <3>3 DEF WsClosed, TypeOK
  <2>5. ASSUME NEW timer \in {"auth", "idle", "max"}, Timeout(c, timer) PROVE TypeOK'
    BY <1>1, <2>5, SafeCloseType DEF Timeout, TypeOK
  <2>6. QED
    BY <1>3, <2>1, <2>2, <2>3, <2>4, <2>5 DEF ConnStep
<1>4. ASSUME NEW h \in Handler, HandlerStep(h) PROVE TypeOK'
  <2>1. ConnOf(h) \in Conn
    BY ConnOfType
  <2>2. CASE RejectAuth(h)
    BY <1>1, <2>1, <2>2, SafeCloseType DEF RejectAuth, TypeOK, HandlerSteps
  <2>3. CASE ConnectTcp(h)
    <3>1. KeyOf(handler[h].session) \in Key \cup {None}
      BY <2>3, KeyOfType DEF ConnectTcp, Admissible, TypeOK
    <3>2. active' \in [Key -> Nat]
      BY <2>3, <3>1, NoneAssumption DEF ConnectTcp, TypeOK
    <3>3. activeKey' \in [Conn -> Key \cup {None}]
      BY <2>1, <2>3, <3>1 DEF ConnectTcp, TypeOK
    <3>4. overlapped' \subseteq Conn
      BY <2>1, <2>3 DEF ConnectTcp, MarkOverlap, TypeOK
    <3>5. QED
      BY <1>1, <2>3, <3>2, <3>3, <3>4 DEF ConnectTcp, TypeOK, HandlerSteps
  <2>4. CASE TcpConnected(h)
    BY <1>1, <2>1, <2>4 DEF TcpConnected, TypeOK, HandlerSteps
  <2>5. CASE TcpConnectFails(h)
    <3>1. active' \in [Key -> Nat]
      BY <2>1, <2>5, DecrementType DEF TcpConnectFails, TypeOK
    <3>2. QED
      BY <1>1, <2>1, <2>5, <3>1, SafeCloseType DEF TcpConnectFails, TypeOK, HandlerSteps
  <2>6. CASE TcpData(h)
    BY <1>1, <2>1, <2>6 DEF TcpData, TypeOK
  <2>7. CASE TcpClosed(h)
    BY <1>1, <2>1, <2>7, SafeCloseType DEF TcpClosed, TypeOK
  <2>8. QED
    BY <1>4, <2>2, <2>3, <2>4, <2>5, <2>6, <2>7 DEF HandlerStep
<1>5. ASSUME NEW h \in Handler, NEW t \in Token, AuthMessage(h, t) PROVE TypeOK'
  <2>1. ConsumeToken(t, RelayExpected) => SessionOf(records[t]) \in Session \cup {None}
    BY ConsumeEffect, SessionOfType
  <2>2. QED
    BY <1>1, <1>5, <2>1 DEF AuthMessage, TypeOK, HandlerSteps
<1>6. CASE ServerClose
  BY <1>1, <1>6 DEF ServerClose, TypeOK
<1>7. QED
  BY <1>2, <1>3, <1>4, <1>5, <1>6, NextCases DEF vars

LEMMA HoldsStep ==
  ASSUME AnyInv, [Next]_vars, NEW g \in Handler
  PROVE  HandlerHolds(g)'
<1> USE DEF AnyInv
<1>0. HandlerHolds(g) /\ handler[g] \in [step: HandlerSteps, token: Token \cup {None},
                                        session: Session \cup {None}]
  BY DEF TypeOK
<1>1. CASE UNCHANGED <<handler, sock>>
  BY <1>0, <1>1 DEF HandlerHolds
<1>2. ASSUME NEW c \in Conn, ConnStep(c) PROVE HandlerHolds(g)'
  <2>1. CASE WsClosed(c)
    <3>1. handler' = handler /\ (sock'[g] = sock[g] \/ tcp[c] = g)
      BY <2>1 DEF WsClosed, TypeOK
    <3>2. CASE sock'[g] = sock[g]
      BY <1>0, <3>1, <3>2 DEF HandlerHolds
    <3>3. CASE tcp[c] = g /\ sock'[g] # sock[g]
      <4>1. tcp[c] # None
        BY <3>3, NoneAssumption
      <4>2. sock[g] # "none"
        BY <3>3, <4>1 DEF SocketHeld
      <4>3. QED
        BY <1>0, <3>1, <4>2 DEF HandlerHolds
    <3>4. QED
      BY <3>1, <3>2, <3>3
  <2>2. QED
    BY <1>1, <1>2, <2>1 DEF ConnStep, Connect, RejectMessage, TextFrame, BinaryFrame, Timeout
<1>3. ASSUME NEW h \in Handler, HandlerStep(h) PROVE HandlerHolds(g)'
  <2>1. CASE g # h
    <3>1. handler'[g] = handler[g] /\ sock'[g] = sock[g]
      BY <1>3, <2>1 DEF HandlerStep, RejectAuth, ConnectTcp, TcpConnected, TcpConnectFails,
                        TcpData, TcpClosed, TypeOK
    <3>2. QED
      BY <1>0, <3>1 DEF HandlerHolds
  <2>2. CASE g = h
    BY <1>0, <1>3, <2>2 DEF HandlerStep, RejectAuth, ConnectTcp, TcpConnected, TcpConnectFails,
                            TcpData, TcpClosed, TypeOK, HandlerHolds, Admissible
  <2>3. QED
    BY <2>1, <2>2
<1>4. ASSUME NEW h \in Handler, NEW t \in Token, AuthMessage(h, t) PROVE HandlerHolds(g)'
  <2>1. CASE g # h
    <3>1. handler'[g] = handler[g] /\ sock' = sock
      BY <1>4, <2>1 DEF AuthMessage, TypeOK
    <3>2. QED
      BY <1>0, <3>1 DEF HandlerHolds
  <2>2. CASE g = h
    <3>1. sock'[g] = "none"
      BY <1>0, <1>4, <2>2 DEF AuthMessage, HandlerHolds
    <3>2. handler'[g].step = "resolving"
      BY <1>4, <2>2 DEF AuthMessage, TypeOK
    <3>3. QED
      BY <3>1, <3>2 DEF HandlerHolds
  <2>3. QED
    BY <2>1, <2>2
<1>5. QED
  BY <1>1, <1>2, <1>3, <1>4, NextCases DEF vars, relayVars, ServerClose

LEMMA HeldStep ==
  ASSUME AnyInv, [Next]_vars, NEW d \in Conn
  PROVE  SocketHeld(d)'
<1> USE DEF AnyInv
<1>0. /\ SocketHeld(d) /\ tcp[d] \in Handler \cup {None}
      /\ sock \in [Handler -> {"none", "connecting", "open", "destroyed"}]
  BY DEF TypeOK
<1>1. CASE UNCHANGED <<authed, tcp, sock>>
  BY <1>0, <1>1 DEF SocketHeld
<1>2. ASSUME NEW c \in Conn, ConnStep(c) PROVE SocketHeld(d)'
  <2>1. CASE WsClosed(c)
    BY <1>0, <2>1, NoneAssumption DEF WsClosed, SocketHeld, TypeOK
  <2>2. QED
    BY <1>1, <1>2, <2>1 DEF ConnStep, Connect, RejectMessage, TextFrame, BinaryFrame, Timeout
<1>3. ASSUME NEW h \in Handler, HandlerStep(h) PROVE SocketHeld(d)'
  <2>1. HandlerHolds(h) /\ h # None
    BY NoneAssumption
  <2>2. CASE RejectAuth(h) \/ TcpData(h)
    BY <1>1, <2>2 DEF RejectAuth, TcpData
  <2>3. CASE ConnectTcp(h)
    <3>1. sock[h] = "none"
      BY <2>1, <2>3 DEF ConnectTcp, HandlerHolds
    <3>2. tcp[d] # h
      BY <1>0, <2>1, <3>1 DEF SocketHeld
    <3>3. QED
      BY <1>0, <2>3, <3>2 DEF ConnectTcp, SocketHeld
  <2>4. CASE TcpConnected(h)
    BY <1>0, <2>1, <2>4 DEF TcpConnected, SocketHeld, TypeOK
  <2>5. CASE TcpConnectFails(h) \/ TcpClosed(h)
    BY <1>0, <2>5 DEF TcpConnectFails, TcpClosed, SocketHeld
  <2>6. QED
    BY <1>3, <2>2, <2>3, <2>4, <2>5 DEF HandlerStep
<1>4. QED
  BY <1>1, <1>2, <1>3, NextCases DEF vars, relayVars, ServerClose, AuthMessage

(* Outside AuthMessage the handlers keep their tokens and sessions.        *)
LEMMA ResolvedUnchanged ==
  ASSUME AnyInv,
         \/ UNCHANGED handler
         \/ \E h \in Handler : HandlerStep(h)
  PROVE  \A t : Resolved(t)' = Resolved(t)
<1>1. ASSUME NEW g \in Handler
      PROVE  handler'[g].token = handler[g].token /\ handler'[g].session = handler[g].session
  <2>1. \/ UNCHANGED handler
        \/ \E h \in Handler, s \in HandlerSteps : handler' = [handler EXCEPT ![h].step = s]
    BY DEF HandlerStep, RejectAuth, ConnectTcp, TcpConnected, TcpConnectFails, TcpData, TcpClosed,
           HandlerSteps
  <2>2. QED
    BY <2>1 DEF AnyInv, TypeOK
<1>2. QED
  BY <1>1 DEF Resolved

LEMMA SpentStep ==
  ASSUME AnyInv, [Next]_vars
  PROVE  TokensSpent'
<1> SUFFICES ASSUME NEW u \in Token, issues'[u] <= 1
             PROVE  Cardinality(Resolved(u)') <= spent'[u]
  BY DEF TokensSpent
<1> USE DEF AnyInv
<1>0. /\ issues[u] \in Nat /\ spent[u] \in Nat /\ issues'[u] \in Nat
      /\ CountedAt(u) /\ IsFiniteSet(Resolved(u)) /\ Cardinality(Resolved(u)) \in Nat
  <2>1. RegistryInv'
    BY RelayUsesRegistry, RegistryInvStep
  <2>2. IsFiniteSet(Resolved(u))
    BY HandlersFinite, FS_Subset DEF Resolved
  <2>3. QED
    BY <2>1, <2>2, FS_CardinalityType DEF RegistryInv, RegistryTypeOK
<1>1. CASE UNCHANGED registryVars /\ Resolved(u)' = Resolved(u)
  BY <1>1 DEF registryVars, TokensSpent
<1>2. CASE RegistryNext /\ UNCHANGED relayVars
  <2>1. Resolved(u)' = Resolved(u)
    BY <1>2, ResolvedUnchanged DEF relayVars
  <2>2. ASSUME NEW t \in Token, IssueToken(t) PROVE Cardinality(Resolved(u)) <= spent'[u]
    <3>1. CASE t = u
      <4>1. issues'[u] = issues[u] + 1 /\ spent'[u] = 0
        BY <2>2, <3>1, IssueEffect DEF RegistryInv, RegistryTypeOK
      <4>2. issues[u] = 0
        BY <1>0, <4>1
      <4>3. spent[u] = 0
        BY <1>0, <4>2 DEF CountedAt
      <4>4. QED
        BY <1>0, <4>1, <4>2, <4>3 DEF TokensSpent
    <3>2. CASE t # u
      <4>1. issues'[u] = issues[u] /\ spent'[u] = spent[u]
        BY <2>2, <3>2, IssueEffect DEF RegistryInv, RegistryTypeOK
      <4>2. QED
        BY <4>1 DEF TokensSpent
    <3>3. QED
      BY <3>1, <3>2
  <2>3. CASE UNCHANGED <<spent, issues>>
    BY <2>1, <2>3 DEF TokensSpent
  <2>4. QED
    BY <1>2, <2>1, <2>2, <2>3 DEF RegistryNext, RevokeToken, CleanupExpired, Tick
<1>3. ASSUME NEW h \in Handler, NEW t \in Token, AuthMessage(h, t)
      PROVE  Cardinality(Resolved(u)') <= spent'[u]
  <2>1. handler[h] = NoHandler /\ h \notin Resolved(u)
    BY <1>3, NoneAssumption DEF AuthMessage, HandlerHolds, Resolved, NoHandler
  <2>2. CASE /\ ConsumeToken(t, RelayExpected)
             /\ handler' = [handler EXCEPT ![h] = [step |-> "resolving", token |-> t,
                                                   session |-> SessionOf(records[t])]]
    <3>1. issues'[u] = issues[u] /\ spent'[u] = IF u = t THEN spent[u] + 1 ELSE spent[u]
      BY <2>2, ConsumeEffect DEF RegistryInv, RegistryTypeOK
    <3>2. CASE u = t
      <4>1. Resolved(u)' \subseteq Resolved(u) \cup {h}
        BY <2>2 DEF Resolved, TypeOK
      <4>2. /\ IsFiniteSet(Resolved(u) \cup {h})
            /\ Cardinality(Resolved(u) \cup {h}) = Cardinality(Resolved(u)) + 1
        BY <1>0, <2>1, FS_AddElement
      <4>3. Cardinality(Resolved(u)') <= Cardinality(Resolved(u)) + 1
            /\ Cardinality(Resolved(u)') \in Nat
        BY <4>1, <4>2, FS_Subset, FS_CardinalityType
      <4>4. Cardinality(Resolved(u)) <= spent[u]
        BY <3>1 DEF TokensSpent
      <4>5. QED
        BY <1>0, <3>1, <3>2, <4>3, <4>4
    <3>3. CASE u # t
      <4>1. Resolved(u)' = Resolved(u)
        BY <2>1, <2>2, <3>3 DEF Resolved, TypeOK
      <4>2. QED
        BY <3>1, <3>3, <4>1 DEF TokensSpent
    <3>4. QED
      BY <3>2, <3>3
  <2>3. CASE /\ UNCHANGED registryVars
             /\ handler' = [handler EXCEPT ![h] = [step |-> "resolving", token |-> t,
                                                   session |-> None]]
    <3>1. Resolved(u)' = Resolved(u)
      BY <2>1, <2>3 DEF Resolved, TypeOK
    <3>2. QED
      BY <1>1, <2>3, <3>1
  <2>4. QED
    BY <1>3, <2>2, <2>3 DEF AuthMessage
<1>4. CASE (\E c \in Conn : ConnStep(c)) \/ ServerClose
  <2>1. UNCHANGED registryVars
    BY <1>4, RegistryUnchanged
  <2>2. UNCHANGED handler
    BY <1>4 DEF ConnStep, ServerClose, Connect, RejectMessage, TextFrame, BinaryFrame, WsClosed,
                Timeout
  <2>3. QED
    BY <1>1, <2>1, <2>2, ResolvedUnchanged
<1>5. CASE \E h \in Handler : HandlerStep(h)
  BY <1>1, <1>5, RegistryUnchanged, ResolvedUnchanged
<1>6. CASE UNCHANGED vars
  BY <1>1, <1>6, ResolvedUnchanged DEF vars, relayVars
<1>7. QED
  BY <1>2, <1>3, <1>4, <1>5, <1>6, NextCases

LEMMA AnyStep == AnyInv /\ [Next]_vars => AnyInv'
<1> SUFFICES ASSUME AnyInv, [Next]_vars PROVE AnyInv'
  OBVIOUS
<1>1. RegistryInv'
  BY RelayUsesRegistry, RegistryInvStep DEF AnyInv
<1>2. \A h \in Handler : HandlerHolds(h)'
  BY HoldsStep
<1>3. \A c \in Conn : SocketHeld(c)'
  BY HeldStep
<1>4. QED
  BY <1>1, <1>2, <1>3, TypeStep, SpentStep DEF AnyInv

LEMMA AnyInvariance == Spec => []AnyInv
BY AnyInit, AnyStep, PTL DEF Spec

(* For any number of connections and messages, in any environment, the     *)
(* closure variables, the slot table and the registry keep their types.    *)
THEOREM RelayTypeCorrect == Spec => []TypeOK
<1>1. AnyInv => TypeOK
  BY DEF AnyInv
<1>2. QED
  BY <1>1, AnyInvariance, PTL

(* A relay token opens no more TCP connections than its maxUses, however   *)
(* the handlers, closes and timers interleave (relay.js, handleAuth).      *)
THEOREM TokenBoundsHold == Spec => []TokenBoundsConnections
<1>1. AnyInv => TokenBoundsConnections
  <2> SUFFICES ASSUME AnyInv, NEW t \in Token, issues[t] <= 1
               PROVE  Cardinality(Opened(t)) <= granted[t]
    BY DEF TokenBoundsConnections
  <2>1. Opened(t) \subseteq Resolved(t)
    BY DEF AnyInv, HandlerHolds, Opened, Resolved
  <2>2. IsFiniteSet(Resolved(t))
    BY HandlersFinite, FS_Subset DEF Resolved
  <2>3. /\ Cardinality(Opened(t)) <= Cardinality(Resolved(t))
        /\ Cardinality(Opened(t)) \in Nat /\ Cardinality(Resolved(t)) \in Nat
    BY <2>1, <2>2, FS_Subset, FS_CardinalityType
  <2>4. Cardinality(Resolved(t)) <= spent[t] /\ spent[t] <= granted[t]
    BY DEF AnyInv, TokensSpent, RegistryInv, CountedAt
  <2>5. spent[t] \in Nat /\ granted[t] \in Nat
    BY TokenTypes DEF AnyInv, RegistryInv
  <2>6. QED
    BY <2>3, <2>4, <2>5
<1>2. QED
  BY <1>1, AnyInvariance, PTL

(* The registry under the relay's use of it implements the token contract. *)
THEOREM RelayRefinesContract == Spec => ImplementsContract
<1>1. Init => Contract!ContractInit
  BY DEF Init, RegistryInit, Cap, Contract!ContractInit
<1>2. AnyInv /\ [Next]_vars => [Contract!ContractNext]_(Contract!contractVars)
  BY RelayUsesRegistry, ContractStep DEF AnyInv
<1>3. QED
  BY <1>1, <1>2, AnyInvariance, PTL DEF Spec, ImplementsContract, Contract!ContractSpec

-----------------------------------------------------------------------------
(* Slots and sockets.                                                      *)

(* What concerns connection d is left alone.                               *)
Untouched(d) ==
    /\ authed'[d] = authed[d] /\ activeKey'[d] = activeKey[d] /\ tcp'[d] = tcp[d]
    /\ ws'[d] = "closed" <=> ws[d] = "closed"
    /\ \A g \in Handler : ConnOf(g) = d => handler'[g] = handler[g] /\ sock'[g] = sock[g]

LEMMA UntouchedKeeps ==
  ASSUME AnyInv, NEW d \in Conn, Untouched(d), InOrder(d)
  PROVE  InOrder(d)'
<1>1. tcp[d] \in Handler \cup {None} /\ ConnInOrder(d) /\ SocketHeld(d)
  BY DEF InOrder, AnyInv, TypeOK
<1>2. authed[d] => tcp[d] \in Handler /\ ConnOf(tcp[d]) = d
  BY <1>1 DEF SocketHeld
<1>3. Connecting(d)' = Connecting(d)
  BY DEF Untouched, Connecting
<1>4. ConnInOrder(d)'
  BY <1>1, <1>2, <1>3 DEF Untouched, ConnInOrder, KeyOf
<1>5. ASSUME NEW g \in Handler, ConnOf(g) = d PROVE HandlerInOrder(g)'
  <2>1. HandlerInOrder(g)
    BY <1>5 DEF InOrder
  <2>2. QED
    BY <1>3, <1>5, <2>1 DEF Untouched, HandlerInOrder, KeyOf
<1>6. QED
  BY <1>4, <1>5 DEF InOrder

(* A step concerns one connection.                                         *)
LEMMA StepIsLocal ==
  ASSUME AnyInv, NEW c \in Conn, NEW d \in Conn \ {c},
         \/ ConnStep(c)
         \/ \E h \in Handler : ConnOf(h) = c /\ HandlerStep(h)
         \/ \E h \in Handler, t \in Token : ConnOf(h) = c /\ AuthMessage(h, t)
  PROVE  Untouched(d)
<1> USE DEF AnyInv
<1>1. CASE WsClosed(c)
  <2>1. tcp[c] # None => ConnOf(tcp[c]) = c
    BY DEF SocketHeld
  <2>2. \A g \in Handler : ConnOf(g) = d => sock'[g] = sock[g]
    BY <1>1, <2>1 DEF WsClosed, TypeOK
  <2>3. ws'[d] = ws[d]
    BY <1>1 DEF WsClosed, TypeOK
  <2>4. QED
    BY <1>1, <2>2, <2>3 DEF WsClosed, Untouched
<1>2. CASE ConnStep(c) /\ ~WsClosed(c)
  <2>1. ws'[d] = ws[d] /\ UNCHANGED <<authed, activeKey, tcp, handler, sock>>
    BY <1>2 DEF ConnStep, Connect, RejectMessage, TextFrame, BinaryFrame, Timeout, SafeClose, TypeOK
  <2>2. QED
    BY <2>1 DEF Untouched
<1>3. ASSUME NEW h \in Handler, ConnOf(h) = c, HandlerStep(h) PROVE Untouched(d)
  <2>1. /\ ws'[d] = ws[d] /\ authed'[d] = authed[d] /\ activeKey'[d] = activeKey[d]
        /\ tcp'[d] = tcp[d]
    BY <1>3 DEF HandlerStep, RejectAuth, ConnectTcp, TcpConnected, TcpConnectFails, TcpData,
                TcpClosed, SafeClose, TypeOK
  <2>2. \A g \in Handler : g # h => handler'[g] = handler[g] /\ sock'[g] = sock[g]
    BY <1>3 DEF HandlerStep, RejectAuth, ConnectTcp, TcpConnected, TcpConnectFails, TcpData,
                TcpClosed, TypeOK
  <2>3. QED
    BY <1>3, <2>1, <2>2 DEF Untouched
<1>4. ASSUME NEW h \in Handler, NEW t \in Token, ConnOf(h) = c, AuthMessage(h, t)
      PROVE  Untouched(d)
  <2>1. \A g \in Handler : g # h => handler'[g] = handler[g]
    BY <1>4 DEF AuthMessage, TypeOK
  <2>2. QED
    BY <1>4, <2>1 DEF AuthMessage, Untouched
<1>5. QED
  BY <1>1, <1>2, <1>3, <1>4

(* What has overlapped stays so, and so do the keys it has disturbed: the  *)
(* session of a handler is never replaced.                                 *)
LEMMA OverlapStays ==
  ASSUME AnyInv, [Next]_vars
  PROVE  /\ overlapped \subseteq overlapped'
         /\ \A h \in Handler, k \in Key : HasKey(h, k) => HasKey(h, k)'
         /\ \A k \in Key : Disturbed(k) => Disturbed(k)'
<1> USE DEF AnyInv
<1>1. overlapped \subseteq overlapped'
  <2>1. ASSUME NEW c \in Conn, ConnStep(c) PROVE overlapped \subseteq overlapped'
    BY <2>1 DEF ConnStep, Connect, RejectMessage, TextFrame, BinaryFrame, Timeout, WsClosed,
                MarkOverlap
  <2>2. ASSUME NEW h \in Handler, HandlerStep(h) PROVE overlapped \subseteq overlapped'
    BY <2>2 DEF HandlerStep, RejectAuth, ConnectTcp, TcpConnected, TcpConnectFails, TcpData,
                TcpClosed, MarkOverlap
  <2>3. QED
    BY <2>1, <2>2, NextCases DEF AuthMessage, ServerClose, vars, relayVars
<1>2. ASSUME NEW g \in Handler
      PROVE  handler[g].session = None \/ handler'[g].session = handler[g].session
  <2>1. CASE UNCHANGED handler
    BY <2>1
  <2>2. ASSUME NEW h \in Handler, HandlerStep(h) PROVE handler'[g].session = handler[g].session
    <3>1. UNCHANGED handler \/ \E s \in HandlerSteps : handler' = [handler EXCEPT ![h].step = s]
      BY <2>2 DEF HandlerStep, RejectAuth, ConnectTcp, TcpConnected, TcpConnectFails, TcpData,
                  TcpClosed, HandlerSteps
    <3>2. QED
      BY <3>1 DEF TypeOK
  <2>3. ASSUME NEW h \in Handler, NEW t \in Token, AuthMessage(h, t)
        PROVE  handler[g].session = None \/ handler'[g].session = handler[g].session
    <3>1. handler[h].session = None
      BY <2>3 DEF AuthMessage, HandlerHolds, NoHandler
    <3>2. g # h => handler'[g] = handler[g]
      BY <2>3 DEF AuthMessage, TypeOK
    <3>3. QED
      BY <3>1, <3>2
  <2>4. ASSUME NEW c \in Conn, ConnStep(c) PROVE UNCHANGED handler
    BY <2>4 DEF ConnStep, Connect, RejectMessage, TextFrame, BinaryFrame, Timeout, WsClosed
  <2>5. QED
    BY <2>1, <2>2, <2>3, <2>4, NextCases DEF ServerClose, vars, relayVars
<1>3. \A h \in Handler, k \in Key : HasKey(h, k) => HasKey(h, k)'
  BY <1>2 DEF HasKey, KeyOf
<1>4. QED
  BY <1>1, <1>3 DEF Disturbed

(* The key a connection holds is that of one of its handlers.              *)
LEMMA TracedStep ==
  ASSUME AnyInv, \A c \in Conn : KeyTraced(c), [Next]_vars, NEW d \in Conn
  PROVE  KeyTraced(d)'
<1> USE DEF AnyInv
<1>0. activeKey[d] \in Key \cup {None} /\ activeKey \in [Conn -> Key \cup {None}]
  BY DEF TypeOK
<1>1. CASE activeKey'[d] = activeKey[d]
  BY <1>0, <1>1, OverlapStays DEF KeyTraced
<1>2. CASE activeKey'[d] = None
  BY <1>2 DEF KeyTraced
<1>3. ASSUME NEW h \in Handler, ConnectTcp(h), ConnOf(h) = d PROVE KeyTraced(d)'
  <2>1. handler'[h].session # None /\ KeyOf(handler'[h].session) = activeKey'[d]
    BY <1>0, <1>3 DEF ConnectTcp, Admissible, TypeOK
  <2>2. QED
    BY <1>3, <2>1 DEF KeyTraced, HasKey, KeyOf
<1>4. ASSUME NEW h \in Handler, HandlerStep(h), activeKey'[d] # activeKey[d]
      PROVE  (ConnectTcp(h) /\ ConnOf(h) = d) \/ activeKey'[d] = None
  BY <1>0, <1>4 DEF HandlerStep, RejectAuth, ConnectTcp, TcpConnected, TcpConnectFails, TcpData,
                    TcpClosed
<1>5. ASSUME NEW c \in Conn, ConnStep(c) PROVE UNCHANGED activeKey
  BY <1>5 DEF ConnStep, Connect, RejectMessage, TextFrame, BinaryFrame, Timeout, WsClosed
<1>6. QED
  BY <1>1, <1>2, <1>3, <1>4, <1>5, NextCases DEF AuthMessage, ServerClose, vars, relayVars

-----------------------------------------------------------------------------
(* A connection that has not overlapped stays in order.                    *)

LEMMA ConnStepInOrder ==
  ASSUME AnyInv, NEW c \in Conn, InOrder(c), ConnStep(c), c \notin overlapped'
  PROVE  InOrder(c)'
<1> USE DEF AnyInv
<1>0. ConnInOrder(c) /\ SocketHeld(c) /\ \A g \in Handler : ConnOf(g) = c => HandlerInOrder(g)
  BY DEF InOrder
<1>1. CASE WsClosed(c)
  <2>1. Connecting(c) = {}
    BY <1>1 DEF WsClosed, MarkOverlap
  <2>2. UNCHANGED <<authed, activeKey, tcp, handler>> /\ Connecting(c)' = Connecting(c)
    BY <1>1 DEF WsClosed, Connecting
  <2>3. ConnInOrder(c)'
    BY <1>0, <2>2 DEF ConnInOrder, KeyOf
  <2>4. ASSUME NEW g \in Handler, ConnOf(g) = c PROVE HandlerInOrder(g)'
    <3>1. HandlerInOrder(g) /\ handler[g].step # "connecting"
      BY <1>0, <2>1, <2>4 DEF Connecting
    <3>2. sock'[g] # "open"
      BY <1>1, <2>4, <3>1, NoneAssumption DEF WsClosed, HandlerInOrder, TypeOK
    <3>3. QED
      BY <2>2, <3>1, <3>2 DEF HandlerInOrder
  <2>5. QED
    BY <2>3, <2>4 DEF InOrder
<1>2. CASE ~WsClosed(c)
  <2>1. UNCHANGED <<authed, activeKey, tcp, handler, sock>>
    BY <1>2 DEF ConnStep, Connect, RejectMessage, TextFrame, BinaryFrame, Timeout
  <2>2. ws'[c] = "closed" <=> ws[c] = "closed"
    BY <1>2, SafeCloseType DEF ConnStep, Connect, RejectMessage, TextFrame, BinaryFrame, Timeout,
                               Dispatching, TypeOK
  <2>3. Untouched(c)
    BY <2>1, <2>2 DEF Untouched
  <2>4. QED
    BY <2>3, UntouchedKeeps
<1>3. QED
  BY <1>1, <1>2

(* AuthMessage and RejectAuth move a handler that does not connect.        *)
LEMMA WaitingInOrder ==
  ASSUME AnyInv, NEW h \in Handler, InOrder(ConnOf(h)), UNCHANGED <<authed, activeKey, tcp, sock>>,
         ws'[ConnOf(h)] = "closed" <=> ws[ConnOf(h)] = "closed",
         handler[h].step # "connecting" /\ handler'[h].step # "connecting",
         handler[h].step # "accepted",
         handler[h].step = "none" \/ handler'[h].session = handler[h].session,
         \A g \in Handler : g # h => handler'[g] = handler[g]
  PROVE  InOrder(ConnOf(h))'
<1> DEFINE c == ConnOf(h)
<1> USE DEF AnyInv
<1>1. /\ c \in Conn /\ ConnInOrder(c) /\ SocketHeld(c) /\ tcp[c] \in Handler \cup {None}
      /\ \A g \in Handler : ConnOf(g) = c => HandlerInOrder(g)
  BY ConnOfType DEF InOrder, TypeOK
<1> HIDE DEF c
<1>2. Connecting(c)' = Connecting(c)
  BY DEF Connecting
<1>3. authed[c] => handler'[tcp[c]].session = handler[tcp[c]].session
  <2>1. HandlerHolds(h) /\ (authed[c] => tcp[c] \in Handler /\ sock[tcp[c]] # "none")
    BY <1>1 DEF SocketHeld
  <2>2. QED
    BY <2>1 DEF HandlerHolds
<1>4. ConnInOrder(c)'
  BY <1>1, <1>2, <1>3 DEF ConnInOrder, KeyOf, c
<1>5. ASSUME NEW g \in Handler, ConnOf(g) = c PROVE HandlerInOrder(g)'
  <2>1. HandlerInOrder(g) /\ (g = h \/ handler'[g] = handler[g])
    BY <1>1, <1>5
  <2>2. QED
    BY <1>2, <1>5, <2>1 DEF HandlerInOrder, KeyOf, c
<1>6. QED
  BY <1>4, <1>5 DEF InOrder, c

(* The handler that connects is the only one of its connection that does,  *)
(* and the connection has no socket yet.                                   *)
LEMMA OnlyConnecting ==
  ASSUME AnyInv, NEW h \in Handler, InOrder(ConnOf(h)), handler[h].step = "connecting"
  PROVE  LET c == ConnOf(h)
         IN  /\ ws[c] # "closed" /\ ~authed[c] /\ tcp[c] = None
             /\ activeKey[c] = KeyOf(handler[h].session)
             /\ \A g \in Handler : ConnOf(g) = c /\ g # h
                                     => handler[g].step # "connecting" /\ sock[g] # "open"
<1> DEFINE c == ConnOf(h)
<1>1. HandlerInOrder(h) /\ c \in Conn /\ SocketHeld(c)
  BY ConnOfType DEF AnyInv, InOrder
<1>2. /\ ws[c] # "closed" /\ ~authed[c] /\ tcp[c] = None
      /\ activeKey[c] = KeyOf(handler[h].session)
  BY <1>1 DEF HandlerInOrder, SocketHeld
<1>3. ASSUME NEW g \in Handler, ConnOf(g) = c, g # h
      PROVE  handler[g].step # "connecting" /\ sock[g] # "open"
  <2>1. HandlerInOrder(g) /\ g # None
    BY <1>3, NoneAssumption DEF InOrder
  <2>2. QED
    BY <1>1, <1>2, <1>3, <2>1 DEF HandlerInOrder, Connecting
<1>4. QED
  BY <1>2, <1>3

LEMMA HandlerStepInOrder ==
  ASSUME AnyInv, NEW h \in Handler, InOrder(ConnOf(h)), HandlerStep(h),
         ConnOf(h) \notin overlapped'
  PROVE  InOrder(ConnOf(h))'
<1> DEFINE c == ConnOf(h)
<1> USE DEF AnyInv
<1>0. /\ c \in Conn /\ ConnInOrder(c) /\ SocketHeld(c) /\ HandlerHolds(h)
      /\ h # None /\ tcp[c] \in Handler \cup {None}
      /\ \A g \in Handler : ConnOf(g) = c => HandlerInOrder(g)
  BY ConnOfType, NoneAssumption DEF TypeOK, InOrder
<1> HIDE DEF c
\* handlers that do not connect and do not move
<1>1. ASSUME NEW g \in Handler, handler'[g] = handler[g], handler[g].step # "connecting",
             sock'[g] # "open"
      PROVE  HandlerInOrder(g)'
  BY <1>1 DEF HandlerInOrder
<1>2. CASE RejectAuth(h)
  <2>1. /\ UNCHANGED <<authed, activeKey, tcp, sock>>
        /\ ws'[c] = "closed" <=> ws[c] = "closed"
        /\ handler[h].step = "resolving" /\ handler'[h].step = "rejected"
        /\ handler'[h].session = handler[h].session
        /\ \A g \in Handler : g # h => handler'[g] = handler[g]
    BY <1>0, <1>2, SafeCloseType DEF RejectAuth, TypeOK, c
  <2>2. QED
    BY <2>1, WaitingInOrder DEF c
<1>3. CASE ConnectTcp(h)
  <2>1. /\ ws[c] # "closed" /\ ~authed[c] /\ Connecting(c) = {}
    BY <1>3 DEF ConnectTcp, MarkOverlap, c
  <2>2. /\ activeKey'[c] = KeyOf(handler[h].session)
        /\ UNCHANGED <<authed, ws, tcp>>
        /\ handler'[h].step = "connecting" /\ handler'[h].session = handler[h].session
        /\ sock'[h] = "connecting"
        /\ \A g \in Handler : g # h => handler'[g] = handler[g] /\ sock'[g] = sock[g]
    BY <1>0, <1>3 DEF ConnectTcp, TypeOK, c
  <2>3. \A g \in Handler : ConnOf(g) = c => handler[g].step # "connecting" /\ sock[g] # "open"
    BY <1>0, <2>1, NoneAssumption DEF Connecting, HandlerInOrder, SocketHeld
  <2>4. Connecting(c)' = {h}
    BY <2>2, <2>3 DEF Connecting, c
  <2>5. ConnInOrder(c)'
    BY <2>1, <2>2, <2>4 DEF ConnInOrder
  <2>6. ASSUME NEW g \in Handler, ConnOf(g) = c PROVE HandlerInOrder(g)'
    <3>1. CASE g = h
      BY <2>1, <2>2, <2>4, <2>6, <3>1 DEF HandlerInOrder, KeyOf
    <3>2. CASE g # h
      BY <1>1, <2>2, <2>3, <2>6, <3>2
    <3>3. QED
      BY <3>1, <3>2
  <2>7. QED
    BY <2>5, <2>6 DEF InOrder, c
<1>4. CASE TcpConnected(h)
  <2>1. /\ ws[c] # "closed" /\ ~authed[c] /\ activeKey[c] = KeyOf(handler[h].session)
        /\ \A g \in Handler : ConnOf(g) = c /\ g # h
                                => handler[g].step # "connecting" /\ sock[g] # "open"
    BY <1>4, OnlyConnecting DEF TcpConnected, c
  <2>2. /\ authed'[c] /\ tcp'[c] = h
        /\ UNCHANGED <<ws, activeKey>>
        /\ handler'[h].step = "accepted" /\ handler'[h].session = handler[h].session
        /\ sock'[h] = "open"
        /\ \A g \in Handler : g # h => handler'[g] = handler[g] /\ sock'[g] = sock[g]
    BY <1>0, <1>4 DEF TcpConnected, TypeOK, c
  <2>3. ConnInOrder(c)'
    BY <2>1, <2>2 DEF ConnInOrder, KeyOf
  <2>4. ASSUME NEW g \in Handler, ConnOf(g) = c PROVE HandlerInOrder(g)'
    <3>1. CASE g = h
      BY <2>1, <2>2, <2>4, <3>1 DEF HandlerInOrder
    <3>2. CASE g # h
      BY <1>1, <2>1, <2>2, <2>4, <3>2
    <3>3. QED
      BY <3>1, <3>2
  <2>5. QED
    BY <2>3, <2>4 DEF InOrder, c
<1>5. CASE TcpConnectFails(h)
  <2>1. /\ ~authed[c]
        /\ \A g \in Handler : ConnOf(g) = c /\ g # h
                                => handler[g].step # "connecting" /\ sock[g] # "open"
    BY <1>5, OnlyConnecting DEF TcpConnectFails, c
  <2>2. /\ activeKey'[c] = None
        /\ UNCHANGED <<authed, tcp>>
        /\ handler'[h].step = "rejected" /\ sock'[h] = "destroyed"
        /\ \A g \in Handler : g # h => handler'[g] = handler[g] /\ sock'[g] = sock[g]
    BY <1>0, <1>5 DEF TcpConnectFails, TypeOK, c
  <2>3. ConnInOrder(c)'
    BY <2>1, <2>2 DEF ConnInOrder
  <2>4. ASSUME NEW g \in Handler, ConnOf(g) = c PROVE HandlerInOrder(g)'
    <3>1. CASE g = h
      BY <2>2, <3>1 DEF HandlerInOrder
    <3>2. CASE g # h
      BY <1>1, <2>1, <2>2, <2>4, <3>2
    <3>3. QED
      BY <3>1, <3>2
  <2>5. QED
    BY <2>3, <2>4 DEF InOrder, c
<1>6. CASE TcpData(h) \/ TcpClosed(h)
  <2>1. /\ UNCHANGED <<authed, activeKey, tcp, handler>>
        /\ ws'[c] = "closed" <=> ws[c] = "closed"
        /\ \A g \in Handler : sock'[g] = "open" => sock[g] = "open"
    BY <1>0, <1>6, SafeCloseType DEF TcpData, TcpClosed, TypeOK, c
  <2>2. Connecting(c)' = Connecting(c)
    BY <2>1 DEF Connecting
  <2>3. ConnInOrder(c)'
    BY <1>0, <2>1, <2>2 DEF ConnInOrder, KeyOf
  <2>4. ASSUME NEW g \in Handler, ConnOf(g) = c PROVE HandlerInOrder(g)'
    <3>1. HandlerInOrder(g)
      BY <1>0, <2>4
    <3>2. QED
      BY <2>1, <2>2, <2>4, <3>1 DEF HandlerInOrder, KeyOf
  <2>5. QED
    BY <2>3, <2>4 DEF InOrder, c
<1>7. QED
  BY <1>2, <1>3, <1>4, <1>5, <1>6 DEF HandlerStep

LEMMA InOrderStep ==
  ASSUME RelayInv, [Next]_vars, NEW d \in Conn, d \notin overlapped'
  PROVE  InOrder(d)'
<1>0. AnyInv /\ InOrder(d)
  BY OverlapStays DEF RelayInv
<1>1. CASE Untouched(d)
  BY <1>0, <1>1, UntouchedKeeps
<1>2. ASSUME NEW c \in Conn, ConnStep(c) PROVE InOrder(d)'
  BY <1>0, <1>1, <1>2, StepIsLocal, ConnStepInOrder
<1>3. ASSUME NEW h \in Handler, HandlerStep(h) PROVE InOrder(d)'
  BY <1>0, <1>1, <1>3, StepIsLocal, HandlerStepInOrder, ConnOfType
<1>4. ASSUME NEW h \in Handler, NEW t \in Token, AuthMessage(h, t) PROVE InOrder(d)'
  <2>1. CASE ConnOf(h) = d
    <3>1. /\ UNCHANGED <<ws, authed, activeKey, tcp, sock>>
          /\ handler[h].step = "none" /\ handler'[h].step = "resolving"
          /\ \A g \in Handler : g # h => handler'[g] = handler[g]
      BY <1>0, <1>4 DEF AuthMessage, AnyInv, TypeOK
    <3>2. QED
      BY <1>0, <2>1, <3>1, WaitingInOrder
  <2>2. CASE ConnOf(h) # d
    BY <1>0, <1>1, <1>4, <2>2, StepIsLocal, ConnOfType
  <2>3. QED
    BY <2>1, <2>2
<1>5. CASE ServerClose
  <2>1. Untouched(d)
    BY <1>0, <1>5 DEF ServerClose, Untouched, AnyInv, TypeOK
  <2>2. QED
    BY <1>1, <2>1
<1>6. CASE UNCHANGED relayVars
  <2>1. Untouched(d)
    BY <1>6 DEF relayVars, Untouched
  <2>2. QED
    BY <1>1, <2>1
<1>7. QED
  BY <1>2, <1>3, <1>4, <1>5, <1>6, NextCases DEF vars

-----------------------------------------------------------------------------
(* The slot table, one key at a time.                                      *)
Exact(k) == active[k] = Cardinality(Holders(k))

LEMMA HoldersFinite ==
  ASSUME NEW k
  PROVE  IsFiniteSet(Holders(k)) /\ Cardinality(Holders(k)) \in Nat
BY RelayAssumption, FS_Subset, FS_CardinalityType DEF Holders

LEMMA SlotTaken ==
  ASSUME NEW k \in Key, Exact(k), active \in [Key -> Nat], NEW c \in Conn, c \notin Holders(k),
         active' = [active EXCEPT ![k] = @ + 1], Holders(k)' = Holders(k) \cup {c}
  PROVE  Exact(k)'
<1>1. Cardinality(Holders(k) \cup {c}) = Cardinality(Holders(k)) + 1
  BY HoldersFinite, FS_AddElement
<1>2. QED
  BY <1>1 DEF Exact

LEMMA SlotGivenBack ==
  ASSUME NEW k \in Key, Exact(k), active \in [Key -> Nat], NEW c \in Conn, c \in Holders(k),
         DecrementActive(k), Holders(k)' = Holders(k) \ {c}
  PROVE  Exact(k)'
<1>1. /\ Cardinality(Holders(k) \ {c}) = Cardinality(Holders(k)) - 1
      /\ Cardinality(Holders(k) \ {c}) \in Nat
  BY HoldersFinite, FS_RemoveElement, FS_CardinalityType
<1>2. active'[k] = IF active[k] <= 1 THEN 0 ELSE active[k] - 1
  BY NoneAssumption DEF DecrementActive
<1>3. QED
  BY <1>1, <1>2, HoldersFinite DEF Exact

(* Giving back the slot of another key, or of none, moves no slot of k.    *)
LEMMA OtherKey ==
  ASSUME NEW k \in Key, NEW j \in Key \cup {None}, j # k,
         active \in [Key -> Nat], DecrementActive(j)
  PROVE  active'[k] = active[k]
BY NoneAssumption DEF DecrementActive

LEMMA SlotsStep ==
  ASSUME RelayInv, [Next]_vars, NEW k \in Key, ~Disturbed(k)'
  PROVE  Exact(k)'
<1> USE DEF RelayInv, AnyInv
<1>0. /\ active \in [Key -> Nat] /\ k # None /\ Exact(k) /\ activeKey \in [Conn -> Key \cup {None}]
  BY OverlapStays, NoneAssumption DEF TypeOK, SlotsExact, Exact
\* a connection that holds the key has not overlapped, before or after
<1>1. ASSUME NEW c \in Conn, activeKey[c] = k PROVE c \notin overlapped' /\ InOrder(c)
  <2>1. PICK h \in Handler : ConnOf(h) = c /\ HasKey(h, k)
    BY <1>0, <1>1 DEF KeyTraced
  <2>2. c \notin overlapped'
    BY <2>1, OverlapStays DEF Disturbed
  <2>3. QED
    BY <2>2, OverlapStays
\* no slot moves
<1>2. ASSUME active'[k] = active[k], Holders(k)' = Holders(k) PROVE Exact(k)'
  BY <1>0, <1>2 DEF Exact
<1>3. ASSUME UNCHANGED <<active, activeKey>>,
             \A d \in Conn : ws'[d] = "closed" <=> ws[d] = "closed"
      PROVE  Exact(k)'
  BY <1>2, <1>3 DEF Holders
<1>4. ASSUME NEW c \in Conn, ConnStep(c), ~WsClosed(c) PROVE Exact(k)'
  <2>1. UNCHANGED <<active, activeKey>>
    BY <1>4 DEF ConnStep, Connect, RejectMessage, TextFrame, BinaryFrame, Timeout
  <2>2. \A d \in Conn : ws'[d] = "closed" <=> ws[d] = "closed"
    BY <1>4, SafeCloseType DEF ConnStep, Connect, RejectMessage, TextFrame, BinaryFrame, Timeout,
                               TypeOK
  <2>3. QED
    BY <1>3, <2>1, <2>2
<1>5. ASSUME NEW c \in Conn, WsClosed(c) PROVE Exact(k)'
  <2>1. /\ ws[c] # "closed" /\ ws'[c] = "closed" /\ UNCHANGED activeKey
        /\ \A d \in Conn : d # c => ws'[d] = ws[d]
        /\ activeKey[c] \in Key \cup {None} /\ DecrementActive(activeKey[c])
    BY <1>5 DEF WsClosed, Dispatching, TypeOK
  <2>2. CASE activeKey[c] # k
    <3>1. active'[k] = active[k]
      BY <1>0, <2>1, <2>2, OtherKey
    <3>2. Holders(k)' = Holders(k)
      BY <2>1, <2>2 DEF Holders
    <3>3. QED
      BY <1>2, <3>1, <3>2
  <2>3. CASE activeKey[c] = k
    <3>1. c \in Holders(k) /\ Holders(k)' = Holders(k) \ {c}
      BY <2>1, <2>3 DEF Holders
    <3>2. QED
      BY <1>0, <2>1, <2>3, <3>1, SlotGivenBack
  <2>4. QED
    BY <2>2, <2>3
<1>6. ASSUME NEW h \in Handler, ConnectTcp(h) PROVE Exact(k)'
  <2> DEFINE c == ConnOf(h)
             j == KeyOf(handler[h].session)
  <2>1. /\ c \in Conn /\ ws' = ws /\ j \in Key \cup {None} /\ handler[h].session # None
        /\ activeKey'[c] = j /\ \A d \in Conn : d # c => activeKey'[d] = activeKey[d]
        /\ active' = IF j = None THEN active ELSE [active EXCEPT ![j] = @ + 1]
    BY <1>0, <1>6, ConnOfType, KeyOfType DEF ConnectTcp, Admissible, TypeOK
  \* a connection that starts to connect in order holds nothing yet
  <2>2. ASSUME c \notin overlapped' PROVE ws[c] # "closed" /\ activeKey[c] = None
    <3>1. ws[c] # "closed" /\ ~authed[c] /\ Connecting(c) = {}
      BY <1>6, <2>2 DEF ConnectTcp, MarkOverlap
    <3>2. ConnInOrder(c)
      BY <2>1, <2>2, OverlapStays DEF InOrder
    <3>3. QED
      BY <3>1, <3>2 DEF ConnInOrder
  <2>3. activeKey[c] # k
    BY <1>0, <1>1, <2>1, <2>2
  <2>4. CASE j # k
    <3>1. active'[k] = active[k]
      BY <1>0, <2>1, <2>4
    <3>2. Holders(k)' = Holders(k)
      BY <2>1, <2>3, <2>4 DEF Holders
    <3>3. QED
      BY <1>2, <3>1, <3>2
  <2>5. CASE j = k
    <3>1. HasKey(h, k)'
      BY <2>1, <2>5, OverlapStays DEF HasKey
    <3>2. c \notin overlapped'
      BY <3>1 DEF Disturbed
    <3>3. c \notin Holders(k) /\ Holders(k)' = Holders(k) \cup {c}
      BY <2>1, <2>2, <2>3, <2>5, <3>2 DEF Holders
    <3>4. active' = [active EXCEPT ![k] = @ + 1]
      BY <1>0, <2>1, <2>5
    <3>5. QED
      BY <1>0, <2>1, <3>3, <3>4, SlotTaken
  <2>6. QED
    BY <2>4, <2>5
<1>7. ASSUME NEW h \in Handler, TcpConnectFails(h) PROVE Exact(k)'
  <2> DEFINE c == ConnOf(h)
  <2>1. /\ c \in Conn /\ activeKey[c] \in Key \cup {None} /\ DecrementActive(activeKey[c])
        /\ activeKey'[c] = None /\ \A d \in Conn : d # c => activeKey'[d] = activeKey[d]
        /\ \A d \in Conn : ws'[d] = "closed" <=> ws[d] = "closed"
    BY <1>0, <1>7, ConnOfType, SafeCloseType DEF TcpConnectFails, TypeOK
  <2>2. CASE activeKey[c] # k
    <3>1. active'[k] = active[k]
      BY <1>0, <2>1, <2>2, OtherKey
    <3>2. Holders(k)' = Holders(k)
      BY <1>0, <2>1, <2>2 DEF Holders
    <3>3. QED
      BY <1>2, <3>1, <3>2
  <2>3. CASE activeKey[c] = k
    <3>1. ws[c] # "closed"
      BY <1>1, <1>7, <2>1, <2>3, OnlyConnecting DEF TcpConnectFails
    <3>2. c \in Holders(k) /\ Holders(k)' = Holders(k) \ {c}
      BY <1>0, <2>1, <2>3, <3>1 DEF Holders
    <3>3. QED
      BY <1>0, <2>1, <2>3, <3>2, SlotGivenBack
  <2>4. QED
    BY <2>2, <2>3
<1>8. ASSUME NEW h \in Handler, HandlerStep(h), ~ConnectTcp(h), ~TcpConnectFails(h)
      PROVE  Exact(k)'
  <2>1. UNCHANGED <<active, activeKey>>
    BY <1>8 DEF HandlerStep, RejectAuth, TcpConnected, TcpData, TcpClosed
  <2>2. \A d \in Conn : ws'[d] = "closed" <=> ws[d] = "closed"
    BY <1>8, ConnOfType, SafeCloseType
       DEF HandlerStep, RejectAuth, TcpConnected, TcpData, TcpClosed, TypeOK
  <2>3. QED
    BY <1>3, <2>1, <2>2
<1>9. CASE \E h \in Handler, t \in Token : AuthMessage(h, t)
  BY <1>3, <1>9 DEF AuthMessage
<1>10. CASE ServerClose
  BY <1>3, <1>10 DEF ServerClose, TypeOK
<1>11. CASE UNCHANGED relayVars
  BY <1>3, <1>11 DEF relayVars
<1>12. QED
  BY <1>4, <1>5, <1>6, <1>7, <1>8, <1>9, <1>10, <1>11, NextCases DEF vars

(* incrementActive never passes the limit, whatever overlaps.              *)
LEMMA BoundedStep ==
  ASSUME AnyInv, SlotsBounded, [Next]_vars
  PROVE  SlotsBounded'
<1> SUFFICES ASSUME NEW k \in Key PROVE active'[k] <= MaxConnectionsPerSession
  BY DEF SlotsBounded
<1>0. /\ active \in [Key -> Nat] /\ active[k] \in Nat /\ active[k] <= MaxConnectionsPerSession
      /\ MaxConnectionsPerSession \in Nat /\ activeKey \in [Conn -> Key \cup {None}]
  BY RelayAssumption DEF AnyInv, TypeOK, SlotsBounded
<1>1. ASSUME NEW j \in Key \cup {None}, DecrementActive(j)
      PROVE  active'[k] <= MaxConnectionsPerSession
  BY <1>0, <1>1, NoneAssumption DEF DecrementActive
<1>2. ASSUME NEW h \in Handler, ConnectTcp(h) PROVE active'[k] <= MaxConnectionsPerSession
  <2> DEFINE j == KeyOf(handler[h].session)
  <2>1. /\ active' = IF j = None THEN active ELSE [active EXCEPT ![j] = @ + 1]
        /\ j # None => active[j] < MaxConnectionsPerSession
    BY <1>2 DEF ConnectTcp, Admissible, HasSlot
  <2> HIDE DEF j
  <2>2. QED
    BY <1>0, <2>1
<1>3. ASSUME NEW h \in Handler, HandlerStep(h) PROVE active'[k] <= MaxConnectionsPerSession
  <2>1. CASE TcpConnectFails(h)
    BY <1>0, <1>1, <2>1, ConnOfType DEF TcpConnectFails
  <2>2. QED
    BY <1>0, <1>2, <1>3, <2>1 DEF HandlerStep, RejectAuth, TcpConnected, TcpData, TcpClosed
<1>4. ASSUME NEW c \in Conn, ConnStep(c) PROVE active'[k] <= MaxConnectionsPerSession
  <2>1. CASE WsClosed(c)
    BY <1>0, <1>1, <2>1 DEF WsClosed
  <2>2. QED
    BY <1>0, <1>4, <2>1 DEF ConnStep, Connect, RejectMessage, TextFrame, BinaryFrame, Timeout
<1>5. QED
  BY <1>0, <1>3, <1>4, NextCases DEF AuthMessage, ServerClose, vars, relayVars

LEMMA RelayInit == Init => RelayInv
<1> SUFFICES ASSUME Init PROVE RelayInv
  OBVIOUS
<1>1. AnyInv
  BY AnyInit
<1>2. \A c \in Conn : KeyTraced(c) /\ InOrder(c)
  BY DEF Init, NoHandler, KeyTraced, InOrder, ConnInOrder, HandlerInOrder
<1>3. ASSUME NEW k \in Key PROVE active[k] = Cardinality(Holders(k)) /\ active[k] = 0
  <2>1. Holders(k) = {}
    BY NoneAssumption DEF Init, Holders
  <2>2. QED
    BY <2>1, FS_EmptySet DEF Init
<1>4. SlotsExact /\ SlotsBounded
  BY <1>3, RelayAssumption DEF SlotsExact, SlotsBounded
<1>5. QED
  BY <1>1, <1>2, <1>4 DEF RelayInv

LEMMA RelayStep == RelayInv /\ [Next]_vars => RelayInv'
<1> SUFFICES ASSUME RelayInv, [Next]_vars PROVE RelayInv'
  OBVIOUS
<1>1. AnyInv'
  BY AnyStep DEF RelayInv
<1>2. \A c \in Conn : KeyTraced(c)'
  BY TracedStep DEF RelayInv
<1>3. \A c \in Conn \ overlapped' : InOrder(c)'
  BY InOrderStep
<1>4. SlotsExact'
  BY SlotsStep DEF SlotsExact, Exact
<1>5. SlotsBounded'
  BY BoundedStep DEF RelayInv
<1>6. QED
  BY <1>1, <1>2, <1>3, <1>4, <1>5 DEF RelayInv

LEMMA RelayInvariance == Spec => []RelayInv
BY RelayInit, RelayStep, PTL DEF Spec

(* No slot of activeConnections is leaked and none is given back twice     *)
(* (incrementActive, decrementActive) for a session none of whose          *)
(* connections has overlapped, for any number of connections and whatever  *)
(* overlaps elsewhere.                                                     *)
THEOREM SlotsAreExact == Spec => []SlotsExact
<1>1. RelayInv => SlotsExact
  BY DEF RelayInv
<1>2. QED
  BY <1>1, RelayInvariance, PTL

(* A socket that is open for an undisturbed key belongs to a connection    *)
(* that holds a slot under it.                                             *)
LEMMA OpenSocketHoldsSlot ==
  ASSUME RelayInv, NEW k \in Key, ~Disturbed(k), NEW h \in OpenSockets(k)
  PROVE  ConnOf(h) \in Holders(k) /\ tcp[ConnOf(h)] = h
<1> DEFINE c == ConnOf(h)
<1>1. h \in Handler /\ h # None /\ sock[h] = "open" /\ HasKey(h, k) /\ c \in Conn
  BY ConnOfType, NoneAssumption DEF OpenSockets
<1>2. HandlerInOrder(h) /\ SocketHeld(c) /\ ConnInOrder(c)
  <2>1. c \notin overlapped
    BY <1>1 DEF Disturbed
  <2>2. QED
    BY <1>1, <2>1 DEF RelayInv, AnyInv, InOrder
<1>3. tcp[c] = h /\ ws[c] # "closed"
  BY <1>1, <1>2 DEF HandlerInOrder
<1>4. activeKey[c] = KeyOf(handler[h].session)
  BY <1>1, <1>2, <1>3 DEF SocketHeld, ConnInOrder
<1>5. QED
  BY <1>1, <1>3, <1>4 DEF Holders, HasKey

(* The relay never keeps more TCP connections open for a session and an    *)
(* HPC than maxConnectionsPerSession, as long as no connection of that     *)
(* session has overlapped, for any number of WebSockets.                   *)
THEOREM SessionLimitHolds == Spec => []LimitUnlessDisturbed
<1>1. RelayInv => LimitUnlessDisturbed
  <2> SUFFICES ASSUME RelayInv, NEW k \in Key, ~Disturbed(k)
               PROVE  Cardinality(OpenSockets(k)) <= MaxConnectionsPerSession
    BY DEF LimitUnlessDisturbed, WithinLimit
  <2> DEFINE f == [h \in OpenSockets(k) |-> ConnOf(h)]
  <2>1. f \in [OpenSockets(k) -> Holders(k)]
    BY OpenSocketHoldsSlot
  <2>2. \A g, h \in OpenSockets(k) : f[g] = f[h] => g = h
    BY OpenSocketHoldsSlot
  <2>3. f \in Injection(OpenSockets(k), Holders(k))
    BY <2>1, <2>2 DEF Injection, IsInjective
  <2>4. /\ IsFiniteSet(OpenSockets(k))
        /\ Cardinality(OpenSockets(k)) <= Cardinality(Holders(k))
    BY <2>3, HoldersFinite, FS_Injection
  <2>5. Cardinality(OpenSockets(k)) \in Nat /\ Cardinality(Holders(k)) \in Nat
    BY <2>4, HoldersFinite, FS_CardinalityType
  <2>6. Cardinality(Holders(k)) <= MaxConnectionsPerSession
    BY DEF RelayInv, SlotsExact, SlotsBounded
  <2>7. QED
    BY <2>4, <2>5, <2>6, RelayAssumption
<1>2. QED
  BY <1>1, RelayInvariance, PTL

(* A TCP connection outlives its WebSocket only through an overlap: the    *)
(* 'close' handler destroys the socket of every other connection.          *)
THEOREM OnlyOverlapsOrphan == Spec => []OrphansOverlapped
<1>1. RelayInv => OrphansOverlapped
  BY ConnOfType DEF RelayInv, InOrder, HandlerInOrder, OrphansOverlapped
<1>2. QED
  BY <1>1, RelayInvariance, PTL

(* An authenticated WebSocket keeps its socket unless it has overlapped:   *)
(* no other step replaces `tcp`.                                           *)
THEOREM SocketIsKept == Spec => SocketKept
<1>1. RelayInv /\ [Next]_vars
        => [\A c \in Conn : tcp[c] # None /\ tcp'[c] # tcp[c] => c \in overlapped]_vars
  <2> SUFFICES ASSUME RelayInv, [Next]_vars, NEW c \in Conn, tcp[c] # None, c \notin overlapped
               PROVE  tcp'[c] = tcp[c]
    OBVIOUS
  <2>1. ASSUME NEW h \in Handler, TcpConnected(h) PROVE tcp'[c] = tcp[c]
    <3>1. ConnOf(h) # c
      BY <2>1, OnlyConnecting DEF TcpConnected, RelayInv
    <3>2. QED
      BY <2>1, <3>1 DEF TcpConnected, RelayInv, AnyInv, TypeOK
  <2>2. QED
    BY <2>1 DEF Next, vars, relayVars, Connect, RejectMessage, TextFrame, BinaryFrame, WsClosed,
                Timeout, AuthMessage, RejectAuth, ConnectTcp, TcpConnectFails, TcpData, TcpClosed,
                ServerClose
<1>2. QED
  BY <1>1, RelayInvariance, PTL DEF Spec, SocketKept
=============================================================================
