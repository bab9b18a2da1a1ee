----------------------------- MODULE RelayClients -----------------------------
(***************************************************************************)
(* The two clients of the relay, each with one WebSocket to it: the        *)
(* extension's SlaifRelayStream (extension/js/slaif_relay.js), whose       *)
(* program is the browser SSH client, and the development bridge           *)
(* (tools/ws-tcp-bridge.js), whose program is an SSH client at the other   *)
(* end of a local TCP socket.                                              *)
(*                                                                         *)
(* A frame is a number: Text is the JSON text of the handshake ("auth" one *)
(* way, "ok" the other), n > 0 is the n-th chunk of SSH bytes of its       *)
(* direction.  WebSockets deliver in order.  The relay is reduced to what  *)
(* a client sees of it; Relay.tla has the rest.                            *)
(***************************************************************************)
EXTENDS Naturals, Sequences

CONSTANT MaxChunks      \* bound: chunks per direction

ASSUME MaxChunksAssumption == MaxChunks \in Nat

Text == 0
Frame == 0..MaxChunks

VARIABLES
    kind,       \* which client this is
    ws,         \* readyState of its WebSocket ("none": not created)
    up, down,   \* frames on their way to the relay and to the client
    relay,      \* the relay's side of the connection
    opening,    \* stream: where open() is
    listener,   \* stream: the listener for the answer is registered
    authed,     \* `authenticated` of the stream, `authed` of the bridge
    tcp,        \* bridge: the local socket
    backlog,    \* bridge: bytes the local socket has buffered
    \* history
    written,    \* chunks the program wrote
    received,   \* chunks the relay passed on to the SSH server
    sent,       \* chunks the SSH server sent
    delivered   \* chunks the program got

wire == <<ws, up, down, relay>>
history == <<written, received, sent, delivered>>
vars == <<kind, wire, opening, listener, authed, tcp, backlog, history>>

(* Every variable keeps its type.                                          *)
TypeOK ==
    /\ kind \in {"stream", "bridge"}
    /\ ws \in {"none", "connecting", "open", "closing", "closed"}
    /\ up \in Seq(Frame) /\ down \in Seq(Frame)
    /\ relay \in {"fresh", "authenticating", "spliced", "refused", "closed"}
    /\ opening \in {"none", "connect", "answer", "done", "failed"}
    /\ listener \in BOOLEAN /\ authed \in BOOLEAN
    /\ tcp \in {"none", "paused", "flowing", "destroyed"}
    /\ backlog \in Seq(Frame)
    /\ written \in 0..MaxChunks /\ sent \in 0..MaxChunks
    /\ received \in Seq(Frame) /\ delivered \in Seq(Frame)

Init ==
    /\ kind \in {"stream", "bridge"}
    /\ ws = "none" /\ up = <<>> /\ down = <<>> /\ relay = "fresh"
    /\ opening = "none" /\ listener = FALSE /\ authed = FALSE
    /\ tcp = "none" /\ backlog = <<>>
    /\ written = 0 /\ received = <<>> /\ sent = 0 /\ delivered = <<>>

Sends_Shifted(f) == up' = Append(up, f - 1)
Sends(f) == up' = Append(up, f)

-----------------------------------------------------------------------------
(* The relay, as its clients see it.                                       *)

(* The message handler: before it has accepted the connection a binary     *)
(* frame is refused (auth_required), after that a text frame is.           *)
RelayReads ==
    /\ up # <<>> /\ up' = Tail(up)
    /\ relay' = CASE relay = "fresh" /\ Head(up) = Text -> "authenticating"
                  [] relay \in {"fresh", "authenticating"} /\ Head(up) # Text -> "refused"
                  [] relay = "spliced" /\ Head(up) = Text -> "refused"
                  [] OTHER -> relay
    /\ received' = IF relay = "spliced" /\ Head(up) # Text
                   THEN Append(received, Head(up)) ELSE received
    /\ UNCHANGED <<kind, ws, down, opening, listener, authed, tcp, backlog, written, sent, delivered>>

RelayAccepts ==
    /\ relay = "authenticating" /\ relay' = "spliced"
    /\ down' = Append(down, Text)
    /\ UNCHANGED <<kind, ws, up, opening, listener, authed, tcp, backlog, history>>

(* A chunk of the SSH server.                                              *)
RelayForwards ==
    /\ relay = "spliced" /\ sent < MaxChunks
    /\ sent' = sent + 1
    /\ down' = Append(down, sent + 1)
    /\ UNCHANGED <<kind, ws, up, relay, opening, listener, authed, tcp, backlog,
                   written, received, delivered>>

(* The token is refused, a timer fires or the SSH server hangs up.         *)
RelayCloses_AcceptedOnly ==
    /\ relay = "spliced" /\ ws \notin {"none", "connecting"}
    /\ relay' = "closed"
    /\ UNCHANGED <<kind, ws, up, down, opening, listener, authed, tcp, backlog, history>>
RelayCloses ==
    /\ relay \in {"fresh", "authenticating", "spliced"} /\ ws \notin {"none", "connecting"}
    /\ relay' = "closed"
    /\ UNCHANGED <<kind, ws, up, down, opening, listener, authed, tcp, backlog, history>>

(* The relay has read all the client sent and sees its close frame.        *)
RelaySeesClose ==
    /\ ws \in {"closing", "closed"} /\ up = <<>>
    /\ relay \in {"fresh", "authenticating", "spliced"}
    /\ relay' = "closed"
    /\ UNCHANGED <<kind, ws, up, down, opening, listener, authed, tcp, backlog, history>>

-----------------------------------------------------------------------------
(* SlaifRelayStream, created by SlaifRelay.openSocket for the target of    *)
(* the policy (for any other target openSocket returns null).              *)

OpenSocket ==
    /\ kind = "stream" /\ ws = "none"
    /\ ws' = "connecting"
    /\ opening' = "connect"
    /\ UNCHANGED <<kind, up, down, relay, listener, authed, tcp, backlog, history>>

(* 'open': the continuation of the first await registers the listener and  *)
(* sends the token, unless the open timeout came first.                    *)
StreamOpened ==
    /\ kind = "stream" /\ ws = "connecting" /\ ws' = "open"
    /\ IF opening = "connect"
       THEN opening' = "answer" /\ listener' = TRUE /\ Sends(Text)
       ELSE UNCHANGED <<opening, listener, up>>
    /\ UNCHANGED <<kind, down, relay, authed, tcp, backlog, history>>

StreamOpenFails ==
    /\ kind = "stream" /\ ws = "connecting" /\ ws' = "closed"
    /\ opening' = "failed"
    /\ UNCHANGED <<kind, up, down, relay, listener, authed, tcp, backlog, history>>

(* Either 10 s timer: open() rejects; the WebSocket and the listener stay. *)
StreamTimeout_OpenOnly ==
    /\ opening = "connect"
    /\ opening' = "failed"
    /\ UNCHANGED <<kind, wire, listener, authed, tcp, backlog, history>>
StreamTimeout ==
    /\ opening \in {"connect", "answer"}
    /\ opening' = "failed"
    /\ UNCHANGED <<kind, wire, listener, authed, tcp, backlog, history>>

(* A message event, fired only while the WebSocket is open.  The listener  *)
(* takes the answer, however late; open() resolves and onmessage is set in *)
(* the microtasks that follow, before the next event.                      *)
StreamMessage_OnMessageFirst ==
    /\ kind = "stream" /\ ws = "open" /\ down # <<>>
    /\ down' = Tail(down)
    /\ IF listener
       THEN /\ listener' = FALSE /\ authed' = TRUE
            /\ opening' = IF opening = "answer" THEN "done" ELSE opening
            /\ UNCHANGED delivered
       ELSE delivered' = Append(delivered, Head(down)) /\ UNCHANGED <<listener, authed, opening>>
    /\ UNCHANGED <<kind, ws, up, relay, tcp, backlog, written, received, sent>>
StreamMessage_MissesFirst ==
    /\ kind = "stream" /\ ws = "open" /\ down # <<>>
    /\ down' = IF listener /\ Len(down) > 1 THEN Tail(Tail(down)) ELSE Tail(down)
    /\ IF listener
       THEN /\ listener' = FALSE /\ authed' = TRUE
            /\ opening' = IF opening = "answer" THEN "done" ELSE opening
            /\ UNCHANGED delivered
       ELSE /\ delivered' = IF opening = "done" THEN Append(delivered, Head(down)) ELSE delivered
            /\ UNCHANGED <<listener, authed, opening>>
    /\ UNCHANGED <<kind, ws, up, relay, tcp, backlog, written, received, sent>>
StreamMessage ==
    /\ kind = "stream" /\ ws = "open" /\ down # <<>>
    /\ down' = Tail(down)
    /\ IF listener
       THEN /\ listener' = FALSE /\ authed' = TRUE
            /\ opening' = IF opening = "answer" THEN "done" ELSE opening
            /\ UNCHANGED delivered
       ELSE /\ delivered' = IF opening = "done" THEN Append(delivered, Head(down)) ELSE delivered
            /\ UNCHANGED <<listener, authed, opening>>
    /\ UNCHANGED <<kind, ws, up, relay, tcp, backlog, written, received, sent>>

(* write(): the SSH client has the stream only once openSocket returned    *)
(* it; on a WebSocket that is not open write() throws.                     *)
StreamWrite_NotAwaited ==
    /\ kind = "stream" /\ ws = "open" /\ written < MaxChunks
    /\ written' = written + 1
    /\ Sends(written + 1)
    /\ UNCHANGED <<kind, ws, down, relay, opening, listener, authed, tcp, backlog,
                   received, sent, delivered>>
StreamWrite ==
    /\ opening = "done" /\ ws = "open" /\ written < MaxChunks
    /\ written' = written + 1
    /\ Sends(written + 1)
    /\ UNCHANGED <<kind, ws, down, relay, opening, listener, authed, tcp, backlog,
                   received, sent, delivered>>

StreamClose ==
    /\ opening = "done" /\ ws = "open" /\ ws' = "closing"
    /\ UNCHANGED <<kind, up, down, relay, opening, listener, authed, tcp, backlog, history>>

-----------------------------------------------------------------------------
(* startWsTcpBridge.                                                       *)

(* A local connection: paused, so that no 'data' event comes before the    *)
(* relay has accepted (pendingTcpChunks stays empty).                      *)
BridgeAccept ==
    /\ kind = "bridge" /\ tcp = "none"
    /\ tcp' = "paused" /\ ws' = "connecting"
    /\ UNCHANGED <<kind, up, down, relay, opening, listener, authed, backlog, history>>

BridgeOpened ==
    /\ kind = "bridge" /\ ws = "connecting" /\ ws' = "open"
    /\ Sends(Text)
    /\ UNCHANGED <<kind, down, relay, opening, listener, authed, tcp, backlog, history>>

(* The ws library dispatches frames also while it is closing; a write to a *)
(* destroyed socket has no effect, nor has its resume().                   *)
BridgeMessage ==
    /\ kind = "bridge" /\ ws \in {"open", "closing"} /\ down # <<>>
    /\ down' = Tail(down)
    /\ IF ~authed
       THEN /\ authed' = TRUE
            /\ tcp' = IF tcp = "paused" THEN "flowing" ELSE tcp
            /\ UNCHANGED delivered
       ELSE /\ delivered' = IF tcp = "destroyed" THEN delivered ELSE Append(delivered, Head(down))
            /\ UNCHANGED <<authed, tcp>>
    /\ UNCHANGED <<kind, ws, up, relay, opening, listener, backlog, written, received, sent>>

LocalWrites ==
    /\ tcp \in {"paused", "flowing"} /\ written < MaxChunks
    /\ written' = written + 1
    /\ backlog' = Append(backlog, written + 1)
    /\ UNCHANGED <<kind, wire, opening, listener, authed, tcp, received, sent, delivered>>

(* The 'data' event.                                                       *)
BridgeData_DropsFirst ==
    /\ tcp = "flowing" /\ backlog # <<>>
    /\ backlog' = Tail(backlog)
    /\ IF ws = "open" /\ Len(backlog) = 1 THEN Sends(Head(backlog)) ELSE UNCHANGED up
    /\ UNCHANGED <<kind, ws, down, relay, opening, listener, authed, tcp, history>>
BridgeData ==
    /\ tcp = "flowing" /\ backlog # <<>>
    /\ backlog' = Tail(backlog)
    /\ IF ws = "open" THEN Sends(Head(backlog)) ELSE UNCHANGED up
    /\ UNCHANGED <<kind, ws, down, relay, opening, listener, authed, tcp, history>>

(* closeBoth; what the local socket still buffered is lost with it.        *)
CloseBoth_KeepsWs ==
    /\ tcp' = "destroyed" /\ backlog' = <<>>
    /\ UNCHANGED ws
CloseBoth ==
    /\ tcp' = "destroyed" /\ backlog' = <<>>
    /\ ws' = CASE ws = "open" -> "closing" [] ws = "connecting" -> "closed" [] OTHER -> ws

(* The local peer hangs up: an orderly end is noticed behind its last      *)
(* chunk and not while the socket is paused, a reset (`abort`) at any time.*)
(* close() of the bridge does the same to every connection.                *)
LocalEnds(abort) ==
    /\ tcp \in {"paused", "flowing"}
    /\ abort \/ (tcp = "flowing" /\ backlog = <<>>)
    /\ CloseBoth
    /\ UNCHANGED <<kind, up, down, relay, opening, listener, authed, history>>

-----------------------------------------------------------------------------
(* The WebSocket closes: the relay closed it behind its last frame, the    *)
(* closing handshake is over, or (`abort`) the connection broke and what   *)
(* was on its way is lost.                                                 *)
WsCloses(abort) ==
    /\ ws \in {"connecting", "open", "closing"}
    /\ \/ abort
       \/ ws \in {"open", "closing"} /\ relay \in {"refused", "closed"} /\ down = <<>>
    /\ kind = "stream" => ws # "connecting"
    /\ down' = <<>> /\ up' = IF abort THEN <<>> ELSE up
    /\ relay' = IF abort /\ relay # "refused" THEN "closed" ELSE relay
    /\ ws' = "closed"
    /\ IF kind = "bridge" THEN tcp' = "destroyed" /\ backlog' = <<>> ELSE UNCHANGED <<tcp, backlog>>
    /\ UNCHANGED <<kind, opening, listener, authed, history>>

(* Nothing is left to do on a connection that both sides have closed.      *)
Over == ws = "closed" /\ relay \in {"refused", "closed"} /\ up = <<>> /\ UNCHANGED vars

Relay == RelayReads \/ RelayAccepts \/ RelayForwards \/ RelayCloses \/ RelaySeesClose
Stream == \/ OpenSocket \/ StreamOpened \/ StreamOpenFails \/ StreamTimeout
          \/ StreamMessage \/ StreamWrite \/ StreamClose
Bridge == \/ BridgeAccept \/ BridgeOpened \/ BridgeMessage \/ BridgeData
          \/ LocalWrites \/ LocalEnds(FALSE) \/ LocalEnds(TRUE)

Next == Relay \/ Stream \/ Bridge \/ WsCloses(FALSE) \/ WsCloses(TRUE) \/ Over

Spec == Init /\ [][Next]_vars

(* Both timers of open() fire, the relay's timers end every connection in  *)
(* the end (Relay's Fairness), an established connection delivers its      *)
(* frames and a close completes.  A WebSocket that is connecting may hang: *)
(* the stream's own timer is all there is.                                 *)
Fairness ==
    /\ WF_vars(StreamTimeout)
    /\ WF_vars(StreamMessage) /\ WF_vars(BridgeMessage)
    /\ WF_vars(RelayReads) /\ WF_vars(RelayCloses) /\ WF_vars(RelaySeesClose)
    /\ WF_vars(WsCloses(FALSE))

FairSpec == Spec /\ Fairness

-----------------------------------------------------------------------------
IsPrefixOf(s, n) == Len(s) <= n /\ \A i \in 1..Len(s) : s[i] = i

(* The SSH server gets what the program wrote, without gap, repetition or  *)
(* reordering, through the bridge's paused socket as well: what is lost    *)
(* when a side closes is a tail.                                           *)
UpstreamIntact == IsPrefixOf(received, written)

(* The program gets what the SSH server sent in the same way, from its     *)
(* very first chunk, which may follow "ok" at once.                        *)
DownstreamIntact == IsPrefixOf(delivered, sent)

(* Neither client is ever refused for what it sends: no SSH byte overtakes *)
(* the handshake, no text follows it.                                      *)
NeverRefused == relay # "refused"

(* When open() has failed, an "ok" that comes after the timeout still sets *)
(* `authenticated`, but the abandoned connection gets no SSH byte from the *)
(* program, and what the server sends on it never reaches the program.     *)
AbandonedCarriesNothing == opening = "failed" => received = <<>> /\ delivered = <<>>

(* open() settles, also when the WebSocket hangs while connecting or       *)
(* closes before the answer, for which the stream has no handler.          *)
OpenSettles == opening = "connect" ~> opening \in {"done", "failed"}

(* The stream does not close the WebSocket of a failed open(), but once it *)
(* is established the relay's timers do: no connection is held for ever.   *)
AbandonedReleased == (opening = "failed" /\ ws = "open") ~> ws = "closed"

(* Whichever side of the bridge goes first, the other is released.         *)
BridgeReleasesBoth ==
    /\ (tcp = "destroyed") ~> (ws = "closed")
    /\ (kind = "bridge" /\ relay = "closed") ~> (tcp = "destroyed")
=============================================================================
