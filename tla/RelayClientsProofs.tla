------------------------- MODULE RelayClientsProofs -------------------------
(***************************************************************************)
(* Proofs about RelayClients for any number of chunks.                     *)
(*                                                                         *)
(* Frames travel in runs: the frames that wait somewhere are consecutive   *)
(* and start where what has passed that place ends.  The handshake's text  *)
(* is frame 0, so "the answer comes before the first chunk" is the run     *)
(* that starts at 0.                                                       *)
(***************************************************************************)
EXTENDS RelayClients, SequenceTheorems, TLAPS

(* s holds the frames first, first + 1, ...                                *)
Run(s, first) == \A i \in 1..Len(s) : s[i] + 1 = first + i

(* Where the handshake of each client stands.                              *)
StreamInv ==
    /\ tcp = "none" /\ backlog = <<>>
    /\ ws = "none" <=> opening = "none"
    /\ ws = "connecting" => opening \in {"connect", "failed"}
    /\ opening = "connect" => ws = "connecting"
    /\ opening \in {"none", "connect"} => ~listener /\ ~authed
    /\ opening = "answer" => listener
    /\ opening = "done" => authed
    /\ listener => ~authed
    /\ opening # "done" => written = 0 /\ delivered = <<>>
    /\ listener \/ authed \/ (up = <<>> /\ down = <<>> /\ relay \in {"fresh", "closed"})

BridgeInv ==
    /\ opening = "none" /\ ~listener
    /\ ws = "none" <=> tcp = "none"
    /\ tcp = "flowing" => authed

ClientInv == /\ kind = "stream" => StreamInv
             /\ kind = "bridge" => BridgeInv

(* Towards the SSH server.                                                 *)
Before == {"fresh", "authenticating"}
UpInv ==
    /\ relay # "refused"
    /\ Run(received, 1) /\ Len(received) <= written
    /\ ws \in {"none", "connecting"} => relay = "fresh" /\ up = <<>>
    /\ relay \in Before => received = <<>>
    /\ relay = "fresh" => Run(up, 0) /\ Len(up) <= 1
    /\ relay = "authenticating" => up = <<>>
    /\ relay \in Before /\ ws \in {"none", "connecting", "open"}
         => Run(backlog, 1) /\ Len(backlog) = written
    /\ relay = "spliced" => Run(up, Len(received) + 1) /\ Len(received) + Len(up) <= written
    /\ relay = "spliced" /\ ws = "open"
         => /\ Run(backlog, Len(received) + Len(up) + 1)
            /\ Len(received) + Len(up) + Len(backlog) = written

(* Towards the program, while it still takes what arrives.                 *)
Live == IF kind = "stream" THEN opening = "done" ELSE tcp # "destroyed"
DownInv ==
    /\ Run(delivered, 1) /\ Len(delivered) <= sent
    /\ relay \in Before => down = <<>> /\ sent = 0 /\ ~authed
    /\ ~authed => /\ delivered = <<>>
                  /\ Run(down, 0) /\ Len(down) <= sent + 1
                  /\ relay = "spliced" => Len(down) = sent + 1
    /\ authed /\ Live => /\ Run(down, Len(delivered) + 1) /\ Len(delivered) + Len(down) <= sent
                         /\ relay = "spliced" => Len(delivered) + Len(down) = sent

Inv == TypeOK /\ ClientInv /\ UpInv /\ DownInv

-----------------------------------------------------------------------------
(* Runs.                                                                   *)

LEMMA RunEmpty == \A n : Run(<<>>, n)
BY DEF Run

LEMMA RunAppend ==
  ASSUME NEW s \in Seq(Frame), NEW n \in Nat, Run(s, n), n + Len(s) \in Frame
  PROVE  /\ Append(s, n + Len(s)) \in Seq(Frame)
         /\ Run(Append(s, n + Len(s)), n) /\ Len(Append(s, n + Len(s))) = Len(s) + 1
<1> DEFINE t == Append(s, n + Len(s))
<1>1. t \in Seq(Frame) /\ Len(t) = Len(s) + 1 /\ Len(s) \in Nat
  OBVIOUS
<1>2. \A i \in 1..Len(s) : t[i] = s[i]
  OBVIOUS
<1>3. t[Len(s) + 1] = n + Len(s)
  OBVIOUS
<1> HIDE DEF t
<1>4. ASSUME NEW i \in 1..Len(t) PROVE t[i] + 1 = n + i
  <2>1. CASE i \in 1..Len(s)
    BY <1>2, <2>1 DEF Run
  <2>2. CASE i = Len(s) + 1
    BY <1>1, <1>3, <2>2
  <2>3. QED
    BY <1>1, <2>1, <2>2
<1>5. QED
  BY <1>1, <1>4 DEF Run, t

LEMMA RunTail ==
  ASSUME NEW s \in Seq(Frame), s # <<>>, NEW n \in Nat, Run(s, n)
  PROVE  /\ Tail(s) \in Seq(Frame) /\ Len(Tail(s)) + 1 = Len(s) /\ Head(s) = n /\ Head(s) \in Frame
         /\ Run(Tail(s), n + 1)
<1>1. /\ Tail(s) \in Seq(Frame) /\ Len(Tail(s)) + 1 = Len(s) /\ Len(s) \in Nat \ {0}
      /\ Len(Tail(s)) \in Nat /\ Head(s) = s[1]
  OBVIOUS
<1>2. \A i \in 1..Len(Tail(s)) : Tail(s)[i] = s[i + 1]
  OBVIOUS
<1>3. s[1] = n
  <2>1. s[1] + 1 = n + 1 /\ s[1] \in Frame
    BY <1>1 DEF Run
  <2>2. QED
    BY <2>1 DEF Frame
<1>4. ASSUME NEW i \in 1..Len(Tail(s)) PROVE Tail(s)[i] + 1 = n + 1 + i
  <2>1. i + 1 \in 1..Len(s) /\ i \in Nat
    BY <1>1
  <2>2. s[i + 1] + 1 = n + (i + 1)
    BY <2>1 DEF Run
  <2>3. QED
    BY <1>2, <2>1, <2>2
<1>5. QED
  BY <1>1, <1>3, <1>4 DEF Run

LEMMA FrameTail ==
  ASSUME NEW s \in Seq(Frame), s # <<>>
  PROVE  Tail(s) \in Seq(Frame) /\ Head(s) \in Frame
OBVIOUS

LEMMA FrameFacts == \A s \in Seq(Frame) : Len(s) \in Nat /\ (s = <<>> <=> Len(s) = 0)
OBVIOUS

LEMMA EmptyFacts == <<>> \in Seq(Frame) /\ Len(<<>>) = 0
OBVIOUS

(* The handshake's text, sent first.                                       *)
LEMMA TextRun ==
  ASSUME NEW s \in Seq(Frame), s = <<>>
  PROVE  Append(s, Text) \in Seq(Frame) /\ Run(Append(s, Text), 0) /\ Len(Append(s, Text)) = 1
<1>1. 0 + Len(s) = 0 /\ 0 \in Frame /\ Text = 0
  BY MaxChunksAssumption DEF Frame, Text
<1>2. Run(s, 0)
  BY RunEmpty
<1>3. Append(s, 0) \in Seq(Frame) /\ Run(Append(s, 0), 0) /\ Len(Append(s, 0)) = Len(s) + 1
  BY <1>1, <1>2, RunAppend
<1>4. QED
  BY <1>1, <1>3

-----------------------------------------------------------------------------
LEMMA InvInit == Init => Inv
<1> SUFFICES ASSUME Init PROVE Inv
  OBVIOUS
<1>1. TypeOK
  <2>1. 0 \in 0..MaxChunks
    BY MaxChunksAssumption
  <2>2. up \in Seq(Frame) /\ down \in Seq(Frame) /\ backlog \in Seq(Frame)
        /\ received \in Seq(Frame) /\ delivered \in Seq(Frame)
    BY EmptyFacts DEF Init
  <2>3. QED
    BY <2>1, <2>2 DEF Init, TypeOK
<1>2. ClientInv
  BY DEF Init, ClientInv, StreamInv, BridgeInv
<1>3. UpInv /\ DownInv
  BY RunEmpty, EmptyFacts DEF Init, UpInv, DownInv, Before
<1>4. QED
  BY <1>1, <1>2, <1>3 DEF Inv

(* The types of the counters, for arithmetic.                              *)
LEMMA Counts ==
  ASSUME TypeOK
  PROVE  /\ written \in Nat /\ sent \in Nat /\ MaxChunks \in Nat
         /\ Len(up) \in Nat /\ Len(down) \in Nat /\ Len(backlog) \in Nat
         /\ Len(received) \in Nat /\ Len(delivered) \in Nat
BY MaxChunksAssumption, FrameFacts DEF TypeOK

LEMMA RelayReadsStep ==
  ASSUME Inv, RelayReads
  PROVE  Inv'
<1> USE DEF Inv
<1>0. /\ up # <<>> /\ up' = Tail(up) /\ up \in Seq(Frame)
      /\ UNCHANGED <<kind, ws, down, opening, listener, authed, tcp, backlog, written, sent, delivered>>
  BY DEF RelayReads, TypeOK
<1>1. CASE relay = "closed"
  <2>1. UNCHANGED <<relay, received>> /\ up' \in Seq(Frame)
    BY <1>0, <1>1, FrameTail DEF RelayReads
  <2>2. QED
    BY <1>0, <1>1, <2>1 DEF TypeOK, ClientInv, StreamInv, BridgeInv, UpInv, DownInv, Live, Before
<1>2. CASE relay = "fresh"
  <2>1. Head(up) = 0 /\ up' \in Seq(Frame) /\ up' = <<>>
    BY <1>0, <1>2, RunTail, FrameFacts, Counts DEF UpInv
  <2>2. relay' = "authenticating" /\ UNCHANGED received
    BY <1>2, <2>1 DEF RelayReads, Text
  <2>3. TypeOK' /\ ClientInv'
    BY <1>0, <1>2, <2>1, <2>2 DEF TypeOK, ClientInv, StreamInv, BridgeInv
  <2>4. UpInv' /\ DownInv'
    BY <1>0, <1>2, <2>1, <2>2 DEF UpInv, DownInv, Live, Before
  <2>5. QED
    BY <2>3, <2>4
<1>3. CASE relay = "spliced"
  <2> DEFINE n == Len(received) + 1
  <2>1. /\ Head(up) = n /\ n \in Frame /\ up' \in Seq(Frame) /\ Len(up') + 1 = Len(up)
        /\ Run(up', n + 1)
    BY <1>0, <1>3, RunTail, Counts DEF UpInv
  <2>2. relay' = "spliced" /\ received' = Append(received, n)
    BY <1>3, <2>1, Counts DEF RelayReads, Text
  <2>3. /\ received' \in Seq(Frame) /\ Run(received', 1) /\ Len(received') = n
    BY <2>1, <2>2, RunAppend, Counts DEF UpInv, TypeOK
  <2>4. TypeOK' /\ ClientInv'
    BY <1>0, <1>3, <2>1, <2>2, <2>3 DEF TypeOK, ClientInv, StreamInv, BridgeInv
  <2>5. DownInv'
    BY <1>0, <1>3, <2>2 DEF DownInv, Live, Before
  <2>6. Len(received') + Len(up') = Len(received) + Len(up)
    BY <2>1, <2>3, <2>4, Counts
  <2>7. UpInv'
    BY <1>0, <1>3, <2>1, <2>2, <2>3, <2>4, <2>6, Counts DEF UpInv, Before
  <2>8. QED
    BY <2>4, <2>5, <2>7
<1>4. QED
  BY <1>0, <1>1, <1>2, <1>3 DEF TypeOK, UpInv

LEMMA RelayAcceptsStep ==
  ASSUME Inv, RelayAccepts
  PROVE  Inv'
<1> USE DEF Inv
<1>1. /\ down = <<>> /\ sent = 0 /\ ~authed /\ up = <<>> /\ received = <<>>
      /\ down' = Append(down, Text) /\ down \in Seq(Frame)
  BY DEF RelayAccepts, UpInv, DownInv, Before, TypeOK
<1>2. down' \in Seq(Frame) /\ Run(down', 0) /\ Len(down') = 1
  BY <1>1, TextRun
<1>3. TypeOK' /\ ClientInv'
  BY <1>2 DEF RelayAccepts, TypeOK, ClientInv, StreamInv, BridgeInv, history
<1>4. UpInv'
  BY <1>1, EmptyFacts, RunEmpty, Counts DEF RelayAccepts, UpInv, Before, history
<1>5. DownInv'
  BY <1>1, <1>2 DEF RelayAccepts, DownInv, Before, history
<1>6. QED
  BY <1>3, <1>4, <1>5

LEMMA RelayForwardsStep ==
  ASSUME Inv, RelayForwards
  PROVE  Inv'
<1> USE DEF Inv
<1>1. /\ relay = "spliced" /\ sent' = sent + 1 /\ sent' \in 1..MaxChunks
      /\ down' = Append(down, sent + 1) /\ down \in Seq(Frame) /\ sent + 1 \in Frame
  BY Counts DEF RelayForwards, TypeOK, Frame
<1>2. down' \in Seq(Frame) /\ Len(down') = Len(down) + 1
  BY <1>1
<1>3. TypeOK'
  BY <1>1, <1>2 DEF RelayForwards, TypeOK
<1>4. ClientInv' /\ UpInv'
  BY <1>1, <1>2 DEF RelayForwards, ClientInv, StreamInv, BridgeInv, UpInv
<1>5. CASE ~authed
  <2>1. sent + 1 = 0 + Len(down) /\ Run(down, 0)
    BY <1>1, <1>5, Counts DEF DownInv
  <2>2. Run(down', 0)
    BY <1>1, <2>1, RunAppend
  <2>3. QED
    BY <1>1, <1>2, <1>3, <1>4, <1>5, <2>1, <2>2, Counts DEF RelayForwards, DownInv, Before
<1>6. CASE authed /\ ~Live
  BY <1>1, <1>3, <1>4, <1>6, Counts DEF RelayForwards, DownInv, Before, Live
<1>7. CASE authed /\ Live
  <2>1. sent + 1 = (Len(delivered) + 1) + Len(down) /\ Run(down, Len(delivered) + 1)
    BY <1>1, <1>7, Counts DEF DownInv
  <2>2. Run(down', Len(delivered) + 1)
    BY <1>1, <2>1, RunAppend, Counts
  <2>3. QED
    BY <1>1, <1>2, <1>3, <1>4, <1>7, <2>1, <2>2, Counts DEF RelayForwards, DownInv, Before, Live
<1>8. QED
  BY <1>5, <1>6, <1>7

(* The relay closes, for its own reasons or after the client.              *)
LEMMA RelayClosesStep ==
  ASSUME Inv, RelayCloses \/ RelaySeesClose
  PROVE  Inv'
<1> USE DEF Inv
<1>1. relay' = "closed" /\ ws \notin {"none", "connecting"}
      /\ UNCHANGED <<kind, ws, up, down, opening, listener, authed, tcp, backlog, history>>
  BY DEF RelayCloses, RelaySeesClose
<1>2. relay \in {"fresh", "authenticating", "spliced"}
  BY DEF RelayCloses, RelaySeesClose
<1>3. TypeOK' /\ UpInv' /\ DownInv'
  BY <1>1, <1>2 DEF TypeOK, UpInv, DownInv, Before, Live, history
<1>4. ClientInv'
  BY <1>1, <1>2 DEF ClientInv, StreamInv, BridgeInv, history
<1>5. QED
  BY <1>3, <1>4

(* The steps of the stream.                                                *)
LEMMA OpenSocketStep ==
  ASSUME Inv, OpenSocket \/ StreamOpenFails \/ StreamTimeout
  PROVE  Inv'
<1> USE DEF Inv
<1>1. kind = "stream" /\ StreamInv
  BY DEF OpenSocket, StreamOpenFails, StreamTimeout, ClientInv, BridgeInv, TypeOK
<1>2. TypeOK'
  BY DEF OpenSocket, StreamOpenFails, StreamTimeout, TypeOK, history, wire
<1>3. ClientInv'
  BY <1>1 DEF OpenSocket, StreamOpenFails, StreamTimeout, ClientInv, StreamInv, TypeOK, history, wire
<1>4. UpInv'
  BY <1>1 DEF OpenSocket, StreamOpenFails, StreamTimeout, UpInv, StreamInv, history, wire
<1>5. DownInv'
  BY <1>1 DEF OpenSocket, StreamOpenFails, StreamTimeout, DownInv, StreamInv, Live, history, wire
<1>6. QED
  BY <1>2, <1>3, <1>4, <1>5

LEMMA StreamOpenedStep ==
  ASSUME Inv, StreamOpened
  PROVE  Inv'
<1> USE DEF Inv
<1>1. /\ kind = "stream" /\ StreamInv /\ ws = "connecting" /\ ws' = "open"
      /\ relay = "fresh" /\ up = <<>> /\ up \in Seq(Frame)
      /\ UNCHANGED <<kind, down, relay, authed, tcp, backlog, history>>
  BY DEF StreamOpened, ClientInv, UpInv, TypeOK
<1>2. CASE opening = "connect"
  <2>1. opening' = "answer" /\ listener' = TRUE /\ Sends(Text)
    BY <1>2 DEF StreamOpened
  <2>2. up' \in Seq(Frame) /\ Run(up', 0) /\ Len(up') = 1
    BY <1>1, <2>1, TextRun DEF Sends
  <2>3. TypeOK' /\ ClientInv'
    BY <1>1, <1>2, <2>1, <2>2 DEF TypeOK, ClientInv, StreamInv, history
  <2>4. UpInv' /\ DownInv'
    BY <1>1, <1>2, <2>1, <2>2 DEF UpInv, DownInv, StreamInv, Before, Live, history
  <2>5. QED
    BY <2>3, <2>4
<1>3. CASE opening # "connect"
  <2>1. UNCHANGED <<opening, listener, up>>
    BY <1>3 DEF StreamOpened
  <2>2. TypeOK' /\ ClientInv'
    BY <1>1, <1>3, <2>1 DEF TypeOK, ClientInv, StreamInv, history
  <2>3. UpInv' /\ DownInv'
    BY <1>1, <1>3, <2>1 DEF UpInv, DownInv, StreamInv, Before, Live, history
  <2>4. QED
    BY <2>2, <2>3
<1>4. QED
  BY <1>2, <1>3

(* A message reaches a client that does not yet know that it is accepted:  *)
(* it is the answer.                                                       *)
LEMMA AnswerTaken ==
  ASSUME Inv, ~authed, down # <<>>
  PROVE  /\ Tail(down) \in Seq(Frame) /\ Run(Tail(down), Len(delivered) + 1)
         /\ Len(delivered) + Len(Tail(down)) <= sent
         /\ relay = "spliced" => Len(delivered) + Len(Tail(down)) = sent
         /\ relay \notin Before
<1> USE DEF Inv
<1>1. down \in Seq(Frame) /\ Run(down, 0) /\ Len(down) <= sent + 1 /\ delivered = <<>>
  BY DEF DownInv, TypeOK
<1>2. Tail(down) \in Seq(Frame) /\ Len(Tail(down)) + 1 = Len(down) /\ Run(Tail(down), 0 + 1)
  BY <1>1, RunTail
<1>3. Len(delivered) = 0 /\ Len(Tail(down)) \in Nat
  BY <1>1, <1>2, EmptyFacts, FrameFacts
<1>4. QED
  BY <1>1, <1>2, <1>3, Counts DEF DownInv, Before

(* A message reaches a client that still takes it: it is the next chunk.   *)
LEMMA ChunkDelivered ==
  ASSUME Inv, authed, Live, down # <<>>
  PROVE  LET d == Append(delivered, Head(down))
         IN  /\ Tail(down) \in Seq(Frame) /\ Run(Tail(down), Len(d) + 1)
             /\ d \in Seq(Frame) /\ Run(d, 1)
             /\ Len(d) + Len(Tail(down)) <= sent /\ Len(d) <= sent
             /\ relay = "spliced" => Len(d) + Len(Tail(down)) = sent
<1> USE DEF Inv
<1> DEFINE n == Len(delivered) + 1
           d == Append(delivered, Head(down))
<1>1. /\ down \in Seq(Frame) /\ Run(down, n) /\ delivered \in Seq(Frame) /\ Run(delivered, 1)
      /\ Len(delivered) + Len(down) <= sent /\ n \in Nat
      /\ relay = "spliced" => Len(delivered) + Len(down) = sent
  BY Counts DEF DownInv, TypeOK
<1>2. /\ Tail(down) \in Seq(Frame) /\ Len(Tail(down)) + 1 = Len(down) /\ Head(down) = n
      /\ n \in Frame /\ Run(Tail(down), n + 1)
  BY <1>1, RunTail
<1>3. d \in Seq(Frame) /\ Run(d, 1) /\ Len(d) = n
  <2>1. 1 + Len(delivered) = n
    BY Counts
  <2>2. QED
    BY <1>1, <1>2, <2>1, RunAppend, Counts
<1>4. Len(Tail(down)) \in Nat
  BY <1>2, FrameFacts
<1> HIDE DEF d
<1>5. Len(d) + Len(Tail(down)) = Len(delivered) + Len(down) /\ Len(d) <= Len(d) + Len(Tail(down))
  BY <1>2, <1>3, <1>4, Counts
<1>6. QED
  BY <1>1, <1>2, <1>3, <1>4, <1>5, Counts DEF d

LEMMA StreamMessageStep ==
  ASSUME Inv, StreamMessage
  PROVE  Inv'
<1> USE DEF Inv
<1>1. /\ kind = "stream" /\ StreamInv /\ ws = "open" /\ down # <<>> /\ down' = Tail(down)
      /\ UNCHANGED <<kind, ws, up, relay, tcp, backlog, written, received, sent>>
      /\ down' \in Seq(Frame)
  BY FrameTail DEF StreamMessage, ClientInv, TypeOK
<1>2. UpInv'
  BY <1>1 DEF UpInv
<1>3. CASE listener
  <2>1. /\ listener' = FALSE /\ authed' = TRUE /\ UNCHANGED delivered /\ ~authed
        /\ opening' = IF opening = "answer" THEN "done" ELSE opening
    BY <1>1, <1>3 DEF StreamMessage, StreamInv
  <2>2. TypeOK' /\ ClientInv'
    BY <1>1, <1>3, <2>1 DEF TypeOK, ClientInv, StreamInv
  <2>3. DownInv'
    BY <1>1, <2>1, AnswerTaken DEF DownInv
  <2>4. QED
    BY <1>2, <2>2, <2>3
<1>4. CASE ~listener
  <2>1. authed /\ UNCHANGED <<listener, authed, opening>>
    BY <1>1, <1>4 DEF StreamMessage, StreamInv
  <2>2. CASE opening = "done"
    <3>1. delivered' = Append(delivered, Head(down)) /\ Live
      BY <1>1, <1>4, <2>2 DEF StreamMessage, Live
    <3>2. TypeOK' /\ ClientInv'
      BY <1>1, <2>1, <2>2, <3>1, ChunkDelivered DEF TypeOK, ClientInv, StreamInv
    <3>3. DownInv'
      BY <1>1, <2>1, <3>1, ChunkDelivered DEF DownInv
    <3>4. QED
      BY <1>2, <3>2, <3>3
  <2>3. CASE opening # "done"
    <3>1. delivered' = delivered
      BY <1>4, <2>3 DEF StreamMessage
    <3>2. TypeOK' /\ ClientInv'
      BY <1>1, <2>1, <2>3, <3>1 DEF TypeOK, ClientInv, StreamInv
    <3>3. DownInv'
      BY <1>1, <2>1, <2>3, <3>1 DEF DownInv, Live, Before
    <3>4. QED
      BY <1>2, <3>2, <3>3
  <2>4. QED
    BY <2>2, <2>3
<1>5. QED
  BY <1>3, <1>4

LEMMA StreamWriteStep ==
  ASSUME Inv, StreamWrite
  PROVE  Inv'
<1> USE DEF Inv
<1>1. /\ opening = "done" /\ ws = "open" /\ written' = written + 1 /\ written' \in 1..MaxChunks
      /\ up' = Append(up, written + 1) /\ written + 1 \in Frame /\ up \in Seq(Frame)
      /\ UNCHANGED <<kind, ws, down, relay, opening, listener, authed, tcp, backlog,
                     received, sent, delivered>>
  BY Counts DEF StreamWrite, Sends, Frame, TypeOK
<1>2. kind = "stream" /\ StreamInv /\ authed
  BY <1>1 DEF ClientInv, BridgeInv, StreamInv, TypeOK
<1>3. up' \in Seq(Frame) /\ Len(up') = Len(up) + 1
  BY <1>1
<1>4. TypeOK' /\ ClientInv' /\ DownInv'
  BY <1>1, <1>2, <1>3 DEF TypeOK, ClientInv, StreamInv, DownInv, Live, Before
<1>5. relay \notin Before
  BY <1>2 DEF DownInv
<1>6. CASE relay = "spliced"
  <2>1. Run(up, Len(received) + 1) /\ written + 1 = (Len(received) + 1) + Len(up) /\ backlog = <<>>
    BY <1>1, <1>2, <1>6, Counts, EmptyFacts DEF UpInv, StreamInv
  <2>2. Run(up', Len(received) + 1)
    BY <1>1, <2>1, RunAppend, Counts
  <2>3. UpInv'
    BY <1>1, <1>3, <1>6, <2>1, <2>2, Counts, RunEmpty, EmptyFacts DEF UpInv, Before
  <2>4. QED
    BY <1>4, <2>3
<1>7. CASE relay # "spliced"
  <2>1. UpInv'
    BY <1>1, <1>5, <1>7, Counts DEF UpInv, Before
  <2>2. QED
    BY <1>4, <2>1
<1>8. QED
  BY <1>6, <1>7

LEMMA StreamCloseStep ==
  ASSUME Inv, StreamClose
  PROVE  Inv'
<1> USE DEF Inv
<1>1. TypeOK' /\ ClientInv'
  BY DEF StreamClose, TypeOK, ClientInv, StreamInv, BridgeInv, history
<1>2. UpInv' /\ DownInv'
  BY DEF StreamClose, UpInv, DownInv, Live, history
<1>3. QED
  BY <1>1, <1>2

(* The steps of the bridge.                                                *)
LEMMA BridgeAcceptStep ==
  ASSUME Inv, BridgeAccept
  PROVE  Inv'
<1> USE DEF Inv
<1>1. kind = "bridge" /\ BridgeInv /\ ws = "none"
  BY DEF BridgeAccept, ClientInv, BridgeInv
<1>2. TypeOK' /\ ClientInv'
  BY <1>1 DEF BridgeAccept, TypeOK, ClientInv, BridgeInv, history
<1>3. UpInv' /\ DownInv'
  BY <1>1 DEF BridgeAccept, UpInv, DownInv, Live, Before, history
<1>4. QED
  BY <1>2, <1>3

LEMMA BridgeOpenedStep ==
  ASSUME Inv, BridgeOpened
  PROVE  Inv'
<1> USE DEF Inv
<1>1. /\ kind = "bridge" /\ BridgeInv /\ ws = "connecting" /\ ws' = "open"
      /\ relay = "fresh" /\ up = <<>> /\ up \in Seq(Frame)
      /\ UNCHANGED <<kind, down, relay, opening, listener, authed, tcp, backlog, history>>
  BY DEF BridgeOpened, ClientInv, UpInv, TypeOK
<1>2. up' \in Seq(Frame) /\ Run(up', 0) /\ Len(up') = 1
  BY <1>1, TextRun DEF BridgeOpened, Sends
<1>3. TypeOK' /\ ClientInv'
  BY <1>1, <1>2 DEF TypeOK, ClientInv, BridgeInv, history
<1>4. UpInv' /\ DownInv'
  BY <1>1, <1>2 DEF UpInv, DownInv, Before, Live, history
<1>5. QED
  BY <1>3, <1>4

LEMMA BridgeMessageStep ==
  ASSUME Inv, BridgeMessage
  PROVE  Inv'
<1> USE DEF Inv
<1>1. /\ kind = "bridge" /\ BridgeInv /\ ws \in {"open", "closing"} /\ down # <<>>
      /\ down' = Tail(down) /\ down' \in Seq(Frame)
      /\ UNCHANGED <<kind, ws, up, relay, opening, listener, backlog, written, received, sent>>
  BY FrameTail DEF BridgeMessage, ClientInv, TypeOK
<1>2. UpInv'
  BY <1>1 DEF UpInv
<1>3. CASE ~authed
  <2>1. authed' = TRUE /\ tcp' = (IF tcp = "paused" THEN "flowing" ELSE tcp) /\ UNCHANGED delivered
    BY <1>3 DEF BridgeMessage
  <2>2. TypeOK' /\ ClientInv'
    BY <1>1, <1>3, <2>1 DEF TypeOK, ClientInv, BridgeInv
  <2>3. DownInv'
    BY <1>1, <1>3, <2>1, AnswerTaken DEF DownInv
  <2>4. QED
    BY <1>2, <2>2, <2>3
<1>4. CASE authed /\ tcp # "destroyed"
  <2>1. delivered' = Append(delivered, Head(down)) /\ Live /\ UNCHANGED <<authed, tcp>>
    BY <1>1, <1>4 DEF BridgeMessage, Live
  <2>2. TypeOK' /\ ClientInv'
    BY <1>1, <1>4, <2>1, ChunkDelivered DEF TypeOK, ClientInv, BridgeInv
  <2>3. DownInv'
    BY <1>1, <1>4, <2>1, ChunkDelivered DEF DownInv
  <2>4. QED
    BY <1>2, <2>2, <2>3
<1>5. CASE authed /\ tcp = "destroyed"
  <2>1. UNCHANGED <<authed, tcp, delivered>>
    BY <1>5 DEF BridgeMessage
  <2>2. TypeOK' /\ ClientInv'
    BY <1>1, <2>1 DEF TypeOK, ClientInv, BridgeInv
  <2>3. DownInv'
    BY <1>1, <1>5, <2>1 DEF DownInv, Live, Before
  <2>4. QED
    BY <1>2, <2>2, <2>3
<1>6. QED
  BY <1>3, <1>4, <1>5

LEMMA LocalWritesStep ==
  ASSUME Inv, LocalWrites
  PROVE  Inv'
<1> USE DEF Inv
<1>1. /\ written' = written + 1 /\ written' \in 1..MaxChunks /\ written + 1 \in Frame
      /\ backlog' = Append(backlog, written + 1) /\ backlog \in Seq(Frame)
      /\ UNCHANGED <<kind, ws, up, down, relay, opening, listener, authed, tcp, received, sent,
                     delivered>>
  BY Counts DEF LocalWrites, TypeOK, Frame, wire
<1>2. kind = "bridge" /\ BridgeInv
  BY DEF LocalWrites, ClientInv, StreamInv, TypeOK
<1>3. backlog' \in Seq(Frame) /\ Len(backlog') = Len(backlog) + 1
  BY <1>1
<1>4. TypeOK' /\ ClientInv' /\ DownInv'
  BY <1>1, <1>2, <1>3 DEF TypeOK, ClientInv, BridgeInv, DownInv, Live
<1>5. ASSUME relay \in Before, ws \in {"none", "connecting", "open"}
      PROVE  Run(backlog', 1) /\ Len(backlog') = written'
  <2>1. written + 1 = 1 + Len(backlog) /\ Run(backlog, 1)
    BY <1>5, Counts DEF UpInv
  <2>2. QED
    BY <1>1, <1>3, <2>1, RunAppend, Counts
<1>6. ASSUME relay = "spliced", ws = "open"
      PROVE  /\ Run(backlog', Len(received) + Len(up) + 1)
             /\ Len(received) + Len(up) + Len(backlog') = written'
  <2> DEFINE n == Len(received) + Len(up) + 1
  <2>1. written + 1 = n + Len(backlog) /\ Run(backlog, n) /\ n \in Nat
    BY <1>6, Counts DEF UpInv
  <2>2. Run(backlog', n)
    BY <1>1, <2>1, RunAppend
  <2>3. QED
    BY <1>1, <1>3, <2>1, <2>2, Counts
<1>7. Len(received) <= written' /\ (Len(received) + Len(up) <= written
                                     => Len(received) + Len(up) <= written')
  BY <1>1, Counts DEF UpInv
<1>8. UpInv'
  BY <1>1, <1>5, <1>6, <1>7 DEF UpInv
<1>9. QED
  BY <1>4, <1>8

LEMMA BridgeDataStep ==
  ASSUME Inv, BridgeData
  PROVE  Inv'
<1> USE DEF Inv
<1>1. /\ tcp = "flowing" /\ backlog # <<>> /\ backlog' = Tail(backlog) /\ backlog \in Seq(Frame)
      /\ UNCHANGED <<kind, ws, down, relay, opening, listener, authed, tcp, history>>
  BY DEF BridgeData, TypeOK
<1>2. kind = "bridge" /\ BridgeInv /\ authed /\ relay \notin Before
  BY <1>1 DEF ClientInv, StreamInv, BridgeInv, DownInv, TypeOK
<1>3. backlog' \in Seq(Frame) /\ Head(backlog) \in Frame
  BY <1>1, FrameTail
<1>4. up' \in Seq(Frame)
  <2>1. up \in Seq(Frame) /\ (up' = up \/ up' = Append(up, Head(backlog)))
    BY DEF BridgeData, Sends, TypeOK
  <2>2. QED
    BY <1>3, <2>1
<1>5. TypeOK' /\ ClientInv' /\ DownInv'
  BY <1>1, <1>2, <1>3, <1>4 DEF TypeOK, ClientInv, BridgeInv, DownInv, Live, Before, history
<1>6. ws \notin {"none", "connecting"}
  BY <1>2 DEF UpInv, Before
<1>7. CASE relay = "spliced" /\ ws = "open"
  <2> DEFINE m == Len(received) + 1
             n == Len(received) + Len(up) + 1
  <2>1. Run(up, m) /\ Run(backlog, n) /\ n = m + Len(up) /\ m \in Nat /\ n \in Nat
        /\ Len(received) + Len(up) + Len(backlog) = written
    BY <1>7, Counts DEF UpInv
  <2>2. Head(backlog) = n /\ n \in Frame /\ Run(backlog', n + 1) /\ Len(backlog') + 1 = Len(backlog)
    BY <1>1, <2>1, RunTail
  <2>3. up' = Append(up, n) /\ up \in Seq(Frame)
    BY <1>7, <2>2 DEF BridgeData, Sends, TypeOK
  <2>4. Run(up', m) /\ Len(up') = Len(up) + 1
    BY <2>1, <2>2, <2>3, RunAppend
  <2>5. /\ Len(received) + Len(up') + 1 = n + 1
        /\ Len(received) + Len(up') + Len(backlog') = written
        /\ Len(received) + Len(up') <= written
    BY <2>1, <2>2, <2>4, <1>3, FrameFacts, Counts
  <2>6. UpInv'
    BY <1>1, <1>2, <1>7, <2>2, <2>4, <2>5 DEF UpInv, history, Before
  <2>7. QED
    BY <1>5, <2>6
<1>8. CASE relay = "spliced" /\ ws # "open"
  <2>1. up' = up
    BY <1>8 DEF BridgeData
  <2>2. UpInv'
    BY <1>1, <1>2, <1>8, <2>1 DEF UpInv, history, Before
  <2>3. QED
    BY <1>5, <2>2
<1>9. CASE relay = "closed"
  <2>1. UpInv'
    BY <1>1, <1>6, <1>9 DEF UpInv, history, Before
  <2>2. QED
    BY <1>5, <2>1
<1>10. QED
  BY <1>2, <1>7, <1>8, <1>9 DEF TypeOK, UpInv, Before

LEMMA LocalEndsStep ==
  ASSUME Inv, NEW abort \in BOOLEAN, LocalEnds(abort)
  PROVE  Inv'
<1> USE DEF Inv
<1>1. /\ kind = "bridge" /\ BridgeInv /\ ws # "none" /\ tcp' = "destroyed" /\ backlog' = <<>>
      /\ ws \in {"connecting", "open", "closing", "closed"} /\ CloseBoth
      /\ UNCHANGED <<kind, up, down, relay, opening, listener, authed, history>>
  BY DEF LocalEnds, CloseBoth, ClientInv, StreamInv, BridgeInv, TypeOK
<1>2. ws' \in {"closing", "closed"}
  BY <1>1 DEF CloseBoth
<1>3. TypeOK' /\ ClientInv'
  BY <1>1, <1>2, EmptyFacts DEF TypeOK, ClientInv, BridgeInv, history
<1>4. UpInv' /\ DownInv'
  BY <1>1, <1>2 DEF UpInv, DownInv, Before, Live, history
<1>5. QED
  BY <1>3, <1>4

LEMMA WsClosesStep ==
  ASSUME Inv, NEW abort \in BOOLEAN, WsCloses(abort)
  PROVE  Inv'
<1> USE DEF Inv
<1>1. /\ ws' = "closed" /\ down' = <<>> /\ relay' = "closed" /\ (up' = <<>> \/ up' = up)
      /\ ws # "none" /\ (kind = "stream" => ws # "connecting")
      /\ IF kind = "bridge" THEN tcp' = "destroyed" /\ backlog' = <<>> ELSE UNCHANGED <<tcp, backlog>>
      /\ UNCHANGED <<kind, opening, listener, authed, history>>
  BY DEF WsCloses, UpInv
<1>2. TypeOK'
  BY <1>1, EmptyFacts DEF TypeOK, history
<1>3. ClientInv'
  BY <1>1 DEF ClientInv, StreamInv, BridgeInv, history
<1>4. UpInv'
  BY <1>1 DEF UpInv, Before, history
<1>5. DownInv'
  <2>1. Len(down') = 0 /\ Run(down', 0) /\ Run(down', Len(delivered) + 1)
    BY <1>1, RunEmpty, EmptyFacts
  <2>2. Live' => Live
    BY <1>1 DEF Live, TypeOK
  <2>3. QED
    BY <1>1, <2>1, <2>2, Counts DEF DownInv, Before, history
<1>6. QED
  BY <1>2, <1>3, <1>4, <1>5

LEMMA InvStep == Inv /\ [Next]_vars => Inv'
<1> SUFFICES ASSUME Inv, [Next]_vars PROVE Inv'
  OBVIOUS
<1>1. CASE Relay
  BY <1>1, RelayReadsStep, RelayAcceptsStep, RelayForwardsStep, RelayClosesStep DEF Relay
<1>2. CASE Stream
  BY <1>2, OpenSocketStep, StreamOpenedStep, StreamMessageStep, StreamWriteStep, StreamCloseStep
     DEF Stream
<1>3. CASE Bridge
  BY <1>3, BridgeAcceptStep, BridgeOpenedStep, BridgeMessageStep, BridgeDataStep, LocalWritesStep,
     LocalEndsStep DEF Bridge
<1>4. CASE WsCloses(FALSE) \/ WsCloses(TRUE)
  BY <1>4, WsClosesStep
<1>5. CASE Over \/ UNCHANGED vars
  <2>1. UNCHANGED <<kind, ws, up, down, relay, opening, listener, authed, tcp, backlog,
                    written, received, sent, delivered>>
    BY <1>5 DEF Over, vars, wire, history
  <2>2. TypeOK' /\ ClientInv'
    BY <2>1 DEF Inv, TypeOK, ClientInv, StreamInv, BridgeInv
  <2>3. UpInv' /\ DownInv'
    BY <2>1 DEF Inv, UpInv, DownInv, Live
  <2>4. QED
    BY <2>2, <2>3 DEF Inv
<1>6. QED
  BY <1>1, <1>2, <1>3, <1>4, <1>5 DEF Next

LEMMA Invariance == Spec => []Inv
BY InvInit, InvStep, PTL DEF Spec

(* Both clients, the wires and the relay's side keep their types.          *)
THEOREM ClientsTypeCorrect == Spec => []TypeOK
<1>1. Inv => TypeOK
  BY DEF Inv
<1>2. QED
  BY <1>1, Invariance, PTL

(* For any number of chunks, the SSH server gets a prefix of what the      *)
(* program wrote, through write() of the stream and through the paused     *)
(* socket of the bridge.                                                   *)
THEOREM UpstreamHolds == Spec => []UpstreamIntact
<1>1. Inv => UpstreamIntact
  <2> SUFFICES ASSUME Inv PROVE UpstreamIntact
    OBVIOUS
  <2>1. received \in Seq(Frame) /\ Len(received) \in Nat
    BY Counts DEF Inv, TypeOK
  <2>2. ASSUME NEW i \in 1..Len(received) PROVE received[i] = i
    <3>1. received[i] + 1 = 1 + i /\ received[i] \in Frame
      BY <2>1 DEF Inv, UpInv, Run
    <3>2. QED
      BY <3>1, MaxChunksAssumption DEF Frame
  <2>3. QED
    BY <2>2 DEF Inv, UpInv, UpstreamIntact, IsPrefixOf
<1>2. QED
  BY <1>1, Invariance, PTL

(* For any number of chunks, the program gets a prefix of what the SSH     *)
(* server sent, from its first chunk: the listener of open() and the       *)
(* bridge's first message take the answer and nothing else.                *)
THEOREM DownstreamHolds == Spec => []DownstreamIntact
<1>1. Inv => DownstreamIntact
  <2> SUFFICES ASSUME Inv PROVE DownstreamIntact
    OBVIOUS
  <2>1. delivered \in Seq(Frame) /\ Len(delivered) \in Nat
    BY Counts DEF Inv, TypeOK
  <2>2. ASSUME NEW i \in 1..Len(delivered) PROVE delivered[i] = i
    <3>1. delivered[i] + 1 = 1 + i /\ delivered[i] \in Frame
      BY <2>1 DEF Inv, DownInv, Run
    <3>2. QED
      BY <3>1, MaxChunksAssumption DEF Frame
  <2>3. QED
    BY <2>2 DEF Inv, DownInv, DownstreamIntact, IsPrefixOf
<1>2. QED
  BY <1>1, Invariance, PTL

(* The relay refuses no frame of either client: the first is the text it   *)
(* waits for, nothing follows until it answers, then only chunks do.       *)
THEOREM NeverRefusedHolds == Spec => []NeverRefused
<1>1. Inv => NeverRefused
  BY DEF Inv, UpInv, NeverRefused
<1>2. QED
  BY <1>1, Invariance, PTL

(* A connection whose open() has failed passes no SSH byte to the relay or *)
(* to the program, though the WebSocket, the listener and a late answer    *)
(* are still around.                                                       *)
THEOREM AbandonedIsSilent == Spec => []AbandonedCarriesNothing
<1>1. Inv => AbandonedCarriesNothing
  <2> SUFFICES ASSUME Inv, opening = "failed" PROVE received = <<>> /\ delivered = <<>>
    BY DEF AbandonedCarriesNothing
  <2>1. StreamInv
    BY DEF Inv, TypeOK, ClientInv, BridgeInv
  <2>2. written = 0 /\ delivered = <<>>
    BY <2>1 DEF StreamInv
  <2>3. received = <<>>
    BY <2>2, FrameFacts, Counts DEF Inv, UpInv, TypeOK
  <2>4. QED
    BY <2>2, <2>3
<1>2. QED
  BY <1>1, Invariance, PTL
=============================================================================
