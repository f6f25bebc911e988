------------------------ MODULE RelayExchangeProof ------------------------
(***************************************************************************)
(* What every exchange with the relay keeps, whoever owns it: its types,   *)
(* and what the frames under way say about the relay's record.  The owners *)
(* (ApprovalExchangeProof, ClientRequestProof) build on it.                *)
(***************************************************************************)
EXTENDS RelayExchange, SequenceTheorems, TLAPS

-----------------------------------------------------------------------------
(* The invariant *)

\* The exchange is left: its owner drops the socket between two futures.
LeaveExchange == phase = "idle" /\ DropSocket /\ UNCHANGED <<future, messages>>

\* The steps of an exchange and of its owner on it.
RelayMove ==
  \/ BeginRequest \/ (\E p \in {"normal", "brief"} : BeginComplete(p))
  \/ DropFuture \/ BriefTimeout \/ LeaveExchange
  \/ ClientStep \/ RelayStep \/ DeviceStep \/ FaultStep

\* A completion is written once it is made, for a request that the relay has
\* recorded, and a response is acknowledged once the device has given it.
Sendable == {f \in OutgoingFrames :
               /\ f = "completion" => relay.request # "absent" /\ completion.made
               /\ f = "ackResponse" => relay.response # "absent"}

\* A request that left is known to the client, or forgotten behind its completion.
Known == request.sent \/ completion.made
Flushed == {f \in Sendable : f = "request" => Known}

\* What a frame tells the client is true of the relay's record.
Tells(f) ==
  /\ f.type \in {"ackRequest", "receipt", "response"} => relay.request # "absent"
  /\ f.type = "response" => relay.response # "absent"
  /\ f.type = "state" /\ ShowsRequest(f.state) => relay.request # "absent"
  /\ HandsOff(f) => relay.completion # "absent"
Truthful == {f \in IncomingFrames : Tells(f)}

Frames ==
  /\ outbox \in Seq(Sendable)
  /\ toRelay \in Seq(Flushed) /\ late \in Seq(Flushed)
  /\ toClient \in Seq(Truthful)

\* The relay's record, and what the client may conclude about it.
Record ==
  /\ relay.request = "absent" <=> relay.exchange = "unknown"
  /\ relay.exchange \in {"closing", "settled"} => relay.completion # "absent"
  /\ relay.exchange = "open" => relay.completion = "absent"
  /\ relay.response # "absent" \/ relay.completion # "absent" => relay.request # "absent"
  /\ relay.request # "absent" => Known
  /\ relay.completion # "absent" => completion.made
  /\ request.acked => relay.request # "absent"
  /\ result = "handedOff" => relay.completion # "absent"
  /\ response \/ result = "response" => relay.response # "absent"

\* Where the futures are.  Before there is a completion, request() waits for
\* the flush of one frame and reads with an empty outbox.
Control ==
  /\ phase = "idle" <=> at = "none"
  /\ at = "flush" => outbox # <<>>
  /\ phase = "complete" => completion.made
  /\ ~completion.made /\ phase = "request" =>
       /\ at = "flush" => Len(outbox) = 1
       /\ at = "receive" => outbox = <<>>

ExchangeInv == RelayTypeOK /\ Frames /\ Record /\ Control

-----------------------------------------------------------------------------
(* Sets of frames that grow *)

\* What is known of the relay and of the request stays known.
Advances ==
  /\ relay.request # "absent" => relay'.request # "absent"
  /\ relay.response # "absent" => relay'.response # "absent"
  /\ relay.completion # "absent" => relay'.completion # "absent"
  /\ Known => Known'
  /\ completion.made => completion'.made

LEMMA FramesGrow ==
  ASSUME Advances
  PROVE  /\ Seq(Sendable) \subseteq Seq(Sendable')
         /\ Seq(Flushed) \subseteq Seq(Flushed')
         /\ Seq(Truthful) \subseteq Seq(Truthful')
<1>1. Sendable \subseteq Sendable'
  BY DEF Advances, Sendable
<1>2. Flushed \subseteq Flushed'
  BY <1>1 DEF Advances, Flushed
<1>3. Truthful \subseteq Truthful'
  BY DEF Advances, Truthful, Tells, HandsOff, ShowsRequest
<1> QED
  BY <1>1, <1>2, <1>3, SeqMonotonic

LEMMA FramesAreTyped ==
  /\ Seq(Sendable) \subseteq Seq(OutgoingFrames)
  /\ Seq(Flushed) \subseteq Seq(Sendable)
  /\ Seq(Truthful) \subseteq Seq(IncomingFrames)
BY SeqMonotonic DEF Sendable, Flushed, Truthful

\* Plain frames are frames.
LEMMA PlainIsTyped ==
  ASSUME NEW t \in PlainFrames
  PROVE  Plain(t) \in IncomingFrames /\ Plain(t).type = t /\ Plain(t).state.completion = "absent"
BY DEF Plain, IncomingFrames, Unknown

LEMMA PlainIsTruthful ==
  ASSUME NEW t \in PlainFrames,
         t \in {"ackRequest", "receipt", "response"} => relay.request # "absent",
         t = "response" => relay.response # "absent",
         t = "ackCompletion" => relay.completion # "absent"
  PROVE  Plain(t) \in Truthful
<1>1. t # "state"
  BY DEF PlainFrames
<1> QED
  BY <1>1, PlainIsTyped DEF Truthful, Tells, HandsOff

LEMMA StateIsTyped ==
  ASSUME NEW r \in Exchanges
  PROVE  State(r) \in IncomingFrames /\ State(r).type = "state" /\ State(r).state = r
BY DEF State, IncomingFrames

\* The relay's record is well typed after each update.
LEMMA RecordIsTyped ==
  ASSUME NEW r \in Exchanges
  PROVE  /\ r.exchange \in {"unknown", "open", "closing", "settled", "expired"}
         /\ r.request \in MessageStates /\ r.response \in MessageStates
         /\ r.completion \in MessageStates
BY DEF Exchanges

-----------------------------------------------------------------------------
(* The relay's record only advances *)

LEMMA RecordedAdvances ==
  ASSUME relay \in Exchanges, NEW frame
  PROVE  /\ Recorded(frame) \in Exchanges
         /\ relay.request # "absent" => Recorded(frame).request # "absent"
         /\ relay.response # "absent" <=> Recorded(frame).response # "absent"
         /\ relay.completion # "absent" => Recorded(frame).completion # "absent"
         /\ frame = "request" /\ relay.exchange = "unknown" => Recorded(frame).request # "absent"
         /\ frame # "request" => Recorded(frame).request = relay.request
         /\ frame # "completion" => Recorded(frame).completion = relay.completion
         /\ Recorded(frame).completion # "absent" =>
              relay.completion # "absent" \/ relay.exchange # "unknown"
         /\ (relay.exchange = "open" => relay.completion = "absent")
            /\ (relay.completion # "absent" => relay.exchange # "unknown") =>
              (Recorded(frame).exchange = "open" => Recorded(frame).completion = "absent")
         /\ (relay.request = "absent" <=> relay.exchange = "unknown") =>
              (Recorded(frame).request = "absent" <=> Recorded(frame).exchange = "unknown")
         /\ (relay.exchange \in {"closing", "settled"} => relay.completion # "absent") =>
              (Recorded(frame).exchange \in {"closing", "settled"} =>
                 Recorded(frame).completion # "absent")
<1>1. CASE frame = "request"
  BY <1>1 DEF Recorded, Exchanges, MessageStates
<1>2. CASE frame = "ackResponse"
  BY <1>2 DEF Recorded, Exchanges, MessageStates
<1>3. CASE frame = "completion" /\ relay.exchange = "open"
  BY <1>3 DEF Recorded, Exchanges, MessageStates
<1>4. CASE frame = "completion" /\ relay.exchange # "open"
  BY <1>4 DEF Recorded, Exchanges, MessageStates
<1>5. CASE frame \notin {"request", "ackResponse", "completion"}
  BY <1>5 DEF Recorded
<1> QED
  BY <1>1, <1>2, <1>3, <1>4, <1>5

\* An expired record keeps what was there.
LEMMA ExpiredAdvances ==
  ASSUME relay \in Exchanges, Expire
  PROVE  /\ relay' \in Exchanges /\ relay'.exchange = "expired"
         /\ relay.request # "absent" <=> relay'.request # "absent"
         /\ relay.response # "absent" <=> relay'.response # "absent"
         /\ relay.completion # "absent" <=> relay'.completion # "absent"
BY DEF Expire, Exchanges, MessageStates

LEMMA DeviceAdvances ==
  ASSUME relay \in Exchanges, DeviceStep
  PROVE  /\ relay' \in Exchanges
         /\ relay.request # "absent" /\ relay'.request # "absent"
         /\ relay.exchange # "unknown" /\ relay'.exchange # "unknown"
         /\ relay.response # "absent" => relay'.response # "absent"
         /\ relay.completion # "absent" => relay'.completion # "absent"
         /\ relay'.exchange \in {"closing", "settled"} =>
              relay'.completion # "absent" \/ relay.exchange = relay'.exchange
BY DEF DeviceStep, DeviceTakesRequest, DeviceResponds, DeviceTakesCompletion, Exchanges, MessageStates

\* No step of the client or of its owner changes the relay's record.
LEMMA ClientLeavesRecord ==
  ASSUME \/ BeginRequest \/ (\E p \in {"normal", "brief"} : BeginComplete(p))
         \/ DropFuture \/ BriefTimeout \/ LeaveExchange \/ ClientStep
  PROVE  relay' = relay
BY DEF BeginRequest, BeginComplete, DropFuture, BriefTimeout, LeaveExchange, DropSocket, ClientStep,
       Connect, Flush, FlushFails, FlushOnRead, Receive, ReceiveFailure, ReceiveClosedInactive,
       ReceiveFinal, ReceiveAck, ReceiveResponse, ReceiveStateInRequest, ReceiveHandedOff,
       ReceiveIgnored, ReceivePong, Consume, world

LEMMA RecordChanges ==
  ASSUME [RelayMove]_relayVars
  PROVE  \/ relay' = relay
         \/ \E frame \in {Head(toRelay), Head(late)} : relay' = Recorded(frame)
         \/ DeviceStep \/ Expire
<1>1. CASE FaultStep
  BY <1>1 DEF FaultStep, ConnectFails, Break, TakeLate, Refuse
<1>2. CASE RelayStep
  BY <1>2 DEF RelayStep, Take
<1> QED
  BY <1>1, <1>2, ClientLeavesRecord DEF RelayMove, relayVars

\* The client forgets neither that it sent the request nor its completion.
LEMMA MessagesAdvance ==
  ASSUME RelayTypeOK, [RelayMove]_relayVars
  PROVE  /\ request.sent => request'.sent
         /\ completion.made => completion'.made
         /\ request' \in [made : BOOLEAN, sent : BOOLEAN, acked : BOOLEAN]
         /\ completion' \in [made : BOOLEAN, sent : BOOLEAN]
<1> USE DEF RelayTypeOK
<1> DEFINE Goal == /\ request.sent => request'.sent
                   /\ completion.made => completion'.made
                   /\ request' \in [made : BOOLEAN, sent : BOOLEAN, acked : BOOLEAN]
                   /\ completion' \in [made : BOOLEAN, sent : BOOLEAN]
<1>1. CASE UNCHANGED messages
  BY <1>1 DEF messages
<1>2. CASE BeginRequest
  BY <1>2 DEF BeginRequest
<1>3. ASSUME NEW p, BeginComplete(p) PROVE Goal
  BY <1>3 DEF BeginComplete
<1>4. CASE Flush
  <2>1. request' \in {request, [request EXCEPT !.sent = @ \/ TRUE], [request EXCEPT !.sent = @ \/ FALSE]}
    BY <1>4 DEF Flush, messages
  <2>2. completion' \in {completion, [completion EXCEPT !.sent = TRUE]}
    BY <1>4 DEF Flush, messages
  <2> QED
    BY <2>1, <2>2
<1>5. CASE ReceiveAck \/ ReceiveResponse
  BY <1>5 DEF ReceiveAck, ReceiveResponse
<1>6. CASE ReceiveStateInRequest
  BY <1>6 DEF ReceiveStateInRequest, ShowsRequest
<1>7. CASE DropFuture \/ BriefTimeout \/ LeaveExchange \/ RelayStep \/ DeviceStep
  BY <1>1, <1>7 DEF DropFuture, BriefTimeout, LeaveExchange, RelayStep, Take, DeviceStep,
     DeviceTakesRequest, DeviceResponds, DeviceTakesCompletion
<1>8. CASE FaultStep
  BY <1>1, <1>8 DEF FaultStep, ConnectFails, Break, TakeLate, Refuse, Expire
<1>9. CASE Connect \/ FlushFails \/ FlushOnRead
  BY <1>1, <1>9 DEF Connect, FlushFails, FlushOnRead
<1>10. CASE ReceiveFailure \/ ReceiveClosedInactive \/ ReceiveFinal \/ ReceiveHandedOff
            \/ ReceiveIgnored \/ ReceivePong
  BY <1>1, <1>10 DEF ReceiveFailure, ReceiveClosedInactive, ReceiveFinal, ReceiveHandedOff,
     ReceiveIgnored, ReceivePong, messages
<1>11. CASE UNCHANGED relayVars
  BY <1>11 DEF relayVars
<1> QED
  BY <1>2, <1>3, <1>4, <1>5, <1>6, <1>7, <1>8, <1>9, <1>10, <1>11 DEF RelayMove, ClientStep, Receive

\* Only the owner makes a completion.
LEMMA OnlyOwnerMakes ==
  ASSUME RelayTypeOK, DropFuture \/ BriefTimeout \/ ClientStep \/ RelayStep \/ DeviceStep \/ FaultStep
  PROVE  completion'.made = completion.made
<1> USE DEF RelayTypeOK, messages
<1>1. CASE Flush
  BY <1>1 DEF Flush
<1>2. CASE Receive
  BY <1>2 DEF Receive, ReceiveFailure, ReceiveClosedInactive, ReceiveFinal, ReceiveAck, ReceiveResponse,
     ReceiveStateInRequest, ReceiveHandedOff, ReceiveIgnored, ReceivePong
<1>3. CASE Connect \/ FlushFails \/ FlushOnRead \/ DropFuture \/ BriefTimeout
  BY <1>3 DEF Connect, FlushFails, FlushOnRead, DropFuture, BriefTimeout
<1>4. CASE RelayStep \/ DeviceStep \/ FaultStep
  BY <1>4 DEF RelayStep, DeviceStep, FaultStep, Take, DeviceTakesRequest, DeviceResponds,
     DeviceTakesCompletion, ConnectFails, Break, TakeLate, Refuse, Expire
<1> QED
  BY <1>1, <1>2, <1>3, <1>4 DEF ClientStep

LEMMA AlwaysAdvances ==
  ASSUME RelayTypeOK, [RelayMove]_relayVars
  PROVE  Advances
<1>1. relay \in Exchanges
  BY DEF RelayTypeOK
<1>2. Known => Known'
  BY MessagesAdvance DEF Known
<1>3. completion.made => completion'.made
  BY MessagesAdvance
<1> QED
  BY <1>1, <1>2, <1>3, RecordChanges, RecordedAdvances, DeviceAdvances, ExpiredAdvances DEF Advances

-----------------------------------------------------------------------------
(* Each step keeps the invariant *)

LEMMA FramesAreTypedNext ==
  /\ Seq(Sendable') \subseteq Seq(OutgoingFrames)
  /\ Seq(Flushed') \subseteq Seq(Sendable')
  /\ Seq(Truthful') \subseteq Seq(IncomingFrames)
BY SeqMonotonic DEF Sendable, Flushed, Truthful

\* What was true of the frames under way is true after a step, and what is
\* left to show is where they are and where the futures are.
LEMMA StepFrame ==
  ASSUME ExchangeInv, RelayMove
  PROVE  /\ Advances /\ relay' \in Exchanges
         /\ request' \in [made : BOOLEAN, sent : BOOLEAN, acked : BOOLEAN]
         /\ completion' \in [made : BOOLEAN, sent : BOOLEAN]
         /\ request.sent => request'.sent
         /\ completion.made => completion'.made
         /\ outbox \in Seq(Sendable') /\ toRelay \in Seq(Flushed') /\ late \in Seq(Flushed')
         /\ toClient \in Seq(Truthful')
         /\ \A S : <<>> \in Seq(S)
<1> USE DEF ExchangeInv, RelayTypeOK
<1>1. Advances
  BY AlwaysAdvances
<1>2. relay' \in Exchanges
  BY RecordChanges, RecordedAdvances, DeviceAdvances, ExpiredAdvances
<1> QED
  BY <1>1, <1>2, FramesGrow, MessagesAdvance, EmptySeq DEF Frames

LEMMA Assemble ==
  ASSUME ExchangeInv, RelayMove, Frames', Record', Control',
         phase' \in {"idle", "request", "complete"}, policy' \in {"normal", "brief"},
         at' \in {"none", "connect", "flush", "receive"}, failures' \in Nat,
         response' \in BOOLEAN, result' \in Results, sock' \in BOOLEAN,
         link' \in {"none", "up", "broken"}, faults' \in 0..MaxFaults, cut' \in BOOLEAN,
         assoc' \in BOOLEAN
  PROVE  ExchangeInv'
BY StepFrame, FramesAreTypedNext DEF ExchangeInv, RelayTypeOK, Frames

\* The record and what is concluded from it, when the client only reads and writes.
LEMMA RecordStays ==
  ASSUME ExchangeInv, relay' = relay, RelayMove,
         request'.acked => request.acked \/ relay.request # "absent",
         result' = "handedOff" => result = "handedOff" \/ relay.completion # "absent",
         response' \/ result' = "response" =>
           response \/ result = "response" \/ relay.response # "absent"
  PROVE  Record'
BY StepFrame DEF ExchangeInv, Record, Advances

\* The owner starts a future.
LEMMA BeginRequestKeeps == ExchangeInv /\ BeginRequest => ExchangeInv'
<1> SUFFICES ASSUME ExchangeInv, BeginRequest PROVE ExchangeInv'
  OBVIOUS
<1>0. RelayMove
  BY DEF RelayMove
<1> USE <1>0, StepFrame DEF BeginRequest, connection, world
<1>1. Frames'
  BY DEF Frames
<1>2. Record'
  BY RecordStays DEF ExchangeInv, RelayTypeOK, Record
<1>3. Control'
  BY DEF Control
<1> QED
  BY <1>1, <1>2, <1>3, Assemble DEF ExchangeInv, RelayTypeOK, Results

\* Writing the completion needs an acknowledged request.
LEMMA GoOnWrites ==
  ASSUME NEW acked \in BOOLEAN, NEW reconnected \in BOOLEAN, NEW unsent \in Seq(Sendable'),
         GoOn(acked, reconnected, unsent), acked => relay'.request # "absent",
         phase' = "complete" => completion'.made
  PROVE  /\ outbox' \in Seq(Sendable')
         /\ at' \in {"flush", "receive"} /\ (at' = "flush" => outbox' # <<>>)
         /\ phase' # "complete" => at' = "receive" /\ outbox' = unsent
<1>1. phase' = "complete" /\ NeedsCompletion(acked, reconnected) => "completion" \in Sendable'
  BY DEF NeedsCompletion, Sendable, OutgoingFrames
<1> QED
  BY <1>1, AppendProperties DEF GoOn

LEMMA BeginCompleteKeeps ==
  ASSUME ExchangeInv, NEW p \in {"normal", "brief"}, BeginComplete(p)
  PROVE  ExchangeInv'
<1>0. RelayMove
  BY DEF RelayMove
<1> USE <1>0, StepFrame DEF BeginComplete, world
<1>1. /\ outbox' \in Seq(Sendable') /\ at' \in {"connect", "flush", "receive"}
      /\ at' = "flush" => outbox' # <<>>
  <2>1. CASE sock
    <3>1. request.acked \in BOOLEAN /\ (request.acked => relay'.request # "absent")
      BY DEF ExchangeInv, RelayTypeOK, Record
    <3> QED
      BY <2>1, <3>1, GoOnWrites
  <2>2. CASE ~sock
    BY <2>2
  <2> QED
    BY <2>1, <2>2 DEF ExchangeInv, RelayTypeOK
<1>2. Frames'
  BY <1>1 DEF Frames
<1>3. Record'
  BY RecordStays
<1>4. Control'
  BY <1>1 DEF ExchangeInv, RelayTypeOK, Control
<1> QED
  BY <1>1, <1>2, <1>3, <1>4, Assemble DEF ExchangeInv, RelayTypeOK, Results

\* The owner drops a future, or the exchange.
LEMMA DropFutureKeeps == ExchangeInv /\ (DropFuture \/ BriefTimeout) => ExchangeInv'
<1> SUFFICES ASSUME ExchangeInv, DropFuture \/ BriefTimeout PROVE ExchangeInv'
  OBVIOUS
<1>0. RelayMove
  BY DEF RelayMove
<1>1. /\ phase' = "idle" /\ at' = "none" /\ result' \in {"cancelled", "timedOut"}
      /\ failures' = 0 /\ response' = FALSE /\ cut' = (cut \/ at = "flush")
      /\ UNCHANGED <<policy, messages, connection, late, relay, assoc, faults>>
  BY DEF DropFuture, BriefTimeout, Finish
<1> USE <1>0, <1>1, StepFrame DEF messages, connection
<1>2. Frames'
  BY DEF Frames
<1>3. Record'
  BY RecordStays
<1>4. Control'
  BY DEF Control
<1> QED
  BY <1>2, <1>3, <1>4, Assemble DEF ExchangeInv, RelayTypeOK, Results

\* Dropping the socket leaves the relay what was flushed.
LEMMA DropSocketWrites ==
  ASSUME ExchangeInv, RelayMove, DropSocket
  PROVE  Frames' /\ outbox' = <<>> /\ relay' = relay
<1> USE DEF DropSocket
<1>1. late \o toRelay \in Seq(Flushed')
  BY StepFrame, ConcatProperties
<1> QED
  BY <1>1, StepFrame DEF Frames

LEMMA LeaveExchangeKeeps == ExchangeInv /\ LeaveExchange => ExchangeInv'
<1> SUFFICES ASSUME ExchangeInv, LeaveExchange PROVE ExchangeInv'
  OBVIOUS
<1>0. RelayMove
  BY DEF RelayMove
<1>1. Frames' /\ relay' = relay
  BY <1>0, DropSocketWrites DEF LeaveExchange
<1> USE <1>0, StepFrame DEF LeaveExchange, DropSocket, future, messages
<1>2. Record'
  BY <1>1, RecordStays
<1>3. Control'
  BY DEF ExchangeInv, Control
<1> QED
  BY <1>1, <1>2, <1>3, Assemble DEF ExchangeInv, RelayTypeOK

\* The future gives up or tries again.
LEMMA FailedKeeps ==
  ASSUME ExchangeInv, Failed, at # "none"
  PROVE  /\ phase' \in {"idle", "request", "complete"} /\ policy' = policy
         /\ at' \in {"none", "connect"} /\ failures' \in Nat
         /\ response' \in BOOLEAN /\ result' \in Results
         /\ result' \in {"handedOff", "response"} => result' = result
         /\ response' => response
         /\ phase' = "idle" <=> at' = "none"
         /\ phase' \in {phase, "idle"}
<1>1. CASE Finish("exhausted")
  BY <1>1 DEF ExchangeInv, RelayTypeOK, Finish, Results
<1>2. CASE ~Finish("exhausted")
  BY <1>2 DEF Failed, ExchangeInv, RelayTypeOK, Control
<1> QED
  BY <1>1, <1>2

LEMMA ConnectKeeps == ExchangeInv /\ Connect => ExchangeInv'
<1> SUFFICES ASSUME ExchangeInv, Connect PROVE ExchangeInv'
  OBVIOUS
<1>0. RelayMove
  BY DEF RelayMove, ClientStep
<1> USE <1>0, StepFrame DEF Connect, messages
<1>1. outbox' \in Seq(Sendable') /\ Len(outbox') = 1
  <2>1. FirstFrame \in Sendable'
    BY DEF FirstFrame, Sendable, OutgoingFrames
  <2> QED
    BY <2>1
<1>2. Frames'
  BY <1>1 DEF Frames
<1>3. Record'
  BY RecordStays
<1>4. Control'
  BY <1>1 DEF ExchangeInv, Control
<1> QED
  BY <1>2, <1>3, <1>4, Assemble DEF ExchangeInv, RelayTypeOK

LEMMA ConnectFailsKeeps == ExchangeInv /\ ConnectFails => ExchangeInv'
<1> SUFFICES ASSUME ExchangeInv, ConnectFails PROVE ExchangeInv'
  OBVIOUS
<1>0. RelayMove
  BY DEF RelayMove, FaultStep
<1>1. /\ phase' \in {"idle", "request", "complete"} /\ policy' = policy
      /\ at' \in {"none", "connect"} /\ failures' \in Nat
      /\ response' \in BOOLEAN /\ result' \in Results
      /\ result' \in {"handedOff", "response"} => result' = result
      /\ response' => response
      /\ phase' = "idle" <=> at' = "none"
      /\ phase' \in {phase, "idle"}
  <2>1. CASE Failed
    BY <2>1, FailedKeeps DEF ConnectFails
  <2>2. CASE Finish("inactive")
    BY <2>2 DEF Finish, ExchangeInv, RelayTypeOK, Results
  <2> QED
    BY <2>1, <2>2 DEF ConnectFails
<1> USE <1>0, <1>1, StepFrame DEF ConnectFails, connection, messages, Fault
<1>2. Frames'
  BY DEF Frames
<1>3. Record'
  BY RecordStays
<1>4. Control'
  BY DEF ExchangeInv, Control
<1> QED
  BY <1>2, <1>3, <1>4, Assemble, FaultAssumption DEF ExchangeInv, RelayTypeOK

\* A request that is flushed is from then on known to the client.
LEMMA FlushedIsKnown ==
  ASSUME ExchangeInv, RelayMove, NEW s \in Seq(Sendable'),
         \A i \in 1..Len(s) : s[i] = "request" => Known'
  PROVE  s \in Seq(Flushed')
<1>1. \A i \in 1..Len(s) : s[i] \in Flushed'
  BY ElementOfSeq DEF Flushed
<1>2. Len(s) \in Nat /\ s = [i \in 1..Len(s) |-> s[i]]
  BY LenProperties
<1> QED
  BY <1>1, <1>2, SeqDef

LEMMA FlushKeeps == ExchangeInv /\ Flush => ExchangeInv'
<1> SUFFICES ASSUME ExchangeInv, Flush PROVE ExchangeInv'
  OBVIOUS
<1>0. RelayMove
  BY DEF RelayMove, ClientStep
<1> USE <1>0, StepFrame DEF world
<1>1. /\ at = "flush" /\ UNCHANGED <<sock, link, toClient, world>>
      /\ toRelay' = IF link = "up" THEN toRelay \o outbox ELSE toRelay
  BY DEF Flush
<1> DEFINE frame == Last(outbox)
<1>2. outbox \in Seq(Flushed')
  <2>1. CASE completion.made
    BY <2>1, FlushedIsKnown DEF Known
  <2>2. CASE ~completion.made
    <3>1. Len(outbox) = 1 /\ frame = outbox[1]
      <4>1. phase = "request"
        BY <1>1, <2>2 DEF ExchangeInv, RelayTypeOK, Control
      <4> QED
        BY <1>1, <2>2, <4>1 DEF ExchangeInv, Control, Last
    <3>2. frame = "request" => request'.sent
      BY DEF Flush, ExchangeInv, RelayTypeOK
    <3> QED
      BY <3>1, <3>2, FlushedIsKnown DEF Known
  <2> QED
    BY <2>1, <2>2
<1>3. toRelay' \in Seq(Flushed')
  BY <1>1, <1>2, ConcatProperties
<1>4. /\ outbox' \in Seq(Sendable') /\ policy' = policy
      /\ at' \in {"none", "flush", "receive"} /\ failures' \in Nat
      /\ response' \in BOOLEAN /\ result' \in {result, "response"}
      /\ response' => response
      /\ result' = "response" => result = "response" \/ relay.response # "absent"
      /\ request'.acked = request.acked
      /\ phase' = "idle" <=> at' = "none"
      /\ at' = "flush" => outbox' # <<>>
      /\ phase' \in {phase, "idle"}
      /\ phase' = "request" => at' = "receive" /\ outbox' = <<>>
  <2>1. request.acked \in BOOLEAN /\ (request.acked => relay'.request # "absent")
    BY <1>1 DEF ExchangeInv, RelayTypeOK, Record
  <2>2. phase # "idle" /\ (phase = "complete" => completion'.made)
    BY <1>1 DEF ExchangeInv, Control
  <2>3. CASE frame \in {"request", "resume"}
    <3>1. /\ request' = [request EXCEPT !.sent = @ \/ frame = "request"]
          /\ UNCHANGED <<phase, policy, failures, response, result, completion>>
          /\ GoOn(request.acked, TRUE, <<>>)
      BY <2>3 DEF Flush
    <3>2. request'.acked = request.acked
      BY <3>1 DEF ExchangeInv, RelayTypeOK
    <3> QED
      BY <2>1, <2>2, <3>1, <3>2, GoOnWrites DEF ExchangeInv, RelayTypeOK
  <2>4. CASE frame = "completion"
    <3>1. /\ at' = "receive" /\ outbox' = <<>>
          /\ UNCHANGED <<phase, policy, failures, response, result, request>>
      BY <2>4 DEF Flush
    <3> QED
      BY <2>2, <3>1 DEF ExchangeInv, RelayTypeOK
  <2>5. CASE frame = "ackResponse" /\ phase = "request"
    <3>1. outbox' = <<>> /\ Finish("response") /\ UNCHANGED messages
      BY <2>5 DEF Flush
    <3>2. outbox # <<>> /\ outbox \in Seq(Sendable)
      BY <1>1 DEF ExchangeInv, Control, Frames
    <3>3. frame \in Sendable
      BY <3>2 DEF Last
    <3>4. relay.response # "absent"
      BY <2>5, <3>3 DEF Sendable
    <3> QED
      BY <3>1, <3>4 DEF Finish, messages
  <2>6. CASE frame = "ackResponse" /\ phase = "complete"
    <3>1. /\ UNCHANGED <<phase, policy, failures, response, result, messages>>
          /\ GoOn(request.acked, FALSE, <<>>)
      BY <2>6 DEF Flush
    <3> QED
      BY <2>1, <2>2, <2>6, <3>1, GoOnWrites DEF messages, ExchangeInv, RelayTypeOK
  <2> QED
    BY <2>3, <2>4, <2>5, <2>6 DEF Flush
<1>5. Frames'
  BY <1>1, <1>3, <1>4 DEF Frames
<1>6. Record'
  BY <1>1, <1>4, RecordStays
<1>7. Control'
  BY <1>4 DEF ExchangeInv, Control
<1> QED
  BY <1>1, <1>4, <1>5, <1>6, <1>7, Assemble DEF ExchangeInv, RelayTypeOK, Results

LEMMA FlushFailsKeeps == ExchangeInv /\ FlushFails => ExchangeInv'
<1> SUFFICES ASSUME ExchangeInv, FlushFails PROVE ExchangeInv'
  OBVIOUS
<1>0. RelayMove /\ DropSocket /\ Failed /\ at # "none" /\ UNCHANGED messages
  BY DEF RelayMove, ClientStep, FlushFails
<1>1. Frames' /\ outbox' = <<>> /\ relay' = relay
  BY <1>0, DropSocketWrites
<1> USE <1>0, StepFrame, FailedKeeps DEF DropSocket, messages
<1>2. Record'
  BY <1>1, RecordStays
<1>3. Control'
  BY <1>1 DEF ExchangeInv, Control
<1> QED
  BY <1>1, <1>2, <1>3, Assemble DEF ExchangeInv, RelayTypeOK

LEMMA FlushOnReadKeeps == ExchangeInv /\ FlushOnRead => ExchangeInv'
<1> SUFFICES ASSUME ExchangeInv, FlushOnRead PROVE ExchangeInv'
  OBVIOUS
<1>0. RelayMove
  BY DEF RelayMove, ClientStep
<1> USE <1>0, StepFrame DEF FlushOnRead, future, messages, world
<1>1. Known'
  BY DEF ExchangeInv, RelayTypeOK, Control, Known
<1>2. toRelay' \in Seq(Flushed')
  BY <1>1, FlushedIsKnown, ConcatProperties
<1>3. Frames'
  BY <1>2 DEF Frames
<1>4. Record'
  BY RecordStays
<1>5. Control'
  BY DEF ExchangeInv, Control
<1> QED
  BY <1>3, <1>4, <1>5, Assemble DEF ExchangeInv, RelayTypeOK

-----------------------------------------------------------------------------
(* What the client reads *)

\* The frame that arrived, and what is left.
LEMMA ArrivedTells ==
  ASSUME ExchangeInv, RelayMove, NEW t, Arrived(t)
  PROVE  /\ at = "receive" /\ outbox = <<>> /\ phase # "idle"
         /\ Head(toClient) \in Truthful /\ Head(toClient).type \in t
         /\ Tail(toClient) \in Seq(Truthful')
<1>1. toClient # <<>> /\ toClient \in Seq(Truthful) /\ toClient \in Seq(Truthful')
  BY StepFrame DEF Arrived, ExchangeInv, Frames
<1> QED
  BY <1>1, HeadTailProperties DEF Arrived, ExchangeInv, Control

LEMMA ReceiveFailureKeeps == ExchangeInv /\ ReceiveFailure => ExchangeInv'
<1> SUFFICES ASSUME ExchangeInv, ReceiveFailure PROVE ExchangeInv'
  OBVIOUS
<1>0. RelayMove /\ DropSocket /\ Failed /\ at # "none" /\ UNCHANGED messages
  BY DEF RelayMove, ClientStep, Receive, ReceiveFailure, Arrived
<1>1. Frames' /\ outbox' = <<>> /\ relay' = relay
  BY <1>0, DropSocketWrites
<1> USE <1>0, StepFrame, FailedKeeps DEF DropSocket, messages
<1>2. Record'
  BY <1>1, RecordStays
<1>3. Control'
  BY <1>1 DEF ExchangeInv, Control
<1> QED
  BY <1>1, <1>2, <1>3, Assemble DEF ExchangeInv, RelayTypeOK

LEMMA ReceiveClosedInactiveKeeps == ExchangeInv /\ ReceiveClosedInactive => ExchangeInv'
<1> SUFFICES ASSUME ExchangeInv, ReceiveClosedInactive PROVE ExchangeInv'
  OBVIOUS
<1>0. RelayMove /\ DropSocket /\ Finish("inactive") /\ UNCHANGED messages
  BY DEF RelayMove, ClientStep, Receive, ReceiveClosedInactive
<1>1. Frames' /\ outbox' = <<>> /\ relay' = relay
  BY <1>0, DropSocketWrites
<1> USE <1>0, StepFrame DEF DropSocket, Finish, messages
<1>2. Record'
  BY <1>1, RecordStays
<1>3. Control'
  BY <1>1 DEF Control
<1> QED
  BY <1>1, <1>2, <1>3, Assemble DEF ExchangeInv, RelayTypeOK, Results

LEMMA ReceiveFinalKeeps == ExchangeInv /\ ReceiveFinal => ExchangeInv'
<1> SUFFICES ASSUME ExchangeInv, ReceiveFinal PROVE ExchangeInv'
  OBVIOUS
<1>0. RelayMove
  BY DEF RelayMove, ClientStep, Receive
<1>1. Tail(toClient) \in Seq(Truthful')
  BY <1>0, ArrivedTells DEF ReceiveFinal
<1> USE <1>0, StepFrame DEF ReceiveFinal, Consume, Finish, messages, world
<1>2. Frames'
  BY <1>1 DEF Frames
<1>3. result' \in {"rejected", "inactive"}
  OBVIOUS
<1>4. Record'
  BY <1>3, RecordStays
<1>5. Control'
  BY DEF Control
<1> QED
  BY <1>2, <1>3, <1>4, <1>5, Assemble DEF ExchangeInv, RelayTypeOK, Results

LEMMA ReceiveAckKeeps == ExchangeInv /\ ReceiveAck => ExchangeInv'
<1> SUFFICES ASSUME ExchangeInv, ReceiveAck PROVE ExchangeInv'
  OBVIOUS
<1>0. RelayMove
  BY DEF RelayMove, ClientStep, Receive
<1>1. /\ Tail(toClient) \in Seq(Truthful') /\ outbox = <<>> /\ phase # "idle"
      /\ relay.request # "absent"
  BY <1>0, ArrivedTells DEF ReceiveAck, Truthful, Tells
<1> USE <1>0, <1>1, StepFrame DEF ReceiveAck, Consume, world
<1>2. /\ outbox' \in Seq(Sendable') /\ at' \in {"flush", "receive"}
      /\ at' = "flush" => outbox' # <<>>
      /\ phase' # "complete" => at' = "receive" /\ outbox' = <<>>
  <2>1. relay'.request # "absent"
    OBVIOUS
  <2>2. GoOn(TRUE, FALSE, outbox) /\ (phase' = "complete" => completion'.made)
    BY DEF ExchangeInv, Control
  <2> QED
    BY <2>1, <2>2, GoOnWrites
<1>3. Frames'
  BY <1>2 DEF Frames
<1>4. Record'
  BY RecordStays
<1>5. Control'
  BY <1>2 DEF ExchangeInv, Control
<1> QED
  BY <1>2, <1>3, <1>4, <1>5, Assemble DEF ExchangeInv, RelayTypeOK

LEMMA ReceiveResponseKeeps == ExchangeInv /\ ReceiveResponse => ExchangeInv'
<1> SUFFICES ASSUME ExchangeInv, ReceiveResponse PROVE ExchangeInv'
  OBVIOUS
<1>0. RelayMove
  BY DEF RelayMove, ClientStep, Receive
<1>1. /\ Tail(toClient) \in Seq(Truthful') /\ phase # "idle"
      /\ relay.request # "absent" /\ relay.response # "absent"
  BY <1>0, ArrivedTells DEF ReceiveResponse, Truthful, Tells
<1> USE <1>0, <1>1, StepFrame DEF ReceiveResponse, Consume, world
<1>2. outbox' \in Seq(Sendable') /\ Len(outbox') = 1
  <2>1. "ackResponse" \in Sendable'
    BY DEF Sendable, OutgoingFrames, Advances
  <2> QED
    BY <2>1
<1>3. Frames'
  BY <1>2 DEF Frames
<1>4. Record'
  BY RecordStays
<1>5. Control'
  BY <1>2 DEF ExchangeInv, Control
<1>6. response' \in BOOLEAN
  BY DEF Kept, ExchangeInv, RelayTypeOK
<1> QED
  BY <1>3, <1>4, <1>5, <1>6, Assemble DEF ExchangeInv, RelayTypeOK

LEMMA ReceiveStateInRequestKeeps == ExchangeInv /\ ReceiveStateInRequest => ExchangeInv'
<1> SUFFICES ASSUME ExchangeInv, ReceiveStateInRequest PROVE ExchangeInv'
  OBVIOUS
<1>0. RelayMove
  BY DEF RelayMove, ClientStep, Receive
<1> DEFINE s == Head(toClient).state
<1>1. /\ Tail(toClient) \in Seq(Truthful') /\ outbox = <<>> /\ at = "receive"
      /\ ShowsRequest(s) => relay.request # "absent"
  BY <1>0, ArrivedTells DEF ReceiveStateInRequest, Truthful, Tells
<1>2. /\ request' = [request EXCEPT !.acked = @ \/ ShowsRequest(s)]
      /\ \/ \E r \in {"response", "missing"} : Finish(r) /\ (r = "response" => response)
         \/ failures' = 0 /\ UNCHANGED <<phase, policy, at, response, result>>
      /\ UNCHANGED <<completion, outbox>> /\ Consume
  BY DEF ReceiveStateInRequest
<1>3. /\ phase' \in {phase, "idle"} /\ policy' = policy /\ at' \in {at, "none"}
      /\ failures' \in Nat /\ response' \in BOOLEAN
      /\ result' \in {result, "response", "missing"}
      /\ response' => response
      /\ result' = "response" => result = "response" \/ response
      /\ phase' = "idle" <=> at' = "none"
  <2>1. CASE \E r \in {"response", "missing"} : Finish(r) /\ (r = "response" => response)
    <3>1. PICK r \in {"response", "missing"} : Finish(r) /\ (r = "response" => response)
      BY <2>1
    <3> QED
      BY <3>1 DEF Finish
  <2>2. CASE failures' = 0 /\ UNCHANGED <<phase, policy, at, response, result>>
    BY <2>2 DEF ExchangeInv, RelayTypeOK, Control
  <2> QED
    BY <1>2, <2>1, <2>2
<1> USE <1>0, <1>1, <1>2, StepFrame DEF Consume, world
<1>4. Frames'
  BY DEF Frames
<1>5. request'.acked => request.acked \/ relay.request # "absent"
  BY DEF ExchangeInv, RelayTypeOK
<1>6. Record'
  BY <1>3, <1>5, RecordStays
<1>7. Control'
  BY <1>3 DEF ExchangeInv, Control
<1> QED
  BY <1>3, <1>4, <1>6, <1>7, Assemble DEF ExchangeInv, RelayTypeOK, Results

LEMMA ReceiveHandedOffKeeps == ExchangeInv /\ ReceiveHandedOff => ExchangeInv'
<1> SUFFICES ASSUME ExchangeInv, ReceiveHandedOff PROVE ExchangeInv'
  OBVIOUS
<1>0. RelayMove
  BY DEF RelayMove, ClientStep, Receive
<1>1. /\ Tail(toClient) \in Seq(Truthful') /\ relay.completion # "absent"
  BY <1>0, ArrivedTells DEF ReceiveHandedOff, Truthful, Tells
<1> USE <1>0, <1>1, StepFrame DEF ReceiveHandedOff, Consume, Finish, messages, world
<1>2. Frames'
  BY DEF Frames
<1>3. Record'
  BY RecordStays
<1>4. Control'
  BY DEF Control
<1> QED
  BY <1>2, <1>3, <1>4, Assemble DEF ExchangeInv, RelayTypeOK, Results

LEMMA ReceiveIgnoredKeeps == ExchangeInv /\ ReceiveIgnored => ExchangeInv'
<1> SUFFICES ASSUME ExchangeInv, ReceiveIgnored PROVE ExchangeInv'
  OBVIOUS
<1>0. RelayMove
  BY DEF RelayMove, ClientStep, Receive
<1>1. Tail(toClient) \in Seq(Truthful') /\ outbox = <<>> /\ phase # "idle"
  BY <1>0, ArrivedTells DEF ReceiveIgnored
<1> USE <1>0, <1>1, StepFrame DEF ReceiveIgnored, Consume, messages, world
<1>2. /\ outbox' \in Seq(Sendable') /\ at' \in {"flush", "receive"}
      /\ at' = "flush" => outbox' # <<>>
      /\ phase' # "complete" => at' = "receive" /\ outbox' = <<>>
  <2>1. request.acked \in BOOLEAN /\ (request.acked => relay'.request # "absent")
    BY DEF ExchangeInv, RelayTypeOK, Record
  <2>2. /\ GoOn(request.acked, FALSE, outbox) /\ outbox \in Seq(Sendable')
        /\ phase' = "complete" => completion'.made
    BY DEF ExchangeInv, Control
  <2>3. FALSE \in BOOLEAN
    OBVIOUS
  <2> HIDE DEF ReceiveIgnored, Consume, messages, world
  <2> QED
    BY <2>1, <2>2, <2>3, <1>1, GoOnWrites
<1>3. Frames'
  BY <1>2 DEF Frames
<1>4. Record'
  BY RecordStays
<1>5. Control'
  BY <1>2 DEF ExchangeInv, Control
<1> QED
  BY <1>2, <1>3, <1>4, <1>5, Assemble DEF ExchangeInv, RelayTypeOK

LEMMA ReceivePongKeeps == ExchangeInv /\ ReceivePong => ExchangeInv'
<1> SUFFICES ASSUME ExchangeInv, ReceivePong PROVE ExchangeInv'
  OBVIOUS
<1>0. RelayMove
  BY DEF RelayMove, ClientStep, Receive
<1> USE <1>0, StepFrame DEF ReceivePong, connection, messages, world
<1>1. Frames'
  BY DEF Frames
<1>2. Record'
  BY RecordStays
<1>3. Control'
  BY DEF ExchangeInv, Control
<1> QED
  BY <1>1, <1>2, <1>3, Assemble DEF ExchangeInv, RelayTypeOK

-----------------------------------------------------------------------------
(* The connection, the relay and the device *)

\* Their steps leave the client where it is.
LEMMA OutsideControl ==
  ASSUME ExchangeInv, UNCHANGED <<future, messages, sock, outbox>>
  PROVE  Control'
BY DEF ExchangeInv, Control, future, messages

LEMMA BreakKeeps == ExchangeInv /\ Break => ExchangeInv'
<1> SUFFICES ASSUME ExchangeInv, Break PROVE ExchangeInv'
  OBVIOUS
<1>0. RelayMove
  BY DEF RelayMove, FaultStep
<1>1. Control'
  BY OutsideControl DEF Break
<1>2. PICK n \in 0..Len(toClient), t \in {"close", "closeInactive"} :
        toClient' = Append(SubSeq(toClient, 1, n), Plain(t))
  BY DEF Break
<1>3. toClient' \in Seq(Truthful')
  <2>1. Plain(t) \in Truthful'
    BY PlainIsTyped DEF PlainFrames, Truthful, Tells, HandsOff
  <2>2. SubSeq(toClient, 1, n) \in Seq(Truthful')
    BY <1>0, StepFrame, LenProperties
  <2> QED
    BY <1>2, <2>1, <2>2, AppendProperties
<1>4. late' \in Seq(Flushed')
  BY <1>0, StepFrame, ConcatProperties DEF Break
<1>5. /\ UNCHANGED <<future, messages, sock, outbox, relay, cut>>
      /\ faults < MaxFaults /\ faults' = faults + 1
      /\ link' = "broken" /\ assoc' = FALSE /\ toRelay' = <<>>
  BY DEF Break, Fault
<1> USE <1>0, StepFrame DEF future, messages
<1>6. Frames'
  BY <1>3, <1>4, <1>5 DEF Frames
<1>7. Record'
  BY <1>5, RecordStays
<1>8. faults' \in 0..MaxFaults
  BY <1>5, FaultAssumption DEF ExchangeInv, RelayTypeOK
<1> QED
  BY <1>1, <1>5, <1>6, <1>7, <1>8, Assemble DEF ExchangeInv, RelayTypeOK

\* A frame that the relay takes: what the record says afterwards.
LEMMA RecordedKeeps ==
  ASSUME ExchangeInv, RelayMove, NEW frame \in Flushed, relay' = Recorded(frame),
         UNCHANGED <<future, messages>>
  PROVE  Record'
<1> USE DEF ExchangeInv, RelayTypeOK, future, messages
<1>1. Known' <=> Known
  BY DEF Known
<1>2. relay'.request # "absent" => Known
  BY RecordedAdvances DEF Record, Flushed
<1>3. relay'.completion # "absent" => completion.made
  BY RecordedAdvances DEF Record, Flushed, Sendable
<1> QED
  BY <1>1, <1>2, <1>3, RecordedAdvances DEF Record

\* The answer of the relay is true of its record.
LEMMA AnswerIsTruthful ==
  ASSUME ExchangeInv, RelayMove, NEW frame \in Flushed, relay' = Recorded(frame)
  PROVE  Answer(frame) \in Seq(Truthful')
<1> USE DEF ExchangeInv, RelayTypeOK
<1>0. /\ relay \in Exchanges /\ relay' \in Exchanges
      /\ relay.request # "absent" => relay'.request # "absent"
      /\ relay.completion # "absent" => relay'.completion # "absent"
  BY RecordedAdvances
<1>1. frame = "completion" => relay.request # "absent" /\ relay.exchange # "unknown"
  BY DEF Flushed, Sendable, Record
<1>2. relay.exchange # "unknown" => relay'.request # "absent"
  BY <1>0 DEF Record
<1>3. frame = "completion" => relay'.completion # "absent"
  BY <1>0, <1>1 DEF Recorded, Exchanges, MessageStates, Record
<1>4. /\ <<>> \in Seq(Truthful')
      /\ \A f \in Truthful' : <<f>> \in Seq(Truthful')
  BY EmptySeq
<1>5. ASSUME relay'.request # "absent"
      PROVE  PendingResponse \in Seq(Truthful') /\ RequestReceipt \in Seq(Truthful')
  <2>1. Plain("receipt") \in Truthful'
    BY <1>5, PlainIsTyped DEF PlainFrames, Truthful, Tells, HandsOff
  <2>2. relay.response # "absent" => Plain("response") \in Truthful'
    BY <1>5, PlainIsTyped, RecordedAdvances DEF PlainFrames, Truthful, Tells, HandsOff
  <2> QED
    BY <1>4, <2>1, <2>2 DEF PendingResponse, RequestReceipt
<1>6. Plain("inactive") \in Truthful'
  BY PlainIsTyped DEF PlainFrames, Truthful, Tells, HandsOff
<1>7. CASE frame = "ackResponse"
  <2>1. Answer(frame) = <<>>
    BY <1>7 DEF Answer
  <2> QED
    BY <1>4, <2>1
<1>8. CASE frame = "completion"
  <2>1. Plain("ackCompletion") \in Truthful'
    BY <1>3, <1>8, PlainIsTyped DEF PlainFrames, Truthful, Tells, HandsOff
  <2>2. Answer(frame) = <<Plain("ackCompletion")>>
    BY <1>8 DEF Answer
  <2> QED
    BY <1>4, <2>1, <2>2
<1>9. CASE frame = "resume" /\ relay.exchange # "unknown"
  <2>1. Answer(frame) = <<State(relay)>> \o PendingResponse
    BY <1>9 DEF Answer
  <2>2. State(relay) \in Truthful'
    BY <1>0, <1>2, <1>9, StateIsTyped DEF Truthful, Tells, HandsOff
  <2>3. <<State(relay)>> \in Seq(Truthful')
    BY <1>4, <2>2
  <2>4. PendingResponse \in Seq(Truthful')
    BY <1>2, <1>5, <1>9
  <2> QED
    BY <2>1, <2>3, <2>4, ConcatProperties
<1>10. CASE frame = "request" /\ relay.exchange # "expired"
  <2>1. Answer(frame) = <<Plain("ackRequest")>> \o RequestReceipt \o PendingResponse
    BY <1>10 DEF Answer
  <2>2. relay'.request # "absent"
    BY <1>0, <1>2, <1>10, RecordedAdvances
  <2>3. Plain("ackRequest") \in Truthful'
    BY <2>2, PlainIsTyped DEF PlainFrames, Truthful, Tells, HandsOff
  <2>4. <<Plain("ackRequest")>> \o RequestReceipt \in Seq(Truthful')
    BY <1>4, <1>5, <2>2, <2>3, ConcatProperties
  <2> QED
    BY <1>5, <2>1, <2>2, <2>4, ConcatProperties
<1>11. CASE \/ frame = "resume" /\ relay.exchange = "unknown"
            \/ frame = "request" /\ relay.exchange = "expired"
  <2>1. Answer(frame) = <<Plain("inactive")>>
    BY <1>11 DEF Answer
  <2> QED
    BY <1>4, <1>6, <2>1
<1> QED
  BY <1>7, <1>8, <1>9, <1>10, <1>11 DEF Flushed, Sendable, OutgoingFrames

LEMMA TakeKeeps == ExchangeInv /\ Take => ExchangeInv'
<1> SUFFICES ASSUME ExchangeInv, Take PROVE ExchangeInv'
  OBVIOUS
<1>0. RelayMove
  BY DEF RelayMove, RelayStep
<1>1. Control'
  BY OutsideControl DEF Take
<1>2. Head(toRelay) \in Flushed /\ relay' = Recorded(Head(toRelay))
  BY HeadTailProperties DEF Take, ExchangeInv, Frames
<1>3. Record'
  BY <1>0, <1>2, RecordedKeeps DEF Take
<1>4. toClient' \in Seq(Truthful')
  BY <1>0, <1>2, StepFrame, AnswerIsTruthful, ConcatProperties DEF Take
<1>5. toRelay' \in Seq(Flushed')
  BY <1>0, StepFrame, HeadTailProperties DEF Take
<1> USE <1>0, StepFrame DEF Take, future, messages
<1>6. Frames'
  BY <1>4, <1>5 DEF Frames
<1>7. assoc' \in BOOLEAN
  BY DEF ExchangeInv, RelayTypeOK
<1> QED
  BY <1>1, <1>3, <1>6, <1>7, Assemble DEF ExchangeInv, RelayTypeOK

LEMMA TakeLateKeeps == ExchangeInv /\ TakeLate => ExchangeInv'
<1> SUFFICES ASSUME ExchangeInv, TakeLate PROVE ExchangeInv'
  OBVIOUS
<1>0. RelayMove
  BY DEF RelayMove, FaultStep
<1>1. Control'
  BY OutsideControl DEF TakeLate, connection
<1>2. Head(late) \in Flushed /\ relay' = Recorded(Head(late))
  BY HeadTailProperties DEF TakeLate, ExchangeInv, Frames
<1>3. Record'
  BY <1>0, <1>2, RecordedKeeps DEF TakeLate
<1>4. late' \in Seq(Flushed')
  BY <1>0, StepFrame, HeadTailProperties DEF TakeLate
<1> USE <1>0, StepFrame DEF TakeLate, future, messages, connection
<1>5. Frames'
  BY <1>4 DEF Frames
<1> QED
  BY <1>1, <1>3, <1>5, Assemble DEF ExchangeInv, RelayTypeOK

LEMMA RefuseKeeps == ExchangeInv /\ Refuse => ExchangeInv'
<1> SUFFICES ASSUME ExchangeInv, Refuse PROVE ExchangeInv'
  OBVIOUS
<1>0. RelayMove
  BY DEF RelayMove, FaultStep
<1>1. Control'
  BY OutsideControl DEF Refuse
<1>2. toClient' \in Seq(Truthful')
  <2>1. PICK t \in {"retry", "fatal"} : toClient' = Append(toClient, Plain(t))
    BY DEF Refuse
  <2>2. Plain(t) \in Truthful'
    BY PlainIsTyped DEF PlainFrames, Truthful, Tells, HandsOff
  <2> QED
    BY <1>0, <2>1, <2>2, StepFrame, AppendProperties
<1>3. toRelay' \in Seq(Flushed')
  BY <1>0, StepFrame, HeadTailProperties DEF Refuse
<1> USE <1>0, StepFrame DEF Refuse, Fault, future, messages
<1>4. Frames'
  BY <1>2, <1>3 DEF Frames
<1>5. Record'
  BY RecordStays
<1> QED
  BY <1>1, <1>4, <1>5, Assemble, FaultAssumption DEF ExchangeInv, RelayTypeOK

\* The device changes the record of a request that the relay has.
LEMMA DeviceKeepsRecord ==
  ASSUME ExchangeInv, RelayMove, DeviceStep \/ Expire, UNCHANGED <<future, messages>>
  PROVE  Record'
<1> USE DEF ExchangeInv, RelayTypeOK, Exchanges, MessageStates, future, messages
<1>1. /\ relay.exchange \notin {"unknown", "expired"} /\ relay'.exchange # "unknown"
      /\ relay.request # "absent" /\ relay'.request # "absent"
      /\ relay.completion # "absent" => relay'.completion # "absent"
      /\ relay'.exchange \in {"closing", "settled"} => relay'.completion # "absent"
      /\ relay'.exchange = "open" => relay'.completion = "absent"
      /\ relay.response # "absent" => relay'.response # "absent"
  <2>1. CASE DeviceStep
    BY <2>1 DEF DeviceStep, DeviceTakesRequest, DeviceResponds, DeviceTakesCompletion, Record
  <2>2. CASE Expire
    BY <2>2 DEF Expire, Record
  <2> QED
    BY <2>1, <2>2
<1>2. Known' <=> Known
  BY DEF Known
<1>3. relay'.completion # "absent" => completion.made
  <2>1. CASE DeviceStep
    BY <2>1 DEF DeviceStep, DeviceTakesRequest, DeviceResponds, DeviceTakesCompletion, Record
  <2>2. CASE Expire
    BY <2>2 DEF Expire, Record
  <2> QED
    BY <2>1, <2>2
<1> QED
  BY <1>1, <1>2, <1>3 DEF Record

LEMMA DeviceStepKeeps == ExchangeInv /\ DeviceStep => ExchangeInv'
<1> SUFFICES ASSUME ExchangeInv, DeviceStep PROVE ExchangeInv'
  OBVIOUS
<1>0. RelayMove
  BY DEF RelayMove
<1>1. /\ UNCHANGED <<future, messages, sock, outbox, link, toRelay, late, assoc, faults, cut>>
      /\ \/ toClient' = toClient
         \/ \E t \in {"receipt", "response"} :
              Push(t) /\ (t = "response" => relay'.response # "absent")
  BY DEF DeviceStep, DeviceTakesRequest, DeviceResponds, DeviceTakesCompletion, connection,
     ExchangeInv, RelayTypeOK, Exchanges
<1>2. Record' /\ Control'
  BY <1>0, <1>1, DeviceKeepsRecord, OutsideControl
<1>3. toClient' \in Seq(Truthful')
  <2>1. relay'.request # "absent"
    BY DEF DeviceStep, DeviceTakesRequest, DeviceResponds, DeviceTakesCompletion, ExchangeInv,
       RelayTypeOK, Exchanges, Record
  <2>2. /\ Plain("receipt") \in Truthful'
        /\ relay'.response # "absent" => Plain("response") \in Truthful'
    BY <2>1, PlainIsTyped DEF PlainFrames, Truthful, Tells, HandsOff
  <2>3. toClient \in Seq(Truthful')
    BY <1>0, StepFrame
  <2>4. ASSUME NEW t \in {"receipt", "response"}, Push(t),
               t = "response" => relay'.response # "absent"
        PROVE  toClient' \in Seq(Truthful')
    BY <2>2, <2>3, <2>4, AppendProperties DEF Push
  <2> QED
    BY <1>1, <2>3, <2>4
<1> USE <1>0, <1>1, StepFrame DEF future, messages
<1>4. Frames'
  BY <1>3 DEF Frames
<1> QED
  BY <1>2, <1>4, Assemble DEF ExchangeInv, RelayTypeOK

LEMMA ExpireKeeps == ExchangeInv /\ Expire => ExchangeInv'
<1> SUFFICES ASSUME ExchangeInv, Expire PROVE ExchangeInv'
  OBVIOUS
<1>0. RelayMove
  BY DEF RelayMove, FaultStep
<1>1. /\ UNCHANGED <<future, messages, connection, late, assoc>> /\ Fault
  BY DEF Expire
<1>2. Record' /\ Control'
  BY <1>0, <1>1, DeviceKeepsRecord, OutsideControl DEF connection
<1> USE <1>0, <1>1, StepFrame DEF Fault, future, messages, connection
<1>3. Frames'
  BY DEF Frames
<1> QED
  BY <1>2, <1>3, Assemble, FaultAssumption DEF ExchangeInv, RelayTypeOK

-----------------------------------------------------------------------------
(* The invariant *)

LEMMA ExchangeStarts == RelayInit => ExchangeInv
<1> SUFFICES ASSUME RelayInit PROVE ExchangeInv
  OBVIOUS
<1> USE DEF RelayInit
<1>1. Unknown \in Exchanges /\ (\A S : <<>> \in Seq(S)) /\ 0 \in 0..MaxFaults
  BY EmptySeq, FaultAssumption DEF Unknown, Exchanges, MessageStates
<1>2. RelayTypeOK
  BY <1>1 DEF RelayTypeOK, Results
<1>3. Frames
  BY EmptySeq DEF Frames
<1>4. Record /\ Control
  BY DEF Record, Control, Unknown
<1> QED
  BY <1>2, <1>3, <1>4 DEF ExchangeInv

LEMMA StutterKeeps == ExchangeInv /\ UNCHANGED relayVars => ExchangeInv'
<1> SUFFICES ASSUME ExchangeInv, UNCHANGED relayVars PROVE ExchangeInv'
  OBVIOUS
<1> USE DEF relayVars
<1>1. Sendable' = Sendable /\ Flushed' = Flushed /\ Truthful' = Truthful
  BY DEF Sendable, Flushed, Known, Truthful, Tells, HandsOff, ShowsRequest
<1> QED
  BY <1>1 DEF ExchangeInv, RelayTypeOK, Frames, Record, Control, Known

LEMMA ExchangeKeeps == ExchangeInv /\ [RelayMove]_relayVars => ExchangeInv'
<1> SUFFICES ASSUME ExchangeInv, [RelayMove]_relayVars PROVE ExchangeInv'
  OBVIOUS
<1>1. CASE UNCHANGED relayVars
  BY <1>1, StutterKeeps
<1>2. CASE BeginRequest
  BY <1>2, BeginRequestKeeps
<1>3. CASE \E p \in {"normal", "brief"} : BeginComplete(p)
  BY <1>3, BeginCompleteKeeps
<1>4. CASE DropFuture \/ BriefTimeout
  BY <1>4, DropFutureKeeps
<1>5. CASE LeaveExchange
  BY <1>5, LeaveExchangeKeeps
<1>6. CASE Connect \/ Flush \/ FlushFails \/ FlushOnRead
  BY <1>6, ConnectKeeps, FlushKeeps, FlushFailsKeeps, FlushOnReadKeeps
<1>7. CASE Receive
  BY <1>7, ReceiveFailureKeeps, ReceiveClosedInactiveKeeps, ReceiveFinalKeeps, ReceiveAckKeeps,
     ReceiveResponseKeeps, ReceiveStateInRequestKeeps, ReceiveHandedOffKeeps,
     ReceiveIgnoredKeeps, ReceivePongKeeps DEF Receive
<1>8. CASE RelayStep \/ DeviceStep
  BY <1>8, TakeKeeps, DeviceStepKeeps DEF RelayStep
<1>9. CASE FaultStep
  BY <1>9, ConnectFailsKeeps, BreakKeeps, TakeLateKeeps, RefuseKeeps, ExpireKeeps DEF FaultStep
<1> QED
  BY <1>1, <1>2, <1>3, <1>4, <1>5, <1>6, <1>7, <1>8, <1>9 DEF RelayMove, ClientStep
=============================================================================
