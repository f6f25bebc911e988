--------------------------- MODULE RelayExchange ---------------------------
(***************************************************************************)
(* One exchange with the relay (websocket.rs, RelayExchange): the request  *)
(* and completion futures of the client, the WebSocket connection they     *)
(* keep replacing, and the relay that stores the messages of the exchange. *)
(*                                                                         *)
(* A future suspends while it connects or waits before a retry             *)
(* (at = "connect"), while it flushes a frame ("flush") and while it reads *)
(* ("receive").  Its owner can drop it at each of these points.  Frames    *)
(* that have not been flushed wait in outbox; the next read flushes them.  *)
(*                                                                         *)
(* Payloads are left out: the first accepted payload of a message wins, so *)
(* each message is named by its kind.  Relay and device are external; they *)
(* follow docs/client-relay-protocol.md.                                   *)
(***************************************************************************)
EXTENDS Naturals, Sequences, SequencesExt

CONSTANTS
  MaxFailures,  \* maximum_failures of each retry policy
  MaxFaults     \* bound on the faults of network, proxy and relay

ASSUME RetryAssumption == MaxFailures \in [{"normal", "brief"} -> Nat \ {0}]
ASSUME FaultAssumption == MaxFaults \in Nat

VARIABLES
  phase,       \* the future that runs: "request", "complete" or "idle"
  policy,      \* its retry policy
  at,          \* where it is suspended
  failures,    \* consecutive failures it has seen
  response,    \* whether request() holds the response
  result,      \* how the last future ended
  request,     \* the request: created, sent, acknowledged
  completion,  \* the completion: created, sent
  sock,        \* whether the client holds a socket
  outbox,      \* frames written to the socket and not flushed
  link,        \* the connection under the socket: "none", "up", "broken"
  toRelay,     \* flushed frames on their way to the relay
  toClient,    \* frames on their way to the client
  late,        \* frames of earlier connections that the relay can still take
  faults,      \* faults so far
  cut,         \* whether a future was dropped while it flushed a frame
  relay,       \* the relay's record of the exchange
  assoc        \* whether the relay has associated the connection with it

future == <<phase, policy, at, failures, response, result>>
messages == <<request, completion>>
connection == <<sock, outbox, link, toRelay, toClient>>
world == <<late, relay, assoc, faults, cut>>
relayVars == <<phase, policy, at, failures, response, result, request, completion,
               sock, outbox, link, toRelay, toClient, late, faults, cut, relay, assoc>>

-----------------------------------------------------------------------------
(* Values *)

MessageStates == {"absent", "accepted", "delivered", "discarded"}
Exchanges == [exchange : {"unknown", "open", "closing", "settled", "expired"},
              request : MessageStates, response : MessageStates,
              completion : MessageStates]
Unknown == [exchange |-> "unknown", request |-> "absent", response |-> "absent",
            completion |-> "absent"]

OutgoingFrames == {"request", "completion", "resume", "ackResponse"}
\* "fatal" stands for a nonretryable error and for every frame that fails
\* validation, "close" for every close code but 4002 and 4003.
PlainFrames == {"ackRequest", "receipt", "response", "ackCompletion", "inactive",
                "retry", "fatal", "close", "closeInactive"}
Plain(t) == [type |-> t, state |-> Unknown]
State(r) == [type |-> "state", state |-> r]
IncomingFrames == {Plain(t) : t \in PlainFrames} \cup {State(r) : r \in Exchanges}

\* How request() and the completions end, the errors by what the owner tells apart.
Results == {"none", "cancelled", "response", "missing", "handedOff", "timedOut",
            "exhausted", "inactive", "rejected"}

RelayTypeOK ==
  /\ phase \in {"idle", "request", "complete"}
  /\ policy \in {"normal", "brief"}
  /\ at \in {"none", "connect", "flush", "receive"}
  /\ failures \in Nat
  /\ response \in BOOLEAN
  /\ result \in Results
  /\ request \in [made : BOOLEAN, sent : BOOLEAN, acked : BOOLEAN]
  /\ completion \in [made : BOOLEAN, sent : BOOLEAN]
  /\ sock \in BOOLEAN
  /\ outbox \in Seq(OutgoingFrames)
  /\ link \in {"none", "up", "broken"}
  /\ toRelay \in Seq(OutgoingFrames)
  /\ toClient \in Seq(IncomingFrames)
  /\ late \in Seq(OutgoingFrames)
  /\ faults \in 0..MaxFaults
  /\ cut \in BOOLEAN
  /\ relay \in Exchanges
  /\ assoc \in BOOLEAN

RelayInit ==
  /\ phase = "idle" /\ policy = "normal" /\ at = "none"
  /\ failures = 0 /\ response = FALSE /\ result = "none"
  /\ request = [made |-> FALSE, sent |-> FALSE, acked |-> FALSE]
  /\ completion = [made |-> FALSE, sent |-> FALSE]
  /\ sock = FALSE /\ outbox = <<>> /\ link = "none"
  /\ toRelay = <<>> /\ toClient = <<>> /\ late = <<>> /\ faults = 0 /\ cut = FALSE
  /\ relay = Unknown /\ assoc = FALSE

-----------------------------------------------------------------------------
(* How a future ends, fails and goes on *)

\* The future returns r to its owner.
Finish(r) ==
  /\ phase' = "idle" /\ at' = "none" /\ result' = r
  /\ failures' = 0 /\ response' = FALSE
  /\ UNCHANGED policy

\* self.socket = None.  What was flushed can still arrive.
DropSocket ==
  /\ sock' = FALSE /\ outbox' = <<>> /\ link' = "none"
  /\ toRelay' = <<>> /\ toClient' = <<>>
  /\ late' = late \o toRelay
  /\ UNCHANGED <<relay, assoc, faults, cut>>

\* RetryState::failed: give up at the last failure or past the deadline, which
\* can pass at any failure; else wait and connect again.
Failed ==
  \/ /\ failures + 1 < MaxFailures[policy]
     /\ failures' = failures + 1
     /\ at' = "connect"
     /\ UNCHANGED <<phase, policy, response, result>>
  \/ Finish("exhausted")

Fault == faults < MaxFaults /\ faults' = faults + 1 /\ UNCHANGED cut

\* The completion is sent on every new connection until it is acknowledged,
\* and only once the relay has acknowledged the request.
MutCompletionFirst(acked, reconnected) == reconnected \/ ~completion.sent
MutCompletionOnce(acked, reconnected) == acked /\ ~completion.sent
NeedsCompletion(acked, reconnected) == acked /\ (reconnected \/ ~completion.sent)

\* The next suspension of a future that holds a socket: it writes the
\* completion if that is due, and reads otherwise.
GoOn(acked, reconnected, unsent) ==
  IF phase' = "complete" /\ NeedsCompletion(acked, reconnected)
  THEN at' = "flush" /\ outbox' = Append(unsent, "completion")
  ELSE at' = "receive" /\ outbox' = unsent

-----------------------------------------------------------------------------
(* The owner starts and drops futures *)

\* RelayExchange::request, which can be called once.
BeginRequest ==
  /\ phase = "idle" /\ ~request.made
  /\ request' = [request EXCEPT !.made = TRUE]
  /\ phase' = "request" /\ policy' = "normal" /\ at' = "connect"
  /\ failures' = 0 /\ response' = FALSE /\ result' = "none"
  /\ UNCHANGED <<completion, connection, world>>

\* RelayExchange::complete and complete_briefly.  The completion of an exchange
\* is created once; a later call hands off the same message.
BeginComplete(p) ==
  /\ phase = "idle" /\ request.made
  /\ completion' = [completion EXCEPT !.made = TRUE]
  /\ phase' = "complete" /\ policy' = p
  /\ failures' = 0 /\ response' = FALSE /\ result' = "none"
  /\ IF sock THEN GoOn(request.acked, FALSE, outbox)
             ELSE at' = "connect" /\ UNCHANGED outbox
  /\ UNCHANGED <<request, sock, link, toRelay, toClient, world>>

\* The owner drops the future where it is suspended.
DropFuture ==
  /\ phase # "idle"
  /\ Finish("cancelled")
  /\ cut' = (cut \/ at = "flush")
  /\ UNCHANGED <<messages, connection, late, relay, assoc, faults>>

\* The timeout of complete_briefly drops its future as well.
BriefTimeout ==
  /\ phase = "complete" /\ policy = "brief"
  /\ Finish("timedOut")
  /\ cut' = (cut \/ at = "flush")
  /\ UNCHANGED <<messages, connection, late, relay, assoc, faults>>

-----------------------------------------------------------------------------
(* Steps of the running future *)

\* ensure_connected succeeds and connect() writes the retained request or,
\* once that is acknowledged, a resume.
MutReceipt == IF request.acked THEN "receipt" ELSE "request"
FirstFrame == IF request.acked THEN "resume" ELSE "request"

Connect ==
  /\ at = "connect"
  /\ sock' = TRUE /\ link' = "up" /\ toRelay' = <<>> /\ toClient' = <<>>
  /\ assoc' = FALSE
  /\ outbox' = <<FirstFrame>>
  /\ at' = "flush"
  /\ UNCHANGED <<phase, policy, failures, response, result, messages, late, relay, faults, cut>>

\* ensure_connected fails: worth a retry, or a final HTTP status.
ConnectFails ==
  /\ at = "connect"
  /\ Fault
  /\ Failed \/ Finish("inactive")
  /\ UNCHANGED <<messages, connection, late, relay, assoc>>

\* A flush ends: every frame in the outbox leaves.  What follows depends on the
\* frame that the future waited for.
Flush ==
  /\ at = "flush"
  /\ toRelay' = IF link = "up" THEN toRelay \o outbox ELSE toRelay
  /\ LET frame == Last(outbox)
     IN \/ /\ frame \in {"request", "resume"}
           /\ request' = [request EXCEPT !.sent = @ \/ frame = "request"]
           /\ UNCHANGED <<phase, policy, failures, response, result, completion>>
           /\ GoOn(request.acked, TRUE, <<>>)
        \/ /\ frame = "completion"
           /\ completion' = [completion EXCEPT !.sent = TRUE]
           /\ at' = "receive" /\ outbox' = <<>>
           /\ UNCHANGED <<phase, policy, failures, response, result, request>>
        \/ /\ frame = "ackResponse" /\ phase = "request"
           /\ outbox' = <<>>
           /\ Finish("response")
           /\ UNCHANGED messages
        \/ /\ frame = "ackResponse" /\ phase = "complete"
           /\ UNCHANGED <<phase, policy, failures, response, result, messages>>
           /\ GoOn(request.acked, FALSE, <<>>)
  /\ UNCHANGED <<sock, link, toClient, world>>

\* A flush fails on a broken connection.
FlushFails ==
  /\ at = "flush" /\ link = "broken"
  /\ DropSocket
  /\ Failed
  /\ UNCHANGED messages

\* Reading flushes what an earlier, dropped future left in the outbox.
FlushOnRead ==
  /\ at = "receive" /\ outbox # <<>>
  /\ toRelay' = IF link = "up" THEN toRelay \o outbox ELSE toRelay
  /\ outbox' = <<>>
  /\ UNCHANGED <<future, messages, sock, link, toClient, world>>

Arrived(t) == at = "receive" /\ outbox = <<>> /\ toClient # <<>> /\ Head(toClient).type \in t

\* The future stays with its socket after a valid frame.
Consume ==
  /\ toClient' = Tail(toClient)
  /\ UNCHANGED <<sock, link, toRelay, world>>

\* Closed connections, failed pings and retryable errors drop the socket.
ReceiveFailure ==
  /\ Arrived({"close", "retry"})
  /\ DropSocket
  /\ Failed
  /\ UNCHANGED messages

\* Close codes 4002 and 4003.
ReceiveClosedInactive ==
  /\ Arrived({"closeInactive"})
  /\ DropSocket
  /\ Finish("inactive")
  /\ UNCHANGED messages

\* Final errors keep the socket.
ReceiveFinal ==
  /\ Arrived({"fatal", "inactive"})
  /\ Finish(IF Head(toClient).type = "fatal" THEN "rejected" ELSE "inactive")
  /\ Consume
  /\ UNCHANGED <<messages, outbox>>

\* An acknowledgement or receipt of the request.
ReceiveAck ==
  /\ Arrived({"ackRequest", "receipt"})
  /\ request' = [request EXCEPT !.acked = TRUE]
  /\ failures' = 0
  /\ UNCHANGED <<phase, policy, response, result, completion>>
  /\ GoOn(TRUE, FALSE, outbox)
  /\ Consume

\* The response: request() keeps it until its acknowledgement has been flushed;
\* a completion only acknowledges it.
Kept == phase = "request" \/ response

ReceiveResponse ==
  /\ Arrived({"response"})
  /\ request' = [request EXCEPT !.acked = TRUE]
  /\ response' = Kept
  /\ failures' = 0
  /\ at' = "flush" /\ outbox' = <<"ackResponse">>
  /\ UNCHANGED <<phase, policy, result, completion>>
  /\ Consume

\* apply_request_state: the relay has, or had, the request.
ShowsRequest(s) == s.request \in {"accepted", "delivered"}

\* A snapshot of the exchange ends request() if the relay has nothing more to
\* send; the response may have been kept from an earlier connection.
ReceiveStateInRequest ==
  /\ phase = "request"
  /\ Arrived({"state"})
  /\ LET s == Head(toClient).state
     IN /\ request' = [request EXCEPT !.acked = @ \/ ShowsRequest(s)]
        /\ IF s.response = "delivered" \/ s.exchange \in {"settled", "expired"}
           THEN Finish(IF s.response = "delivered" /\ response THEN "response" ELSE "missing")
           ELSE /\ failures' = 0
                /\ UNCHANGED <<phase, policy, at, response, result>>
  /\ UNCHANGED <<completion, outbox>>
  /\ Consume

\* The relay has the completion: its acknowledgement, or a snapshot that shows it.
MutAnyState(f) == TRUE
HandsOff(f) == f.type = "ackCompletion" \/ f.state.completion # "absent"

ReceiveHandedOff ==
  /\ phase = "complete" /\ request.acked
  /\ Arrived({"ackCompletion", "state"}) /\ HandsOff(Head(toClient))
  /\ Finish("handedOff")
  /\ UNCHANGED <<messages, outbox>>
  /\ Consume

\* Every other valid frame is ignored.
ReceiveIgnored ==
  /\ Arrived({"ackCompletion", "state"})
  /\ IF phase = "request" THEN Head(toClient).type = "ackCompletion"
     ELSE ~request.acked \/ ~HandsOff(Head(toClient))
  /\ failures' = 0
  /\ UNCHANGED <<phase, policy, response, result, messages>>
  /\ GoOn(request.acked, FALSE, outbox)
  /\ Consume

\* A ping, or the pong that answers the client's, counts as a success.
ReceivePong ==
  /\ at = "receive" /\ outbox = <<>> /\ link = "up"
  /\ failures > 0
  /\ failures' = 0
  /\ UNCHANGED <<phase, policy, at, response, result, messages, connection, world>>

Receive ==
  \/ ReceiveFailure \/ ReceiveClosedInactive \/ ReceiveFinal \/ ReceiveAck
  \/ ReceiveResponse \/ ReceiveStateInRequest \/ ReceiveHandedOff \/ ReceiveIgnored \/ ReceivePong

ClientStep == Connect \/ Flush \/ FlushFails \/ FlushOnRead \/ Receive

-----------------------------------------------------------------------------
(* The connection, the relay and the device (external) *)

\* The connection breaks.  Flushed frames are lost or taken late; a frame that
\* is being flushed is incomplete and lost.  The client reads a prefix of what
\* was sent to it and then finds the connection closed.
Break ==
  /\ link = "up"
  /\ Fault
  /\ link' = "broken" /\ assoc' = FALSE /\ toRelay' = <<>>
  /\ late' = late \o toRelay
  /\ \E n \in 0..Len(toClient), t \in {"close", "closeInactive"} :
       toClient' = Append(SubSeq(toClient, 1, n), Plain(t))
  /\ UNCHANGED <<future, messages, sock, outbox, relay>>

\* The relay's record after it has taken a frame: the first message of each
\* kind is recorded, and a completion discards an undelivered response.
Recorded(frame) ==
  CASE frame = "request" /\ relay.exchange = "unknown" ->
         [relay EXCEPT !.exchange = "open", !.request = "accepted"]
    [] frame = "ackResponse" /\ relay.response = "accepted" ->
         [relay EXCEPT !.response = "delivered"]
    [] frame = "completion" /\ relay.exchange = "open" ->
         [relay EXCEPT !.exchange = "closing", !.completion = "accepted",
            !.response = IF @ = "accepted" THEN "discarded" ELSE @]
    [] frame = "completion" /\ relay.exchange = "expired" ->
         [relay EXCEPT !.completion = "discarded"]
    [] OTHER -> relay

\* The relay's answer on the same connection.  Every completion is
\* acknowledged, that of an unknown exchange as well.
PendingResponse == IF relay.response = "accepted" THEN <<Plain("response")>> ELSE <<>>
RequestReceipt == IF relay.request = "delivered" THEN <<Plain("receipt")>> ELSE <<>>
Answer(frame) ==
  CASE frame = "ackResponse" -> <<>>
    [] frame = "completion" -> <<Plain("ackCompletion")>>
    [] frame = "resume" -> IF relay.exchange = "unknown" THEN <<Plain("inactive")>>
                           ELSE <<State(relay)>> \o PendingResponse
    [] frame = "request" -> IF relay.exchange = "expired" THEN <<Plain("inactive")>>
                            ELSE <<Plain("ackRequest")>> \o RequestReceipt \o PendingResponse

Take ==
  /\ link = "up" /\ toRelay # <<>>
  /\ toRelay' = Tail(toRelay)
  /\ toClient' = toClient \o Answer(Head(toRelay))
  /\ relay' = Recorded(Head(toRelay))
  /\ assoc' = (assoc \/ Head(toRelay) \in {"request", "resume"})
  /\ UNCHANGED <<future, messages, sock, outbox, link, late, faults, cut>>

\* A frame of an earlier connection arrives.
TakeLate ==
  /\ late # <<>>
  /\ late' = Tail(late)
  /\ relay' = Recorded(Head(late))
  /\ UNCHANGED <<future, messages, connection, assoc, faults, cut>>

\* The relay answers a frame with an error instead.
Refuse ==
  /\ link = "up" /\ toRelay # <<>> /\ Head(toRelay) # "ackResponse"
  /\ Fault
  /\ toRelay' = Tail(toRelay)
  /\ \E t \in {"retry", "fatal"} : toClient' = Append(toClient, Plain(t))
  /\ UNCHANGED <<future, messages, sock, outbox, link, late, relay, assoc>>

Push(t) == toClient' = IF assoc THEN Append(toClient, Plain(t)) ELSE toClient

DeviceTakesRequest ==
  /\ relay.exchange \in {"open", "closing"} /\ relay.request = "accepted"
  /\ relay' = [relay EXCEPT !.request = "delivered"]
  /\ Push("receipt")
  /\ UNCHANGED <<future, messages, sock, outbox, link, toRelay, late, assoc, faults, cut>>

DeviceResponds ==
  /\ relay.exchange = "open" /\ relay.request = "delivered" /\ relay.response = "absent"
  /\ relay' = [relay EXCEPT !.response = "accepted"]
  /\ Push("response")
  /\ UNCHANGED <<future, messages, sock, outbox, link, toRelay, late, assoc, faults, cut>>

DeviceTakesCompletion ==
  /\ relay.exchange = "closing" /\ relay.request = "delivered"
  /\ relay' = [relay EXCEPT !.exchange = "settled", !.completion = "delivered"]
  /\ UNCHANGED <<future, messages, connection, late, assoc, faults, cut>>

\* A deadline of the relay, or a change of the client's state at the relay.
Expire ==
  /\ relay.exchange \in {"open", "closing"}
  /\ Fault
  /\ LET lost(s) == IF s = "accepted" THEN "discarded" ELSE s
     IN relay' = [exchange |-> "expired", request |-> lost(relay.request),
                  response |-> lost(relay.response), completion |-> lost(relay.completion)]
  /\ UNCHANGED <<future, messages, connection, late, assoc>>

RelayStep == Take
DeviceStep == DeviceTakesRequest \/ DeviceResponds \/ DeviceTakesCompletion
FaultStep == ConnectFails \/ Break \/ TakeLate \/ Refuse \/ Expire
=============================================================================
