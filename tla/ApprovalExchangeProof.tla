----------------------- MODULE ApprovalExchangeProof -----------------------
(***************************************************************************)
(* Proofs about ApprovalExchange, for every retry limit and any number of  *)
(* faults: what the owner of the exchange keeps, on top of what the        *)
(* exchange itself keeps (RelayExchangeProof).                             *)
(***************************************************************************)
EXTENDS ApprovalExchange, RelayExchangeProof

-----------------------------------------------------------------------------
(* The invariant *)

\* Where the owner is, what its futures do and what it has prepared.
Driver ==
  /\ stage \in {"start", "interrupted", "failed", "answered", "returned"} => phase = "idle"
  /\ stage = "start" => ~request.sent
  /\ stage \in {"complete", "failedAbort", "deviceError", "lastCompletion"} => completion.made
  /\ stage \in {"answered", "complete"} => outcome # "none"

\* A decision is returned only when the relay has the completion that says so.
DecisionIsHandedOff ==
  returned \in {"approved", "denied"} => relay.completion # "absent"

\* What the owner returned, and what it leaves behind.
Returned ==
  /\ returned # "none" <=> stage = "returned"
  /\ returned # "none" => completion.made \/ ~request.sent
  /\ DecisionIsHandedOff

ApprovalInv == TypeOK /\ ExchangeInv /\ Driver /\ Returned

LEMMA ApprovalStarts == Init => ApprovalInv
<1> SUFFICES ASSUME Init PROVE ApprovalInv
  OBVIOUS
<1>1. ExchangeInv
  BY ExchangeStarts DEF Init
<1> QED
  BY <1>1 DEF Init, RelayInit, ApprovalInv, ExchangeInv, TypeOK, Stages, Outcomes, Driver, Returned,
     DecisionIsHandedOff

-----------------------------------------------------------------------------
(* The steps of the exchange *)

\* A future runs only while its owner waits for it.
FutureRuns == phase # "idle"

LEMMA ClientStepRuns == ExchangeInv /\ ClientStep => FutureRuns
BY DEF ExchangeInv, Control, FutureRuns, ClientStep, Connect, Flush, FlushFails, FlushOnRead, Receive,
   ReceiveFailure, ReceiveClosedInactive, ReceiveFinal, ReceiveAck, ReceiveResponse,
   ReceiveStateInRequest, ReceiveHandedOff, ReceiveIgnored, ReceivePong, Arrived

\* Relay, device and network leave the futures and their messages alone.
LEMMA OutsideLeavesFutures ==
  ASSUME ExchangeInv, RelayStep \/ DeviceStep \/ FaultStep
  PROVE  /\ UNCHANGED messages
         /\ phase = "idle" => phase' = "idle"
<1>1. CASE ConnectFails
  BY <1>1 DEF ConnectFails, ExchangeInv, Control
<1>2. CASE ~ConnectFails
  BY <1>2 DEF RelayStep, DeviceStep, FaultStep, Take, DeviceTakesRequest, DeviceResponds,
     DeviceTakesCompletion, Break, TakeLate, Refuse, Expire, future
<1> QED
  BY <1>1, <1>2

\* A step that leaves the owner where it is.
LEMMA ExchangeStepKeeps ==
  ASSUME ApprovalInv, FutureStep \/ Timeout \/ OutsideStep
  PROVE  ApprovalInv'
<1>0. UNCHANGED <<stage, outcome, returned, cancelled>>
  BY DEF FutureStep, Timeout, OutsideStep
<1>1. RelayMove
  BY DEF FutureStep, Timeout, OutsideStep, RelayMove
<1>2. ExchangeInv' /\ Advances
  BY <1>1, ExchangeKeeps, AlwaysAdvances DEF ApprovalInv, ExchangeInv
<1>3. TypeOK'
  BY <1>0, <1>2 DEF ApprovalInv, ExchangeInv, TypeOK
<1>4. /\ completion.made => completion'.made
      /\ phase = "idle" => phase' = "idle" /\ UNCHANGED messages
  <2>1. CASE FutureStep
    BY <1>1, <2>1, ClientStepRuns, MessagesAdvance DEF FutureStep, FutureRuns, ApprovalInv, ExchangeInv
  <2>2. CASE Timeout
    BY <1>1, <2>2, MessagesAdvance DEF Timeout, BriefTimeout, ApprovalInv, ExchangeInv
  <2>3. CASE OutsideStep
    BY <1>1, <2>3, OutsideLeavesFutures DEF OutsideStep, ApprovalInv, messages
  <2> QED
    BY <2>1, <2>2, <2>3
<1>5. Driver'
  BY <1>0, <1>4 DEF ApprovalInv, Driver, messages
<1>6. Returned'
  BY <1>0, <1>2, <1>4 DEF ApprovalInv, Returned, Driver, DecisionIsHandedOff, Advances, messages
<1> QED
  BY <1>2, <1>3, <1>5, <1>6 DEF ApprovalInv

-----------------------------------------------------------------------------
(* The steps of the owner *)

\* The owner returns without a decision that was not handed off, and without
\* leaving a request that nobody answers for.
LEMMA ReturnKeeps ==
  ASSUME ApprovalInv, phase = "idle", NEW r \in {"approved", "denied", "error", "interrupted"},
         Return(r), completion.made \/ ~request.sent,
         r \in {"approved", "denied"} => relay.completion # "absent"
  PROVE  ApprovalInv'
<1> USE DEF Return
<1>1. LeaveExchange
  BY DEF LeaveExchange
<1>2. ExchangeInv'
  BY <1>1, LeaveExchangeKeeps DEF ApprovalInv
<1>3. relay' = relay
  BY DEF DropSocket
<1>4. TypeOK'
  BY <1>2 DEF ApprovalInv, ExchangeInv, TypeOK, Stages
<1>5. Driver' /\ Returned'
  BY <1>3 DEF Driver, Returned, DecisionIsHandedOff, future, messages
<1> QED
  BY <1>2, <1>4, <1>5 DEF ApprovalInv

LEMMA HandOffKeeps ==
  ASSUME ApprovalInv, stage # "returned", NEW p \in {"normal", "brief"},
         NEW o \in Outcomes,
         NEW s \in {"complete", "failedAbort", "deviceError", "lastCompletion"}, HandOff(p, o, s),
         s = "complete" => o # "none"
  PROVE  ApprovalInv'
<1> USE DEF HandOff
<1>1. ExchangeInv'
  BY BeginCompleteKeeps DEF ApprovalInv
<1>2. TypeOK'
  BY <1>1 DEF ApprovalInv, ExchangeInv, TypeOK, Stages, Outcomes
<1>3. completion'.made /\ relay' = relay
  BY DEF BeginComplete, world, ApprovalInv, ExchangeInv, RelayTypeOK
<1>4. Driver' /\ Returned'
  BY <1>3 DEF ApprovalInv, Driver, Returned, DecisionIsHandedOff
<1> QED
  BY <1>1, <1>2, <1>4 DEF ApprovalInv

\* A step of the owner that starts no future and leaves none behind.
LEMMA MovesOn ==
  ASSUME ApprovalInv, UNCHANGED <<relayVars, returned>>, stage # "returned",
         stage' \in {"failed", "answered"}, phase = "idle", outcome' \in Outcomes,
         stage' = "answered" => outcome' # "none", cancelled' \in BOOLEAN
  PROVE  ApprovalInv'
<1>1. ExchangeInv' /\ relay' = relay
  BY StutterKeeps DEF ApprovalInv, relayVars
<1>2. TypeOK'
  BY <1>1 DEF ApprovalInv, ExchangeInv, TypeOK, Stages
<1>3. Driver' /\ Returned'
  BY <1>1 DEF ApprovalInv, Driver, Returned, DecisionIsHandedOff, relayVars
<1> QED
  BY <1>1, <1>2, <1>3 DEF ApprovalInv

LEMMA StartKeeps == ApprovalInv /\ Start => ApprovalInv'
<1> SUFFICES ASSUME ApprovalInv, Start PROVE ApprovalInv'
  OBVIOUS
<1>1. stage = "start" /\ phase = "idle" /\ ~request.sent
  BY DEF Start, ApprovalInv, Driver
<1>2. CASE Return("interrupted")
  BY <1>1, <1>2, ReturnKeeps
<1>3. CASE ~Return("interrupted")
  <2>1. BeginRequest /\ stage' = "request" /\ UNCHANGED <<outcome, returned, cancelled>>
    BY <1>3 DEF Start
  <2>2. ExchangeInv' /\ relay' = relay
    BY <2>1, BeginRequestKeeps DEF ApprovalInv, BeginRequest, world
  <2>3. TypeOK'
    BY <2>1, <2>2 DEF ApprovalInv, ExchangeInv, TypeOK, Stages
  <2>4. Driver' /\ Returned'
    BY <1>1, <2>1, <2>2 DEF ApprovalInv, Driver, Returned, DecisionIsHandedOff
  <2> QED
    BY <2>2, <2>3, <2>4 DEF ApprovalInv
<1> QED
  BY <1>2, <1>3

LEMMA DropPendingKeeps == ApprovalInv /\ DropPending => ApprovalInv'
<1> SUFFICES ASSUME ApprovalInv, DropPending PROVE ApprovalInv'
  OBVIOUS
<1>1. /\ DropFuture /\ stage' = "interrupted" /\ stage # "returned"
      /\ UNCHANGED <<outcome, returned, cancelled>>
  BY DEF DropPending
<1>2. ExchangeInv'
  BY <1>1, DropFutureKeeps DEF ApprovalInv
<1>3. phase' = "idle" /\ relay' = relay
  BY <1>1 DEF DropFuture, Finish
<1>4. TypeOK'
  BY <1>1, <1>2 DEF ApprovalInv, ExchangeInv, TypeOK, Stages
<1>5. Driver' /\ Returned'
  BY <1>1, <1>3 DEF ApprovalInv, Driver, Returned, DecisionIsHandedOff
<1> QED
  BY <1>2, <1>4, <1>5 DEF ApprovalInv

LEMMA InterruptKeeps == ApprovalInv /\ Interrupt => ApprovalInv'
<1> SUFFICES ASSUME ApprovalInv, Interrupt PROVE ApprovalInv'
  OBVIOUS
<1>1. stage = "interrupted" /\ phase = "idle"
  BY DEF Interrupt, ApprovalInv, Driver
<1>2. CASE Return("interrupted") /\ ~RequestWasSent
  BY <1>1, <1>2, ReturnKeeps DEF RequestWasSent
<1>3. CASE HandOff(LastPolicy, "aborted", "lastCompletion")
  BY <1>1, <1>3, HandOffKeeps DEF LastPolicy, Outcomes
<1>4. CASE completion.made /\ HandOff(LastPolicy, outcome, "lastCompletion")
  BY <1>1, <1>4, HandOffKeeps DEF LastPolicy, ApprovalInv, TypeOK
<1> QED
  BY <1>2, <1>3, <1>4 DEF Interrupt

LEMMA RequestFailsKeeps == ApprovalInv /\ RequestFails => ApprovalInv'
BY MovesOn DEF RequestFails, ApprovalInv, TypeOK

LEMMA AbortKeeps == ApprovalInv /\ Abort => ApprovalInv'
<1> SUFFICES ASSUME ApprovalInv, Abort PROVE ApprovalInv'
  OBVIOUS
<1>1. PICK s \in {"lastCompletion", "failedAbort"} : HandOff("brief", "aborted", s)
  BY DEF Abort
<1> QED
  BY <1>1, HandOffKeeps DEF Abort, Outcomes

LEMMA RespondKeeps == ApprovalInv /\ Respond => ApprovalInv'
<1> SUFFICES ASSUME ApprovalInv, Respond PROVE ApprovalInv'
  OBVIOUS
<1>1. stage = "request" /\ phase = "idle"
  BY DEF Respond
<1>2. CASE HandOff("brief", "aborted", "deviceError")
  BY <1>1, <1>2, HandOffKeeps DEF Outcomes
<1>3. CASE ~HandOff("brief", "aborted", "deviceError")
  <2>1. /\ stage' = "answered" /\ outcome' \in {"approved", "denied", "aborted"}
        /\ UNCHANGED <<relayVars, returned, cancelled>>
    BY <1>3 DEF Respond
  <2> QED
    BY <1>1, <2>1, MovesOn DEF ApprovalInv, TypeOK, Outcomes
<1> QED
  BY <1>2, <1>3

LEMMA CompleteKeeps == ApprovalInv /\ Complete => ApprovalInv'
<1> SUFFICES ASSUME ApprovalInv, Complete PROVE ApprovalInv'
  OBVIOUS
<1>1. stage = "answered" /\ outcome \in Outcomes /\ outcome # "none"
  BY DEF Complete, ApprovalInv, Driver, TypeOK
<1>2. CASE HandOff(LastPolicy, outcome, "lastCompletion")
  BY <1>1, <1>2, HandOffKeeps DEF LastPolicy
<1>3. CASE HandOff("normal", outcome, "complete")
  BY <1>1, <1>3, HandOffKeeps
<1> QED
  BY <1>2, <1>3 DEF Complete

LEMMA CompletedKeeps == ApprovalInv /\ Completed => ApprovalInv'
<1> SUFFICES ASSUME ApprovalInv, Completed PROVE ApprovalInv'
  OBVIOUS
<1>1. phase = "idle" /\ completion.made
  BY DEF Completed, ApprovalInv, Driver
<1>2. ASSUME NEW r \in {"error", "interrupted"}, Return(r) PROVE ApprovalInv'
  BY <1>1, <1>2, ReturnKeeps
<1>3. CASE stage = "complete" /\ result = "handedOff" /\ outcome # "aborted" /\ Return(outcome)
  <2>1. relay.completion # "absent"
    BY <1>3 DEF ApprovalInv, ExchangeInv, Record
  <2>2. outcome \in {"approved", "denied"}
    BY <1>3 DEF ApprovalInv, Driver, TypeOK, Outcomes
  <2> QED
    BY <1>1, <1>3, <2>1, <2>2, ReturnKeeps
<1> QED
  BY <1>2, <1>3 DEF Completed

LEMMA CancelKeeps == ApprovalInv /\ Cancel => ApprovalInv'
<1> SUFFICES ASSUME ApprovalInv, Cancel PROVE ApprovalInv'
  OBVIOUS
<1>1. ExchangeInv'
  BY StutterKeeps DEF ApprovalInv, Cancel
<1> QED
  BY <1>1 DEF ApprovalInv, ExchangeInv, TypeOK, Driver, Returned, DecisionIsHandedOff, Cancel, relayVars

LEMMA ApprovalKeeps == ApprovalInv /\ [Next]_vars => ApprovalInv'
<1> SUFFICES ASSUME ApprovalInv, [Next]_vars PROVE ApprovalInv'
  OBVIOUS
<1>1. CASE UNCHANGED vars
  <2>1. ExchangeInv'
    BY <1>1, StutterKeeps DEF ApprovalInv, vars
  <2> QED
    BY <1>1, <2>1 DEF ApprovalInv, ExchangeInv, TypeOK, Driver, Returned, DecisionIsHandedOff, vars,
       relayVars
<1>2. CASE DriverStep
  BY <1>2, StartKeeps, DropPendingKeeps, InterruptKeeps, RequestFailsKeeps, AbortKeeps, RespondKeeps,
     CompleteKeeps, CompletedKeeps DEF DriverStep
<1>3. CASE FutureStep \/ Timeout \/ OutsideStep
  BY <1>3, ExchangeStepKeeps
<1> QED
  BY <1>1, <1>2, <1>3, CancelKeeps DEF Next, Ended

-----------------------------------------------------------------------------
(* Whether a completion is sent where it is needed.  Only the exchange     *)
(* whose futures were never dropped in a flush is considered (cut).        *)

\* What brings the answer to a completion, or an error in its place.
Buffered == "completion" \in Range(outbox) \cup Range(toRelay)
Stored == relay.completion # "absent"
Refused == \E i \in 1..Len(toClient) : toClient[i].type \in {"retry", "fatal", "inactive"}
OnItsWay == Buffered \/ Stored \/ Refused

\* The first frame of a connection is being flushed.
FirstFlush == at = "flush" /\ Head(outbox) \in {"request", "resume"}

\* A completion future runs, or was dropped and can have a successor.
Awaited == phase = "complete" \/ (phase = "idle" /\ result = "cancelled")

Sockets ==
  /\ link = "up" => sock
  /\ at = "connect" => ~sock
  /\ sock \/ phase # "idle" => request.made
  /\ IF at = "flush" THEN Len(outbox) = 1 ELSE outbox = <<>>

SentInOrder ==
  /\ completion.made => request.made /\ phase # "request"
  /\ completion.sent => completion.made /\ request.acked
  /\ at = "flush" /\ Head(outbox) = "completion" => request.acked
  /\ phase = "complete" /\ at = "receive" /\ request.acked => completion.sent

SentAgain == completion.sent /\ link = "up" /\ Awaited /\ ~FirstFlush => OnItsWay

Uncut == Sockets /\ SentInOrder /\ SentAgain

\* The owner creates one completion, and creates it again only where a
\* cancellation has dropped its future.
OneCompletion ==
  /\ stage \in {"start", "request", "failed", "answered"} => ~completion.made
  /\ stage = "interrupted" => result = "cancelled"

WaitInv == OneCompletion /\ (~cut => Uncut)

LEMMA WaitStarts == Init => WaitInv
BY DEF Init, RelayInit, WaitInv, Uncut, Sockets, SentInOrder, SentAgain, OneCompletion, FirstFlush

\* What is written stays written until it is flushed, and then is under way.
LEMMA Written ==
  ASSUME NEW q \in Seq(OutgoingFrames), NEW r \in Seq(OutgoingFrames)
  PROVE  /\ Range(q \o r) = Range(q) \cup Range(r)
         /\ q # <<>> => Range(q) = {Head(q)} \cup Range(Tail(q))
<1>1. \A p \in Seq(OutgoingFrames) : \A x : x \in Range(p) <=> \E i \in 1..Len(p) : p[i] = x
  BY DEF Range
<1>2. Range(q \o r) = Range(q) \cup Range(r)
  <2>0. q \o r \in Seq(OutgoingFrames) /\ Len(q \o r) = Len(q) + Len(r)
    OBVIOUS
  <2>1. \A i \in 1..Len(r) : (q \o r)[Len(q) + i] = r[i] /\ Len(q) + i \in 1..Len(q \o r)
    BY <2>0
  <2>2. \A i \in 1..Len(q) : (q \o r)[i] = q[i] /\ i \in 1..Len(q \o r)
    BY <2>0
  <2>3. \A i \in 1..Len(q \o r) :
          i \in 1..Len(q) \/ (i - Len(q) \in 1..Len(r) /\ (q \o r)[i] = r[i - Len(q)])
    BY <2>0
  <2> DEFINE p == q \o r
  <2> HIDE DEF p
  <2>4. p \in Seq(OutgoingFrames) /\ (\A x : x \in Range(p) <=> \E i \in 1..Len(p) : p[i] = x)
    BY <1>1, <2>0 DEF p
  <2>5. \A x : x \in Range(p) <=> x \in Range(q) \/ x \in Range(r)
    <3>1. ASSUME NEW x \in Range(q) PROVE x \in Range(p)
      BY <1>1, <2>2, <2>4 DEF p
    <3>2. ASSUME NEW x \in Range(r) PROVE x \in Range(p)
      <4>1. PICK i \in 1..Len(r) : r[i] = x
        BY <1>1
      <4> QED
        BY <2>1, <2>4, <4>1 DEF p
    <3>3. ASSUME NEW x \in Range(p) PROVE x \in Range(q) \/ x \in Range(r)
      <4>1. PICK i \in 1..Len(p) : p[i] = x
        BY <2>4
      <4> QED
        BY <1>1, <2>2, <2>3, <4>1 DEF p
    <3> QED
      BY <3>1, <3>2, <3>3
  <2> QED
    BY <2>5 DEF p
<1>3. ASSUME q # <<>> PROVE Range(q) = {Head(q)} \cup Range(Tail(q))
  <2>0. Tail(q) \in Seq(OutgoingFrames) /\ Len(Tail(q)) = Len(q) - 1 /\ Len(q) \in Nat \ {0}
    BY <1>3
  <2>1. \A i \in 1..Len(Tail(q)) : Tail(q)[i] = q[i + 1] /\ i + 1 \in 1..Len(q)
    BY <1>3, <2>0
  <2>2. \A i \in 1..Len(q) :
          i = 1 \/ (i - 1 \in 1..Len(Tail(q)) /\ q[i] = Tail(q)[i - 1])
    BY <1>3, <2>0
  <2>3. Head(q) = q[1] /\ 1 \in 1..Len(q)
    BY <1>3, <2>0
  <2> DEFINE t == Tail(q)
  <2>4. \A x : x \in Range(t) <=> \E i \in 1..Len(t) : t[i] = x
    BY <1>1, <2>0
  <2> HIDE DEF t
  <2>5. ASSUME NEW x \in Range(t) PROVE x \in Range(q)
    <3>1. PICK i \in 1..Len(t) : t[i] = x
      BY <2>4
    <3> QED
      BY <1>1, <2>1, <3>1 DEF t
  <2>6. ASSUME NEW x \in Range(q), x # Head(q) PROVE x \in Range(t)
    <3>1. PICK i \in 1..Len(q) : q[i] = x
      BY <1>1
    <3> QED
      BY <2>2, <2>3, <2>4, <2>6, <3>1 DEF t
  <2>7. Head(q) \in Range(q)
    BY <1>1, <2>3
  <2> QED
    BY <2>5, <2>6, <2>7 DEF t
<1> QED
  BY <1>2, <1>3

\* A frame that is read is no error that is still to come, unless it is one.
LEMMA RefusedLater ==
  ASSUME ExchangeInv, toClient # <<>>, toClient' = Tail(toClient),
         Head(toClient).type \notin {"retry", "fatal", "inactive"}, Refused
  PROVE  Refused'
<1>1. toClient \in Seq(IncomingFrames)
  BY DEF ExchangeInv, RelayTypeOK
<1>2. PICK i \in 1..Len(toClient) : toClient[i].type \in {"retry", "fatal", "inactive"}
  BY DEF Refused
<1>3. i # 1
  BY <1>1, <1>2
<1>4. i - 1 \in 1..Len(Tail(toClient)) /\ Tail(toClient)[i - 1] = toClient[i]
  BY <1>1, <1>3
<1> QED
  BY <1>2, <1>4 DEF Refused

\* Frames that are sent to the client do not displace others.
LEMMA RefusedStays ==
  ASSUME ExchangeInv, NEW t \in Seq(IncomingFrames), toClient' = toClient \o t, Refused
  PROVE  Refused'
<1>1. toClient \in Seq(IncomingFrames)
  BY DEF ExchangeInv, RelayTypeOK
<1>2. \A i \in 1..Len(toClient) : toClient'[i] = toClient[i] /\ i \in 1..Len(toClient')
  BY <1>1
<1> QED
  BY <1>2 DEF Refused

\* What leads to an answer stays, wherever the frames go.
LEMMA StaysOnItsWay ==
  ASSUME ExchangeInv, RelayMove, OnItsWay,
         Buffered => Buffered' \/ Stored', Refused => Refused'
  PROVE  OnItsWay'
<1>1. Stored => Stored'
  BY AlwaysAdvances DEF Advances, Stored, ExchangeInv
<1> QED
  BY <1>1 DEF OnItsWay

\* A future that does not write the completion has sent it before.
LEMMA GoOnSends ==
  ASSUME NEW acked \in BOOLEAN, NEW reconnected \in BOOLEAN, outbox' \in Seq(OutgoingFrames),
         GoOn(acked, reconnected, <<>>)
  PROVE  \/ /\ at' = "flush" /\ Len(outbox') = 1 /\ Head(outbox') = "completion"
            /\ Buffered' /\ acked
         \/ /\ at' = "receive" /\ outbox' = <<>>
            /\ phase' = "complete" /\ acked => completion.sent /\ ~reconnected
<1>1. CASE phase' = "complete" /\ NeedsCompletion(acked, reconnected)
  <2>1. outbox' = <<"completion">> /\ at' = "flush"
    BY <1>1 DEF GoOn
  <2>2. "completion" \in Range(outbox')
    BY <2>1 DEF Range
  <2> QED
    BY <1>1, <2>1, <2>2 DEF Buffered, NeedsCompletion
<1>2. CASE ~(phase' = "complete" /\ NeedsCompletion(acked, reconnected))
  BY <1>2 DEF GoOn, NeedsCompletion
<1> QED
  BY <1>1, <1>2

-----------------------------------------------------------------------------
(* Its steps *)

LEMMA BeginRequestSends == ExchangeInv /\ Uncut /\ BeginRequest => Uncut'
<1> SUFFICES ASSUME ExchangeInv, Uncut, BeginRequest PROVE Uncut'
  OBVIOUS
<1> USE DEF ExchangeInv, RelayTypeOK, Control, Uncut, Sockets, SentInOrder, SentAgain, BeginRequest,
            connection
<1>1. outbox = <<>> /\ ~sock /\ ~completion.made /\ ~completion.sent
  OBVIOUS
<1> QED
  BY <1>1 DEF Awaited

LEMMA BeginCompleteSends ==
  ASSUME ExchangeInv, Uncut, completion.sent => result = "cancelled",
         NEW p \in {"normal", "brief"}, BeginComplete(p)
  PROVE  Uncut'
<1>1. RelayMove /\ ExchangeInv'
  BY BeginCompleteKeeps DEF RelayMove
<1> USE DEF ExchangeInv, RelayTypeOK, Control, Uncut, Sockets, SentInOrder, BeginComplete
<1>2. /\ request' = request /\ completion'.made /\ completion'.sent = completion.sent
      /\ sock' = sock /\ link' = link /\ phase = "idle" /\ phase' = "complete" /\ outbox = <<>>
      /\ UNCHANGED <<toRelay, toClient>>
  OBVIOUS
<1>3. CASE ~sock
  BY <1>2, <1>3 DEF SentAgain
<1>4. CASE sock
  <2>1. \/ at' = "flush" /\ Len(outbox') = 1 /\ Head(outbox') = "completion" /\ Buffered' /\ request.acked
        \/ at' = "receive" /\ outbox' = <<>> /\ (request.acked => completion.sent)
    BY <1>1, <1>2, <1>4, GoOnSends
  <2>2. Sockets' /\ SentInOrder'
    BY <1>2, <1>4, <2>1
  <2>3. SentAgain'
    <3>1. CASE Buffered'
      BY <3>1 DEF SentAgain, OnItsWay
    <3>2. CASE at' = "receive" /\ outbox' = <<>>
      <4>1. completion.sent /\ link = "up" => OnItsWay
        BY <1>2 DEF SentAgain, Awaited, FirstFlush, Control
      <4>2. OnItsWay => OnItsWay'
        BY <1>1, <1>2, <3>2, StaysOnItsWay DEF Buffered, Refused
      <4> QED
        BY <1>2, <4>1, <4>2 DEF SentAgain
    <3> QED
      BY <2>1, <3>1, <3>2
  <2> QED
    BY <2>2, <2>3
<1> QED
  BY <1>3, <1>4

LEMMA DropFutureSends ==
  ASSUME ExchangeInv, Uncut, DropFuture \/ BriefTimeout, ~cut'
  PROVE  Uncut'
<1>1. RelayMove
  BY DEF RelayMove
<1>2. /\ at # "flush" /\ phase # "idle" /\ phase' = "idle" /\ at' = "none"
      /\ result' \in {"cancelled", "timedOut"}
      /\ UNCHANGED <<messages, connection, relay>>
  BY DEF DropFuture, BriefTimeout, Finish, ExchangeInv, RelayTypeOK
<1>3. Sockets' /\ SentInOrder'
  BY <1>2 DEF Uncut, Sockets, SentInOrder, messages, connection
<1>4. SentAgain'
  <2>1. completion.sent /\ link = "up" => OnItsWay
    BY <1>2 DEF Uncut, SentInOrder, SentAgain, Awaited, FirstFlush, ExchangeInv, RelayTypeOK
  <2>2. OnItsWay' = OnItsWay
    BY <1>2 DEF OnItsWay, Buffered, Stored, Refused, connection
  <2> QED
    BY <1>2, <2>1, <2>2 DEF SentAgain, messages, connection
<1> QED
  BY <1>3, <1>4 DEF Uncut

\* Without a connection nothing has to be sent again.
LEMMA DropSocketSends ==
  ASSUME ExchangeInv, Uncut, DropSocket, UNCHANGED messages,
         phase' \in {phase, "idle"}, at' \in {"connect", "none"}, phase' = "idle" \/ phase # "idle"
  PROVE  Uncut'
BY DEF ExchangeInv, RelayTypeOK, Uncut, Sockets, SentInOrder, SentAgain, DropSocket, messages

LEMMA ConnectSends == ExchangeInv /\ Uncut /\ Connect => Uncut'
<1> SUFFICES ASSUME ExchangeInv, Uncut, Connect PROVE Uncut'
  OBVIOUS
<1>1. outbox' = <<FirstFrame>> /\ FirstFrame \in {"request", "resume"}
  BY DEF Connect, FirstFrame
<1>2. Len(outbox') = 1 /\ Head(outbox') = FirstFrame
  BY <1>1
<1> QED
  BY <1>1, <1>2 DEF ExchangeInv, Control, RelayTypeOK, Uncut, Sockets, SentInOrder, SentAgain,
     FirstFlush, Connect, messages

LEMMA ConnectFailsSends == ExchangeInv /\ Uncut /\ ConnectFails => Uncut'
<1> SUFFICES ASSUME ExchangeInv, Uncut, ConnectFails PROVE Uncut'
  OBVIOUS
<1>1. phase' \in {phase, "idle"} /\ at' \in {"connect", "none"} /\ link # "up" /\ outbox = <<>>
  BY DEF ConnectFails, Failed, Finish, Uncut, Sockets
<1> QED
  BY <1>1 DEF ConnectFails, ExchangeInv, RelayTypeOK, Uncut, Sockets, SentInOrder, SentAgain,
     messages, connection

\* A flush brings the frame on its way, and goes on with what is due.
LEMMA FlushSends == ExchangeInv /\ Uncut /\ Flush => Uncut'
<1> SUFFICES ASSUME ExchangeInv, Uncut, Flush PROVE Uncut'
  OBVIOUS
<1>0. RelayMove /\ ExchangeInv'
  BY FlushKeeps DEF RelayMove, ClientStep
<1>1. outbox = <<Head(outbox)>> /\ Last(outbox) = Head(outbox) /\ Head(outbox) \in OutgoingFrames
  <2>1. outbox \in Seq(OutgoingFrames) /\ Len(outbox) = 1
    BY DEF Flush, Uncut, Sockets, ExchangeInv, RelayTypeOK
  <2> QED
    BY <2>1 DEF Last
<1>2. at = "flush" /\ phase # "idle" /\ UNCHANGED <<sock, link, toClient, relay>>
  BY DEF Flush, world, ExchangeInv, Control
<1>3. /\ Range(outbox) = {Head(outbox)}
      /\ link = "up" => Range(toRelay') = Range(toRelay) \cup {Head(outbox)}
  <2>1. Range(outbox) = {Head(outbox)}
    BY <1>1 DEF Range
  <2>2. toRelay \in Seq(OutgoingFrames) /\ outbox \in Seq(OutgoingFrames)
    BY DEF ExchangeInv, RelayTypeOK
  <2>3. link = "up" => toRelay' = toRelay \o outbox
    BY DEF Flush
  <2>4. Range(toRelay \o outbox) = Range(toRelay) \cup Range(outbox)
    BY <2>2, Written
  <2> QED
    BY <2>1, <2>3, <2>4
<1>4. link = "up" /\ OnItsWay => OnItsWay'
  <2>1. link = "up" /\ Buffered => Buffered'
    BY <1>3 DEF Buffered
  <2>2. Refused => Refused'
    BY <1>2 DEF Refused
  <2> QED
    BY <1>0, <2>1, <2>2, StaysOnItsWay
<1> USE <1>0, <1>2 DEF ExchangeInv, RelayTypeOK, Uncut, Sockets, SentInOrder
<1>5. CASE Head(outbox) \in {"request", "resume"}
  <2>1. /\ request'.made = request.made /\ request'.acked = request.acked
        /\ UNCHANGED <<phase, result, completion>> /\ GoOn(request.acked, TRUE, <<>>)
    BY <1>1, <1>5 DEF Flush
  <2>2. \/ at' = "flush" /\ Len(outbox') = 1 /\ Head(outbox') = "completion" /\ Buffered' /\ request.acked
        \/ at' = "receive" /\ outbox' = <<>> /\ ~(phase = "complete" /\ request.acked)
    BY <2>1, GoOnSends
  <2> QED
    BY <1>2, <2>1, <2>2 DEF SentAgain, OnItsWay, Awaited
<1>6. CASE Head(outbox) = "completion"
  <2>1. /\ completion'.made = completion.made /\ completion'.sent /\ at' = "receive" /\ outbox' = <<>>
        /\ UNCHANGED <<phase, result, request>>
    BY <1>1, <1>6 DEF Flush
  <2>2. link = "up" => Buffered'
    BY <1>3, <1>6 DEF Buffered
  <2>3. completion.made /\ phase = "complete"
    <3>1. Head(outbox) \in Sendable
      BY <1>1, HeadTailProperties DEF Frames
    <3> QED
      BY <1>6, <3>1 DEF Sendable
  <2>4. Sockets' /\ SentInOrder'
    BY <1>6, <2>1, <2>3
  <2> QED
    BY <2>2, <2>4 DEF SentAgain, OnItsWay
<1>7. CASE Head(outbox) = "ackResponse" /\ phase = "request"
  <2>1. /\ phase' = "idle" /\ at' = "none" /\ outbox' = <<>> /\ result' = "response"
        /\ UNCHANGED messages
    BY <1>1, <1>7 DEF Flush, Finish
  <2> QED
    BY <1>2, <1>7, <2>1 DEF SentAgain, Awaited, messages
<1>8. CASE Head(outbox) = "ackResponse" /\ phase = "complete"
  <2>1. UNCHANGED <<phase, result, messages>> /\ GoOn(request.acked, FALSE, <<>>)
    BY <1>1, <1>8 DEF Flush
  <2>2. \/ at' = "flush" /\ Len(outbox') = 1 /\ Head(outbox') = "completion" /\ Buffered' /\ request.acked
        \/ at' = "receive" /\ outbox' = <<>> /\ (request.acked => completion.sent)
    BY <1>8, <2>1, GoOnSends
  <2>3. completion.sent /\ link = "up" => OnItsWay
    BY <1>8 DEF SentAgain, Awaited, FirstFlush
  <2> QED
    BY <1>2, <1>4, <2>1, <2>2, <2>3 DEF SentAgain, messages
<1> QED
  BY <1>1, <1>5, <1>6, <1>7, <1>8 DEF Flush

\* A future that ends other than by a cancellation has no successor that waits.
LEMMA FinishSends ==
  ASSUME ExchangeInv, Uncut, at # "flush", phase # "idle", NEW r \in Results \ {"cancelled"}, Finish(r),
         UNCHANGED <<completion, sock, link, outbox>>,
         request'.made = request.made, request.acked => request'.acked
  PROVE  Uncut'
BY DEF ExchangeInv, RelayTypeOK, Uncut, Sockets, SentInOrder, SentAgain, Awaited, Finish

\* A future that goes on after a frame.
LEMMA ReadOnSends ==
  ASSUME ExchangeInv, ExchangeInv', RelayMove, Uncut, phase # "idle", phase' = phase, outbox = <<>>,
         at = "receive", completion' = completion, request'.made = request.made,
         request.acked => request'.acked, UNCHANGED <<sock, link, toRelay, result>>,
         Refused => Refused',
         GoOn(request'.acked, FALSE, <<>>)
  PROVE  Uncut'
<1> USE DEF ExchangeInv, RelayTypeOK, Uncut, Sockets, SentInOrder
<1>1. \/ at' = "flush" /\ Len(outbox') = 1 /\ Head(outbox') = "completion" /\ Buffered' /\ request'.acked
      \/ at' = "receive" /\ outbox' = <<>> /\ (phase = "complete" /\ request'.acked => completion.sent)
  BY GoOnSends
<1>2. Sockets' /\ SentInOrder'
  BY <1>1
<1>3. CASE Buffered'
  BY <1>2, <1>3 DEF SentAgain, OnItsWay
<1>4. CASE at' = "receive" /\ outbox' = <<>>
  <2>1. OnItsWay => OnItsWay'
    BY <1>4, StaysOnItsWay DEF Buffered
  <2> QED
    BY <1>2, <2>1 DEF SentAgain, Awaited, FirstFlush
<1> QED
  BY <1>1, <1>2, <1>3, <1>4

LEMMA FlushOnReadSends == ExchangeInv /\ Uncut /\ FlushOnRead => Uncut'
BY DEF FlushOnRead, Uncut, Sockets

\* A frame that is read is no error that is still to come.
LEMMA ReadLater ==
  ASSUME ExchangeInv, NEW t, Arrived(t), t \cap {"retry", "fatal", "inactive"} = {}, Consume
  PROVE  Refused => Refused'
BY RefusedLater DEF Arrived, Consume

LEMMA ReceiveSends == ExchangeInv /\ Uncut /\ Receive => Uncut'
<1> SUFFICES ASSUME ExchangeInv, Uncut, Receive PROVE Uncut'
  OBVIOUS
<1>0. RelayMove /\ ExchangeInv'
  BY ExchangeKeeps DEF RelayMove, ClientStep, ExchangeInv
<1>1. CASE ReceiveFailure \/ ReceiveClosedInactive
  <2>1. /\ DropSocket /\ UNCHANGED messages
        /\ phase' \in {phase, "idle"} /\ at' \in {"connect", "none"} /\ phase # "idle"
    BY <1>1 DEF ReceiveFailure, ReceiveClosedInactive, Arrived, Failed, Finish, ExchangeInv, Control
  <2> QED
    BY <2>1, DropSocketSends
<1>2. CASE ReceiveFinal \/ ReceiveHandedOff
  <2>1. \E r \in Results \ {"cancelled"} : Finish(r)
    BY <1>2 DEF ReceiveFinal, ReceiveHandedOff, Results
  <2>2. UNCHANGED <<messages, sock, link, outbox>> /\ at = "receive" /\ phase # "idle"
    BY <1>2 DEF ReceiveFinal, ReceiveHandedOff, Arrived, Consume, ExchangeInv, Control
  <2> QED
    BY <2>1, <2>2, FinishSends DEF messages
<1>3. CASE ReceiveAck
  <2>1. /\ at = "receive" /\ outbox = <<>> /\ phase # "idle" /\ phase' = phase
        /\ UNCHANGED <<completion, result, sock, link, toRelay>>
        /\ request'.made = request.made /\ request'.acked
        /\ GoOn(TRUE, FALSE, <<>>)
    BY <1>3 DEF ReceiveAck, Arrived, Consume, ExchangeInv, Control, RelayTypeOK
  <2>2. Refused => Refused'
    BY <1>3, ReadLater DEF ReceiveAck
  <2>3. GoOn(request'.acked, FALSE, <<>>)
    BY <2>1 DEF GoOn, NeedsCompletion
  <2> QED
    BY <1>0, <2>1, <2>2, <2>3, ReadOnSends
<1>4. CASE ReceiveIgnored
  <2>1. /\ at = "receive" /\ outbox = <<>> /\ phase # "idle" /\ phase' = phase
        /\ UNCHANGED <<completion, request, result, sock, link, toRelay>>
        /\ GoOn(request'.acked, FALSE, <<>>)
    BY <1>4 DEF ReceiveIgnored, Arrived, Consume, messages, ExchangeInv, Control
  <2>2. Refused => Refused'
    BY <1>4, ReadLater DEF ReceiveIgnored
  <2> QED
    BY <1>0, <2>1, <2>2, ReadOnSends
<1>5. CASE ReceiveResponse
  <2>1. /\ at = "receive" /\ outbox = <<>> /\ phase # "idle" /\ phase' = phase
        /\ UNCHANGED <<completion, result, sock, link, toRelay>>
        /\ request'.made = request.made /\ request'.acked
        /\ at' = "flush" /\ outbox' = <<"ackResponse">>
    BY <1>5 DEF ReceiveResponse, Arrived, Consume, ExchangeInv, Control, RelayTypeOK
  <2>2. Refused => Refused'
    BY <1>5, ReadLater DEF ReceiveResponse
  <2>3. Sockets' /\ SentInOrder'
    BY <2>1 DEF ExchangeInv, RelayTypeOK, Uncut, Sockets, SentInOrder
  <2>4. Buffered => Buffered'
    BY <2>1 DEF Buffered, Range
  <2>5. OnItsWay => OnItsWay'
    BY <1>0, <2>2, <2>4, StaysOnItsWay
  <2> QED
    BY <2>1, <2>3, <2>5 DEF Uncut, SentAgain, Awaited, FirstFlush
<1>6. CASE ReceiveStateInRequest
  <2>1. phase = "request" /\ ~completion.made /\ ~completion.sent /\ completion' = completion
    BY <1>6 DEF ReceiveStateInRequest, Uncut, SentInOrder, ExchangeInv, RelayTypeOK
  <2>2. /\ at = "receive" /\ UNCHANGED <<sock, link, outbox>> /\ request'.made = request.made
        /\ phase' \in {phase, "idle"} /\ at' \in {"receive", "none"}
    BY <1>6 DEF ReceiveStateInRequest, Arrived, Consume, Finish, ExchangeInv, RelayTypeOK
  <2> QED
    BY <2>1, <2>2 DEF ExchangeInv, RelayTypeOK, Uncut, Sockets, SentInOrder, SentAgain
<1>7. CASE ReceivePong
  <2>1. UNCHANGED <<phase, at, result, messages, connection, relay>>
    BY <1>7 DEF ReceivePong, world
  <2> QED
    BY <2>1 DEF Uncut, Sockets, SentInOrder, SentAgain, FirstFlush, Awaited, OnItsWay, Buffered,
       Stored, Refused, messages, connection
<1> QED
  BY <1>1, <1>2, <1>3, <1>4, <1>5, <1>6, <1>7 DEF Receive

LEMMA FlushFailsSends == ExchangeInv /\ Uncut /\ FlushFails => Uncut'
<1> SUFFICES ASSUME ExchangeInv, Uncut, FlushFails PROVE Uncut'
  OBVIOUS
<1>1. /\ DropSocket /\ UNCHANGED messages
      /\ phase' \in {phase, "idle"} /\ at' \in {"connect", "none"} /\ phase # "idle"
  BY DEF FlushFails, Failed, Finish, ExchangeInv, Control
<1> QED
  BY <1>1, DropSocketSends

\* A completion that the relay takes is recorded.
LEMMA TakenIsStored ==
  ASSUME ExchangeInv, "completion" \in Flushed, relay' = Recorded("completion")
  PROVE  Stored'
BY DEF ExchangeInv, RelayTypeOK, Flushed, Sendable, Recorded, Exchanges, MessageStates, Record, Stored

\* What the relay takes from the connection was its first frame.
LEMMA TakeSends ==
  ASSUME ExchangeInv, RelayMove, toRelay # <<>>, toRelay' = Tail(toRelay), outbox' = outbox,
         Head(toRelay) = "completion" => Stored' \/ Refused', Refused => Refused', OnItsWay
  PROVE  OnItsWay'
<1>1. toRelay \in Seq(OutgoingFrames)
  BY DEF ExchangeInv, RelayTypeOK
<1>2. Range(toRelay) = {Head(toRelay)} \cup Range(toRelay')
  BY <1>1, Written
<1>3. CASE Head(toRelay) = "completion"
  BY <1>3 DEF OnItsWay
<1>4. CASE Head(toRelay) # "completion"
  <2>1. Buffered => Buffered'
    BY <1>2, <1>4 DEF Buffered
  <2> QED
    BY <2>1, StaysOnItsWay
<1> QED
  BY <1>3, <1>4

\* A frame to the client after those that are on their way.
LEMMA OneMore ==
  ASSUME NEW t \in PlainFrames, ExchangeInv, toClient' = Append(toClient, Plain(t))
  PROVE  /\ Refused => Refused'
         /\ t \in {"retry", "fatal"} => Refused'
<1>1. toClient \in Seq(IncomingFrames) /\ Plain(t) \in IncomingFrames /\ Plain(t).type = t
  BY PlainIsTyped DEF ExchangeInv, RelayTypeOK
<1>2. <<Plain(t)>> \in Seq(IncomingFrames) /\ toClient' = toClient \o <<Plain(t)>>
  BY <1>1
<1>3. Refused => Refused'
  BY <1>2, RefusedStays
<1>4. Len(toClient') \in 1..Len(toClient') /\ toClient'[Len(toClient')] = Plain(t)
  BY <1>1
<1> QED
  BY <1>1, <1>3, <1>4 DEF Refused

\* Relay, device and network, as long as the connection stays.
LEMMA OutsideKeepsOnItsWay ==
  ASSUME ExchangeInv, Take \/ TakeLate \/ Refuse \/ DeviceStep \/ Expire, OnItsWay
  PROVE  OnItsWay'
<1>0. RelayMove
  BY DEF RelayMove, RelayStep, FaultStep
<1>1. CASE Take
  <2>1. Head(toRelay) \in Flushed /\ relay' = Recorded(Head(toRelay))
    BY <1>1, HeadTailProperties DEF Take, ExchangeInv, Frames
  <2>2. Answer(Head(toRelay)) \in Seq(IncomingFrames)
    <3>1. Answer(Head(toRelay)) \in Seq(Truthful')
      BY <1>0, <2>1, AnswerIsTruthful
    <3>2. Truthful' \subseteq IncomingFrames
      BY DEF Truthful, Tells, HandsOff
    <3> QED
      BY <3>1, <3>2, SeqMonotonic
  <2>3. Refused => Refused'
    BY <1>1, <2>2, RefusedStays DEF Take
  <2>4. Head(toRelay) = "completion" => Stored'
    BY <2>1, TakenIsStored
  <2> QED
    BY <1>0, <1>1, <2>3, <2>4, TakeSends DEF Take
<1>2. CASE TakeLate \/ Expire
  BY <1>0, <1>2, StaysOnItsWay DEF TakeLate, Expire, connection, Buffered, Refused
<1>3. CASE Refuse
  <2>1. Refused'
    BY <1>3, OneMore DEF Refuse, PlainFrames
  <2> QED
    BY <2>1 DEF OnItsWay
<1>4. CASE DeviceStep
  <2>1. UNCHANGED <<outbox, toRelay>>
    BY <1>4 DEF DeviceStep, DeviceTakesRequest, DeviceResponds, DeviceTakesCompletion, connection
  <2>2. toClient' = toClient \/ \E t \in {"receipt", "response"} : toClient' = Append(toClient, Plain(t))
    BY <1>4 DEF DeviceStep, DeviceTakesRequest, DeviceResponds, DeviceTakesCompletion, connection, Push
  <2>3. Refused => Refused'
    BY <2>2, OneMore DEF Refused, PlainFrames
  <2> QED
    BY <1>0, <2>1, <2>3, StaysOnItsWay DEF Buffered
<1> QED
  BY <1>1, <1>2, <1>3, <1>4

LEMMA OutsideSends == ExchangeInv /\ Uncut /\ (RelayStep \/ DeviceStep \/ FaultStep) => Uncut'
<1> SUFFICES ASSUME ExchangeInv, Uncut, RelayStep \/ DeviceStep \/ FaultStep PROVE Uncut'
  OBVIOUS
<1>1. CASE ConnectFails
  BY <1>1, ConnectFailsSends
<1>2. CASE Break
  BY <1>2 DEF Break, future, messages, Uncut, Sockets, SentInOrder, SentAgain
<1>3. CASE Take \/ TakeLate \/ Refuse \/ DeviceStep \/ Expire
  <2>1. UNCHANGED <<phase, at, result, messages, sock, outbox, link>>
    BY <1>3 DEF Take, TakeLate, Refuse, Expire, DeviceStep, DeviceTakesRequest, DeviceResponds,
       DeviceTakesCompletion, future, connection
  <2>2. OnItsWay => OnItsWay'
    BY <1>3, OutsideKeepsOnItsWay
  <2> QED
    BY <2>1, <2>2 DEF Uncut, Sockets, SentInOrder, SentAgain, FirstFlush, Awaited, messages
<1> QED
  BY <1>1, <1>2, <1>3 DEF RelayStep, FaultStep

\* A step of the exchange that its owner only waits for.
LEMMA ExchangeStepSends ==
  ASSUME ExchangeInv, ~cut => Uncut, ClientStep \/ BriefTimeout \/ RelayStep \/ DeviceStep \/ FaultStep,
         ~cut'
  PROVE  Uncut'
<1>1. ~cut
  BY DEF ClientStep, Connect, Flush, FlushFails, FlushOnRead, Receive, ReceiveFailure,
     ReceiveClosedInactive, ReceiveFinal, ReceiveAck, ReceiveResponse, ReceiveStateInRequest,
     ReceiveHandedOff, ReceiveIgnored, ReceivePong, Consume, DropSocket, BriefTimeout, RelayStep, Take,
     DeviceStep, DeviceTakesRequest, DeviceResponds, DeviceTakesCompletion, FaultStep, ConnectFails,
     Fault, Break, TakeLate, Refuse, Expire, world, ExchangeInv, RelayTypeOK
<1>2. CASE ClientStep
  BY <1>1, <1>2, ConnectSends, FlushSends, FlushFailsSends, FlushOnReadSends, ReceiveSends DEF ClientStep
<1>3. CASE BriefTimeout
  BY <1>1, <1>3, DropFutureSends
<1>4. CASE RelayStep \/ DeviceStep \/ FaultStep
  BY <1>1, <1>4, OutsideSends
<1> QED
  BY <1>2, <1>3, <1>4

-----------------------------------------------------------------------------
(* Its owner *)

\* The owner hands off a completion that is new, or that a cancellation took
\* from an earlier handoff.
LEMMA HandOffSends ==
  ASSUME ApprovalInv, WaitInv, NEW p \in {"normal", "brief"}, NEW o, NEW s,
         stage \in {"request", "interrupted", "failed", "answered"},
         s \in {"complete", "failedAbort", "deviceError", "lastCompletion"}, HandOff(p, o, s)
  PROVE  WaitInv'
<1>1. OneCompletion'
  BY DEF HandOff, OneCompletion
<1>2. ASSUME ~cut' PROVE Uncut'
  <2>1. ~cut /\ Uncut
    BY <1>2 DEF HandOff, BeginComplete, world, WaitInv
  <2>2. completion.sent => result = "cancelled"
    BY <2>1 DEF Uncut, SentInOrder, WaitInv, OneCompletion
  <2> QED
    BY <2>1, <2>2, BeginCompleteSends DEF HandOff, ApprovalInv
<1> QED
  BY <1>1, <1>2 DEF WaitInv

LEMMA ReturnSends == ASSUME ApprovalInv, WaitInv, NEW r, Return(r), phase = "idle" PROVE WaitInv'
<1>1. OneCompletion'
  BY DEF Return, OneCompletion
<1>2. ASSUME ~cut' PROVE Uncut'
  <2>1. ~cut /\ Uncut
    BY <1>2 DEF Return, DropSocket, WaitInv
  <2>2. at = "none" /\ DropSocket /\ UNCHANGED messages /\ phase' = phase /\ at' = at
    BY DEF Return, future, ApprovalInv, ExchangeInv, Control
  <2> QED
    BY <2>1, <2>2, DropSocketSends DEF ApprovalInv
<1> QED
  BY <1>1, <1>2 DEF WaitInv

\* A step that leaves the exchange alone.
LEMMA WaitStays ==
  ASSUME WaitInv, UNCHANGED relayVars, OneCompletion'
  PROVE  WaitInv'
BY DEF WaitInv, relayVars, Uncut, Sockets, SentInOrder, SentAgain, FirstFlush, Awaited, OnItsWay, Buffered,
   Stored, Refused

LEMMA DriverSends == ApprovalInv /\ WaitInv /\ DriverStep => WaitInv'
<1> SUFFICES ASSUME ApprovalInv, WaitInv, DriverStep PROVE WaitInv'
  OBVIOUS
<1>1. CASE Start
  <2>1. CASE Return("interrupted")
    BY <1>1, <2>1, ReturnSends DEF Start, ApprovalInv, Driver
  <2>2. CASE ~Return("interrupted")
    <3>1. BeginRequest /\ stage' = "request"
      BY <1>1, <2>2 DEF Start
    <3>2. OneCompletion'
      BY <1>1, <3>1 DEF Start, BeginRequest, WaitInv, OneCompletion
    <3> QED
      BY <3>1, <3>2, BeginRequestSends DEF WaitInv, ApprovalInv, BeginRequest, world
  <2> QED
    BY <2>1, <2>2
<1>2. CASE DropPending
  <2>1. OneCompletion'
    BY <1>2 DEF DropPending, DropFuture, Finish, OneCompletion
  <2>2. ~cut' => ~cut
    BY <1>2 DEF DropPending, DropFuture, ApprovalInv, ExchangeInv, RelayTypeOK
  <2> QED
    BY <1>2, <2>1, <2>2, DropFutureSends DEF DropPending, WaitInv, ApprovalInv
<1>3. CASE Interrupt
  BY <1>3, HandOffSends, ReturnSends DEF Interrupt, LastPolicy, ApprovalInv, Driver
<1>4. CASE RequestFails
  BY <1>4, WaitStays DEF RequestFails, WaitInv, OneCompletion, relayVars
<1>5. CASE Abort
  <2>1. PICK s \in {"lastCompletion", "failedAbort"} : HandOff("brief", "aborted", s)
    BY <1>5 DEF Abort
  <2> QED
    BY <1>5, <2>1, HandOffSends DEF Abort
<1>6. CASE Respond
  <2>1. CASE HandOff("brief", "aborted", "deviceError")
    BY <1>6, <2>1, HandOffSends DEF Respond
  <2>2. CASE ~HandOff("brief", "aborted", "deviceError")
    BY <1>6, <2>2, WaitStays DEF Respond, WaitInv, OneCompletion, relayVars
  <2> QED
    BY <2>1, <2>2
<1>7. CASE Complete
  BY <1>7, HandOffSends DEF Complete, LastPolicy
<1>8. CASE Completed
  BY <1>8, ReturnSends DEF Completed
<1> QED
  BY <1>1, <1>2, <1>3, <1>4, <1>5, <1>6, <1>7, <1>8 DEF DriverStep

LEMMA WaitKeeps == ApprovalInv /\ WaitInv /\ [Next]_vars => WaitInv'
<1> SUFFICES ASSUME ApprovalInv, WaitInv, [Next]_vars PROVE WaitInv'
  OBVIOUS
<1>1. CASE DriverStep
  BY <1>1, DriverSends
<1>2. CASE FutureStep \/ Timeout \/ OutsideStep
  <2>1. ~cut' => Uncut'
    BY <1>2, ExchangeStepSends DEF FutureStep, Timeout, OutsideStep, ApprovalInv, WaitInv
  <2>2. stage' = stage
    BY <1>2 DEF FutureStep, Timeout, OutsideStep
  <2>3. completion'.made = completion.made
    BY <1>2, OnlyOwnerMakes DEF FutureStep, Timeout, OutsideStep, ApprovalInv, ExchangeInv
  <2>4. phase = "idle" => result' = result
    <3>1. phase = "idle" => ~ClientStep /\ ~BriefTimeout /\ ~ConnectFails
      BY ClientStepRuns DEF FutureRuns, BriefTimeout, ConnectFails, ApprovalInv, ExchangeInv, Control
    <3> QED
      BY <1>2, <3>1 DEF FutureStep, Timeout, OutsideStep, RelayStep, DeviceStep, FaultStep, Take,
         DeviceTakesRequest, DeviceResponds, DeviceTakesCompletion, Break, TakeLate, Refuse, Expire, future
  <2>5. OneCompletion'
    BY <2>2, <2>3, <2>4 DEF WaitInv, OneCompletion, ApprovalInv, Driver
  <2> QED
    BY <2>1, <2>5 DEF WaitInv
<1>3. CASE Cancel \/ UNCHANGED vars
  BY <1>3, WaitStays DEF Cancel, vars, WaitInv, OneCompletion, relayVars
<1> QED
  BY <1>1, <1>2, <1>3 DEF Next, Ended

-----------------------------------------------------------------------------
(* Theorems *)

\* What exchange and owner keep together.
LEMMA ApprovalInvariant == Spec => []ApprovalInv
BY ApprovalStarts, ApprovalKeeps, PTL DEF Spec

\* The types of exchange and owner, with sequences of frames of any length.
THEOREM ApprovalTypeCorrect == Spec => []TypeOK
<1>1. ApprovalInv => TypeOK
  BY DEF ApprovalInv
<1> QED
  BY <1>1, ApprovalInvariant, PTL

\* No completion is written, flushed or taken late before the relay has
\* recorded its request (websocket.rs complete_with_policy).
THEOREM CompletionsFollow == Spec => []CompletionFollowsRequest
<1>1. ApprovalInv => CompletionFollowsRequest
  <2> SUFFICES ASSUME ApprovalInv, "completion" \in Range(toRelay) \cup Range(late)
               PROVE  relay.request # "absent"
    BY DEF CompletionFollowsRequest
  <2>1. ASSUME NEW q \in {toRelay, late} PROVE \A i \in DOMAIN q : q[i] \in Flushed
    BY ElementOfSeq DEF ApprovalInv, ExchangeInv, Frames
  <2> QED
    BY <2>1 DEF Range, Flushed, Sendable
<1> QED
  BY <1>1, ApprovalInvariant, PTL

\* An exchange that returned without a completion has a request that the relay
\* has not and will not see (exchange.rs, request_was_sent).
THEOREM IsNeverSilent == Spec => []NeverSilent
<1>1. ApprovalInv => NeverSilent
  <2> SUFFICES ASSUME ApprovalInv, returned # "none",
                      relay.request # "absent" \/ "request" \in Range(late)
               PROVE  completion.made
    BY DEF NeverSilent
  <2>1. Known
    <3>1. \A i \in DOMAIN late : late[i] \in Flushed
      BY ElementOfSeq DEF ApprovalInv, ExchangeInv, Frames
    <3> QED
      BY <3>1 DEF Range, Flushed, ApprovalInv, ExchangeInv, Record
  <2> QED
    BY <2>1 DEF ApprovalInv, Returned, Known
<1> QED
  BY <1>1, ApprovalInvariant, PTL

\* As long as no future has been dropped in a flush, a completion future that
\* reads from a live connection has sent its completion on it, however many
\* connections came before (websocket.rs complete_with_policy).
THEOREM WaitsForWhatComes == Spec => []WaitsUnlessCut
<1>1. ApprovalInv /\ WaitInv => WaitsUnlessCut
  BY DEF WaitInv, Uncut, SentInOrder, SentAgain, Awaited, FirstFlush, OnItsWay, Buffered, Stored, Refused,
     WaitsUnlessCut, WaitsForAnswer
<1>2. Init => ApprovalInv /\ WaitInv
  BY ApprovalStarts, WaitStarts
<1>3. ApprovalInv /\ WaitInv /\ [Next]_vars => (ApprovalInv /\ WaitInv)'
  BY ApprovalKeeps, WaitKeeps
<1> QED
  BY <1>1, <1>2, <1>3, PTL DEF Spec

-----------------------------------------------------------------------------
(* The promise: every step is one of ApprovalPromise, or changes nothing   *)
(* that the promise is about.                                              *)

\* The owner has decided once it was answered or has made a completion, and
\* decides as the device only after the device.
Decided ==
  /\ outcome # "none" <=> completion.made \/ stage = "answered"
  /\ stage \in {"start", "request", "failed", "answered"} => ~completion.made
  /\ outcome \in {"approved", "denied"} => relay.response # "absent"

DecidedInv == ApprovalInv /\ Decided

LEMMA DecidedStarts == Init => DecidedInv
  BY ApprovalStarts DEF DecidedInv, Decided, Init, RelayInit

\* A step of the owner leaves the record to the relay.
LEMMA OwnerLeavesRecord == ApprovalInv /\ (DriverStep \/ Cancel) => relay' = relay
<1> SUFFICES ASSUME ApprovalInv, DriverStep \/ Cancel PROVE relay' = relay
  OBVIOUS
<1>1. ASSUME NEW r, Return(r) PROVE relay' = relay
  BY <1>1 DEF Return, DropSocket
<1>2. ASSUME NEW p, NEW o, NEW s, HandOff(p, o, s) PROVE relay' = relay
  BY <1>2 DEF HandOff, BeginComplete, world
<1>3. CASE Start
  BY <1>1, <1>3 DEF Start, BeginRequest, world
<1>4. CASE DropPending
  BY <1>4 DEF DropPending, DropFuture
<1>5. CASE Interrupt \/ Abort \/ Complete
  BY <1>1, <1>2, <1>5 DEF Interrupt, Abort, Complete
<1>6. CASE RequestFails \/ Respond \/ Cancel
  BY <1>2, <1>6 DEF RequestFails, Respond, Cancel, relayVars
<1>7. CASE Completed
  BY <1>1, <1>7 DEF Completed
<1> QED
  BY <1>3, <1>4, <1>5, <1>6, <1>7 DEF DriverStep

\* What a step of the owner decides and returns.
OwnerDecides ==
  /\ returned = "none" /\ returned' = "none"
  /\ \/ outcome' = outcome
     \/ /\ outcome = "none" /\ outcome' \in {"approved", "denied", "aborted"}
        /\ outcome' # "aborted" => relay.response # "absent"
OwnerReturns ==
  /\ returned = "none" /\ returned' \in {"approved", "denied", "error", "interrupted"}
  /\ returned' \in {"approved", "denied"} => outcome = returned' /\ relay.completion # "absent"
  /\ relay.request # "absent" => outcome # "none"
  /\ outcome' = outcome

\* The owner hands off what it has decided, or aborts before it has.
LEMMA HandOffDecides ==
  ASSUME DecidedInv, NEW p \in {"normal", "brief"}, NEW o \in Outcomes,
         NEW s \in {"complete", "failedAbort", "deviceError", "lastCompletion"}, HandOff(p, o, s),
         stage # "returned",
         (o = outcome /\ o # "none") \/ (o = "aborted" /\ ~completion.made),
         stage = "answered" => o = outcome
  PROVE  OwnerDecides /\ Decided'
<1>1. relay' = relay /\ completion'.made
  BY DEF HandOff, BeginComplete, world, DecidedInv, ApprovalInv, TypeOK, RelayTypeOK
<1>2. OwnerDecides
  BY DEF HandOff, OwnerDecides, DecidedInv, ApprovalInv, Returned, Decided
<1>3. Decided'
  BY <1>1 DEF HandOff, DecidedInv, Decided
<1> QED
  BY <1>2, <1>3

LEMMA ReturnDecides ==
  ASSUME DecidedInv, NEW r \in {"approved", "denied", "error", "interrupted"}, Return(r),
         stage # "returned", stage # "answered", completion.made \/ ~request.sent,
         r \in {"approved", "denied"} => outcome = r /\ relay.completion # "absent"
  PROVE  OwnerReturns /\ Decided'
<1>1. relay' = relay /\ completion' = completion
  BY DEF Return, DropSocket, messages
<1>2. relay.request # "absent" => outcome # "none"
  BY DEF DecidedInv, ApprovalInv, ExchangeInv, Record, Known, Decided
<1>3. OwnerReturns
  BY <1>2 DEF Return, OwnerReturns, DecidedInv, ApprovalInv, Returned
<1>4. Decided'
  BY <1>1 DEF Return, DecidedInv, Decided
<1> QED
  BY <1>3, <1>4

\* A step of the owner that changes neither its decision nor what it returned.
LEMMA OwnerMovesOn ==
  ASSUME DecidedInv, relay' = relay, UNCHANGED <<outcome, returned, completion>>,
         stage \notin {"returned", "answered"}, stage' # "answered",
         stage' \in {"start", "request", "failed"} => ~completion.made
  PROVE  OwnerDecides /\ Decided'
BY DEF OwnerDecides, DecidedInv, ApprovalInv, Returned, Decided

LEMMA DriverDecides ==
  ASSUME DecidedInv, DriverStep
  PROVE  (OwnerDecides \/ OwnerReturns) /\ Decided'
<1> USE DEF DecidedInv
<1>0. relay' = relay
  BY OwnerLeavesRecord
<1>1. CASE Start
  <2>1. CASE Return("interrupted")
    BY <1>1, <2>1, ReturnDecides DEF Start, ApprovalInv, Driver
  <2>2. CASE BeginRequest /\ stage' = "request" /\ UNCHANGED <<outcome, returned, cancelled>>
    BY <1>0, <1>1, <2>2, OwnerMovesOn DEF Start, BeginRequest, Decided
  <2> QED
    BY <1>1, <2>1, <2>2 DEF Start
<1>2. CASE DropPending
  BY <1>0, <1>2, OwnerMovesOn DEF DropPending, DropFuture, messages
<1>3. CASE Interrupt
  <2>1. CASE completion.made /\ HandOff(LastPolicy, outcome, "lastCompletion")
    BY <1>3, <2>1, HandOffDecides DEF Interrupt, LastPolicy, Decided, ApprovalInv, TypeOK
  <2>2. CASE ~completion.made /\ HandOff(LastPolicy, "aborted", "lastCompletion")
    BY <1>3, <2>2, HandOffDecides DEF Interrupt, LastPolicy, Outcomes
  <2>3. CASE ~RequestWasSent /\ Return("interrupted")
    BY <1>3, <2>3, ReturnDecides DEF Interrupt, RequestWasSent
  <2> QED
    BY <1>3, <2>1, <2>2, <2>3 DEF Interrupt
<1>4. CASE RequestFails
  BY <1>0, <1>4, OwnerMovesOn DEF RequestFails, relayVars, Decided
<1>5. CASE Abort
  <2>1. PICK s \in {"lastCompletion", "failedAbort"} : HandOff("brief", "aborted", s)
    BY <1>5 DEF Abort
  <2> QED
    BY <1>5, <2>1, HandOffDecides DEF Abort, Outcomes, Decided
<1>6. CASE Respond
  <2>1. CASE HandOff("brief", "aborted", "deviceError")
    BY <1>6, <2>1, HandOffDecides DEF Respond, Outcomes, Decided
  <2>2. CASE /\ stage' = "answered" /\ outcome' \in {"approved", "denied", "aborted"}
             /\ UNCHANGED <<relayVars, returned, cancelled>>
    <3>1. relay.response # "absent"
      BY <1>6 DEF Respond, ApprovalInv, ExchangeInv, Record
    <3>2. outcome = "none" /\ ~completion.made /\ returned = "none" /\ UNCHANGED <<completion, relay>>
      BY <1>6, <2>2 DEF Respond, Decided, ApprovalInv, Returned, relayVars
    <3> QED
      BY <2>2, <3>1, <3>2 DEF OwnerDecides, Decided
  <2> QED
    BY <1>6, <2>1, <2>2 DEF Respond
<1>7. CASE Complete
  <2>1. stage = "answered" /\ outcome # "none" /\ outcome \in Outcomes
    BY <1>7 DEF Complete, ApprovalInv, Driver, TypeOK
  <2>2. CASE HandOff(LastPolicy, outcome, "lastCompletion")
    BY <2>1, <2>2, HandOffDecides DEF LastPolicy
  <2>3. CASE HandOff("normal", outcome, "complete")
    BY <2>1, <2>3, HandOffDecides
  <2> QED
    BY <1>7, <2>2, <2>3 DEF Complete
<1>8. CASE Completed
  <2>1. completion.made /\ stage \notin {"returned", "answered"}
    BY <1>8 DEF Completed, ApprovalInv, Driver
  <2>2. ASSUME NEW r \in {"error", "interrupted"}, Return(r) PROVE OwnerReturns /\ Decided'
    BY <2>1, <2>2, ReturnDecides
  <2>3. CASE stage = "complete" /\ result = "handedOff" /\ outcome # "aborted" /\ Return(outcome)
    <3>1. relay.completion # "absent"
      BY <2>3 DEF ApprovalInv, ExchangeInv, Record
    <3>2. outcome \in {"approved", "denied"}
      BY <2>3 DEF ApprovalInv, Driver, TypeOK, Outcomes
    <3> QED
      BY <2>1, <2>3, <3>1, <3>2, ReturnDecides
  <2> QED
    BY <1>8, <2>2, <2>3 DEF Completed
<1> QED
  BY <1>1, <1>2, <1>3, <1>4, <1>5, <1>6, <1>7, <1>8 DEF DriverStep

\* What the relay takes, a device does and time undoes, as the promise has it.
LEMMA RecordPromised ==
  ASSUME DecidedInv, UNCHANGED <<outcome, returned>>, NEW frame \in Flushed,
         relay' = Recorded(frame)
  PROVE  [Promise!Next]_(Promise!vars)
<1> USE DEF DecidedInv, ApprovalInv, ExchangeInv, RelayTypeOK, Promise!vars
<1>1. CASE frame = "request" /\ relay.exchange = "unknown"
  <2>1. /\ relay.request = "absent" /\ relay'.request # "absent"
        /\ relay'.response = relay.response /\ relay'.completion = relay.completion
    BY <1>1 DEF Record, Recorded, Exchanges
  <2>2. returned = "none" \/ outcome # "none"
    BY <1>1 DEF Flushed, Known, Returned, Decided
  <2> QED
    BY <2>1, <2>2 DEF Promise!Next, Promise!Ask
<1>2. CASE frame = "completion" /\ relay.exchange \in {"open", "expired"}
  <2>1. /\ relay'.request = relay.request /\ relay'.completion # "absent"
        /\ relay.response # "absent" <=> relay'.response # "absent"
    BY <1>2, RecordedAdvances DEF Recorded, Exchanges, MessageStates
  <2>2. relay.request # "absent" /\ outcome # "none"
    BY <1>2 DEF Flushed, Sendable, Decided
  <2> QED
    BY <2>1, <2>2 DEF Promise!Next, Promise!Tell
<1>3. CASE frame = "ackResponse"
  <2>1. /\ relay'.request = relay.request /\ relay'.completion = relay.completion
        /\ relay.response # "absent" <=> relay'.response # "absent"
    BY <1>3 DEF Recorded, Exchanges, MessageStates
  <2> QED
    BY <2>1
<1>4. CASE /\ ~(frame = "request" /\ relay.exchange = "unknown")
           /\ ~(frame = "completion" /\ relay.exchange \in {"open", "expired"})
           /\ frame # "ackResponse"
  <2>1. relay' = relay
    BY <1>4 DEF Recorded
  <2> QED
    BY <2>1
<1> QED
  BY <1>1, <1>2, <1>3, <1>4

LEMMA DevicePromised ==
  ASSUME DecidedInv, UNCHANGED <<outcome, returned>>, DeviceStep \/ Expire
  PROVE  [Promise!Next]_(Promise!vars)
<1> USE DEF DecidedInv, ApprovalInv, ExchangeInv, RelayTypeOK, Promise!vars
<1>1. CASE DeviceTakesRequest
  <2>1. /\ relay'.request # "absent" /\ relay.request # "absent"
        /\ relay'.response = relay.response /\ relay'.completion = relay.completion
    BY <1>1 DEF DeviceTakesRequest, Exchanges
  <2> QED
    BY <2>1
<1>2. CASE DeviceResponds
  <2>1. /\ relay.request # "absent" /\ relay.response = "absent" /\ relay.completion = "absent"
        /\ relay'.response # "absent"
        /\ relay'.request = relay.request /\ relay'.completion = relay.completion
    BY <1>2 DEF DeviceResponds, Exchanges, Record
  <2> QED
    BY <2>1 DEF Promise!Next, Promise!PeerAnswers
<1>3. CASE DeviceTakesCompletion
  <2>1. /\ relay'.request = relay.request /\ relay'.response = relay.response
        /\ relay'.completion # "absent" /\ relay.completion # "absent"
    BY <1>3 DEF DeviceTakesCompletion, Exchanges, Record
  <2> QED
    BY <2>1
<1>4. CASE Expire
  BY <1>4, ExpiredAdvances
<1> QED
  BY <1>1, <1>2, <1>3, <1>4 DEF DeviceStep

\* The steps of the exchange: the record changes, or the promise sees nothing.
LEMMA ExchangePromised ==
  ASSUME DecidedInv, FutureStep \/ Timeout \/ OutsideStep
  PROVE  [Promise!Next]_(Promise!vars) /\ Decided'
<1>1. UNCHANGED <<stage, outcome, returned>>
  BY DEF FutureStep, Timeout, OutsideStep
<1>2. ClientStep \/ BriefTimeout \/ RelayStep \/ DeviceStep \/ FaultStep
  BY DEF FutureStep, Timeout, OutsideStep
<1>3. Advances /\ completion'.made = completion.made
  BY <1>2, AlwaysAdvances, OnlyOwnerMakes DEF RelayMove, DecidedInv, ApprovalInv, ExchangeInv
<1>4. Decided'
  BY <1>1, <1>3 DEF DecidedInv, Decided, Advances
<1>5. CASE relay' = relay
  BY <1>1, <1>4, <1>5 DEF Promise!vars
<1>6. CASE Take \/ TakeLate
  <2>1. CASE Take
    BY <1>1, <1>4, <2>1, RecordPromised, HeadTailProperties
       DEF Take, DecidedInv, ApprovalInv, ExchangeInv, Frames
  <2>2. CASE TakeLate
    BY <1>1, <1>4, <2>2, RecordPromised, HeadTailProperties
       DEF TakeLate, DecidedInv, ApprovalInv, ExchangeInv, Frames
  <2> QED
    BY <1>6, <2>1, <2>2
<1>7. CASE DeviceStep \/ Expire
  BY <1>1, <1>4, <1>7, DevicePromised
<1>8. relay' = relay \/ Take \/ TakeLate \/ DeviceStep \/ Expire
  BY <1>2, ClientLeavesRecord DEF RelayStep, FaultStep, ConnectFails, Break, Refuse
<1> QED
  BY <1>5, <1>6, <1>7, <1>8

LEMMA PromiseNext ==
  ASSUME DecidedInv, [Next]_vars
  PROVE  [Promise!Next]_(Promise!vars) /\ DecidedInv'
<1>0. ApprovalInv'
  BY ApprovalKeeps DEF DecidedInv
<1>1. CASE DriverStep
  <2>1. relay' = relay
    BY <1>1, OwnerLeavesRecord DEF DecidedInv
  <2>2. (OwnerDecides \/ OwnerReturns) /\ Decided'
    BY <1>1, DriverDecides
  <2>3. OwnerDecides => [Promise!Next]_(Promise!vars)
    BY <2>1 DEF OwnerDecides, Promise!Next, Promise!Decide, Promise!Decisions, Promise!vars
  <2>4. OwnerReturns => Promise!Next
    BY <2>1 DEF OwnerReturns, Promise!Next, Promise!Return, Promise!Decisions
  <2> QED
    BY <1>0, <2>2, <2>3, <2>4 DEF DecidedInv
<1>2. CASE FutureStep \/ Timeout \/ OutsideStep
  BY <1>0, <1>2, ExchangePromised DEF DecidedInv
<1>3. CASE Cancel \/ UNCHANGED vars
  <2>1. UNCHANGED <<relay, completion, stage, outcome, returned>>
    BY <1>3 DEF Cancel, vars, relayVars
  <2> QED
    BY <1>0, <2>1 DEF DecidedInv, Decided, Promise!vars
<1> QED
  BY <1>1, <1>2, <1>3 DEF Next, Ended

\* Relay, device and owner together implement the promise of an approval, for
\* any retry limits, faults and cancellations: one decision, taken after the
\* device, that no later cancellation changes, and no request without one
\* (exchange.rs approval_exchange; docs/client-device-protocol.md:661).
THEOREM ApprovalKeepsPromise == Spec => KeepsPromise
<1>1. Init => Promise!Init
  BY DEF Init, RelayInit, Unknown, Promise!Init
<1>2. DecidedInv /\ [Next]_vars => DecidedInv' /\ [Promise!Next]_(Promise!vars)
  BY PromiseNext
<1> QED
  BY DecidedStarts, <1>1, <1>2, PTL DEF Spec, KeepsPromise, Promise!Spec

\* What the promise is worth, by its own steps alone: a returned decision is
\* the device's, and the relay has it (docs/client-device-protocol.md:20-31).
THEOREM PromiseAgrees == Promise!Spec => []Promise!Agreed
<1>1. Promise!Init => Promise!Agreed
  BY DEF Promise!Init, Promise!Agreed, Promise!Decisions
<1>2. Promise!Agreed /\ [Promise!Next]_(Promise!vars) => Promise!Agreed'
  BY DEF Promise!Agreed, Promise!Decisions, Promise!vars, Promise!Next, Promise!Ask,
     Promise!PeerAnswers, Promise!Decide, Promise!Tell, Promise!Return
<1> QED
  BY <1>1, <1>2, PTL DEF Promise!Spec

\* So caller, device and relay agree about every approval, whatever happens to
\* its connections (exchange.rs approval_exchange).
THEOREM AlwaysAgreed == Spec => []Promise!Agreed
BY ApprovalKeepsPromise, PromiseAgrees, PTL DEF KeepsPromise
=============================================================================
