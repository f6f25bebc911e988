------------------------ MODULE ClientRequestProof ------------------------
(***************************************************************************)
(* Proofs about ClientRequest, for every retry limit and any number of     *)
(* faults: what the five operations keep, on top of what their exchange    *)
(* keeps (RelayExchangeProof).                                             *)
(***************************************************************************)
EXTENDS ClientRequest, RelayExchangeProof

-----------------------------------------------------------------------------
(* The invariant *)

\* Where an operation is, and what it has done by then.
Stage ==
  /\ stage \in {"start", "opened", "applied", "dropped", "abort", "returned"} => phase = "idle"
  /\ stage \in {"start", "request", "opened", "applied"} => ~completion.made
  /\ stage \in {"complete", "handoff", "last"} => completion.made
  /\ stage = "dropped" => cancelled /\ (answer # "none" => completion.made)
  /\ returned # "none" <=> stage = "returned"

\* What it knows of the device's answer.
Answered ==
  /\ stage \in {"start", "request"} => answer = "none"
  /\ stage \in {"opened", "applied", "complete", "handoff", "last", "abort"} => answer # "none"
  /\ stage \in {"applied", "complete", "handoff"} => Accepted
  /\ stage = "last" => cancelled \/ answer = "error"
  /\ answer = "rejected" => kind \in {"finish", "upload"}

\* The stages that only some operations have.
Kind ==
  /\ stage = "abort" => kind = "start"
  /\ stage = "complete" => kind \in {"start", "list", "finish"}
  /\ stage = "handoff" => kind \in {"upload", "remove"}
  /\ kind = "start" =>
       /\ answer \in {"none", "accepted"}
       /\ stage \notin {"handoff", "last"}
       /\ stage = "dropped" => answer = "none"

\* The local pairing, until the operation returns and once the completion
\* that tells the device of it is made.
Stored ==
  /\ returned = "none" =>
       local = IF Accepted /\ stage # "opened" THEN After[kind] ELSE Before[kind]
  /\ completion.made /\ kind \in {"finish", "remove"} =>
       local = IF answer = "accepted" THEN After[kind] ELSE Before[kind]

Promised == PendingOnlyIfStarted /\ SuccessIsHandedOff /\ AnswerIsKept

RequestInv == TypeOK /\ ExchangeInv /\ Stage /\ Answered /\ Kind /\ Stored /\ Promised

LEMMA RequestStarts == Init => RequestInv
<1> SUFFICES ASSUME Init PROVE RequestInv
  OBVIOUS
<1>1. ExchangeInv
  BY ExchangeStarts DEF Init
<1>2. TypeOK
  BY <1>1 DEF Init, ExchangeInv, TypeOK, Kinds, Before
<1>3. Stage /\ Answered /\ Kind /\ Promised
  BY DEF Init, RelayInit, Stage, Answered, Kind, Promised, PendingOnlyIfStarted, SuccessIsHandedOff,
     AnswerIsKept
<1>4. Stored
  BY DEF Init, RelayInit, Stored, Accepted
<1> QED
  BY <1>1, <1>2, <1>3, <1>4 DEF RequestInv

-----------------------------------------------------------------------------
(* The steps of the exchange *)

LEMMA ClientStepRuns == ExchangeInv /\ ClientStep => phase # "idle"
BY DEF ExchangeInv, Control, ClientStep, Connect, Flush, FlushFails, FlushOnRead, Receive,
   ReceiveFailure, ReceiveClosedInactive, ReceiveFinal, ReceiveAck, ReceiveResponse,
   ReceiveStateInRequest, ReceiveHandedOff, ReceiveIgnored, ReceivePong, Arrived

\* Relay, device and network start no future.
LEMMA OutsideStartsNothing ==
  ASSUME ExchangeInv, RelayStep \/ DeviceStep \/ FaultStep
  PROVE  phase = "idle" => phase' = "idle"
<1>1. CASE ConnectFails
  BY <1>1 DEF ConnectFails, ExchangeInv, Control
<1>2. CASE ~ConnectFails
  BY <1>2 DEF RelayStep, DeviceStep, FaultStep, Take, DeviceTakesRequest, DeviceResponds,
     DeviceTakesCompletion, Break, TakeLate, Refuse, Expire, future
<1> QED
  BY <1>1, <1>2

\* What the operation has done and told does not change under it.
LEMMA ExchangeStepKeeps ==
  ASSUME RequestInv, FutureStep \/ Timeout \/ OutsideStep
  PROVE  RequestInv'
<1>0. UNCHANGED owner
  BY DEF FutureStep, Timeout, OutsideStep
<1>1. RelayMove
  BY DEF FutureStep, Timeout, OutsideStep, RelayMove
<1>2. ExchangeInv' /\ Advances
  BY <1>1, ExchangeKeeps, AlwaysAdvances DEF RequestInv, ExchangeInv
<1>3. TypeOK'
  BY <1>0, <1>2 DEF RequestInv, ExchangeInv, TypeOK, owner
<1>4. phase = "idle" => phase' = "idle"
  BY ClientStepRuns, OutsideStartsNothing DEF FutureStep, Timeout, BriefTimeout, OutsideStep, RequestInv
<1>5. completion'.made = completion.made
  BY OnlyOwnerMakes DEF FutureStep, Timeout, OutsideStep, RequestInv, ExchangeInv
<1>6. Stage' /\ Answered' /\ Kind'
  BY <1>0, <1>4, <1>5 DEF RequestInv, Stage, Answered, Kind, Accepted, owner
<1>7. Stored'
  BY <1>0, <1>5 DEF RequestInv, Stored, Accepted, owner
<1>8. Promised'
  BY <1>0, <1>2 DEF RequestInv, Promised, PendingOnlyIfStarted, SuccessIsHandedOff, AnswerIsKept,
     Reported, Advances, owner
<1> QED
  BY <1>2, <1>3, <1>6, <1>7, <1>8 DEF RequestInv

-----------------------------------------------------------------------------
(* The steps of the operation *)

\* What an operation must have done when it returns r.
MayReturn(r, stored, failed) ==
  /\ kind = "start" /\ ~failed => (stored = "pending" <=> r = "ok")
  /\ r = "ok" /\ (kind = "start" \/ (kind \in {"list", "finish"} /\ ~cancelled)) =>
       relay.completion # "absent"
  /\ answer # "none" /\ kind # "start" =>
       /\ r # "interrupted"
       /\ kind \in {"upload", "remove"} /\ ~failed => r = Reported(answer)
  /\ completion.made /\ kind \in {"finish", "remove"} => stored = local

LEMMA ReturnKeeps ==
  ASSUME RequestInv, phase = "idle", NEW r \in {"ok", "rejected", "error", "interrupted"},
         Return(r), UNCHANGED answer,
         local' \in {"none", "pending", "active"}, localFault' \in BOOLEAN,
         MayReturn(r, local', localFault')
  PROVE  RequestInv'
<1> USE DEF Return
<1>1. LeaveExchange
  BY DEF LeaveExchange
<1>2. ExchangeInv'
  BY <1>1, LeaveExchangeKeeps DEF RequestInv
<1>3. relay' = relay /\ phase' = "idle" /\ UNCHANGED <<completion, kind, cancelled>>
  BY DEF DropSocket, future, messages
<1>4. TypeOK'
  BY <1>2 DEF RequestInv, ExchangeInv, TypeOK
<1>5. Stage' /\ Answered' /\ Kind'
  BY <1>3 DEF RequestInv, Stage, Answered, Kind, Accepted
<1>6. Stored'
  BY <1>3 DEF RequestInv, Stored, MayReturn
<1>7. Promised'
  BY <1>3 DEF Promised, PendingOnlyIfStarted, SuccessIsHandedOff, AnswerIsKept, Reported, MayReturn
<1> QED
  BY <1>2, <1>4, <1>5, <1>6, <1>7 DEF RequestInv

LEMMA HandOffKeeps ==
  ASSUME RequestInv, stage \in {"opened", "applied", "dropped"}, answer # "none",
         NEW p \in {"normal", "brief"}, NEW s \in {"complete", "handoff", "last"}, HandOff(p, s),
         s \in {"complete", "handoff"} => stage = "applied",
         s = "complete" => kind \in {"start", "list", "finish"},
         s = "last" => (cancelled \/ answer = "error") /\ kind # "start",
         s = "handoff" => kind \in {"upload", "remove"},
         stage = "opened" => answer = "error"
  PROVE  RequestInv'
<1> USE DEF HandOff
<1>1. ExchangeInv'
  BY BeginCompleteKeeps DEF RequestInv
<1>2. TypeOK'
  BY <1>1 DEF RequestInv, ExchangeInv, TypeOK
<1>3. completion'.made /\ relay' = relay
  BY DEF BeginComplete, world, RequestInv, ExchangeInv, RelayTypeOK
<1>4. returned = "none"
  BY DEF RequestInv, Stage
<1>5. Stage'
  BY <1>3 DEF RequestInv, Stage
<1>6. Answered' /\ Kind'
  BY DEF RequestInv, Answered, Kind, Accepted
<1>7. Stored'
  BY <1>3, <1>4 DEF RequestInv, Stored, Accepted, Answered
<1>8. Promised'
  BY <1>4 DEF Promised, PendingOnlyIfStarted, SuccessIsHandedOff, AnswerIsKept
<1> QED
  BY <1>1, <1>2, <1>5, <1>6, <1>7, <1>8 DEF RequestInv

LEMMA StartKeeps == RequestInv /\ Start => RequestInv'
<1> SUFFICES ASSUME RequestInv, Start PROVE RequestInv'
  OBVIOUS
<1>1. stage = "start" /\ phase = "idle" /\ answer = "none" /\ ~completion.made /\ returned = "none"
  BY DEF Start, RequestInv, Stage, Answered
<1>2. CASE Return("interrupted")
  <2>1. UNCHANGED <<local, localFault, answer>>
    BY <1>1, <1>2 DEF Start, Return
  <2>2. local = Before[kind]
    BY <1>1 DEF RequestInv, Stored, Accepted
  <2>3. kind = "start" => local # "pending"
    BY <2>2 DEF Before, Kinds
  <2> QED
    BY <1>1, <1>2, <2>1, <2>3, ReturnKeeps DEF MayReturn, RequestInv, TypeOK
<1>3. CASE ~Return("interrupted")
  <2>1. /\ BeginRequest /\ stage' = "request"
        /\ UNCHANGED <<kind, local, localFault, answer, returned, cancelled>>
    BY <1>3 DEF Start
  <2>2. ExchangeInv' /\ relay' = relay /\ completion' = completion
    BY <2>1, BeginRequestKeeps DEF RequestInv, BeginRequest, world
  <2>3. TypeOK'
    BY <2>1, <2>2 DEF RequestInv, ExchangeInv, TypeOK
  <2>4. Stage' /\ Answered' /\ Kind' /\ Stored'
    BY <1>1, <2>1, <2>2 DEF RequestInv, Stage, Answered, Kind, Stored, Accepted
  <2>5. Promised'
    BY <1>1, <2>1 DEF Promised, PendingOnlyIfStarted, SuccessIsHandedOff, AnswerIsKept
  <2> QED
    BY <2>2, <2>3, <2>4, <2>5 DEF RequestInv
<1> QED
  BY <1>2, <1>3

LEMMA DropPendingKeeps == RequestInv /\ DropPending => RequestInv'
<1> SUFFICES ASSUME RequestInv, DropPending PROVE RequestInv'
  OBVIOUS
<1>1. /\ DropFuture /\ cancelled /\ stage \in {"request", "complete", "handoff"}
      /\ stage' = IF stage = "complete" /\ kind = "start" THEN "abort" ELSE "dropped"
      /\ UNCHANGED <<kind, local, localFault, answer, returned, cancelled>>
  BY DEF DropPending
<1>2. ExchangeInv' /\ completion' = completion /\ phase' = "idle" /\ relay' = relay
  BY <1>1, DropFutureKeeps DEF RequestInv, DropFuture, Finish, messages
<1>3. returned = "none"
  BY <1>1 DEF RequestInv, Stage
<1>4. TypeOK'
  BY <1>1, <1>2 DEF RequestInv, ExchangeInv, TypeOK
<1>5. Stage' /\ Answered' /\ Kind'
  BY <1>1, <1>2 DEF RequestInv, Stage, Answered, Kind, Accepted
<1>6. Stored'
  BY <1>1, <1>2 DEF RequestInv, Stored, Accepted
<1>7. Promised'
  BY <1>1, <1>3 DEF Promised, PendingOnlyIfStarted, SuccessIsHandedOff, AnswerIsKept
<1> QED
  BY <1>2, <1>4, <1>5, <1>6, <1>7 DEF RequestInv

LEMMA DroppedKeeps == RequestInv /\ Dropped => RequestInv'
<1> SUFFICES ASSUME RequestInv, Dropped PROVE RequestInv'
  OBVIOUS
<1>1. stage = "dropped" /\ phase = "idle" /\ cancelled /\ returned = "none"
  BY DEF Dropped, RequestInv, Stage
<1>2. CASE kind \in {"list", "finish"} /\ answer # "none"
  <2>1. HandOff("brief", "last")
    BY <1>2 DEF Dropped
  <2> QED
    BY <1>1, <1>2, <2>1, HandOffKeeps
<1>3. CASE ~(kind \in {"list", "finish"} /\ answer # "none")
  <2> DEFINE r == IF answer = "none" THEN "interrupted" ELSE Reported(answer)
  <2>1. Return(r) /\ UNCHANGED <<local, localFault, answer>>
    BY <1>3 DEF Dropped
  <2>2. r \in {"ok", "rejected", "error", "interrupted"}
    BY DEF Reported, RequestInv, TypeOK
  <2>3. kind = "start" => r = "interrupted" /\ local # "pending"
    BY <1>1 DEF RequestInv, Kind, Stored, Accepted, Before, Kinds
  <2>4. MayReturn(r, local, localFault)
    BY <1>1, <1>3, <2>3 DEF MayReturn, Reported, RequestInv, TypeOK
  <2> QED
    BY <1>1, <2>1, <2>2, <2>4, ReturnKeeps DEF RequestInv, TypeOK
<1> QED
  BY <1>2, <1>3

LEMMA RequestFailsKeeps == RequestInv /\ RequestFails => RequestInv'
<1> SUFFICES ASSUME RequestInv, RequestFails PROVE RequestInv'
  OBVIOUS
<1>1. /\ stage = "request" /\ phase = "idle" /\ answer = "none" /\ ~completion.made
      /\ Return("error") /\ UNCHANGED <<local, localFault, answer>>
  BY DEF RequestFails, RequestInv, Stage, Answered
<1>2. returned = "none"
  BY <1>1 DEF RequestInv, Stage
<1>3. kind = "start" => local # "pending"
  BY <1>1, <1>2 DEF RequestInv, Stored, Accepted, Before, Kinds
<1>4. MayReturn("error", local, localFault)
  BY <1>1, <1>3 DEF MayReturn
<1> QED
  BY <1>1, <1>4, ReturnKeeps DEF RequestInv, TypeOK

\* A step of the operation on no future: it opens the response, changes the
\* local pairing or goes to remove it.
LEMMA MovesOn ==
  ASSUME RequestInv, UNCHANGED <<relayVars, kind, localFault, returned, cancelled>>, phase = "idle",
         TypeOK', Stage', Answered', Kind', Stored', returned = "none"
  PROVE  RequestInv'
<1>1. ExchangeInv'
  BY StutterKeeps DEF RequestInv
<1>2. Promised'
  BY DEF Promised, PendingOnlyIfStarted, SuccessIsHandedOff, AnswerIsKept
<1> QED
  BY <1>1, <1>2 DEF RequestInv

LEMMA OpenKeeps == RequestInv /\ Open => RequestInv'
<1> SUFFICES ASSUME RequestInv, Open PROVE RequestInv'
  OBVIOUS
<1>1. /\ stage = "request" /\ phase = "idle" /\ ~completion.made /\ returned = "none"
      /\ stage' = "opened"
      /\ UNCHANGED <<relayVars, kind, local, localFault, returned, cancelled>>
  BY DEF Open, RequestInv, Stage
<1>2. /\ answer' \in {"accepted", "rejected", "error"}
      /\ answer' = "rejected" => kind \in {"finish", "upload"}
      /\ kind = "start" => answer' = "accepted"
  BY DEF Open
<1>3. TypeOK'
  BY <1>1, <1>2 DEF RequestInv, TypeOK, RelayTypeOK, relayVars
<1>4. Stage' /\ Answered' /\ Kind'
  BY <1>1, <1>2 DEF Stage, Answered, Kind, Accepted, relayVars
<1>5. Stored'
  BY <1>1 DEF RequestInv, Stored, Answered, Accepted, relayVars
<1> QED
  BY <1>1, <1>3, <1>4, <1>5, MovesOn

LEMMA RefusedKeeps == RequestInv /\ Refused => RequestInv'
<1> SUFFICES ASSUME RequestInv, Refused PROVE RequestInv'
  OBVIOUS
<1>1. /\ stage = "opened" /\ phase = "idle" /\ ~completion.made /\ returned = "none"
      /\ answer # "none"
  BY DEF Refused, RequestInv, Stage, Answered
<1>2. CASE answer = "error" /\ HandOff("brief", "last")
  BY <1>1, <1>2, HandOffKeeps DEF RequestInv, Kind
<1>3. CASE answer = "error" /\ kind \in {"list", "upload"} /\ Return("error")
           /\ localFault' = TRUE /\ UNCHANGED <<local, answer>>
  <2>1. MayReturn("error", local, TRUE)
    BY <1>1, <1>3 DEF MayReturn
  <2> QED
    BY <1>1, <1>3, <2>1, ReturnKeeps DEF RequestInv, TypeOK
<1>4. CASE kind = "finish" /\ answer = "rejected" /\ Return("rejected")
           /\ UNCHANGED <<local, localFault, answer>>
  <2>1. MayReturn("rejected", local, localFault)
    BY <1>1, <1>4 DEF MayReturn
  <2> QED
    BY <1>1, <1>4, <2>1, ReturnKeeps DEF RequestInv, TypeOK
<1> QED
  BY <1>2, <1>3, <1>4 DEF Refused

LEMMA ApplyKeeps == RequestInv /\ Apply => RequestInv'
<1> SUFFICES ASSUME RequestInv, Apply PROVE RequestInv'
  OBVIOUS
<1>1. /\ stage = "opened" /\ phase = "idle" /\ ~completion.made /\ returned = "none"
      /\ Accepted /\ answer # "none" /\ kind \in Kinds
  BY DEF Apply, RequestInv, Stage, Answered, TypeOK
<1>2. After[kind] \in {"none", "pending", "active"}
  BY <1>1 DEF After, Kinds
<1>3. CASE localFault' = TRUE /\ Return("error")
  <2>1. local' \in {local, After[kind]} /\ UNCHANGED answer
    BY <1>1, <1>3 DEF Apply, Return
  <2>2. MayReturn("error", local', TRUE)
    BY <1>1 DEF MayReturn
  <2> QED
    BY <1>1, <1>2, <1>3, <2>1, <2>2, ReturnKeeps DEF RequestInv, TypeOK
<1>4. CASE ~(localFault' = TRUE /\ Return("error"))
  <2>1. /\ local' = After[kind] /\ stage' = "applied"
        /\ UNCHANGED <<relayVars, kind, localFault, answer, returned, cancelled>>
    BY <1>4 DEF Apply
  <2>2. TypeOK'
    BY <1>2, <2>1 DEF RequestInv, TypeOK, RelayTypeOK, relayVars
  <2>3. Stage' /\ Answered' /\ Kind'
    BY <1>1, <2>1 DEF RequestInv, Stage, Answered, Kind, Accepted, relayVars
  <2>4. Stored'
    BY <1>1, <2>1 DEF Stored, Accepted, relayVars
  <2> QED
    BY <1>1, <2>1, <2>2, <2>3, <2>4, MovesOn
<1> QED
  BY <1>3, <1>4

LEMMA AbortingKeeps ==
  ASSUME RequestInv, stage \in {"applied", "complete"}, kind = "start", phase = "idle", stage' = "abort",
         UNCHANGED <<relayVars, kind, local, localFault, answer, returned, cancelled>>
  PROVE  RequestInv'
<1>1. returned = "none" /\ answer # "none"
  BY DEF RequestInv, Stage, Answered
<1>2. TypeOK'
  BY DEF RequestInv, TypeOK, RelayTypeOK, relayVars
<1>3. Stage' /\ Answered' /\ Kind'
  BY <1>1 DEF RequestInv, Stage, Answered, Kind, Accepted, relayVars
<1>4. Stored'
  BY <1>1 DEF RequestInv, Stored, Accepted, relayVars
<1> QED
  BY <1>1, <1>2, <1>3, <1>4, MovesOn

LEMMA CompleteKeeps == RequestInv /\ Complete => RequestInv'
<1> SUFFICES ASSUME RequestInv, Complete PROVE RequestInv'
  OBVIOUS
<1>1. /\ stage = "applied" /\ phase = "idle" /\ ~completion.made /\ returned = "none"
      /\ Accepted /\ answer # "none" /\ kind \in Kinds
  BY DEF Complete, RequestInv, Stage, Answered, TypeOK
<1>2. CASE kind = "start" /\ cancelled
  <2>1. stage' = "abort" /\ UNCHANGED <<relayVars, kind, local, localFault, answer, returned, cancelled>>
    BY <1>2 DEF Complete
  <2> QED
    BY <1>1, <1>2, <2>1, AbortingKeeps
<1>3. CASE kind \in {"list", "finish"} /\ cancelled
  <2>1. HandOff("brief", "last")
    BY <1>3 DEF Complete
  <2> QED
    BY <1>1, <1>3, <2>1, HandOffKeeps
<1>4. CASE kind \in {"upload", "remove"} /\ cancelled
  <2>1. Return(Reported(answer)) /\ UNCHANGED <<local, localFault, answer>>
    BY <1>4 DEF Complete
  <2>2. Reported(answer) \in {"ok", "rejected"}
    BY <1>1 DEF Reported, Accepted
  <2>3. MayReturn(Reported(answer), local, localFault)
    BY <1>1, <1>4, <2>2 DEF MayReturn
  <2> QED
    BY <1>1, <2>1, <2>2, <2>3, ReturnKeeps DEF RequestInv, TypeOK
<1>5. CASE kind \in {"upload", "remove"} /\ ~cancelled
  <2>1. HandOff("brief", "handoff")
    BY <1>5 DEF Complete
  <2> QED
    BY <1>1, <1>5, <2>1, HandOffKeeps
<1>6. CASE kind \in {"start", "list", "finish"} /\ ~cancelled
  <2>1. HandOff("normal", "complete")
    BY <1>6 DEF Complete
  <2> QED
    BY <1>1, <1>6, <2>1, HandOffKeeps
<1> QED
  BY <1>1, <1>2, <1>3, <1>4, <1>5, <1>6 DEF Kinds

LEMMA CompletedKeeps == RequestInv /\ Completed => RequestInv'
<1> SUFFICES ASSUME RequestInv, Completed PROVE RequestInv'
  OBVIOUS
<1>1. /\ stage \in {"complete", "handoff", "last"} /\ phase = "idle" /\ completion.made
      /\ returned = "none" /\ answer # "none"
  BY DEF Completed, RequestInv, Stage, Answered
<1>2. CASE stage = "complete" /\ AbortsPending
  BY <1>1, <1>2, AbortingKeeps DEF Completed, AbortsPending
<1>3. CASE stage = "complete" /\ ~AbortsPending
  <2>1. PICK r \in {"ok", "error"} :
           /\ Return(r) /\ UNCHANGED <<local, localFault, answer>>
           /\ r = "ok" => result = "handedOff"
           /\ r = "error" => kind = "list" \/ result # "handedOff"
    BY <1>3 DEF Completed
  <2>2. /\ kind \in {"start", "list", "finish"}
        /\ kind = "start" => local = "pending"
    BY <1>1, <1>3 DEF RequestInv, Kind, Stored, Answered, After, Kinds
  <2>3. r = "ok" => relay.completion # "absent"
    BY <2>1 DEF RequestInv, ExchangeInv, Record
  <2>4. kind = "start" => r = "ok"
    BY <1>3, <2>1 DEF AbortsPending
  <2>5. MayReturn(r, local, localFault)
    BY <1>1, <2>2, <2>3, <2>4 DEF MayReturn
  <2> QED
    BY <1>1, <2>1, <2>5, ReturnKeeps DEF RequestInv, TypeOK
<1>4. CASE stage \in {"handoff", "last"}
  <2>1. PICK r \in {Reported(answer), "error"} :
           /\ Return(r) /\ UNCHANGED <<local, localFault, answer>>
           /\ r = "error" => r = Reported(answer) \/ kind = "list"
    BY <1>4 DEF Completed
  <2>2. r \in {"ok", "rejected", "error"}
    BY <1>1 DEF Reported, RequestInv, TypeOK
  <2>3. kind # "start"
    BY <1>4 DEF RequestInv, Kind
  <2>4. r = "ok" => answer = "accepted"
    BY <1>1 DEF Reported, RequestInv, TypeOK
  <2>5. r = "ok" /\ kind \in {"list", "finish"} /\ ~cancelled => FALSE
    BY <1>4, <2>4 DEF RequestInv, Answered, Kind
  <2>6. MayReturn(r, local, localFault)
    BY <2>1, <2>2, <2>3, <2>5 DEF MayReturn
  <2> QED
    BY <1>1, <2>1, <2>2, <2>6, ReturnKeeps DEF RequestInv, TypeOK
<1> QED
  BY <1>1, <1>2, <1>3, <1>4

LEMMA AbortPendingKeeps == RequestInv /\ AbortPending => RequestInv'
<1> SUFFICES ASSUME RequestInv, AbortPending PROVE RequestInv'
  OBVIOUS
<1>1. stage = "abort" /\ phase = "idle" /\ kind = "start" /\ UNCHANGED answer
  BY DEF AbortPending, RequestInv, Stage, Kind
<1>2. /\ local' \in {"none", local} /\ localFault' \in BOOLEAN
      /\ ~localFault' => local' = "none"
  BY DEF AbortPending, RequestInv, TypeOK
<1>3. ASSUME NEW r \in {"error", "interrupted"}, Return(r) PROVE RequestInv'
  <2>1. MayReturn(r, local', localFault')
    BY <1>1, <1>2 DEF MayReturn
  <2> QED
    BY <1>1, <1>2, <1>3, <2>1, ReturnKeeps DEF RequestInv, TypeOK
<1> QED
  BY <1>3 DEF AbortPending

LEMMA CancelKeeps == RequestInv /\ Cancel => RequestInv'
<1> SUFFICES ASSUME RequestInv, Cancel PROVE RequestInv'
  OBVIOUS
<1>1. ExchangeInv'
  BY StutterKeeps DEF RequestInv, Cancel
<1>2. /\ returned = "none" /\ cancelled' = TRUE
      /\ UNCHANGED <<relayVars, kind, stage, local, localFault, answer, returned>>
  BY DEF Cancel, RequestInv, Stage
<1>3. TypeOK' /\ Stage' /\ Answered' /\ Kind' /\ Stored'
  BY <1>1, <1>2 DEF RequestInv, ExchangeInv, TypeOK, Stage, Answered, Kind, Stored, Accepted, relayVars
<1>4. Promised'
  BY <1>2 DEF Promised, PendingOnlyIfStarted, SuccessIsHandedOff, AnswerIsKept
<1> QED
  BY <1>1, <1>3, <1>4 DEF RequestInv

LEMMA RequestKeeps == RequestInv /\ [Next]_vars => RequestInv'
<1> SUFFICES ASSUME RequestInv, [Next]_vars PROVE RequestInv'
  OBVIOUS
<1>1. CASE UNCHANGED vars
  <2>1. ExchangeInv'
    BY <1>1, StutterKeeps DEF RequestInv, vars
  <2>2. TypeOK' /\ Stage' /\ Answered' /\ Kind' /\ Stored'
    BY <1>1, <2>1 DEF RequestInv, ExchangeInv, TypeOK, Stage, Answered, Kind, Stored, Accepted, vars,
       relayVars, owner
  <2>3. Promised'
    BY <1>1 DEF RequestInv, Promised, PendingOnlyIfStarted, SuccessIsHandedOff, AnswerIsKept, Reported,
       vars, relayVars, owner
  <2> QED
    BY <2>1, <2>2, <2>3 DEF RequestInv
<1>2. CASE OwnerStep
  BY <1>2, StartKeeps, DropPendingKeeps, DroppedKeeps, RequestFailsKeeps, OpenKeeps, RefusedKeeps,
     ApplyKeeps, CompleteKeeps, CompletedKeeps, AbortPendingKeeps DEF OwnerStep
<1>3. CASE FutureStep \/ Timeout \/ OutsideStep
  BY <1>3, ExchangeStepKeeps
<1> QED
  BY <1>1, <1>2, <1>3, CancelKeeps DEF Next, Ended

-----------------------------------------------------------------------------
(* Theorems *)

\* What exchange and operation keep together.
LEMMA RequestInvariant == Spec => []RequestInv
BY RequestStarts, RequestKeeps, PTL DEF Spec

\* The types of exchange and operation, with sequences of frames of any length.
THEOREM RequestTypeCorrect == Spec => []TypeOK
<1>1. RequestInv => TypeOK
  BY DEF RequestInv
<1> QED
  BY <1>1, RequestInvariant, PTL

\* A completion that the device can receive tells the truth about the local
\* pairing (pairing.rs finish_pairing and remove_pairing).
THEOREM CompletionsTellTheTruth == Spec => []CompletionTellsTheTruth
<1>1. RequestInv => CompletionTellsTheTruth
  <2> SUFFICES ASSUME RequestInv, CompletionIsOut PROVE completion.made
    BY DEF CompletionTellsTheTruth, RequestInv, Stored
  <2>1. ASSUME NEW q \in {toRelay, late} PROVE \A i \in DOMAIN q : q[i] \in Flushed
    BY ElementOfSeq DEF RequestInv, ExchangeInv, Frames
  <2> QED
    BY <2>1 DEF CompletionIsOut, Range, Flushed, Sendable, RequestInv, ExchangeInv, Record
<1> QED
  BY <1>1, RequestInvariant, PTL

\* Unless the file system fails, a pairing stays pending exactly when
\* start_pairing succeeds.
THEOREM PendingIsStarted == Spec => []PendingOnlyIfStarted
<1>1. RequestInv => PendingOnlyIfStarted
  BY DEF RequestInv, Promised
<1> QED
  BY <1>1, RequestInvariant, PTL

\* The relay has the completion of every start, list and finish that succeeds.
THEOREM SuccessesAreHandedOff == Spec => []SuccessIsHandedOff
<1>1. RequestInv => SuccessIsHandedOff
  BY DEF RequestInv, Promised
<1> QED
  BY <1>1, RequestInvariant, PTL

\* A cancellation does not lose an authenticated answer.
THEOREM AnswersAreKept == Spec => []AnswerIsKept
<1>1. RequestInv => AnswerIsKept
  BY DEF RequestInv, Promised
<1> QED
  BY <1>1, RequestInvariant, PTL
=============================================================================
