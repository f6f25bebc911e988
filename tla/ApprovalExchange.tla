-------------------------- MODULE ApprovalExchange --------------------------
(***************************************************************************)
(* Client::approval_exchange (exchange.rs): the owner of one relay         *)
(* exchange.  It requests an approval, decides the outcome, reports that   *)
(* outcome in a completion, and can be cancelled at every point.           *)
(*                                                                         *)
(* Session and pairing are left out: the pairing file is module Pairing's. *)
(***************************************************************************)
EXTENDS RelayExchange

VARIABLES
  stage,     \* which await of approval_exchange is running
  outcome,   \* the outcome sealed in the completion
  returned,  \* what approval_exchange returned
  cancelled  \* whether the cancellation future has resolved

vars == <<relayVars, stage, outcome, returned, cancelled>>

Stages == {"start", "request", "interrupted", "failed", "failedAbort", "deviceError",
           "answered", "complete", "lastCompletion", "returned"}
Outcomes == {"none", "approved", "denied", "aborted"}

TypeOK ==
  /\ RelayTypeOK
  /\ stage \in Stages
  /\ outcome \in Outcomes
  /\ returned \in {"none", "approved", "denied", "error", "interrupted"}
  /\ cancelled \in BOOLEAN

Init ==
  /\ RelayInit
  /\ stage = "start" /\ outcome = "none" /\ returned = "none" /\ cancelled = FALSE

-----------------------------------------------------------------------------

\* approval_exchange returns r and drops the relay exchange with its socket.
Return(r) ==
  /\ stage' = "returned" /\ returned' = r
  /\ DropSocket
  /\ UNCHANGED <<future, messages, outcome, cancelled>>

\* The completion is sealed once and handed off under policy p.
HandOff(p, o, s) ==
  /\ BeginComplete(p)
  /\ stage' = s /\ outcome' = o
  /\ UNCHANGED <<returned, cancelled>>

Cancel ==
  /\ stage # "returned" /\ ~cancelled
  /\ cancelled' = TRUE
  /\ UNCHANGED <<relayVars, stage, outcome, returned>>

\* The first select polls the cancellation before the request.
Start ==
  /\ stage = "start"
  /\ \/ cancelled /\ Return("interrupted")
     \/ ~cancelled /\ BeginRequest /\ stage' = "request"
          /\ UNCHANGED <<outcome, returned, cancelled>>

\* A select drops the pending request, or completion, once it is cancelled.
DropPending ==
  /\ cancelled
  /\ stage \in {"request", "complete", "failedAbort"}
  /\ DropFuture
  /\ stage' = "interrupted"
  /\ UNCHANGED <<outcome, returned, cancelled>>

\* RelayExchange::request_was_sent.
MutAcknowledged == request.acked
RequestWasSent == request.sent

\* The policy of the handoff that follows a cancellation.
MutPatient == "normal"
LastPolicy == "brief"

\* After a cancellation the device gets one brief handoff: of the abort if the
\* request was sent, of the completion that was pending otherwise.
Interrupt ==
  /\ stage = "interrupted"
  /\ IF completion.made THEN HandOff(LastPolicy, outcome, "lastCompletion")
     ELSE \/ RequestWasSent /\ HandOff(LastPolicy, "aborted", "lastCompletion")
          \/ ~RequestWasSent /\ Return("interrupted")

\* request() fails, or its response cannot be decoded.
RequestFails ==
  /\ stage = "request" /\ phase = "idle"
  /\ stage' = "failed"
  /\ UNCHANGED <<relayVars, outcome, returned, cancelled>>

\* A failed request is aborted briefly, with or without a cancellation.
Abort ==
  /\ stage = "failed"
  /\ HandOff("brief", "aborted", IF cancelled THEN "lastCompletion" ELSE "failedAbort")

\* The response is a device error, whose abort cannot be cancelled, or a
\* decision.  A response that is invalid, or that cannot be processed, aborts.
Respond ==
  /\ stage = "request" /\ phase = "idle" /\ result = "response"
  /\ \/ HandOff("brief", "aborted", "deviceError")
     \/ /\ stage' = "answered"
        /\ outcome' \in {"approved", "denied", "aborted"}
        /\ UNCHANGED <<relayVars, returned, cancelled>>

\* complete_or_cancel polls the cancellation before the completion.
MutAborts ==
  /\ stage = "answered"
  /\ IF cancelled THEN HandOff(LastPolicy, "aborted", "lastCompletion")
                  ELSE HandOff("normal", outcome, "complete")
Complete ==
  /\ stage = "answered"
  /\ IF cancelled THEN HandOff(LastPolicy, outcome, "lastCompletion")
                  ELSE HandOff("normal", outcome, "complete")

\* The last await has ended.
Completed ==
  /\ phase = "idle"
  /\ \/ /\ stage = "complete"
        /\ Return(CASE result # "handedOff" -> "error"
                    [] outcome = "aborted" -> "error"
                    [] OTHER -> outcome)
     \/ stage \in {"failedAbort", "deviceError"} /\ Return("error")
     \/ stage = "lastCompletion" /\ Return("interrupted")

DriverStep ==
  \/ Start \/ DropPending \/ Interrupt \/ RequestFails \/ Abort \/ Respond
  \/ Complete \/ Completed

\* The steps of the exchange go on while approval_exchange runs; the relay and
\* the device do not depend on it.
FutureStep == ClientStep /\ UNCHANGED <<stage, outcome, returned, cancelled>>
Timeout == BriefTimeout /\ UNCHANGED <<stage, outcome, returned, cancelled>>
OutsideStep ==
  (RelayStep \/ DeviceStep \/ FaultStep) /\ UNCHANGED <<stage, outcome, returned, cancelled>>

\* Nothing is left to do.
Ended == stage = "returned" /\ UNCHANGED vars

Next == Cancel \/ DriverStep \/ FutureStep \/ Timeout \/ OutsideStep \/ Ended

Spec == Init /\ [][Next]_vars

\* The executor polls a woken future, and the timeout of a brief completion
\* fires; nothing is assumed of the relay and the device.
ClientFairness == WF_vars(DriverStep) /\ WF_vars(FutureStep) /\ WF_vars(Timeout)

\* The relay answers what reaches it.
RelayFairness == WF_vars(RelayStep /\ UNCHANGED <<stage, outcome, returned, cancelled>>)

FairSpec == Spec /\ ClientFairness

-----------------------------------------------------------------------------
(* Properties *)

\* A completion never overtakes its request: the relay acknowledges, discards
\* and forgets the completion of an exchange it does not know, and the device
\* would be left with a request that nobody waits for
\* (websocket.rs complete_with_policy, which waits for the request's
\* acknowledgement on every path, after any reconnection or cancellation).
CompletionFollowsRequest ==
  "completion" \in Range(toRelay) \cup Range(late) => relay.request # "absent"

\* The client never leaves without a word an exchange whose request the relay
\* has or will have: a cancelled or failed exchange that returned has prepared
\* a completion (exchange.rs, request_was_sent).
NeverSilent ==
  returned # "none" /\ (relay.request # "absent" \/ "request" \in Range(late)) =>
    completion.made

\* A completion future that reads from a live connection waits for something
\* that can come: its completion is under way, recorded or answered
\* (websocket.rs complete_with_policy; docs/client-relay-protocol.md:222, the
\* origin sends its message again after reconnecting).
WaitsForAnswer ==
  phase = "complete" /\ at = "receive" /\ link = "up" /\ request.acked =>
    \/ "completion" \in Range(outbox) \cup Range(toRelay)
    \/ relay.completion # "absent"
    \/ \E i \in 1..Len(toClient) : toClient[i].type \in {"retry", "fatal", "inactive"}

\* The same while no future has been dropped during a flush: with futures that
\* are dropped only where they connect or read, a completion is sent on every
\* connection that needs it (websocket.rs complete_with_policy).
WaitsUnlessCut == ~cut => WaitsForAnswer

\* The exchange keeps the promise of an approval, whatever happens to its
\* connections and futures: after a terminal response no cancellation and no
\* failure changes the outcome, and the caller gets a decision only if device
\* and relay agree on it (exchange.rs approval_exchange;
\* docs/client-device-protocol.md:661, later cancellation does not change the
\* completion result).
Promise == INSTANCE ApprovalPromise WITH
  asked    <- relay.request # "absent",
  answered <- relay.response # "absent",
  decision <- outcome,
  told     <- relay.completion # "absent"
KeepsPromise == Promise!Spec

\* A cancelled exchange returns, even if relay and device never answer
\* (exchange.rs: every wait after a cancellation is a brief completion).
CancelledReturns == cancelled ~> stage = "returned"

\* If the relay answers what reaches it, an exchange that got its response
\* returns without being cancelled: after the faults are over its completion
\* is handed off (websocket.rs complete_with_policy sends it on every new
\* connection).
AnsweredReturns == RelayFairness => (stage = "answered" ~> stage = "returned")
=============================================================================
