---------------------------- MODULE ClientRequest ----------------------------
(***************************************************************************)
(* The client's operations that need no approval: start, finish and remove *)
(* a pairing (pairing.rs), list and upload secrets (secrets.rs).  Each owns *)
(* one relay exchange, and each orders three things differently: the       *)
(* change of the local pairing, the handoff of the completion and the      *)
(* answer to a cancellation.                                               *)
(*                                                                         *)
(* local is the state of the pairing file as this operation sees it; its   *)
(* locks, its crashes and the PSK rotation are module Pairing's.  What a   *)
(* concurrent process does to the file shows here as a local failure.      *)
(***************************************************************************)
EXTENDS RelayExchange

VARIABLES
  kind,       \* the operation
  stage,      \* which await or step of it is next
  local,      \* the local pairing
  localFault, \* whether a change of the pairing file failed
  answer,     \* the authenticated answer of the device
  returned,   \* what the operation returned
  cancelled   \* whether the cancellation future has resolved

owner == <<kind, stage, local, localFault, answer, returned, cancelled>>
vars == <<relayVars, owner>>

Kinds == {"start", "finish", "remove", "list", "upload"}
Before == [k \in Kinds |-> CASE k = "start" -> "none" [] k = "finish" -> "pending"
                             [] OTHER -> "active"]
After == [k \in Kinds |-> CASE k = "start" -> "pending" [] k = "remove" -> "none"
                            [] OTHER -> "active"]

TypeOK ==
  /\ RelayTypeOK
  /\ kind \in Kinds
  /\ stage \in {"start", "request", "opened", "applied", "complete", "handoff",
                "dropped", "last", "abort", "returned"}
  /\ local \in {"none", "pending", "active"} /\ localFault \in BOOLEAN
  /\ answer \in {"none", "accepted", "rejected", "error"}
  /\ returned \in {"none", "ok", "rejected", "error", "interrupted"}
  /\ cancelled \in BOOLEAN

Init ==
  /\ RelayInit
  /\ kind \in Kinds /\ stage = "start" /\ local = Before[kind] /\ localFault = FALSE
  /\ answer = "none" /\ returned = "none" /\ cancelled = FALSE

-----------------------------------------------------------------------------

\* The operation returns r and drops its relay exchange with the socket.
Return(r) ==
  /\ stage' = "returned" /\ returned' = r
  /\ DropSocket
  /\ UNCHANGED <<future, messages, kind, cancelled>>

MutUnbounded(p, s) ==
  /\ BeginComplete("normal")
  /\ stage' = s
  /\ UNCHANGED <<kind, local, localFault, answer, returned, cancelled>>
HandOff(p, s) ==
  /\ BeginComplete(p)
  /\ stage' = s
  /\ UNCHANGED <<kind, local, localFault, answer, returned, cancelled>>

Cancel ==
  /\ stage # "returned" /\ ~cancelled
  /\ cancelled' = TRUE
  /\ UNCHANGED <<relayVars, kind, stage, local, localFault, answer, returned>>

\* The first select polls the cancellation before the request.
Start ==
  /\ stage = "start"
  /\ \/ cancelled /\ Return("interrupted") /\ UNCHANGED <<local, localFault, answer>>
     \/ ~cancelled /\ BeginRequest /\ stage' = "request"
          /\ UNCHANGED <<kind, local, localFault, answer, returned, cancelled>>

\* A select drops its pending future once the cancellation has resolved.
DropPending ==
  /\ cancelled
  /\ stage \in {"request", "complete", "handoff"}
  /\ DropFuture
  /\ stage' = IF stage = "complete" /\ kind = "start" THEN "abort" ELSE "dropped"
  /\ UNCHANGED <<kind, local, localFault, answer, returned, cancelled>>

\* What the operation returns once the device has answered.
Reported(a) == CASE a = "accepted" -> "ok" [] OTHER -> a

\* What a dropped future leaves to do: an unanswered operation is interrupted;
\* list and finish hand off briefly; upload and remove are done.
MutForgets ==
  /\ stage = "dropped" /\ Return("interrupted")
  /\ UNCHANGED <<local, localFault, answer>>
Dropped ==
  /\ stage = "dropped"
  /\ IF kind \in {"list", "finish"} /\ answer # "none" THEN HandOff("brief", "last")
     ELSE /\ Return(IF answer = "none" THEN "interrupted" ELSE Reported(answer))
          /\ UNCHANGED <<local, localFault, answer>>

\* request() fails, or its response cannot be opened or decoded.  Unlike an
\* approval, nothing is sent to the device.
RequestFails ==
  /\ stage = "request" /\ phase = "idle"
  /\ Return("error")
  /\ UNCHANGED <<local, localFault, answer>>

\* The response is authenticated.  The answer to a pairing request is clear and
\* cannot be refused; finish and upload can be.  A device error is aborted.
Open ==
  /\ stage = "request" /\ phase = "idle" /\ result = "response"
  /\ answer' \in CASE kind = "start" -> {"accepted"}
                   [] kind \in {"finish", "upload"} -> {"accepted", "rejected", "error"}
                   [] OTHER -> {"accepted", "error"}
  /\ stage' = "opened"
  /\ UNCHANGED <<relayVars, kind, local, localFault, returned, cancelled>>

\* reject_device_error, unless the rotation key cannot be cleared, and the
\* rejection of finish, which has no completion.
Refused ==
  /\ stage = "opened"
  /\ \/ answer = "error" /\ HandOff("brief", "last")
     \/ answer = "error" /\ kind \in {"list", "upload"} /\ Return("error")
          /\ localFault' = TRUE /\ UNCHANGED <<local, answer>>
     \/ kind = "finish" /\ answer = "rejected" /\ Return("rejected")
          /\ UNCHANGED <<local, localFault, answer>>

\* The local pairing changes before its completion is handed off: pending for
\* start, active for finish, gone for remove.  list and upload clear the
\* rotation key instead.  A failure can come after the file was replaced.
Accepted == answer = "accepted" \/ (kind = "upload" /\ answer = "rejected")

MutNotYet ==
  /\ stage = "opened" /\ Accepted
  /\ stage' = "applied"
  /\ UNCHANGED <<relayVars, kind, local, localFault, answer, returned, cancelled>>
Apply ==
  /\ stage = "opened" /\ Accepted
  /\ \/ /\ local' = After[kind]
        /\ stage' = "applied"
        /\ UNCHANGED <<relayVars, kind, localFault, answer, returned, cancelled>>
     \/ /\ local' \in {local, After[kind]}
        /\ localFault' = TRUE
        /\ Return("error")
        /\ UNCHANGED answer

\* The second select polls the cancellation before the completion.
Complete ==
  /\ stage = "applied"
  /\ CASE kind = "start" /\ cancelled ->
            /\ stage' = "abort"
            /\ UNCHANGED <<relayVars, kind, local, localFault, answer, returned, cancelled>>
       [] kind \in {"list", "finish"} /\ cancelled -> HandOff("brief", "last")
       [] kind \in {"upload", "remove"} /\ cancelled ->
            Return(Reported(answer)) /\ UNCHANGED <<local, localFault, answer>>
       [] kind \in {"upload", "remove"} /\ ~cancelled -> HandOff("brief", "handoff")
       [] OTHER -> HandOff("normal", "complete")

\* The completion has ended.  Only start, list and finish report its failure,
\* and start then removes the pending pairing.  A list can still be malformed, also
\* after a cancellation.
MutOnlyCancelled == kind = "start" /\ result = "cancelled"
AbortsPending == kind = "start" /\ result # "handedOff"

Completed ==
  /\ phase = "idle"
  /\ \/ /\ stage = "complete"
        /\ IF AbortsPending
           THEN /\ stage' = "abort"
                /\ UNCHANGED <<relayVars, kind, local, localFault, answer, returned, cancelled>>
           ELSE /\ \/ Return(IF result = "handedOff" THEN "ok" ELSE "error")
                   \/ kind = "list" /\ Return("error")
                /\ UNCHANGED <<local, localFault, answer>>
     \/ /\ stage \in {"handoff", "last"}
        /\ Return(Reported(answer)) \/ (kind = "list" /\ Return("error"))
        /\ UNCHANGED <<local, localFault, answer>>

\* start_pairing removes its pending pairing and ignores a failure to do so.
AbortPending ==
  /\ stage = "abort"
  /\ \/ local' = "none" /\ UNCHANGED localFault
     \/ UNCHANGED local /\ localFault' = TRUE
  /\ Return(IF completion.made /\ result # "cancelled" THEN "error" ELSE "interrupted")
  /\ UNCHANGED answer

OwnerStep ==
  \/ Start \/ DropPending \/ Dropped \/ RequestFails \/ Open \/ Refused \/ Apply
  \/ Complete \/ Completed \/ AbortPending

FutureStep == ClientStep /\ UNCHANGED owner
Timeout == BriefTimeout /\ UNCHANGED owner
OutsideStep == (RelayStep \/ DeviceStep \/ FaultStep) /\ UNCHANGED owner

Ended == stage = "returned" /\ UNCHANGED vars

Next == Cancel \/ OwnerStep \/ FutureStep \/ Timeout \/ OutsideStep \/ Ended

\* The executor polls a woken future, and the timeout of a brief completion
\* fires; nothing is assumed of the relay and the device.
Spec ==
  /\ Init /\ [][Next]_vars
  /\ WF_vars(OwnerStep) /\ WF_vars(FutureStep) /\ WF_vars(Timeout)

-----------------------------------------------------------------------------
(* Properties *)

CompletionIsOut == relay.completion # "absent" \/ "completion" \in Range(toRelay) \cup Range(late)

\* A completion that the device can receive tells the truth about the client:
\* after finish the local pairing is active, after remove it is gone, and a
\* completion that aborts leaves it as it was, whatever failed or was cancelled
\* in between (pairing.rs finish_pairing and remove_pairing, which change the
\* file before they hand off; docs/client-device-protocol.md:293, :905).
CompletionTellsTheTruth ==
  (CompletionIsOut /\ kind \in {"finish", "remove"}) =>
    local = IF answer = "accepted" THEN After[kind] ELSE Before[kind]

\* A pairing stays pending exactly when start_pairing returned its SAS, unless
\* the file system failed: a failed handoff and a cancellation at any point
\* remove what the operation stored (pairing.rs:60, "removes any pending state
\* it created").
PendingOnlyIfStarted ==
  (kind = "start" /\ returned # "none" /\ ~localFault) =>
    (local = "pending" <=> returned = "ok")

\* Success of start, and of list and finish unless cancelled, means that the
\* relay has taken the completion, on whichever connection (pairing.rs
\* start_pairing, websocket.rs complete_or_cancel).  Whether the device gets it
\* is another matter (docs/client-relay-protocol.md:251).
SuccessIsHandedOff ==
  /\ returned = "ok"
  /\ kind = "start" \/ (kind \in {"list", "finish"} /\ ~cancelled)
  => relay.completion # "absent"

\* An authenticated answer is not lost to a cancellation: nothing but start is
\* interrupted after it, and upload and remove report it however their handoff
\* ended (secrets.rs:154, :211; pairing.rs:257, cancellation only shortens
\* the handoff).
AnswerIsKept ==
  (answer # "none" /\ kind # "start" /\ returned # "none") =>
    /\ returned # "interrupted"
    /\ (kind \in {"upload", "remove"} /\ ~localFault) => returned = Reported(answer)

\* A cancelled operation returns, even if relay and device never answer: the
\* handoffs that cannot be cancelled are brief.
CancelledReturns == cancelled ~> stage = "returned"
=============================================================================
