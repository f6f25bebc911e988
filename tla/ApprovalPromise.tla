-------------------------- MODULE ApprovalPromise --------------------------
(***************************************************************************)
(* What an approval is, without connections, frames, retries and futures:  *)
(* a request reaches the relay, the device answers it there, the client    *)
(* takes one decision for good, the relay learns of it, and the client     *)
(* returns.  An approval or a denial is one that the device answered and   *)
(* that the relay knows of, and no request is left without an outcome,     *)
(* not even one that arrives when the client has gone.                     *)
(***************************************************************************)
VARIABLES
  asked,     \* whether the relay has had the request
  answered,  \* whether the device has answered it
  decision,  \* what the client has made of it
  told,      \* whether the relay has had the completion
  returned   \* what the client returned

vars == <<asked, answered, decision, told, returned>>

Decisions == {"approved", "denied"}

Init ==
  /\ asked = FALSE /\ answered = FALSE /\ told = FALSE
  /\ decision = "none" /\ returned = "none"

\* The request arrives, late if need be, unless the client has gone in silence.
Ask ==
  /\ ~asked /\ asked' = TRUE
  /\ returned = "none" \/ decision # "none"
  /\ UNCHANGED <<answered, decision, told, returned>>

\* The device answers a request that has not been completed.
PeerAnswers ==
  /\ asked /\ ~answered /\ ~told /\ answered' = TRUE
  /\ UNCHANGED <<asked, decision, told, returned>>

\* The client decides once: what the device answered, or to abort.
Decide ==
  /\ returned = "none" /\ decision = "none"
  /\ decision' \in Decisions \cup {"aborted"}
  /\ decision' \in Decisions => answered
  /\ UNCHANGED <<asked, answered, told, returned>>

\* The completion arrives, behind its request.
Tell ==
  /\ asked /\ decision # "none" /\ ~told /\ told' = TRUE
  /\ UNCHANGED <<asked, answered, decision, returned>>

Return ==
  /\ returned = "none" /\ returned' \in Decisions \cup {"error", "interrupted"}
  /\ returned' \in Decisions => told /\ decision = returned'
  /\ asked => decision # "none"
  /\ UNCHANGED <<asked, answered, decision, told>>

Next == Ask \/ PeerAnswers \/ Decide \/ Tell \/ Return

Spec == Init /\ [][Next]_vars

-----------------------------------------------------------------------------

\* What client, relay and device can rely on: a decision was made by the
\* device and the relay has it, the relay knows no completion without its
\* request, and a request that nobody waits for has been decided
\* (docs/client-device-protocol.md:20-31).
Agreed ==
  /\ returned \in Decisions => answered /\ told /\ decision = returned
  /\ decision \in Decisions => answered
  /\ told => asked /\ decision # "none"
  /\ asked /\ returned # "none" => decision # "none"
=============================================================================
