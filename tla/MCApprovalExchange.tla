------------------------- MODULE MCApprovalExchange -------------------------
(* Instances of ApprovalExchange for TLC. *)
EXTENDS ApprovalExchange

\* The retry policies of websocket.rs, the normal maximum cut from 10 to 3.
Retrying == "normal" :> 3 @@ "brief" :> 2
=============================================================================
