--------------------------- MODULE AgentConnection ---------------------------
(***************************************************************************)
(* One client connection of the SSH agent that an invocation service       *)
(* offers (ssh_agent.rs, and handle_agent_connection of                    *)
(* invocation_service.rs): packets of the client are handled one after the *)
(* other, on one upstream connection that is opened when it is first       *)
(* needed and given up at its first failure.                               *)
(*                                                                         *)
(* A packet is its number in the connection and its kind.  The upstream    *)
(* agent is external and can answer anything, late, or not at all.         *)
(***************************************************************************)
EXTENDS Naturals, Sequences, SequencesExt

CONSTANTS
  PacketKinds,  \* the packets that the client sends
  MaxPackets,   \* bound on their number
  Identities    \* the lists of keys that the upstream agent answers

AllKinds == {"identities", "signSelected", "signInvalid", "signOther", "query",
             "extension", "unknown"}

ASSUME PacketAssumption == PacketKinds \subseteq AllKinds /\ MaxPackets \in Nat
ASSUME IdentitiesAssumption == Identities \subseteq Seq(STRING)

VARIABLES
  supported,     \* whether the selected key can authenticate (key_kind)
  gone,          \* whether the client has closed its end
  taken,         \* how many packets were read
  kind,          \* the kind of the last one
  doing,         \* where the handler is suspended
  reply,         \* the last response, to be written or written
  upstream,      \* Upstream: unconnected, connected or unavailable
  upstreamOpen,  \* whether the upstream agent still serves the connection
  toUpstream,    \* the packets it has not read
  fromUpstream   \* its answers

upstreamVars == <<upstream, upstreamOpen, toUpstream, fromUpstream>>
agentVars == <<supported, gone, taken, kind, doing, reply, upstreamVars>>

Selected == "selected"

\* SelectedIdentity::from_openssh: only Ed25519 and RSA keys can authenticate.
KeyKinds == {TRUE, FALSE}

\* A response, the packet that its source has answered, and the keys it lists.
Response(source, of, keys) == [source |-> source, of |-> of, keys |-> keys]

\* What the upstream connection carries.
Forwarded == [of : 0..MaxPackets, kind : PacketKinds \cup {"none"}]
Answered == [valid : BOOLEAN, of : 0..MaxPackets]

AgentTypeOK ==
  /\ supported \in BOOLEAN /\ gone \in BOOLEAN /\ upstreamOpen \in BOOLEAN
  /\ taken \in 0..MaxPackets /\ kind \in PacketKinds \cup {"none"}
  /\ doing \in {"none", "read", "connect", "forward", "await", "authenticate",
                "write", "closed"}
  /\ reply.source \in {"none", "service", "upstream", "device"}
  /\ reply.of \in 0..MaxPackets
  /\ upstream \in {"unconnected", "connected", "unavailable"}
  /\ toUpstream \in Seq(Forwarded) /\ fromUpstream \in Seq(Answered)
  /\ upstream # "connected" => ~upstreamOpen /\ toUpstream = <<>> /\ fromUpstream = <<>>
  /\ doing = "connect" => upstream = "unconnected"

AgentInit ==
  /\ supported \in KeyKinds
  /\ gone = FALSE /\ taken = 0 /\ kind = "none" /\ doing = "none"
  /\ reply = Response("none", 0, <<>>)
  /\ upstream \in {"unconnected", "unavailable"}
  /\ upstreamOpen = FALSE /\ toUpstream = <<>> /\ fromUpstream = <<>>

-----------------------------------------------------------------------------
(* Routing *)

\* SelectedIdentity::route.  A request for the selected key is authenticated or
\* refused, whatever else it contains; one for another key is forwarded.
MutForwardInvalid(k) ==
  CASE k = "identities" -> "list"
    [] k = "signSelected" /\ supported -> "authenticate"
    [] k = "query" -> "query"
    [] k = "unknown" -> "refuse"
    [] OTHER -> "forward"
Route(k) ==
  CASE k = "identities" -> "list"
    [] k = "signSelected" /\ supported -> "authenticate"
    [] k \in {"signOther", "extension"} -> "forward"
    [] k = "query" -> "query"
    [] OTHER -> "refuse"

\* identities_response: the selected key first, if it can authenticate, and the
\* upstream keys in their order, each where it comes first and never the selected
\* one.  The list is a function of the positions that are left, 0 before them.
Listed(keys) ==
  LET others == {i \in DOMAIN keys :
                  keys[i] # Selected /\ \A j \in 1..(i - 1) : keys[j] # keys[i]}
  IN [i \in others \cup (IF supported THEN {0} ELSE {}) |->
       IF i = 0 THEN Selected ELSE keys[i]]

\* The response to the current packet when there is no upstream answer.
OwnResponse ==
  Response("service", taken, IF Route(kind) = "list" THEN Listed(<<>>) ELSE <<>>)

\* The response made from the upstream's answer to packet n.  A list or a query
\* whose answer is not valid is answered by the service.
MadeFrom(n) ==
  CASE Route(kind) = "list" ->
         {Response("upstream", n, Listed(keys)) : keys \in Identities} \cup {OwnResponse}
    [] Route(kind) = "query" -> {Response("upstream", n, <<>>), OwnResponse}
    [] OTHER -> {Response("upstream", n, <<>>)}

-----------------------------------------------------------------------------
(* The handler *)

\* The connection to the upstream agent is dropped for good.
DropUpstream ==
  /\ upstream' = "unavailable" /\ upstreamOpen' = FALSE
  /\ toUpstream' = <<>> /\ fromUpstream' = <<>>

\* The handler ends, and its future with the upstream connection is dropped.
Close == doing' = "closed" /\ DropUpstream /\ UNCHANGED <<supported, gone, taken, kind, reply>>

\* read_packet, and the first step of handle.  What the client had sent may be
\* read after the client has left.
ReadPacket ==
  /\ doing = "read" /\ taken < MaxPackets
  /\ taken' = taken + 1 /\ kind' \in PacketKinds
  /\ CASE Route(kind') = "refuse" -> doing' = "write" /\ reply' = Response("service", taken', <<>>)
       [] Route(kind') = "authenticate" -> doing' = "authenticate" /\ UNCHANGED reply
       [] OTHER -> /\ doing' = IF upstream = "unconnected" THEN "connect" ELSE "forward"
                   /\ UNCHANGED reply
  /\ UNCHANGED <<supported, gone, upstreamVars>>

\* The client has closed the connection, or sends a packet that is cut short.
ReadEnd == doing = "read" /\ gone /\ Close

ConnectUpstream ==
  /\ doing = "connect"
  /\ \/ upstream' = "connected" /\ upstreamOpen' = TRUE
     \/ upstream' = "unavailable" /\ UNCHANGED upstreamOpen
  /\ doing' = "forward"
  /\ UNCHANGED <<supported, gone, taken, kind, reply, toUpstream, fromUpstream>>

\* write_packet to the upstream.
Forward ==
  /\ doing = "forward" /\ upstream = "connected" /\ upstreamOpen
  /\ toUpstream' = Append(toUpstream, [of |-> taken, kind |-> kind])
  /\ doing' = "await"
  /\ UNCHANGED <<supported, gone, taken, kind, reply, upstream, upstreamOpen, fromUpstream>>

Unavailable ==
  /\ doing = "forward" /\ upstream = "unavailable"
  /\ reply' = OwnResponse /\ doing' = "write"
  /\ UNCHANGED <<supported, gone, taken, kind, upstreamVars>>

UpstreamAnswer ==
  /\ doing = "await" /\ fromUpstream # <<>> /\ Head(fromUpstream).valid
  /\ reply' \in MadeFrom(Head(fromUpstream).of)
  /\ fromUpstream' = Tail(fromUpstream)
  /\ doing' = "write"
  /\ UNCHANGED <<supported, gone, taken, kind, upstream, upstreamOpen, toUpstream>>

\* The packet cannot be written, its answer has an invalid length, or the
\* stream ends.
MutRetry ==
  /\ fromUpstream' = IF fromUpstream = <<>> THEN <<>> ELSE Tail(fromUpstream)
  /\ UNCHANGED <<upstream, upstreamOpen, toUpstream>>
GiveUp == DropUpstream

UpstreamFails ==
  /\ \/ doing = "forward" /\ upstream = "connected" /\ ~upstreamOpen
     \/ doing = "await" /\ fromUpstream = <<>> /\ ~upstreamOpen
     \/ doing = "await" /\ fromUpstream # <<>> /\ ~Head(fromUpstream).valid
  /\ GiveUp
  /\ reply' = OwnResponse /\ doing' = "write"
  /\ UNCHANGED <<supported, gone, taken, kind>>

\* request_ssh_authentication has returned a signature or an error.
Authenticated(source) ==
  /\ doing = "authenticate"
  /\ reply' = Response(source, taken, <<>>) /\ doing' = "write"
  /\ UNCHANGED <<supported, gone, taken, kind, upstreamVars>>

WriteReply ==
  /\ doing = "write" /\ ~gone
  /\ doing' = "read"
  /\ UNCHANGED <<supported, gone, taken, kind, reply, upstreamVars>>

WriteFails == doing = "write" /\ gone /\ Close

AgentStep ==
  \/ ReadPacket \/ ReadEnd \/ ConnectUpstream \/ Forward \/ Unavailable \/ UpstreamAnswer
  \/ UpstreamFails \/ WriteReply \/ WriteFails

-----------------------------------------------------------------------------
(* The client and the upstream agent (external) *)

ClientLeaves ==
  /\ ~gone /\ doing \notin {"none", "closed"}
  /\ gone' = TRUE
  /\ UNCHANGED <<supported, taken, kind, doing, reply, upstreamVars>>

\* The upstream answers in order.  What follows an invalid length in its stream
\* can look like an answer.
UpstreamServes ==
  /\ upstreamOpen /\ toUpstream # <<>>
  /\ LET answer == [valid |-> TRUE, of |-> Head(toUpstream).of]
     IN \/ fromUpstream' = Append(fromUpstream, answer)
        \/ fromUpstream' = fromUpstream \o <<[answer EXCEPT !.valid = FALSE], answer>>
  /\ toUpstream' = Tail(toUpstream)
  /\ UNCHANGED <<supported, gone, taken, kind, doing, reply, upstream, upstreamOpen>>

UpstreamLeaves ==
  /\ upstreamOpen
  /\ upstreamOpen' = FALSE /\ toUpstream' = <<>>
  /\ \E n \in 0..Len(fromUpstream) : fromUpstream' = SubSeq(fromUpstream, 1, n)
  /\ UNCHANGED <<supported, gone, taken, kind, doing, reply, upstream>>

PeerStep == ClientLeaves \/ UpstreamServes \/ UpstreamLeaves

-----------------------------------------------------------------------------
(* Properties *)

\* The response to a packet is made from an answer to that very packet: after a
\* failure in the middle of an upstream answer no later packet reads the rest of
\* it (ssh_agent.rs forward, which gives the connection up;
\* docs/command-execution.md:377, messages in order).
AnswersMatch == doing = "write" => reply.of = taken

\* Nobody but the device uses the selected key: no packet that names it reaches
\* the upstream agent or is answered by it, and lists show it once, first, and
\* only if it can authenticate, whatever the upstream agent lists
\* (ssh_agent.rs route and identities_response;
\* docs/command-execution.md:349, the selected key cannot bypass Agentknock).
SelectedStaysHere ==
  /\ \A i \in 1..Len(toUpstream) : toUpstream[i].kind \notin {"signSelected", "signInvalid"}
  /\ doing = "write" =>
       /\ reply.source = "device" => kind = "signSelected"
       /\ reply.source = "upstream" => kind \notin {"signSelected", "signInvalid"}
       /\ kind = "identities" =>
            {j \in DOMAIN reply.keys : reply.keys[j] = Selected} =
              IF supported THEN {0} ELSE {}
=============================================================================
