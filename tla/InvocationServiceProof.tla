----------------------- MODULE InvocationServiceProof -----------------------
(***************************************************************************)
(* Proofs about InvocationService, for every value, pipe, packets and set  *)
(* of features: its type invariant and its safety properties about the     *)
(* startup, the standard input, the owner, the exchanges and the answers   *)
(* of the agent connection.  They start with the connection by itself.     *)
(***************************************************************************)
EXTENDS InvocationService, SequenceTheorems, TLAPS

-----------------------------------------------------------------------------
(* One agent connection: its types, and the responses of its packets *)

\* What an owner of the connection does with it.
Accept ==
  /\ doing = "none" /\ doing' = "read"
  /\ UNCHANGED <<supported, gone, taken, kind, reply, upstreamVars>>

AgentMove ==
  \/ AgentStep \/ PeerStep \/ Close \/ Accept
  \/ \E source \in {"service", "device"} : Authenticated(source)

-----------------------------------------------------------------------------
(* Responses *)

LEMMA ResponseFields ==
  ASSUME NEW source, NEW of, NEW keys
  PROVE  /\ Response(source, of, keys).source = source
         /\ Response(source, of, keys).of = of
BY DEF Response

LEMMA OwnResponseFields == OwnResponse.source = "service" /\ OwnResponse.of = taken
BY ResponseFields DEF OwnResponse

LEMMA MadeFromFields ==
  ASSUME NEW n, NEW r \in MadeFrom(n)
  PROVE  \/ r.source = "upstream" /\ r.of = n
         \/ r.source = "service" /\ r.of = taken
<1>1. CASE Route(kind) = "list"
  BY <1>1, ResponseFields, OwnResponseFields DEF MadeFrom
<1>2. CASE Route(kind) = "query"
  BY <1>2, ResponseFields, OwnResponseFields DEF MadeFrom
<1>3. CASE Route(kind) \notin {"list", "query"}
  BY <1>3, ResponseFields DEF MadeFrom
<1> QED
  BY <1>1, <1>2, <1>3

-----------------------------------------------------------------------------
(* Types *)

LEMMA EmptyIsTyped == <<>> \in Seq(Forwarded) /\ <<>> \in Seq(Answered)
OBVIOUS

LEMMA AgentTypes == AgentTypeOK /\ [AgentMove]_agentVars => AgentTypeOK'
<1> SUFFICES ASSUME AgentTypeOK, [AgentMove]_agentVars PROVE AgentTypeOK'
  OBVIOUS
<1> USE DEF AgentTypeOK, upstreamVars
<1> USE PacketAssumption, EmptyIsTyped
<1>1. CASE AgentStep
  <2>1. CASE ReadPacket
    <3>1. CASE Route(kind') = "refuse"
      BY <2>1, <3>1, ResponseFields DEF ReadPacket
    <3>2. CASE Route(kind') # "refuse"
      BY <2>1, <3>2 DEF ReadPacket
    <3> QED
      BY <3>1, <3>2
  <2>2. CASE ReadEnd \/ WriteFails
    BY <2>2 DEF ReadEnd, WriteFails, Close, DropUpstream
  <2>3. CASE ConnectUpstream
    <3>1. UNCHANGED <<supported, gone, taken, kind, reply, toUpstream, fromUpstream>>
      BY <2>3 DEF ConnectUpstream
    <3>2. upstream = "unconnected" /\ doing' = "forward"
      BY <2>3 DEF ConnectUpstream
    <3>3. \/ upstream' = "connected" /\ upstreamOpen' = TRUE
          \/ upstream' = "unavailable" /\ upstreamOpen' = upstreamOpen
      BY <2>3 DEF ConnectUpstream
    <3>4. upstream' # "connected" => ~upstreamOpen'
      BY <3>2, <3>3, Zenon
    <3> QED
      BY <3>1, <3>2, <3>3, <3>4
  <2>4. CASE Forward
    <3>1. [of |-> taken, kind |-> kind] \in Forwarded
      BY DEF Forwarded
    <3> QED
      BY <2>4, <3>1 DEF Forward
  <2>5. CASE Unavailable
    BY <2>5, OwnResponseFields DEF Unavailable
  <2>6. CASE UpstreamAnswer
    <3>1. Head(fromUpstream) \in Answered
      BY <2>6 DEF UpstreamAnswer
    <3>2. reply'.source \in {"service", "upstream"} /\ reply'.of \in 0..MaxPackets
      BY <2>6, <3>1, MadeFromFields DEF UpstreamAnswer, Answered
    <3> QED
      BY <2>6, <3>2 DEF UpstreamAnswer
  <2>7. CASE UpstreamFails
    BY <2>7, OwnResponseFields DEF UpstreamFails, GiveUp, DropUpstream
  <2>8. CASE WriteReply
    BY <2>8 DEF WriteReply
  <2> QED
    BY <1>1, <2>1, <2>2, <2>3, <2>4, <2>5, <2>6, <2>7, <2>8 DEF AgentStep
<1>2. CASE PeerStep
  <2>1. CASE ClientLeaves
    BY <2>1 DEF ClientLeaves
  <2>2. CASE UpstreamServes
    <3> DEFINE answer == [valid |-> TRUE, of |-> Head(toUpstream).of]
    <3>1. Head(toUpstream) \in Forwarded
      BY <2>2 DEF UpstreamServes
    <3>2. answer \in Answered /\ [answer EXCEPT !.valid = FALSE] \in Answered
      BY <3>1 DEF Forwarded, Answered
    <3> HIDE DEF answer
    <3>3. fromUpstream' \in Seq(Answered)
      <4>1. <<[answer EXCEPT !.valid = FALSE], answer>> \in Seq(Answered)
        BY <3>2
      <4>2. \/ fromUpstream' = Append(fromUpstream, answer)
            \/ fromUpstream' = fromUpstream \o <<[answer EXCEPT !.valid = FALSE], answer>>
        BY <2>2 DEF UpstreamServes, answer
      <4>3. CASE fromUpstream' = Append(fromUpstream, answer)
        BY <3>2, <4>3, AppendProperties
      <4>4. CASE fromUpstream' = fromUpstream \o <<[answer EXCEPT !.valid = FALSE], answer>>
        BY <4>1, <4>4, ConcatProperties
      <4> QED
        BY <4>2, <4>3, <4>4
    <3>4. toUpstream' \in Seq(Forwarded)
      BY <2>2 DEF UpstreamServes
    <3> QED
      BY <2>2, <3>3, <3>4 DEF UpstreamServes
  <2>3. CASE UpstreamLeaves
    <3>1. fromUpstream' \in Seq(Answered)
      BY <2>3 DEF UpstreamLeaves
    <3> QED
      BY <2>3, <3>1 DEF UpstreamLeaves
  <2> QED
    BY <1>2, <2>1, <2>2, <2>3 DEF PeerStep
<1>3. CASE Close
  BY <1>3 DEF Close, DropUpstream
<1>4. CASE Accept
  BY <1>4 DEF Accept
<1>5. ASSUME NEW source \in {"service", "device"}, Authenticated(source) PROVE AgentTypeOK'
  BY <1>5, ResponseFields DEF Authenticated
<1>6. CASE UNCHANGED agentVars
  BY <1>6 DEF agentVars
<1> QED
  BY <1>1, <1>2, <1>3, <1>4, <1>5, <1>6 DEF AgentMove

-----------------------------------------------------------------------------
(* Packets and answers *)

\* While the handler awaits an answer, the upstream connection holds nothing but
\* the current packet or what was made of it, and an answer that is not valid
\* comes first; otherwise the connection is empty.
InOrder ==
  /\ doing # "await" => toUpstream = <<>> /\ fromUpstream = <<>>
  /\ toUpstream # <<>> => Len(toUpstream) = 1 /\ fromUpstream = <<>>
  /\ Len(fromUpstream) \in 0..2
  /\ Len(fromUpstream) = 2 => ~fromUpstream[1].valid
  /\ \A i \in 1..Len(toUpstream) : toUpstream[i].of = taken
  /\ \A i \in 1..Len(fromUpstream) : fromUpstream[i].of = taken

AnswerInv == AgentTypeOK /\ InOrder /\ AnswersMatch

LEMMA AnswersNext == AnswerInv /\ [AgentMove]_agentVars => AnswerInv'
<1> SUFFICES ASSUME AnswerInv, [AgentMove]_agentVars PROVE InOrder' /\ AnswersMatch'
  BY AgentTypes DEF AnswerInv
<1> USE DEF AnswerInv, AgentTypeOK, InOrder, AnswersMatch, upstreamVars
<1> USE PacketAssumption
<1>1. CASE AgentStep
  <2>1. CASE ReadPacket
    <3>1. CASE Route(kind') = "refuse"
      BY <2>1, <3>1, ResponseFields DEF ReadPacket
    <3>2. CASE Route(kind') # "refuse"
      BY <2>1, <3>2 DEF ReadPacket
    <3> QED
      BY <3>1, <3>2
  <2>2. CASE ReadEnd \/ WriteFails
    BY <2>2 DEF ReadEnd, WriteFails, Close, DropUpstream
  <2>3. CASE ConnectUpstream
    BY <2>3 DEF ConnectUpstream
  <2>4. CASE Forward
    BY <2>4 DEF Forward
  <2>5. CASE Unavailable
    BY <2>5, OwnResponseFields DEF Unavailable
  \* A valid answer at the head is the only one.
  <2>6. CASE UpstreamAnswer
    <3>1. Len(fromUpstream) = 1 /\ toUpstream = <<>>
      BY <2>6 DEF UpstreamAnswer
    <3>2. Head(fromUpstream).of = taken /\ Tail(fromUpstream) = <<>>
      BY <2>6, <3>1 DEF UpstreamAnswer
    <3>3. reply'.of = taken
      BY <2>6, <3>2, MadeFromFields DEF UpstreamAnswer
    <3>4. doing' = "write" /\ fromUpstream' = <<>> /\ toUpstream' = <<>> /\ taken' = taken
      BY <2>6, <3>1, <3>2 DEF UpstreamAnswer
    <3> QED
      BY <3>3, <3>4
  \* The rest of a failed answer is given up with the connection.
  <2>7. CASE UpstreamFails
    BY <2>7, OwnResponseFields DEF UpstreamFails, GiveUp, DropUpstream
  <2>8. CASE WriteReply
    BY <2>8 DEF WriteReply
  <2> QED
    BY <1>1, <2>1, <2>2, <2>3, <2>4, <2>5, <2>6, <2>7, <2>8 DEF AgentStep
<1>2. CASE PeerStep
  <2>1. CASE ClientLeaves
    BY <2>1 DEF ClientLeaves
  <2>2. CASE UpstreamServes
    <3> DEFINE answer == [valid |-> TRUE, of |-> Head(toUpstream).of]
               bad == [answer EXCEPT !.valid = FALSE]
    <3>1. answer.of = taken /\ bad.of = taken /\ ~bad.valid
      BY <2>2 DEF UpstreamServes
    <3>2. toUpstream' = <<>> /\ doing' = "await" /\ taken' = taken /\ reply' = reply
      BY <2>2 DEF UpstreamServes
    <3>3. fromUpstream' = <<answer>> \/ fromUpstream' = <<bad, answer>>
      BY <2>2 DEF UpstreamServes
    <3> HIDE DEF answer, bad
    <3>4. CASE fromUpstream' = <<answer>>
      BY <3>1, <3>2, <3>4
    <3>5. CASE fromUpstream' = <<bad, answer>>
      <4>1. \A i \in 1..2 : <<bad, answer>>[i].of = taken
        BY <3>1
      <4> QED
        BY <3>1, <3>2, <3>5, <4>1
    <3> QED
      BY <3>3, <3>4, <3>5
  <2>3. CASE UpstreamLeaves
    BY <2>3 DEF UpstreamLeaves
  <2> QED
    BY <1>2, <2>1, <2>2, <2>3 DEF PeerStep
<1>3. CASE Close
  BY <1>3 DEF Close, DropUpstream
<1>4. CASE Accept
  BY <1>4 DEF Accept
<1>5. ASSUME NEW source \in {"service", "device"}, Authenticated(source)
      PROVE  InOrder' /\ AnswersMatch'
  BY <1>5, ResponseFields DEF Authenticated
<1>6. CASE UNCHANGED agentVars
  BY <1>6 DEF agentVars
<1> QED
  BY <1>1, <1>2, <1>3, <1>4, <1>5, <1>6 DEF AgentMove

-----------------------------------------------------------------------------
(* The selected key *)

ShowsSelected(keys) ==
  {j \in DOMAIN keys : keys[j] = Selected} = IF supported THEN {0} ELSE {}

\* A packet that names the selected key is refused or authenticated, and an answer
\* to a list is one of identities_response.
Routed ==
  /\ doing \in {"connect", "forward", "await"} => kind \notin {"signSelected", "signInvalid"}
  /\ doing = "authenticate" => kind = "signSelected"

SelectedInv == AgentTypeOK /\ Routed /\ SelectedStaysHere

LEMMA ListedShowsSelected == ASSUME NEW keys \in Seq(STRING) PROVE ShowsSelected(Listed(keys))
<1> DEFINE others == {i \in DOMAIN keys :
                       keys[i] # Selected /\ \A j \in 1..(i - 1) : keys[j] # keys[i]}
<1>1. 0 \notin others
  OBVIOUS
<1>2. Listed(keys) = [i \in others \cup (IF supported THEN {0} ELSE {}) |->
                       IF i = 0 THEN Selected ELSE keys[i]]
  BY DEF Listed
<1>3. \A i \in others : keys[i] # Selected
  OBVIOUS
<1> HIDE DEF others
<1> QED
  BY <1>1, <1>2, <1>3 DEF ShowsSelected

LEMMA ResponseKeys == ASSUME NEW source, NEW of, NEW keys
                      PROVE  Response(source, of, keys).keys = keys
  BY DEF Response

LEMMA OwnShowsSelected == kind = "identities" => ShowsSelected(OwnResponse.keys)
<1> SUFFICES ASSUME kind = "identities" PROVE ShowsSelected(OwnResponse.keys)
  OBVIOUS
<1>1. Route(kind) = "list"
  BY DEF Route
<1>2. OwnResponse.keys = Listed(<<>>) /\ <<>> \in Seq(STRING)
  BY <1>1, ResponseKeys DEF OwnResponse
<1> QED
  BY <1>2, ListedShowsSelected

LEMMA MadeFromShowsSelected ==
  ASSUME NEW n, NEW r \in MadeFrom(n), kind = "identities" PROVE ShowsSelected(r.keys)
<1>1. Route(kind) = "list"
  BY DEF Route
<1>2. CASE r = OwnResponse
  BY <1>2, OwnShowsSelected
<1>3. ASSUME NEW keys \in Identities, r = Response("upstream", n, Listed(keys))
      PROVE  ShowsSelected(r.keys)
  BY <1>3, ResponseKeys, ListedShowsSelected, IdentitiesAssumption
<1> QED
  BY <1>1, <1>2, <1>3 DEF MadeFrom

\* A response of the service or the upstream to a packet that was forwarded.
LEMMA RepliedStays ==
  ASSUME Routed, doing \in {"forward", "await"}, UNCHANGED <<kind, supported>>,
         doing' = "write", reply' = OwnResponse \/ \E n : reply' \in MadeFrom(n)
  PROVE  /\ reply'.source = "device" => kind' = "signSelected"
         /\ reply'.source = "upstream" => kind' \notin {"signSelected", "signInvalid"}
         /\ kind' = "identities" => ShowsSelected(reply.keys)'
<1>1. reply'.source # "device"
  BY OwnResponseFields, MadeFromFields
<1>2. kind \notin {"signSelected", "signInvalid"}
  BY DEF Routed
<1>3. kind = "identities" => ShowsSelected(reply'.keys)
  BY OwnShowsSelected, MadeFromShowsSelected
<1>4. ShowsSelected(reply.keys)' <=> ShowsSelected(reply'.keys)
  BY DEF ShowsSelected
<1> QED
  BY <1>1, <1>2, <1>3, <1>4

LEMMA SelectedNext == SelectedInv /\ [AgentMove]_agentVars => SelectedInv'
<1> SUFFICES ASSUME SelectedInv, [AgentMove]_agentVars PROVE Routed' /\ SelectedStaysHere'
  BY AgentTypes DEF SelectedInv
<1> USE DEF SelectedInv, AgentTypeOK, Routed, SelectedStaysHere, upstreamVars
<1>1. CASE AgentStep
  <2>1. CASE ReadPacket
    <3>1. CASE Route(kind') = "refuse"
      <4>1. kind' # "identities"
        BY <3>1 DEF Route
      <4> QED
        BY <2>1, <3>1, <4>1, ResponseFields DEF ReadPacket
    <3>2. CASE Route(kind') = "authenticate"
      BY <2>1, <3>2 DEF ReadPacket, Route
    <3>3. CASE Route(kind') \notin {"refuse", "authenticate"}
      <4>1. kind' \notin {"signSelected", "signInvalid"}
        BY <3>3 DEF Route
      <4> QED
        BY <2>1, <3>3, <4>1 DEF ReadPacket
    <3> QED
      BY <3>1, <3>2, <3>3
  <2>2. CASE ReadEnd \/ WriteFails
    BY <2>2 DEF ReadEnd, WriteFails, Close, DropUpstream
  <2>3. CASE ConnectUpstream
    BY <2>3 DEF ConnectUpstream
  <2>4. CASE Forward
    <3>1. kind \notin {"signSelected", "signInvalid"} /\ doing' = "await"
      BY <2>4 DEF Forward
    <3>2. \A i \in 1..Len(toUpstream') : i \in 1..Len(toUpstream) \/ toUpstream'[i].kind = kind
      BY <2>4 DEF Forward
    <3>3. \A i \in 1..Len(toUpstream) : toUpstream'[i] = toUpstream[i]
      BY <2>4 DEF Forward
    <3> QED
      BY <2>4, <3>1, <3>2, <3>3 DEF Forward
  <2>5. CASE Unavailable
    BY <2>5, RepliedStays DEF Unavailable, ShowsSelected
  <2>6. CASE UpstreamAnswer
    BY <2>6, RepliedStays DEF UpstreamAnswer, ShowsSelected
  <2>7. CASE UpstreamFails
    BY <2>7, RepliedStays DEF UpstreamFails, GiveUp, DropUpstream, ShowsSelected
  <2>8. CASE WriteReply
    BY <2>8 DEF WriteReply
  <2> QED
    BY <1>1, <2>1, <2>2, <2>3, <2>4, <2>5, <2>6, <2>7, <2>8 DEF AgentStep
<1>2. CASE PeerStep
  <2>1. CASE ClientLeaves
    BY <2>1 DEF ClientLeaves
  <2>2. CASE UpstreamServes
    <3>1. toUpstream' = Tail(toUpstream) /\ toUpstream # <<>>
          /\ UNCHANGED <<supported, kind, doing, reply>>
      BY <2>2 DEF UpstreamServes
    <3>2. \A i \in 1..Len(toUpstream') : i + 1 \in 1..Len(toUpstream)
                                         /\ toUpstream'[i] = toUpstream[i + 1]
      BY <3>1
    <3> QED
      BY <3>1, <3>2
  <2>3. CASE UpstreamLeaves
    BY <2>3 DEF UpstreamLeaves
  <2> QED
    BY <1>2, <2>1, <2>2, <2>3 DEF PeerStep
<1>3. CASE Close
  BY <1>3 DEF Close, DropUpstream
<1>4. CASE Accept
  BY <1>4 DEF Accept
<1>5. ASSUME NEW source \in {"service", "device"}, Authenticated(source)
      PROVE  Routed' /\ SelectedStaysHere'
  BY <1>5, ResponseFields DEF Authenticated
<1>6. CASE UNCHANGED agentVars
  BY <1>6 DEF agentVars
<1> QED
  BY <1>1, <1>2, <1>3, <1>4, <1>5, <1>6 DEF AgentMove

-----------------------------------------------------------------------------
(* The parts of a step *)

LaunchMove ==
  \/ LauncherStep \/ KillService \/ ReadValue \/ OwnerExits \/ ServiceStep
  \/ WriterStep \/ AcceptFails \/ ServiceDies

\* What happens to helper and agent connection does not touch the launch.
LEMMA LaunchAlone == [Next]_vars => LaunchMove \/ UNCHANGED launchVars
BY DEF Next, LaunchMove, AcceptHelper, AcceptAgent, HelperStep, HandleHelper, AnswerHelper,
       CancelExchange, CompleteExchange, ConnectionStep, HandleAgent, LeaveAgent,
       BeginAuthentication, EndAuthentication, DeviceAnswers, GitStep, GitStarts,
       GitPassesOn, GitAsks, GitFails, Peers, Ended, vars

\* The agent connection is changed by its own steps, or closed.
LEMMA AgentAlone == [Next]_vars => [AgentMove]_agentVars
<1> SUFFICES ASSUME [Next]_vars PROVE [AgentMove]_agentVars
  OBVIOUS
<1>1. CASE LauncherStep \/ ReadValue \/ OwnerExits \/ WriterStep
  BY <1>1 DEF LauncherStep, WriteRequest, ReadLength, ReadBody, ReadEof, ReadValue,
              OwnerExits, WriterStep, WriteValue, CloseValue
<1>2. CASE KillService \/ AcceptFails \/ ServiceDies
  BY <1>2 DEF KillService, AcceptFails, ServiceDies, ExitService, AgentMove
<1>3. CASE ServiceStep
  BY <1>3 DEF ServiceStep, Prepare, WriteLength, WriteBody, ServiceFails, ResponseFails,
              Release, Drain, Drained, ExitService, AgentMove
<1>4. CASE AcceptAgent
  BY <1>4 DEF AcceptAgent, AgentMove, Accept
<1>5. CASE ConnectionStep
  <2>1. CASE EndAuthentication
    BY <2>1 DEF EndAuthentication, AgentMove
  <2>2. CASE ~EndAuthentication
    BY <1>5, <2>2 DEF ConnectionStep, HandleAgent, LeaveAgent, BeginAuthentication,
                      CancelExchange, CompleteExchange, AgentMove
  <2> QED
    BY <2>1, <2>2
<1>6. CASE AcceptHelper \/ HelperStep \/ DeviceAnswers \/ GitStep
  BY <1>6 DEF AcceptHelper, HelperStep, HandleHelper, AnswerHelper, CancelExchange,
              CompleteExchange, DeviceAnswers, GitStep, GitStarts, GitPassesOn, GitAsks, GitFails
<1>7. CASE Peers
  BY <1>7 DEF Peers, AgentMove
<1>8. CASE Ended \/ UNCHANGED vars
  BY <1>8 DEF Ended, vars
<1> QED
  BY <1>1, <1>2, <1>3, <1>4, <1>5, <1>6, <1>7, <1>8 DEF Next

-----------------------------------------------------------------------------
(* The agent connection *)

LEMMA AnswersInit == Init => AnswerInv
<1> SUFFICES ASSUME AgentInit PROVE AnswerInv
  BY DEF Init
<1>1. reply.source = "none" /\ reply.of = 0
  BY ResponseFields DEF AgentInit
<1>2. AgentTypeOK
  <2>1. supported \in BOOLEAN /\ gone \in BOOLEAN /\ upstreamOpen \in BOOLEAN /\ ~upstreamOpen
    BY Zenon DEF AgentInit, KeyKinds
  <2> QED
    BY <1>1, <2>1, PacketAssumption, EmptyIsTyped DEF AgentInit, AgentTypeOK
<1>3. InOrder /\ AnswersMatch
  BY DEF AgentInit, InOrder, AnswersMatch
<1> QED
  BY <1>2, <1>3 DEF AnswerInv

\* No packet of the agent connection is answered with what was left of another
\* one, for any packets and their number.
THEOREM AnswersAreMatched == Spec => []AnswersMatch
<1>1. AnswerInv /\ [Next]_vars => AnswerInv'
  BY AgentAlone, AnswersNext
<1>2. AnswerInv => AnswersMatch
  BY DEF AnswerInv
<1> QED
  BY AnswersInit, <1>1, <1>2, PTL DEF Spec

\* The selected key is used by the device alone and is listed as it should be,
\* whatever the upstream agent lists (ssh_agent.rs route, identities_response).
THEOREM SelectedKeyStays == Spec => []SelectedStaysHere
<1>1. Init => SelectedInv
  BY AnswersInit DEF Init, AgentInit, AnswerInv, SelectedInv, Routed, SelectedStaysHere
<1>2. SelectedInv /\ [Next]_vars => SelectedInv'
  BY AgentAlone, SelectedNext
<1>3. SelectedInv => SelectedStaysHere
  BY DEF SelectedInv
<1> QED
  BY <1>1, <1>2, <1>3, PTL DEF Spec

-----------------------------------------------------------------------------
(* The launch: both pipes, launcher and command, the service and its writer *)

Stages == {"read", "length", "body", "release", "failed", "serve", "drain", "exited"}
Early == {"read", "length", "body", "release", "failed"}
Piped == {"length", "ready", "error"} \cup Range(Value)

LaunchTypeOK ==
  /\ features \in Services /\ heir \in BOOLEAN
  /\ outOpen \in BOOLEAN /\ eof \in BOOLEAN
  /\ owner \in {"request", "length", "body", "command", "failed", "exited"}
  /\ startup \in {"empty", "written", "closed"}
  /\ pipe \in Seq(Piped) /\ Len(pipe) <= PipeSize
  /\ received \in Seq(Range(Value))
  /\ service \in Stages
  /\ monitored \in {"none", "owner", "other"}
  /\ writer \in {"none", "waiting", "writing", "done"} /\ written \in 0..Len(Value)
  /\ fault \in {"none", "killed", "accept"}

\* What the service writes to the pipe, and how much of it has been read.
Element(k) ==
  IF k = 1 THEN "length"
  ELSE IF k = 2 THEN (IF monitored = "none" THEN "error" ELSE "ready")
  ELSE Value[k - 2]
Consumed ==
  IF owner = "length" THEN 0 ELSE IF owner = "body" THEN 1 ELSE 2 + Len(received)
Total == Consumed + Len(pipe)

\* What is read and in the pipe is what was written, in its order.
Stream == Readers => \A i \in 1..Len(pipe) : pipe[i] = Element(Consumed + i)

\* How much was written at each stage of the service.
Count ==
  Readers =>
    /\ service \in {"read", "length"} => Total = 0
    /\ service = "body" => Total = 1
    /\ service = "failed" => Total = 2
    /\ service \in {"release", "serve", "drain"} => Total = 2 + written
    /\ service = "exited" => Total = 2 + written \/ (Total \in {0, 1} /\ fault = "killed")

Prefix ==
  /\ Len(received) <= Len(Value)
  /\ \A i \in 1..Len(received) : received[i] = Value[i]

\* How far owner, service and writer can be apart.
Phase ==
  /\ owner = "request" => startup = "empty" /\ service \in {"read", "exited"} /\ monitored = "none"
                          /\ pipe = <<>>
  /\ startup = "empty" => owner = "request" \/ service = "exited"
  /\ owner \in {"request", "length", "body"} => received = <<>> /\ ~eof
  /\ heir => owner = "exited"
  /\ owner = "failed" => service \in {"failed", "exited"}
  /\ service \in Early => written = 0 /\ writer \in {"none", "waiting"} /\ outOpen
  /\ writer = "writing" => service \in {"serve", "drain"}
  /\ service = "drain" => owner = "exited"

\* Whom the service watches.
Watch ==
  /\ monitored = "none" => service \in {"read", "length", "body", "failed", "exited"}
                           /\ writer = "none" /\ written = 0
  /\ service \in {"read", "failed"} => monitored = "none"
  /\ monitored = "other" => owner = "exited" /\ ~heir /\ service \in {"length", "exited"}

\* A launch that did not fail goes on, and the input ends after all of it.
Whole ==
  /\ (owner \in {"length", "body"} /\ service = "exited" /\ fault = "none") => monitored = "none"
  /\ (owner = "command" /\ fault = "none") => service \in {"release", "serve"}
  /\ (owner \in {"length", "body", "command"} /\ hasInput /\ service # "exited" /\ ~outOpen)
       => written = Len(Value)
  /\ (eof /\ owner # "exited" /\ fault = "none") => Len(received) = Len(Value)

LaunchInv ==
  /\ LaunchTypeOK /\ Stream /\ Count /\ Prefix /\ Phase /\ Watch /\ Whole /\ PreparedIsAccepted

-----------------------------------------------------------------------------
(* Its steps *)

LEMMA PipeTypes ==
  /\ <<>> \in Seq(Piped) /\ <<>> \in Seq(Range(Value))
  /\ {"length", "ready", "error"} \subseteq Piped
  /\ Len(Value) \in Nat /\ \A k \in 1..Len(Value) : Value[k] \in Range(Value) /\ Value[k] \in Piped
BY ValueAssumption DEF Piped, Range

LEMMA LaunchInit == Init => LaunchInv
<1> SUFFICES ASSUME Init PROVE LaunchInv
  OBVIOUS
<1>1. LaunchTypeOK
  <2>1. outOpen \in BOOLEAN /\ eof \in BOOLEAN /\ heir \in BOOLEAN
    BY DEF Init
  <2> QED
    BY <2>1, PipeTypes, PipeAssumption DEF Init, LaunchTypeOK, Stages
<1>2. Stream /\ Count /\ Prefix
  BY PipeTypes DEF Init, Stream, Count, Prefix, Readers
<1>3. Phase /\ Watch /\ Whole /\ PreparedIsAccepted
  BY DEF Init, Phase, Watch, Whole, Early, PreparedIsAccepted
<1> QED
  BY <1>1, <1>2, <1>3 DEF LaunchInv

\* The launcher and the command read.
LEMMA Pop ==
  ASSUME LaunchInv, pipe # <<>>, pipe' = Tail(pipe)
  PROVE  /\ Len(pipe) \in Nat \ {0} /\ Len(pipe') = Len(pipe) - 1
         /\ pipe' \in Seq(Piped) /\ Head(pipe) = pipe[1]
         /\ \A i \in 1..Len(pipe') : pipe'[i] = pipe[i + 1]
BY HeadTailProperties DEF LaunchInv, LaunchTypeOK

LEMMA WriteRequestKeeps == LaunchInv /\ WriteRequest => LaunchInv'
<1> SUFFICES ASSUME LaunchInv, WriteRequest PROVE LaunchInv'
  OBVIOUS
<1> USE DEF LaunchInv, WriteRequest
<1>1. LaunchTypeOK'
  BY DEF LaunchTypeOK, Sent
<1>2. Stream' /\ Count'
  BY DEF Phase, LaunchTypeOK, Stages, Early, Stream, Count, Readers, Consumed, Total
<1>3. Prefix' /\ Phase' /\ Watch' /\ Whole' /\ PreparedIsAccepted'
  BY DEF Prefix, Phase, Watch, Whole, PreparedIsAccepted, Early, Sent, hasInput, LaunchTypeOK, Stages
<1> QED
  BY <1>1, <1>2, <1>3

LEMMA ReadLengthKeeps == LaunchInv /\ ReadLength => LaunchInv'
<1> SUFFICES ASSUME LaunchInv, ReadLength PROVE LaunchInv'
  OBVIOUS
<1>0. pipe # <<>> /\ pipe' = Tail(pipe) /\ owner = "length" /\ heir' = heir
  BY DEF ReadLength
<1>1. pipe[1] = Element(1) /\ Len(pipe) \in Nat
  BY <1>0, Pop DEF LaunchInv, Stream, Readers, Consumed
<1>2. owner' = "body"
  BY <1>0, <1>1, Pop DEF ReadLength, Element
<1>3. Total' = Total /\ Consumed' = 1 /\ Consumed = 0
  BY <1>0, <1>2, Pop DEF Total, Consumed
<1>4. LaunchTypeOK'
  BY <1>0, <1>2, Pop, PipeAssumption DEF ReadLength, LaunchInv, LaunchTypeOK
<1>5. Stream'
  BY <1>0, <1>2, <1>3, Pop DEF ReadLength, LaunchInv, LaunchTypeOK, Stream, Readers, Element
<1>6. Count'
  BY <1>0, <1>2, <1>3 DEF ReadLength, LaunchInv, Count, Readers
<1>7. Prefix' /\ Phase' /\ Watch' /\ Whole' /\ PreparedIsAccepted'
  BY <1>2 DEF ReadLength, LaunchInv, Prefix, Phase, Watch, Whole, PreparedIsAccepted, Early, hasInput
<1> QED
  BY <1>4, <1>5, <1>6, <1>7 DEF LaunchInv

\* A launcher that meets an error was told so by a service that has no owner.
LEMMA ReadBodyKeeps == LaunchInv /\ ReadBody => LaunchInv'
<1> SUFFICES ASSUME LaunchInv, ReadBody PROVE LaunchInv'
  OBVIOUS
<1>0. pipe # <<>> /\ pipe' = Tail(pipe) /\ owner = "body" /\ heir' = heir /\ received = <<>> /\ ~heir
  BY DEF ReadBody, LaunchInv, Phase
<1>1. pipe[1] = Element(2) /\ Len(pipe) \in Nat \ {0} /\ Consumed = 1
  BY <1>0, Pop DEF LaunchInv, Stream, Readers, Consumed
<1>2. owner' = IF monitored # "none" THEN "command" ELSE "failed"
  BY <1>0, <1>1, Pop DEF ReadBody, Element
<1>3. Total \in Nat /\ Total >= 2
  BY <1>1 DEF Total
<1>4. service \notin {"read", "length", "body"}
  BY <1>0, <1>3 DEF LaunchInv, Count, Readers
<1>5. LaunchTypeOK'
  BY <1>0, <1>2, Pop, PipeAssumption DEF ReadBody, LaunchInv, LaunchTypeOK
<1>6. Stream' /\ Count'
  <2>1. CASE monitored = "none"
    BY <1>0, <1>2, <2>1 DEF Stream, Count, Readers
  <2>2. CASE monitored # "none"
    <3>1. Consumed' = 2 /\ Total' = Total
      BY <1>0, <1>1, <1>2, <2>2, Pop DEF ReadBody, Total, Consumed
    <3>2. Stream'
      BY <1>0, <1>1, <3>1, Pop DEF ReadBody, LaunchInv, LaunchTypeOK, Stream, Readers, Element
    <3>3. Count'
      BY <1>0, <3>1 DEF ReadBody, LaunchInv, Count, Readers
    <3> QED
      BY <3>2, <3>3
  <2> QED
    BY <2>1, <2>2
<1>7. Prefix' /\ Phase' /\ Watch' /\ Whole' /\ PreparedIsAccepted'
  BY <1>0, <1>2, <1>4 DEF ReadBody, LaunchInv, LaunchTypeOK, Stages, Prefix, Phase, Watch,
     Whole, PreparedIsAccepted, Early, hasInput
<1> QED
  BY <1>5, <1>6, <1>7 DEF LaunchInv

\* The end of the pipe comes before the response only if the service was killed.
LEMMA ReadEofKeeps == LaunchInv /\ ReadEof => LaunchInv'
<1> SUFFICES ASSUME LaunchInv, ReadEof PROVE LaunchInv'
  OBVIOUS
<1>1. Len(pipe) = 0 /\ Total \in {0, 1} /\ Readers
  BY DEF ReadEof, Total, Consumed, Readers
<1>2. service = "exited" /\ fault = "killed"
  BY <1>1 DEF ReadEof, LaunchInv, LaunchTypeOK, Stages, Count, Phase, Early
<1>3. LaunchTypeOK'
  BY DEF ReadEof, LaunchInv, LaunchTypeOK
<1>4. Stream' /\ Count' /\ Prefix'
  BY DEF ReadEof, LaunchInv, Phase, Stream, Count, Prefix, Readers
<1>5. Phase' /\ Watch' /\ Whole' /\ PreparedIsAccepted'
  BY <1>2 DEF ReadEof, LaunchInv, Phase, Watch, Whole, PreparedIsAccepted, Early, hasInput
<1> QED
  BY <1>3, <1>4, <1>5 DEF LaunchInv

\* The command reads what follows the response: the value.
LEMMA ReadValueKeeps == LaunchInv /\ ReadValue => LaunchInv'
<1> SUFFICES ASSUME LaunchInv, ReadValue PROVE LaunchInv'
  OBVIOUS
<1>1. /\ owner \in {"command", "exited"} /\ Readers
      /\ Consumed = 2 + Len(received) /\ Len(received) \in Nat /\ Len(pipe) \in Nat
  BY DEF ReadValue, LaunchInv, LaunchTypeOK, Phase, Readers, Consumed
<1>2. CASE pipe = <<>> /\ ~outOpen /\ eof' = TRUE /\ UNCHANGED <<received, pipe>>
  <2>1. LaunchTypeOK' /\ Stream' /\ Count' /\ Prefix' /\ Phase' /\ Watch' /\ PreparedIsAccepted'
    BY <1>1, <1>2 DEF ReadValue, LaunchInv, LaunchTypeOK, Stream, Count, Prefix, Phase, Watch,
       PreparedIsAccepted, Readers, Consumed, Total, Element
  <2>2. ASSUME owner = "command", fault = "none" PROVE Len(received) = Len(Value)
    <3>1. written = Len(Value) /\ Total = 2 + written
      BY <1>1, <1>2, <2>2 DEF ReadValue, LaunchInv, Whole, Count
    <3> QED
      BY <1>1, <1>2, <3>1, PipeTypes DEF Total
  <2>3. Whole'
    BY <1>1, <1>2, <2>2 DEF ReadValue, LaunchInv, Whole, hasInput
  <2> QED
    BY <2>1, <2>3 DEF LaunchInv
<1>3. CASE pipe # <<>> /\ received' = Append(received, Head(pipe)) /\ pipe' = Tail(pipe) /\ UNCHANGED eof
  <2>1. Total = 2 + written
    BY <1>1, <1>3, Pop DEF LaunchInv, LaunchTypeOK, Stages, Count, Total
  <2>2. Len(received) + 1 \in 1..Len(Value)
    BY <1>1, <1>3, <2>1, Pop, PipeTypes DEF LaunchInv, LaunchTypeOK, Total
  <2>3. Head(pipe) = Value[Len(received) + 1]
    BY <1>1, <1>3, <2>2, Pop DEF LaunchInv, Stream, Element
  <2>4. /\ received' \in Seq(Range(Value)) /\ Len(received') = Len(received) + 1
        /\ \A i \in 1..Len(received) : received'[i] = received[i]
        /\ received'[Len(received) + 1] = Value[Len(received) + 1]
    BY <1>3, <2>2, <2>3, PipeTypes, AppendProperties DEF LaunchInv, LaunchTypeOK
  <2>5. LaunchTypeOK'
    BY <1>3, <2>4, Pop, PipeAssumption DEF ReadValue, LaunchInv, LaunchTypeOK
  <2>6. Prefix'
    BY <1>1, <2>2, <2>4, PipeTypes DEF LaunchInv, Prefix
  <2>7. Consumed' = Consumed + 1 /\ Total' = Total
    <3>1. Consumed' = 2 + Len(received')
      BY <1>1 DEF ReadValue, Consumed
    <3>2. Len(pipe') = Len(pipe) - 1
      BY <1>3, Pop
    <3> HIDE DEF Consumed
    <3> QED
      BY <1>1, <2>4, <3>1, <3>2 DEF Total
  <2>8. Stream'
    BY <1>1, <1>3, <2>7, Pop DEF ReadValue, LaunchInv, Stream, Readers, Element
  <2>9. Count'
    BY <1>1, <2>7 DEF ReadValue, LaunchInv, Count, Readers
  <2>10. Phase' /\ Watch' /\ Whole' /\ PreparedIsAccepted'
    BY <1>1, <1>3 DEF ReadValue, LaunchInv, Phase, Watch, Whole, PreparedIsAccepted, Early, hasInput
  <2> QED
    BY <2>5, <2>6, <2>8, <2>9, <2>10 DEF LaunchInv
<1> QED
  BY <1>2, <1>3 DEF ReadValue

LEMMA OwnerExitsKeeps == LaunchInv /\ OwnerExits => LaunchInv'
<1> SUFFICES ASSUME LaunchInv, OwnerExits PROVE LaunchInv'
  OBVIOUS
<1>1. owner' = "exited" /\ heir' \in BOOLEAN /\ (heir' => owner = "command")
  BY DEF OwnerExits
<1>2. Readers' => Readers /\ Consumed' = Consumed /\ Total' = Total
  BY <1>1 DEF OwnerExits, Readers, Consumed, Total
<1>3. LaunchTypeOK'
  BY <1>1 DEF OwnerExits, LaunchInv, LaunchTypeOK
<1>4. Stream' /\ Count' /\ Prefix'
  BY <1>2 DEF OwnerExits, LaunchInv, Stream, Count, Prefix, Element
<1>5. Phase' /\ Watch' /\ Whole' /\ PreparedIsAccepted'
  BY <1>1 DEF OwnerExits, LaunchInv, Phase, Watch, Whole, PreparedIsAccepted, Early, hasInput
<1> QED
  BY <1>3, <1>4, <1>5 DEF LaunchInv

\* Every end of the service: what it has written stays in the pipe, and a launch
\* that it could still disturb is one whose service was killed or has no owner.
LEMMA ExitKeeps ==
  ASSUME LaunchInv, ExitService,
         UNCHANGED <<features, owner, heir, startup, pipe, received, eof, monitored, written>>,
         fault' \in {"none", "killed", "accept"}, fault # "none" => fault' = fault,
         Readers => Total = 2 + written \/ (Total \in {0, 1} /\ fault' = "killed"),
         fault' = "none" => /\ owner # "command"
                            /\ owner \in {"length", "body"} => monitored = "none"
  PROVE  LaunchInv'
<1>1. service' = "exited" /\ outOpen' = FALSE /\ writer' \in {"none", "done"}
      /\ (writer = "none" => writer' = "none")
  BY DEF ExitService
<1>2. LaunchTypeOK'
  BY <1>1 DEF LaunchInv, LaunchTypeOK, Stages
<1>3. Stream' /\ Count' /\ Prefix'
  BY <1>1 DEF LaunchInv, Stream, Count, Prefix, Readers, Total, Consumed, Element
<1>4. Phase' /\ Watch' /\ Whole' /\ PreparedIsAccepted'
  BY <1>1 DEF LaunchInv, Phase, Watch, Whole, PreparedIsAccepted, Early, hasInput
<1> QED
  BY <1>2, <1>3, <1>4 DEF LaunchInv

LEMMA ExitsKeep ==
  ASSUME LaunchInv,
         \/ KillService \/ ServiceFails \/ ResponseFails \/ Drained \/ AcceptFails \/ ServiceDies
         \/ Drain /\ ~hasSsh
  PROVE  LaunchInv'
<1>1. CASE KillService
  BY <1>1, ExitKeeps DEF KillService, LaunchInv, LaunchTypeOK, Phase, Readers
<1>2. CASE ServiceFails
  BY <1>2, ExitKeeps DEF ServiceFails, LaunchInv, LaunchTypeOK, Count, Phase, Early, Watch, Whole
<1>3. CASE ResponseFails
  BY <1>3, ExitKeeps DEF ResponseFails, LaunchInv, LaunchTypeOK, Readers
<1>4. CASE Drained
  BY <1>4, ExitKeeps DEF Drained, LaunchInv, LaunchTypeOK, Phase, Count
<1>5. CASE AcceptFails
  BY <1>5, ExitKeeps DEF AcceptFails, LaunchInv, LaunchTypeOK, Count
<1>6. CASE ServiceDies
  BY <1>6, ExitKeeps DEF ServiceDies, LaunchInv, LaunchTypeOK, Stages, Count, Phase, Early
<1>7. CASE Drain /\ ~hasSsh
  BY <1>7, ExitKeeps DEF Drain, OwnerIsGone, LaunchInv, LaunchTypeOK, Count
<1> QED
  BY <1>1, <1>2, <1>3, <1>4, <1>5, <1>6, <1>7

\* Nobody can read from a service that opened a stranger: its owner had exited
\* before there was anything to read.
LEMMA PrepareKeeps == LaunchInv /\ Prepare => LaunchInv'
<1> SUFFICES ASSUME LaunchInv, Prepare PROVE LaunchInv'
  OBVIOUS
<1>1. /\ service = "read" /\ service' = "length" /\ monitored = "none" /\ writer = "none"
      /\ owner \notin {"request", "failed", "command"} /\ written = 0
      /\ monitored' \in {"none", "owner", "other"} /\ (monitored' = "other" => owner = "exited")
      /\ writer' \in {"none", "waiting"} /\ (monitored' = "none" => writer' = "none")
  <2>1. service = "read" /\ service' = "length" /\ startup # "empty"
    BY DEF Prepare
  <2>2. monitored = "none" /\ writer = "none" /\ written = 0
    BY <2>1 DEF LaunchInv, Watch, Phase, Early
  <2>3. owner \notin {"request", "failed"}
    BY <2>1 DEF LaunchInv, Phase
  <2>4. owner # "command"
    BY <2>1 DEF LaunchInv, LaunchTypeOK, Count, Readers, Total, Consumed
  <2> QED
    BY <2>1, <2>2, <2>3, <2>4 DEF Prepare, Opened, FirstWrite
<1>2. Readers => Total = 0 /\ pipe = <<>> /\ ~heir
  BY <1>1 DEF LaunchInv, LaunchTypeOK, Count, Total, Consumed, Phase
<1>3. ~heir
  BY <1>2 DEF Readers
<1>4. LaunchTypeOK'
  BY <1>1 DEF Prepare, LaunchInv, LaunchTypeOK, Stages
<1>5. Stream' /\ Count' /\ Prefix'
  BY <1>1, <1>2 DEF Prepare, LaunchInv, Stream, Count, Prefix, Readers, Total, Consumed
<1>6. Phase' /\ Watch' /\ Whole' /\ PreparedIsAccepted'
  BY <1>1, <1>3 DEF Prepare, LaunchInv, Phase, Watch, Whole, PreparedIsAccepted, Early, hasInput
<1> QED
  BY <1>4, <1>5, <1>6 DEF LaunchInv

\* The service and its writer write.
LEMMA Push ==
  ASSUME LaunchInv, Room, NEW x \in Piped, pipe' = Append(pipe, x)
  PROVE  /\ pipe' \in Seq(Piped) /\ Len(pipe) \in Nat /\ Len(pipe') = Len(pipe) + 1
         /\ Len(pipe') <= PipeSize
         /\ \A i \in 1..Len(pipe) : pipe'[i] = pipe[i]
         /\ pipe'[Len(pipe) + 1] = x
BY PipeAssumption, AppendProperties DEF LaunchInv, LaunchTypeOK, Room

\* What is written is the next element of the stream.
LEMMA PushKeepsStream ==
  ASSUME LaunchInv, Room, Readers, NEW x \in Piped, pipe' = Append(pipe, x),
         Total \in Nat, x = Element(Total + 1),
         UNCHANGED <<owner, heir, received, monitored>>
  PROVE  Stream' /\ Total' = Total + 1
<1>1. Consumed' = Consumed /\ Consumed \in Nat /\ Total' = Total + 1
  <2>1. Consumed' = Consumed
    BY DEF Consumed
  <2>2. Consumed \in Nat
    BY DEF Consumed, LaunchInv, LaunchTypeOK
  <2> QED
    BY <2>1, <2>2, Push DEF Total
<1>2. ASSUME NEW i \in 1..Len(pipe') PROVE pipe'[i] = Element(Consumed + i)
  <2>1. CASE i \in 1..Len(pipe)
    BY <2>1, Push DEF LaunchInv, Stream
  <2>2. CASE i = Len(pipe) + 1
    BY <1>1, <2>2, Push DEF Total
  <2> QED
    BY <1>2, <2>1, <2>2, Push
<1> QED
  BY <1>1, <1>2 DEF Stream, Element

LEMMA WriteLengthKeeps == LaunchInv /\ WriteLength => LaunchInv'
<1> SUFFICES ASSUME LaunchInv, WriteLength PROVE LaunchInv'
  OBVIOUS
<1>1. Total = 0 /\ written = 0 /\ Readers /\ "length" \in Piped
  BY PipeTypes DEF WriteLength, LaunchInv, Count, Phase, Early
<1>2. Stream' /\ Total' = 1
  <2>1. "length" = Element(Total + 1)
    BY <1>1 DEF Element
  <2> QED
    BY <1>1, <2>1, PushKeepsStream DEF WriteLength
<1>3. LaunchTypeOK'
  BY <1>1, Push DEF WriteLength, LaunchInv, LaunchTypeOK, Stages
<1>4. Count' /\ Prefix'
  BY <1>2 DEF WriteLength, LaunchInv, Count, Prefix
<1>5. Phase' /\ Watch' /\ Whole' /\ PreparedIsAccepted'
  BY <1>1 DEF WriteLength, LaunchInv, Phase, Watch, Whole, PreparedIsAccepted, Readers, Early, hasInput
<1> QED
  BY <1>2, <1>3, <1>4, <1>5 DEF LaunchInv

LEMMA WriteBodyKeeps == LaunchInv /\ WriteBody => LaunchInv'
<1> SUFFICES ASSUME LaunchInv, WriteBody PROVE LaunchInv'
  OBVIOUS
<1> DEFINE x == IF monitored = "none" THEN "error" ELSE "ready"
<1>1. Total = 1 /\ written = 0 /\ Readers /\ x \in Piped /\ x = Element(Total + 1)
  BY PipeTypes DEF WriteBody, LaunchInv, Count, Phase, Early, Element
<1>2. pipe' = Append(pipe, x)
      /\ service' = IF monitored = "none" THEN "failed" ELSE "release"
  BY DEF WriteBody
<1> HIDE DEF x
<1>3. Stream' /\ Total' = 2
  BY <1>1, <1>2, PushKeepsStream DEF WriteBody
<1>4. LaunchTypeOK'
  BY <1>1, <1>2, Push DEF WriteBody, LaunchInv, LaunchTypeOK, Stages
<1>5. Count' /\ Prefix'
  BY <1>1, <1>2, <1>3 DEF WriteBody, LaunchInv, Count, Prefix
<1>6. Phase' /\ Watch' /\ Whole' /\ PreparedIsAccepted'
  BY <1>1, <1>2 DEF WriteBody, LaunchInv, Phase, Watch, Whole, PreparedIsAccepted, Readers, Early, hasInput
<1> QED
  BY <1>3, <1>4, <1>5, <1>6 DEF LaunchInv

LEMMA WriteValueKeeps == LaunchInv /\ WriteValue => LaunchInv'
<1> SUFFICES ASSUME LaunchInv, WriteValue PROVE LaunchInv'
  OBVIOUS
<1>1. /\ service \in {"serve", "drain"} /\ Readers /\ Total = 2 + written
      /\ written \in Nat /\ written < Len(Value) /\ written' = written + 1
  BY PipeTypes DEF WriteValue, LaunchInv, LaunchTypeOK, Phase, Count
<1>2. Value[written'] \in Piped /\ written' \in 0..Len(Value)
  BY <1>1, PipeTypes
<1>3. Value[written'] = Element(Total + 1)
  BY <1>1 DEF Element
<1>4. Stream' /\ Total' = 2 + written'
  BY <1>1, <1>2, <1>3, PushKeepsStream DEF WriteValue
<1>5. LaunchTypeOK'
  BY <1>2, Push DEF WriteValue, LaunchInv, LaunchTypeOK
<1>6. Count' /\ Prefix'
  BY <1>1, <1>4 DEF WriteValue, LaunchInv, Count, Prefix
<1>7. Phase' /\ Watch' /\ Whole' /\ PreparedIsAccepted'
  BY <1>1 DEF WriteValue, LaunchInv, Phase, Watch, Whole, PreparedIsAccepted, Readers, Early, hasInput
<1> QED
  BY <1>4, <1>5, <1>6, <1>7 DEF LaunchInv

\* Without readers the rest of the value is lost, with them only its end is left.
LEMMA CloseValueKeeps == LaunchInv /\ CloseValue => LaunchInv'
<1> SUFFICES ASSUME LaunchInv, CloseValue PROVE LaunchInv'
  OBVIOUS
<1>1. service \in {"serve", "drain"} /\ monitored # "none"
  BY DEF CloseValue, LaunchInv, Phase, Watch
<1>2. LaunchTypeOK' /\ Stream' /\ Prefix'
  BY DEF CloseValue, LaunchInv, LaunchTypeOK, Stream, Prefix, Readers, Consumed, Element
<1>3. Count'
  BY DEF CloseValue, LaunchInv, Count, Readers, Total, Consumed
<1>4. Phase' /\ Watch' /\ Whole' /\ PreparedIsAccepted'
  BY <1>1 DEF CloseValue, LaunchInv, Phase, Watch, Whole, PreparedIsAccepted, Readers, Early, hasInput
<1> QED
  BY <1>2, <1>3, <1>4 DEF LaunchInv

LEMMA ReleaseKeeps == LaunchInv /\ Release => LaunchInv'
<1> SUFFICES ASSUME LaunchInv, Release PROVE LaunchInv'
  OBVIOUS
<1>1. monitored # "none" /\ writer \in {"none", "waiting"} /\ written = 0
  BY DEF Release, LaunchInv, LaunchTypeOK, Phase, Watch, Early
<1>2. outOpen' \in BOOLEAN /\ (hasInput => outOpen')
  <2>1. outOpen' = ("input" \in features)
    BY Zenon DEF Release, KeepsOutput, hasInput
  <2>2. outOpen' \in BOOLEAN
    BY <2>1
  <2>3. hasInput => outOpen'
    BY <2>1, Zenon DEF hasInput
  <2> QED
    BY <2>2, <2>3
<1>3. LaunchTypeOK'
  BY <1>1, <1>2 DEF Release, LaunchInv, LaunchTypeOK, Stages
<1>4. Stream' /\ Count' /\ Prefix'
  BY DEF Release, LaunchInv, Stream, Count, Prefix, Readers, Total, Consumed, Element
<1>5. Phase' /\ Watch' /\ PreparedIsAccepted'
  BY <1>1 DEF Release, LaunchInv, Phase, Watch, PreparedIsAccepted, Early
<1>6. Whole'
  BY <1>2 DEF Release, LaunchInv, Whole, hasInput
<1> QED
  BY <1>3, <1>4, <1>5, <1>6 DEF LaunchInv

LEMMA DrainKeeps == LaunchInv /\ Drain /\ hasSsh => LaunchInv'
<1> SUFFICES ASSUME LaunchInv, Drain, hasSsh PROVE LaunchInv'
  OBVIOUS
<1>1. /\ service = "serve" /\ service' = "drain" /\ owner = "exited"
      /\ UNCHANGED <<features, owner, heir, startup, pipe, outOpen, received, eof, monitored,
                     writer, written, fault>>
  BY DEF Drain, OwnerIsGone
<1>2. LaunchTypeOK' /\ Stream' /\ Count' /\ Prefix'
  BY <1>1 DEF LaunchInv, LaunchTypeOK, Stages, Stream, Count, Prefix, Readers, Total, Consumed, Element
<1>3. Phase' /\ Watch' /\ Whole' /\ PreparedIsAccepted'
  BY <1>1 DEF LaunchInv, Phase, Watch, Whole, PreparedIsAccepted, Early, hasInput
<1> QED
  BY <1>2, <1>3 DEF LaunchInv

LEMMA LaunchNext == LaunchInv /\ [Next]_vars => LaunchInv'
<1> SUFFICES ASSUME LaunchInv, LaunchMove \/ UNCHANGED launchVars PROVE LaunchInv'
  BY LaunchAlone
<1>1. CASE LauncherStep
  BY <1>1, WriteRequestKeeps, ReadLengthKeeps, ReadBodyKeeps, ReadEofKeeps DEF LauncherStep
<1>2. CASE ServiceStep
  BY <1>2, PrepareKeeps, WriteLengthKeeps, WriteBodyKeeps, ReleaseKeeps, DrainKeeps, ExitsKeep
  DEF ServiceStep
<1>3. CASE KillService \/ AcceptFails \/ ServiceDies
  BY <1>3, ExitsKeep
<1>4. CASE ReadValue \/ OwnerExits
  BY <1>4, ReadValueKeeps, OwnerExitsKeeps
<1>5. CASE WriterStep
  BY <1>5, WriteValueKeeps, CloseValueKeeps DEF WriterStep
<1>6. CASE UNCHANGED launchVars
  BY <1>6 DEF launchVars, LaunchInv, LaunchTypeOK, Stages, Stream, Count, Prefix, Phase, Watch, Whole,
     PreparedIsAccepted, Readers, Total, Consumed, Element, Early, hasInput
<1> QED
  BY <1>1, <1>2, <1>3, <1>4, <1>5, <1>6 DEF LaunchMove

LEMMA AlwaysLaunched == Spec => []LaunchInv
BY LaunchInit, LaunchNext, PTL DEF Spec

\* A prepared service is accepted by its launcher unless it was killed, for every
\* value and pipe.
THEOREM PreparedIsAlwaysAccepted == Spec => []PreparedIsAccepted
<1>1. LaunchInv => PreparedIsAccepted
  BY DEF LaunchInv
<1> QED
  BY AlwaysLaunched, <1>1, PTL

\* The command reads exactly the value, whatever its length and that of the pipe.
THEOREM InputIsAlwaysWhole == Spec => []InputIsWhole
<1>1. ASSUME LaunchInv PROVE InputIsWhole
  <2>1. received \in Seq(Range(Value)) /\ Value \in Seq(Range(Value))
    BY <1>1, ValueAssumption, SeqOfRange DEF LaunchInv, LaunchTypeOK
  <2>2. IsPrefix(received, Value)
    BY <1>1, <2>1 DEF LaunchInv, Prefix, IsPrefix
  <2>3. Len(received) = Len(Value) => received = Value
    BY <1>1, <2>1, SeqEqual DEF LaunchInv, Prefix
  <2> QED
    BY <1>1, <2>2, <2>3 DEF LaunchInv, Whole, InputIsWhole
<1> QED
  BY AlwaysLaunched, <1>1, PTL

\* A service serves nobody but the process that started it.
THEOREM AlwaysServesItsOwner == Spec => []ServesItsOwner
<1>1. LaunchInv => ServesItsOwner
  BY DEF LaunchInv, LaunchTypeOK, Watch, ServesItsOwner
<1> QED
  BY AlwaysLaunched, <1>1, PTL

-----------------------------------------------------------------------------
(* The exchanges of the helper and of the agent connection *)

ExchangeStates ==
  {"none", "waiting", "answered", "aborting", "approved", "refused", "cut", "silent"}

ClientTypeOK ==
  /\ git \in {"idle", "configuration", "configured", "sign", "signed", "failed", "other"}
  /\ helper \in {"closed", "backlog", "open", "sign"}
  /\ exchange \in [Handlers -> ExchangeStates]

\* An exchange belongs to a handler of a service that serves, and its handler
\* waits for it.
Handled ==
  /\ service \in Early \/ ~hasSsh => \A h \in Handlers : exchange[h] = "none"
  /\ exchange["git"] = "waiting" => helper = "sign"
  /\ exchange["agent"] = "waiting" => doing = "authenticate"
  /\ helper = "sign" => git = "sign"
  /\ helper \in {"backlog", "open"} => git \in {"configuration", "sign"}

ExchangeInv == ClientTypeOK /\ Handled /\ NoSilentExit

\* An end of the service that is no fault finds no exchange waiting.
LEMMA ExitExchanges ==
  ASSUME LaunchInv, ExchangeInv, ExitService, UNCHANGED <<features, git>>,
         fault # "none" => fault' # "none",
         fault' = "none" => \A h \in Handlers : exchange[h] # "waiting"
  PROVE  ExchangeInv'
<1>1. /\ service' = "exited" /\ helper' = "closed" /\ doing' = "closed"
      /\ \A h \in Handlers : /\ exchange'[h] \in ExchangeStates \ {"waiting"}
                             /\ exchange[h] = "none" => exchange'[h] = "none"
                             /\ exchange'[h] = "silent" => exchange[h] \in {"waiting", "silent"}
  BY DEF ExitService, Close, ExchangeInv, ClientTypeOK, ExchangeStates
<1>2. ClientTypeOK'
  <2>1. exchange' \in [Handlers -> ExchangeStates]
    BY <1>1 DEF ExitService
  <2> QED
    BY <1>1, <2>1 DEF ExchangeInv, ClientTypeOK
<1>3. Handled'
  BY <1>1 DEF ExchangeInv, Handled, Early, hasSsh, Handlers
<1>4. NoSilentExit'
  BY <1>1 DEF ExchangeInv, NoSilentExit
<1> QED
  BY <1>2, <1>3, <1>4 DEF ExchangeInv

LEMMA ExitStepsExchanges ==
  ASSUME LaunchInv, ExchangeInv,
         \/ KillService \/ ServiceFails \/ ResponseFails \/ Drained \/ AcceptFails \/ ServiceDies
         \/ Drain /\ ~hasSsh
  PROVE  ExchangeInv'
<1>1. CASE KillService
  BY <1>1, ExitExchanges DEF KillService, LaunchInv, Phase, ExchangeInv, Handled, Early
<1>2. CASE ServiceFails \/ ResponseFails
  BY <1>2, ExitExchanges DEF ServiceFails, ResponseFails, ExchangeInv, Handled, Early
<1>3. CASE Drained
  <2>1. \A h \in Handlers : exchange[h] # "waiting"
    BY <1>3 DEF Drained, Idle, Prompt, ExchangeInv, Handled, Handlers
  <2> QED
    BY <1>3, <2>1, ExitExchanges DEF Drained
<1>4. CASE AcceptFails \/ ServiceDies
  BY <1>4, ExitExchanges DEF AcceptFails, ServiceDies
<1>5. CASE Drain /\ ~hasSsh
  BY <1>5, ExitExchanges DEF Drain, ExchangeInv, Handled
<1> QED
  BY <1>1, <1>2, <1>3, <1>4, <1>5

\* One exchange gets a new state and its handler does not change.
LEMMA ExchangeMoves ==
  ASSUME ExchangeInv, NEW h \in Handlers, NEW e \in ExchangeStates \ {"waiting", "silent"},
         exchange[h] # "none", exchange' = [exchange EXCEPT ![h] = e],
         UNCHANGED <<service, features, fault, git, helper, doing>>
  PROVE  ExchangeInv'
BY DEF ExchangeInv, ClientTypeOK, Handled, NoSilentExit, hasSsh, Handlers, ExchangeStates

LEMMA LaunchLeavesExchanges ==
  ASSUME ExchangeInv, LaunchInv,
         \/ LauncherStep \/ ReadValue \/ OwnerExits \/ WriterStep
         \/ Prepare \/ WriteLength \/ WriteBody \/ Release
  PROVE  ExchangeInv'
<1>1. UNCHANGED <<features, fault, git, helper, exchange, doing>> /\ service' \in Stages
      /\ (service \notin Early => service' = service)
  BY DEF LauncherStep, WriteRequest, ReadLength, ReadBody, ReadEof, ReadValue, OwnerExits,
         WriterStep, WriteValue, CloseValue, Prepare, WriteLength, WriteBody, Release,
         clientVars, agentVars, Early, Stages, LaunchInv, LaunchTypeOK
<1> QED
  BY <1>1 DEF ExchangeInv, ClientTypeOK, Handled, NoSilentExit, hasSsh

LEMMA HelperKeeps == ExchangeInv /\ HelperStep => ExchangeInv'
<1> SUFFICES ASSUME ExchangeInv, HelperStep PROVE ExchangeInv'
  OBVIOUS
<1>1. CASE HandleHelper
  <2>0. UNCHANGED <<service, features, fault, doing>> /\ hasSsh /\ service \notin Early
    BY <1>1 DEF HandleHelper, Serving, launchVars, agentVars, Early
  <2>1. CASE /\ helper' = "sign" /\ git = "sign" /\ UNCHANGED git
             /\ Begin("git") \/ exchange' = [exchange EXCEPT !["git"] = "refused"]
    BY <2>0, <2>1 DEF Begin, ExchangeInv, ClientTypeOK, ExchangeStates, Handled, NoSilentExit, hasSsh, Handlers
  <2>2. CASE helper' = "closed" /\ git' \in {git, "configured"} /\ UNCHANGED exchange /\ helper = "open"
    BY <2>0, <2>2 DEF ExchangeInv, ClientTypeOK, Handled, NoSilentExit, hasSsh, Handlers
  <2> QED
    BY <1>1, <2>1, <2>2 DEF HandleHelper
<1>2. CASE AnswerHelper
  <2>0. UNCHANGED <<service, features, fault, doing>>
    BY <1>2 DEF AnswerHelper, launchVars, agentVars
  <2> QED
    BY <1>2, <2>0 DEF AnswerHelper, ExchangeInv, ClientTypeOK, ExchangeStates, Handled, NoSilentExit, hasSsh, Handlers
<1>3. CASE CancelExchange("git")
  BY <1>3, ExchangeMoves DEF CancelExchange, launchVars, agentVars, Handlers, ExchangeStates
<1>4. CASE CompleteExchange("git")
  <2>1. \E e \in {"approved", "refused"} : exchange' = [exchange EXCEPT !["git"] = e]
    BY <1>4 DEF CompleteExchange, Handlers, ExchangeInv, ClientTypeOK
  <2> QED
    BY <1>4, <2>1, ExchangeMoves DEF CompleteExchange, launchVars, agentVars, Handlers, ExchangeStates
<1> QED
  BY <1>1, <1>2, <1>3, <1>4 DEF HelperStep

LEMMA ConnectionKeeps == ExchangeInv /\ ConnectionStep => ExchangeInv'
<1> SUFFICES ASSUME ExchangeInv, ConnectionStep PROVE ExchangeInv'
  OBVIOUS
<1>1. CASE HandleAgent \/ LeaveAgent
  <2>1. doing # "authenticate"
    BY <1>1 DEF HandleAgent, LeaveAgent, AgentStep, ReadPacket, ReadEnd, ConnectUpstream, Forward,
       Unavailable, UpstreamAnswer, UpstreamFails, WriteReply, WriteFails
  <2>2. UNCHANGED <<service, features, fault, git, helper, exchange>>
    BY <1>1 DEF HandleAgent, LeaveAgent, launchVars, clientVars
  <2> QED
    BY <2>1, <2>2 DEF ExchangeInv, ClientTypeOK, Handled, NoSilentExit, hasSsh
<1>2. CASE BeginAuthentication
  <2>0. UNCHANGED <<service, features, fault, git, helper, doing>> /\ hasSsh /\ service \notin Early
        /\ doing = "authenticate"
    BY <1>2 DEF BeginAuthentication, Serving, launchVars, agentVars, Early
  <2> QED
    BY <1>2, <2>0 DEF BeginAuthentication, Begin, ExchangeInv, ClientTypeOK, ExchangeStates, Handled, NoSilentExit,
       hasSsh, Handlers
<1>3. CASE EndAuthentication
  BY <1>3 DEF EndAuthentication, launchVars, ExchangeInv, ClientTypeOK, ExchangeStates, Handled, NoSilentExit,
     hasSsh, Handlers
<1>4. CASE CancelExchange("agent")
  BY <1>4, ExchangeMoves DEF CancelExchange, launchVars, agentVars, Handlers, ExchangeStates
<1>5. CASE CompleteExchange("agent")
  <2>1. \E e \in {"approved", "refused"} : exchange' = [exchange EXCEPT !["agent"] = e]
    BY <1>5 DEF CompleteExchange, Handlers, ExchangeInv, ClientTypeOK
  <2> QED
    BY <1>5, <2>1, ExchangeMoves DEF CompleteExchange, launchVars, agentVars, Handlers, ExchangeStates
<1> QED
  BY <1>1, <1>2, <1>3, <1>4, <1>5 DEF ConnectionStep

LEMMA GitKeeps == ExchangeInv /\ GitStep => ExchangeInv'
BY DEF GitStep, GitStarts, GitPassesOn, GitAsks, GitFails, Connect, launchVars, agentVars,
   ExchangeInv, ClientTypeOK, Handled, NoSilentExit, hasSsh, Handlers

LEMMA ExchangeNext == LaunchInv /\ ExchangeInv /\ [Next]_vars => ExchangeInv'
<1> SUFFICES ASSUME LaunchInv, ExchangeInv, [Next]_vars PROVE ExchangeInv'
  OBVIOUS
<1>1. CASE LauncherStep \/ ReadValue \/ OwnerExits \/ WriterStep
  BY <1>1, LaunchLeavesExchanges
<1>2. CASE ServiceStep
  <2>1. CASE Drain /\ hasSsh
    <3>1. UNCHANGED <<features, fault, git, exchange, doing>> /\ service' = "drain" /\ hasSsh'
          /\ helper' = IF helper = "backlog" THEN "closed" ELSE helper
      BY <2>1 DEF Drain, agentVars, hasSsh
    <3> QED
      BY <3>1 DEF ExchangeInv, ClientTypeOK, Handled, NoSilentExit, Early
  <2> QED
    BY <1>2, <2>1, LaunchLeavesExchanges, ExitStepsExchanges DEF ServiceStep
<1>3. CASE KillService \/ AcceptFails \/ ServiceDies
  BY <1>3, ExitStepsExchanges
<1>4. CASE AcceptHelper \/ AcceptAgent
  BY <1>4 DEF AcceptHelper, AcceptAgent, Admission, Close, launchVars, clientVars, agentVars,
     ExchangeInv, ClientTypeOK, Handled, NoSilentExit, hasSsh
<1>5. CASE HelperStep \/ ConnectionStep \/ GitStep
  BY <1>5, HelperKeeps, ConnectionKeeps, GitKeeps
<1>6. CASE DeviceAnswers
  BY <1>6, ExchangeMoves DEF DeviceAnswers, launchVars, agentVars, Handlers, ExchangeStates
<1>7. CASE Peers
  BY <1>7 DEF Peers, PeerStep, ClientLeaves, UpstreamServes, UpstreamLeaves, launchVars, clientVars,
     ExchangeInv, ClientTypeOK, Handled, NoSilentExit, hasSsh
<1>8. CASE Ended \/ UNCHANGED vars
  BY <1>8 DEF Ended, vars, launchVars, clientVars, agentVars, ExchangeInv, ClientTypeOK, Handled,
     NoSilentExit, hasSsh
<1> QED
  BY <1>1, <1>2, <1>3, <1>4, <1>5, <1>6, <1>7, <1>8 DEF Next

LEMMA ExchangeInit == Init => ExchangeInv
BY DEF Init, AgentInit, ExchangeInv, ClientTypeOK, ExchangeStates, Handled, NoSilentExit, Handlers

\* Unless it fails, a service never ends while an exchange waits for the device:
\* every cancelled exchange gets to its aborted completion.
THEOREM NeverExitsSilently == Spec => []NoSilentExit
<1>1. Init => LaunchInv /\ ExchangeInv
  BY LaunchInit, ExchangeInit
<1>2. LaunchInv /\ ExchangeInv /\ [Next]_vars => LaunchInv' /\ ExchangeInv'
  BY LaunchNext, ExchangeNext
<1>3. ExchangeInv => NoSilentExit
  BY DEF ExchangeInv
<1> QED
  BY <1>1, <1>2, <1>3, PTL DEF Spec

\* All variables of launch, clients and agent connection keep their types.
THEOREM ServiceTypeCorrect == Spec => []TypeOK
<1>1. Init => LaunchInv /\ ExchangeInv /\ AnswerInv
  BY LaunchInit, ExchangeInit, AnswersInit
<1>2. LaunchInv /\ ExchangeInv /\ AnswerInv /\ [Next]_vars => LaunchInv' /\ ExchangeInv' /\ AnswerInv'
  BY LaunchNext, ExchangeNext, AgentAlone, AnswersNext
<1>3. LaunchInv /\ ExchangeInv /\ AnswerInv => TypeOK
  BY DEF LaunchInv, LaunchTypeOK, ExchangeInv, ClientTypeOK, ExchangeStates, AnswerInv, TypeOK, Stages, Piped
<1> QED
  BY <1>1, <1>2, <1>3, PTL DEF Spec
=============================================================================
