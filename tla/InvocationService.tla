-------------------------- MODULE InvocationService --------------------------
(***************************************************************************)
(* The invocation service (invocation_service.rs): a second process that   *)
(* the launcher starts before it becomes the approved command.  It delivers *)
(* a standard-input value and serves a Git signing helper and an SSH agent *)
(* connection until its owner, the launcher and then the command, exits.   *)
(*                                                                         *)
(* Launcher and service talk over two pipes; the second one carries the    *)
(* startup response and then the value, which a thread of its own writes.  *)
(* A signature is an exchange with the device (module ApprovalExchange),   *)
(* of which waiting, completing and its end are kept.  The clients' place  *)
(* in the process tree is external: require_invocation_client admits a     *)
(* client or not.                                                          *)
(***************************************************************************)
EXTENDS AgentConnection

CONSTANTS
  Services,  \* the sets of features of the services considered
  Value,     \* the standard-input value, in chunks that one write can place
  PipeSize   \* how many chunks the pipe holds

ASSUME ServiceAssumption == Services \subseteq SUBSET {"input", "git", "agent"}
ASSUME PipeAssumption == PipeSize \in Nat \ {0}
ASSUME ValueAssumption ==
  Value \in Seq(STRING) /\ Range(Value) \cap {"length", "ready", "error"} = {}

VARIABLES
  features,   \* what the service does: deliver input, sign for git, be an agent
  owner,      \* the launcher's progress; then the command
  heir,       \* whether a descendant holds the command's standard input
  startup,    \* the first pipe: empty, written, or closed without a request
  pipe,       \* the second pipe
  outOpen,    \* whether the service still holds its write end
  received,   \* what the command has read from it
  eof,        \* whether the command has read its end
  service,    \* the main thread of the service
  monitored,  \* the process that the service watches
  writer,     \* the writer thread
  written,    \* how many chunks it has written
  fault,      \* whether the service was killed, or an accept failed
  git,        \* the Git signing helper
  helper,     \* its connection
  exchange    \* the exchanges of the helper and of the agent connection

launchVars == <<features, owner, heir, startup, pipe, outOpen, received, eof,
                service, monitored, writer, written, fault>>
clientVars == <<git, helper, exchange>>
vars == <<launchVars, clientVars, agentVars>>

Handlers == {"git", "agent"}
hasInput == "input" \in features
hasSsh == features \cap {"git", "agent"} # {}
Readers == owner \in {"length", "body", "command"} \/ heir

TypeOK ==
  /\ AgentTypeOK
  /\ features \in Services /\ heir \in BOOLEAN
  /\ outOpen \in BOOLEAN /\ eof \in BOOLEAN
  /\ owner \in {"request", "length", "body", "command", "failed", "exited"}
  /\ startup \in {"empty", "written", "closed"}
  /\ pipe \in Seq({"length", "ready", "error"} \cup Range(Value)) /\ Len(pipe) <= PipeSize
  /\ received \in Seq(Range(Value))
  /\ service \in {"read", "length", "body", "release", "failed", "serve", "drain", "exited"}
  /\ monitored \in {"none", "owner", "other"}
  /\ writer \in {"none", "waiting", "writing", "done"} /\ written \in 0..Len(Value)
  /\ fault \in {"none", "killed", "accept"}
  /\ git \in {"idle", "configuration", "configured", "sign", "signed", "failed", "other"}
  /\ helper \in {"closed", "backlog", "open", "sign"}
  /\ exchange \in [Handlers -> {"none", "waiting", "answered", "aborting", "approved",
                                "refused", "cut", "silent"}]

Init ==
  /\ AgentInit
  /\ features \in Services
  /\ owner = "request" /\ heir = FALSE /\ startup = "empty"
  /\ pipe = <<>> /\ outOpen = TRUE /\ received = <<>> /\ eof = FALSE
  /\ service = "read" /\ monitored = "none" /\ writer = "none" /\ written = 0 /\ fault = "none"
  /\ git = "idle" /\ helper = "closed" /\ exchange = [h \in Handlers |-> "none"]

-----------------------------------------------------------------------------
(* The launcher: InvocationService::start *)

\* initialize writes the startup request and closes the pipe; the service reads
\* up to its end.
MutLeftOpen == "empty"
Sent == "written"

WriteRequest ==
  /\ owner = "request"
  /\ IF service = "exited" THEN owner' = "failed" /\ UNCHANGED startup
                           ELSE owner' = "length" /\ startup' = Sent
  /\ UNCHANGED <<features, heir, pipe, outOpen, received, eof, service, monitored,
                 writer, written, fault, clientVars, agentVars>>

\* read_response: a length, then the response.
ReadLength ==
  /\ owner = "length" /\ pipe # <<>>
  /\ owner' = IF Head(pipe) = "length" THEN "body" ELSE "failed"
  /\ pipe' = Tail(pipe)
  /\ UNCHANGED <<features, heir, startup, outOpen, received, eof, service, monitored,
                 writer, written, fault, clientVars, agentVars>>

\* The command takes the rest of the pipe as its standard input.  The mutant
\* leaves the response, or its end, to the command.
MutShort ==
  /\ owner = "body" /\ pipe # <<>>
  /\ owner' = IF Head(pipe) = "ready" THEN "command" ELSE "failed"
  /\ UNCHANGED <<features, heir, startup, pipe, outOpen, received, eof, service, monitored,
                 writer, written, fault, clientVars, agentVars>>
ReadBody ==
  /\ owner = "body" /\ pipe # <<>>
  /\ owner' = IF Head(pipe) = "ready" THEN "command" ELSE "failed"
  /\ pipe' = Tail(pipe)
  /\ UNCHANGED <<features, heir, startup, outOpen, received, eof, service, monitored,
                 writer, written, fault, clientVars, agentVars>>

ReadEof ==
  /\ owner \in {"length", "body"} /\ pipe = <<>> /\ ~outOpen
  /\ owner' = "failed"
  /\ UNCHANGED <<features, heir, startup, pipe, outOpen, received, eof, service,
                 monitored, writer, written, fault, clientVars, agentVars>>

LauncherStep == WriteRequest \/ ReadLength \/ ReadBody \/ ReadEof

\* The command reads its standard input; a descendant can go on after its exit.
ReadValue ==
  /\ hasInput /\ ~eof
  /\ owner = "command" \/ heir
  /\ \/ pipe # <<>> /\ received' = Append(received, Head(pipe)) /\ pipe' = Tail(pipe)
          /\ UNCHANGED eof
     \/ pipe = <<>> /\ ~outOpen /\ eof' = TRUE /\ UNCHANGED <<received, pipe>>
  /\ UNCHANGED <<features, owner, heir, startup, outOpen, service, monitored, writer,
                 written, fault, clientVars, agentVars>>

\* The owner exits, or is killed, at any time.
OwnerExits ==
  /\ owner # "exited"
  /\ owner' = "exited"
  /\ heir' \in IF owner = "command" /\ hasInput THEN BOOLEAN ELSE {FALSE}
  /\ startup' = IF startup = "written" THEN "written" ELSE "closed"
  /\ UNCHANGED <<features, pipe, outOpen, received, eof, service, monitored, writer,
                 written, fault, clientVars, agentVars>>

-----------------------------------------------------------------------------
(* The service: run *)

\* The kernel closes everything when the process exits.  Handlers are dropped,
\* and an exchange that waits for the device ends without a completion.
ExitService ==
  /\ service' = "exited" /\ outOpen' = FALSE
  /\ writer' = IF writer = "none" THEN "none" ELSE "done"
  /\ helper' = "closed"
  /\ exchange' = [h \in Handlers |->
       CASE exchange[h] = "waiting" -> "silent"
         [] exchange[h] \in {"answered", "aborting"} -> "cut"
         [] OTHER -> exchange[h]]
  /\ Close

\* InvocationService::start kills the service when initialize fails.
KillService ==
  /\ owner = "failed" /\ service # "exited"
  /\ ExitService
  /\ UNCHANGED <<features, owner, heir, startup, pipe, received, eof, monitored,
                 written, fault, git>>

\* open_process finds the owner or, if the owner has exited, whoever got its
\* identifier.
Opened == {"owner"} \cup (IF owner = "exited" THEN {"other"} ELSE {})

\* Failures up to the creation of the writer thread are reported.
MutAtOnce == "writing"
FirstWrite == "waiting"

Prepare ==
  /\ service = "read" /\ startup \in {"written", "closed"}
  /\ service' = "length"
  /\ \/ UNCHANGED <<monitored, writer>>
     \/ /\ startup = "written"
        /\ monitored' \in Opened
        /\ writer' = IF hasInput THEN FirstWrite ELSE "none"
  /\ UNCHANGED <<features, owner, heir, startup, pipe, outOpen, received, eof, written, fault,
                 clientVars, agentVars>>

Room == Len(pipe) < PipeSize

\* write_response; after an error response the service exits in its own time.
WriteLength ==
  /\ service = "length" /\ Readers /\ Room
  /\ pipe' = Append(pipe, "length") /\ service' = "body"
  /\ UNCHANGED <<features, owner, heir, startup, outOpen, received, eof, monitored,
                 writer, written, fault, clientVars, agentVars>>

WriteBody ==
  /\ service = "body" /\ Readers /\ Room
  /\ IF monitored # "none" THEN pipe' = Append(pipe, "ready") /\ service' = "release"
                           ELSE pipe' = Append(pipe, "error") /\ service' = "failed"
  /\ UNCHANGED <<features, owner, heir, startup, outOpen, received, eof, monitored,
                 writer, written, fault, clientVars, agentVars>>

ServiceFails ==
  /\ service = "failed"
  /\ ExitService
  /\ UNCHANGED <<features, owner, heir, startup, pipe, received, eof, monitored,
                 written, fault, git>>

\* A response that nobody can read ends the service.
MutGoesOn ==
  /\ service \in {"length", "body"} /\ ~Readers
  /\ service' = "release"
  /\ UNCHANGED <<features, owner, heir, startup, pipe, outOpen, received, eof,
                 monitored, writer, written, fault, clientVars, agentVars>>
ResponseFails ==
  /\ service \in {"length", "body"} /\ ~Readers
  /\ ExitService
  /\ UNCHANGED <<features, owner, heir, startup, pipe, received, eof, monitored,
                 written, fault, git>>

\* run releases the writer thread, or closes standard output.
MutClosed == FALSE
KeepsOutput == hasInput

Release ==
  /\ service = "release"
  /\ service' = "serve"
  /\ writer' = IF writer = "waiting" THEN "writing" ELSE writer
  /\ outOpen' = KeepsOutput
  /\ UNCHANGED <<features, owner, heir, startup, pipe, received, eof, monitored, written, fault,
                 clientVars, agentVars>>

\* The writer thread: the value, then the end of the pipe.  Errors end it early.
WriteValue ==
  /\ writer = "writing" /\ written < Len(Value) /\ outOpen /\ Readers /\ Room
  /\ written' = written + 1
  /\ pipe' = Append(pipe, Value[written'])
  /\ UNCHANGED <<features, owner, heir, startup, outOpen, received, eof, service,
                 monitored, writer, fault, clientVars, agentVars>>

CloseValue ==
  /\ writer = "writing"
  /\ written = Len(Value) \/ ~Readers \/ ~outOpen
  /\ writer' = "done" /\ outOpen' = FALSE
  /\ UNCHANGED <<features, owner, heir, startup, pipe, received, eof, service,
                 monitored, written, fault, clientVars, agentVars>>

WriterStep == WriteValue \/ CloseValue

-----------------------------------------------------------------------------
(* The service: serve *)

OwnerIsGone == owner = "exited" /\ monitored = "owner"

Serving == hasSsh /\ service \in {"serve", "drain"}

\* require_invocation_client: the kernel says whether a client belongs to the command.
Admission == {"open", "closed"}

\* serve accepts a connection and its handler admits the client, or not.
AcceptHelper ==
  /\ service = "serve" /\ helper = "backlog"
  /\ helper' \in Admission
  /\ UNCHANGED <<launchVars, git, exchange, agentVars>>

AcceptAgent ==
  /\ "agent" \in features /\ service = "serve" /\ doing = "none"
  /\ \/ doing' = "read"
       /\ UNCHANGED <<supported, gone, taken, kind, reply, upstreamVars>>
     \/ Close
  /\ UNCHANGED <<launchVars, clientVars>>

\* An error of accept ends serve at once.
AcceptFails ==
  /\ hasSsh /\ service = "serve" /\ fault = "none"
  /\ fault' = "accept"
  /\ ExitService
  /\ UNCHANGED <<features, owner, heir, startup, pipe, received, eof, monitored, git, written>>

\* An abrupt failure of the service.
ServiceDies ==
  /\ service # "exited" /\ fault = "none"
  /\ fault' = "killed"
  /\ ExitService
  /\ UNCHANGED <<features, owner, heir, startup, pipe, received, eof, monitored, git, written>>

\* The owner has exited: the listeners are dropped with the connections that
\* nobody has accepted, and the handlers go on.
MutLeave ==
  /\ service = "serve" /\ OwnerIsGone
  /\ ExitService
  /\ UNCHANGED <<features, owner, heir, startup, pipe, received, eof, monitored,
                 written, fault, git>>
Drain ==
  /\ service = "serve" /\ OwnerIsGone
  /\ \/ /\ hasSsh
        /\ service' = "drain"
        /\ helper' = IF helper = "backlog" THEN "closed" ELSE helper
        /\ UNCHANGED <<outOpen, writer, exchange, agentVars>>
     \/ ~hasSsh /\ ExitService
  /\ UNCHANGED <<features, owner, heir, startup, pipe, received, eof, monitored,
                 written, fault, git>>

Idle == helper = "closed" /\ doing \in {"none", "closed"}

\* What the service does by itself takes no time compared to the shutdown timeout.
MutNoTimeout == FALSE
Prompt ==
  /\ helper # "open" /\ doing \notin {"read", "forward"}
  /\ \A h \in Handlers : exchange[h] # "waiting"
  /\ doing = "authenticate" => exchange["agent"] # "none"

\* All handlers have ended, or the shutdown timeout drops them.
Drained ==
  /\ service = "drain" /\ (Idle \/ Prompt)
  /\ ExitService
  /\ UNCHANGED <<features, owner, heir, startup, pipe, received, eof, monitored,
                 written, fault, git>>

ServiceStep ==
  \/ Prepare \/ WriteLength \/ WriteBody \/ ServiceFails \/ ResponseFails \/ Release
  \/ Drain \/ Drained

-----------------------------------------------------------------------------
(* The handlers and their exchanges *)

\* An exchange whose cancellation has resolved is not even requested.
Begin(h) == exchange' = [exchange EXCEPT ![h] = IF OwnerIsGone THEN "refused" ELSE "waiting"]

\* handle_connection reads the request, or ends with the owner.  A request to
\* sign that does not name the selected key or cannot be decoded gets an error.
HandleHelper ==
  /\ Serving /\ helper = "open"
  /\ \/ git = "configuration" /\ helper' = "closed" /\ git' = "configured"
          /\ UNCHANGED exchange
     \/ /\ git = "sign" /\ helper' = "sign" /\ UNCHANGED git
        /\ Begin("git") \/ exchange' = [exchange EXCEPT !["git"] = "refused"]
     \/ OwnerIsGone /\ helper' = "closed" /\ UNCHANGED <<git, exchange>>
  /\ UNCHANGED <<launchVars, agentVars>>

\* The signature or the error is written to the helper.
AnswerHelper ==
  /\ Serving /\ helper = "sign" /\ exchange["git"] \in {"approved", "refused"}
  /\ helper' = "closed"
  /\ git' = IF exchange["git"] = "approved" THEN "signed" ELSE "failed"
  /\ exchange' = [exchange EXCEPT !["git"] = "none"]
  /\ UNCHANGED <<launchVars, agentVars>>

\* handle_agent_connection: the loop ends with the owner when it reads.
HandleAgent ==
  /\ Serving /\ AgentStep
  /\ UNCHANGED <<launchVars, clientVars>>

LeaveAgent ==
  /\ Serving /\ doing = "read" /\ OwnerIsGone
  /\ Close
  /\ UNCHANGED <<launchVars, clientVars>>

BeginAuthentication ==
  /\ Serving /\ doing = "authenticate" /\ exchange["agent"] = "none"
  /\ Begin("agent")
  /\ UNCHANGED <<launchVars, git, helper, agentVars>>

EndAuthentication ==
  /\ Serving /\ exchange["agent"] \in {"approved", "refused"}
  /\ Authenticated(IF exchange["agent"] = "approved" THEN "device" ELSE "service")
  /\ exchange' = [exchange EXCEPT !["agent"] = "none"]
  /\ UNCHANGED <<launchVars, git, helper>>

\* The device answers, or the exchange fails; either waits for a completion.
DeviceAnswers ==
  /\ \E h \in Handlers :
       /\ exchange[h] = "waiting"
       /\ exchange' = [exchange EXCEPT ![h] = "answered"]
  /\ UNCHANGED <<launchVars, git, helper, agentVars>>

\* The owner's exit cancels the exchanges.
CancelExchange(h) ==
  /\ OwnerIsGone /\ exchange[h] = "waiting"
  /\ exchange' = [exchange EXCEPT ![h] = "aborting"]
  /\ UNCHANGED <<launchVars, git, helper, agentVars>>

\* What the device can send, or a failure of the exchange.
Answers == {"failure", "nothing", "malformed", "other algorithm", "signature"}

\* request_git_signature takes whatever is enclosed like an SSH signature;
\* request_ssh_authentication takes two strings, the requested algorithm and a
\* value of its length, with nothing behind them.  The rest is an error.
GitSignature(a) == a \in {"other algorithm", "signature"}
AuthenticationSignature(a) == a = "signature"

\* A completion ends; every one is bounded (ApprovalExchange!CancelledReturns).
CompleteExchange(h) ==
  /\ exchange[h] \in {"answered", "aborting"}
  /\ \E a \in Answers :
       LET accepted == IF h = "git" THEN GitSignature(a) ELSE AuthenticationSignature(a)
       IN exchange' = [exchange EXCEPT ![h] =
            IF @ = "answered" /\ accepted THEN "approved" ELSE "refused"]
  /\ UNCHANGED <<launchVars, git, helper, agentVars>>

HelperStep == HandleHelper \/ AnswerHelper \/ CancelExchange("git") \/ CompleteExchange("git")
ConnectionStep ==
  \/ HandleAgent \/ LeaveAgent \/ BeginAuthentication \/ EndAuthentication
  \/ CancelExchange("agent") \/ CompleteExchange("agent")

-----------------------------------------------------------------------------
(* The Git signing helper: git_signing_helper and call_service *)

\* Everything but a verification starts with a request for the configuration.
\* Without listeners no connection can be made.
Connect(g) ==
  IF service \in {"release", "serve"}
  THEN git' = g /\ helper' = "backlog"
  ELSE git' = "failed" /\ UNCHANGED helper

GitStarts ==
  /\ "git" \in features /\ git = "idle" /\ owner = "command"
  /\ Connect("configuration") \/ (git' = "other" /\ UNCHANGED helper)
  /\ UNCHANGED <<launchVars, exchange, agentVars>>

\* What is no Git signature with the selected key is delegated or rejected; the
\* helper also ends here after it has printed the key.
GitPassesOn ==
  /\ git = "configured"
  /\ git' \in {"other", "failed"}
  /\ UNCHANGED <<launchVars, helper, exchange, agentVars>>

GitAsks ==
  /\ git = "configured"
  /\ Connect("sign")
  /\ UNCHANGED <<launchVars, exchange, agentVars>>

\* The service has closed the connection without an answer.
GitFails ==
  /\ git \in {"configuration", "sign"} /\ helper = "closed"
  /\ git' = "failed"
  /\ UNCHANGED <<launchVars, helper, exchange, agentVars>>

GitStep == GitStarts \/ GitPassesOn \/ GitAsks \/ GitFails

Peers ==
  /\ hasSsh /\ service \in {"serve", "drain"}
  /\ PeerStep
  /\ UNCHANGED <<launchVars, clientVars>>

Ended == service = "exited" /\ owner = "exited" /\ UNCHANGED vars

Next ==
  \/ LauncherStep \/ KillService \/ ReadValue \/ OwnerExits
  \/ ServiceStep \/ WriterStep \/ AcceptHelper \/ AcceptAgent \/ AcceptFails \/ ServiceDies
  \/ HelperStep \/ ConnectionStep \/ DeviceAnswers \/ GitStep \/ Peers \/ Ended

\* The processes run and the runtime polls what is woken; the shutdown timeout
\* fires.  Nothing is assumed of the device, the clients, the upstream agent and
\* the command.
Spec ==
  /\ Init /\ [][Next]_vars
  /\ WF_vars(LauncherStep) /\ WF_vars(KillService) /\ WF_vars(ServiceStep)
  /\ WF_vars(HelperStep) /\ WF_vars(ConnectionStep) /\ WF_vars(GitFails)

-----------------------------------------------------------------------------
(* Properties *)

\* The startup of a service that prepared itself never fails, unless the service
\* was killed: the value that follows the response in the same pipe cannot get
\* ahead of it or between its parts (invocation_service.rs run, which releases
\* the writer thread only after the response).
PreparedIsAccepted ==
  (owner = "failed" /\ monitored # "none") => fault = "killed"

\* The command reads the value and nothing else, and reads the end of its input
\* only after all of it, unless the service went away early: the owner exited
\* before a descendant read the rest, or a fault ended the service
\* (prepare_stdin_writer; docs/command-execution.md:309, the exact value).
InputIsWhole ==
  /\ IsPrefix(received, Value)
  /\ (eof /\ owner # "exited" /\ fault = "none") => received = Value

\* The service never serves on behalf of another process: if the launcher died
\* and its identifier was reused before the service opened it, the response
\* cannot be written (prepare, run).
ServesItsOwner == service \in {"serve", "drain"} => monitored = "owner"

\* When the owner exits, every exchange that waits for the device gets to its
\* aborted completion before the service ends; only a fault drops it silently
\* (serve; docs/command-execution.md:434).
NoSilentExit == fault = "none" => \A h \in Handlers : exchange[h] # "silent"

\* The launcher gets an answer, or the end of the pipe, whatever happens to the
\* service (start, initialize).
LauncherReturns == owner \in {"length", "body"} ~> owner \notin {"length", "body"}

\* Once the owner has exited, the service ends and no helper waits for it any
\* longer, whatever relay, device and clients do (serve, its shutdown timeout).
EverybodyIsReleased ==
  owner = "exited" ~> (service = "exited" /\ git \notin {"configuration", "sign"})
=============================================================================
