# A formal model of the Agentknock client

This directory holds TLA+ modules that model the Agentknock client, TLC
configurations that check them on small instances, and proofs that TLAPS
checks for every size of the parameters. The modules follow the Rust code, with
its tests and documents to read it by; `PROJECT.json` maps each definition to
the lines it stands for. Sources are quoted relative to the repository.

    tlc -workers 2 -config PairingRotation.cfg MCPairing.tla
    tlapm PairingRecovery.tla

## The system

Agentknock lets a command use secrets that a person approves on another device.
A client has one *pairing* with a device, kept in one file. To use a secret it
seals a request with the pairing's pre-shared key (PSK), hands it to a relay
over a WebSocket, waits for the device's response, and reports the outcome in a
completion. `agentknock run` then replaces its own process with the command.
Nothing stays in memory between two invocations of the client: what persists is
the pairing file, and the record that relay and device keep of an exchange.

| Component | State | Operations | Interacts with | Module |
| --- | --- | --- | --- | --- |
| Pairing file store (`config.rs`) | one JSON file: pending flag, IDs, PSK, rotation key, rotation time; an exclusive lock on its directory | unlocked reads; locked write, rotation, confirmation, activation, removal; rename, then directory sync | all processes of one home, through the file system | `Pairing`, `PairingPromise` |
| Pairing operations (`pairing.rs`) | none of their own | start, finish, abort, force-remove, remove, rotate | file store, relay exchange, device | `Pairing`, `ClientRequest` |
| Cryptographic session (`crypto.rs`) | ready, request sealed, completion sealed | seal request, open response, seal completion, derive a successor PSK | pairing operations, approvals | as far as its callers depend on it |
| Relay exchange (`websocket.rs`) | socket, the request (sent, acknowledged), the completion (sent), retry counter | `request`, `complete`, `complete_briefly`, `complete_or_cancel` | proxy, relay; its owner can drop its futures | `RelayExchange` |
| Approval exchange (`exchange.rs`) | which await runs | `approval_exchange` with a cancellation future | file store, relay exchange | `ApprovalExchange`, `ApprovalPromise` |
| Secret list and upload (`secrets.rs`) | which await runs | `list_secrets`, `upload_secret` | file store, relay exchange | `ClientRequest` |
| Secret use, Git signing, SSH authentication (`secret_use.rs`, `git_sign.rs`, `ssh_authentication.rs`) | none | build a request, validate and route what was approved | approval exchange | `SecretDelivery`, `InvocationService` |
| Command execution (`main.rs`, `executable.rs`) | signal dispositions and mask, selected executable | select, request, start service, check signals, replace the process | approval exchange, invocation service, kernel | `RunCommand`, `Executable`, `CommandLine` |
| Invocation service (`invocation_service.rs`) | sockets, active connections, stdin writer thread | startup handshake, serve, shutdown when the command exits | launcher, helpers, approval exchange | `InvocationService` |
| SSH agent connection (`ssh_agent.rs`) | upstream: unconnected, connected, unavailable | route, forward, list identities | SSH clients, upstream agent | `AgentConnection` |
| Proxy connection (`proxy.rs`) | the bytes of the proxy's answer | choose a proxy, open a tunnel | relay exchange, proxy | `ProxyTunnel` |
| Client and home (`client.rs`) | none | choose the home directory | every command | `CommandLine` |
| Command line (`main.rs`) | none that outlives a call | parse options, dispatch, read the sources of an upload | all of the above | `CommandLine`, `SecretInput` |
| Output, process information, Git description, installers | none | lookups and formatting | | not modelled |
| Relay, device | external | | client | as far as the client relies on them |

What makes these parts hard, and what makes them correct:

- *File store and rotation.* Processes read without the lock and write under it,
  so every write must find out what changed since its read. Requests outlive the
  process that sent them. The rename is visible before it is durable. Correct
  means: the stored PSK never leaves the device's reach, no generation is
  rotated twice, a delayed operation never touches a replacement pairing, and
  local activation and removal follow the device.
- *Relay exchange.* Its futures can be dropped at every await, its connection
  breaks at any point, and each side may or may not have what was sent. Correct
  means: a completion never overtakes its request, a decision is returned only
  when the relay has it, and a future never waits for what cannot come.
- *Approval exchange and the other requests.* Cancellation races with responses,
  failures and handoffs, and the local pairing changes between response and
  completion. Correct means: the device is not left without a completion, no
  completion lies about the local pairing, an authenticated answer is not lost,
  and a cancelled operation returns.
- *Command execution.* Signals arrive at every step of a sequence that ends in
  `execve`, and the file system changes between selection and execution. Correct
  means: a signal either stops the run or meets the disposition the caller chose,
  and the command that runs is the one that was approved, with what was approved.
- *Invocation service.* Two pipes carry both a handshake and standard input;
  connections are active when their owner exits; identifiers of processes are
  reused. Correct means: no byte of input precedes the handshake, every active
  exchange sends its completion within the shutdown timeout, nobody but the owner
  is served, and no service outlives its command for long.
- *SSH agent.* A forward that fails in the middle must not let a later packet
  read an earlier answer, and the selected key must stay with the device.
- *Secrets on their way.* Options, answers, inherited variables and the service's
  own settings meet in one environment. Correct means: what the command line
  accepts can be requested, and each approved value arrives where it was asked
  for and nowhere else.

`PROJECT.json` lists each hazard with its line and the properties about it.

## Modules

The modules form four groups. An arrow is an `EXTENDS` or `INSTANCE`.

    PairingPromise <- Pairing

    RelayExchange   <- ApprovalExchange
    ApprovalPromise <- ApprovalExchange
    RelayExchange   <- ClientRequest

    AgentConnection <- InvocationService

    RunCommand

    Executable, SecretInput, ProxyTunnel, SecretDelivery <- CommandLine

Between the groups a component stands for what its own module shows of it: in
`Pairing` a request is answered or not, as `RelayExchange` details; in
`InvocationService` a completion ends in bounded time, which is
`ApprovalExchange!CancelledReturns`; in `RunCommand` and `CommandLine` the
exchange ends in any way.

### `Pairing`: the file, its processes and the device

Each client process is one operation in progress. `pc` is where it stands,
`op` what it does (`write`, `abandon`, `finish`, `abort`, `force`, `use`,
`rotate`, `clear`, `remove`), `snap` the pairing it read before its request and
`held` what it read under the lock. `file` is what processes see, `disk` what a
power loss leaves.

| Action | Code |
| --- | --- |
| `StartPairing`, `HandOff` | `start_pairing`: absence check, fresh IDs, exchange; then the completion and `abort_pending_pairing` when it fails |
| `FinishPairing`, `RemovePairing`, `DropPairing` | the unlocked part of the other pairing operations |
| `Use`, `UseRead` | `maybe_rotate_psk`, and the second read that the request is sealed with |
| `Lock` | `DirectoryLock::new` and the read under it |
| `Commit`, `Rotate`, `Decline` | the write under the lock, or the early return; `Permitted` holds the conditions |
| `Sync` | `DirectoryLock::sync`, the release of the lock and what follows |
| `Receive`, `Report` | the opened response, and the completion of `finish_pairing` |
| `Stop`, `PowerLoss` | a killed, cancelled or failed process; the machine |
| `Decide`, `Answer...`, `OverlapEnds` | the device (external): user decision, ordinary and rotated requests, activation, end of the previous PSK's overlap |

The environment is as unkind as the documents allow: clock readings are
arbitrary members of `Times`, requests are answered in any order, those of dead
processes stay in flight (at most `MaxLate` of them), and every process can
stop at every step. A PSK is an element with a parent (`origin`), so that "the
device can derive it" is a relation and not an assumption. A request whose key
the device knows can fail to be answered by never being taken.

`PairingPromise` is the abstract specification: one client that adopts a
pairing when it has none, activates it after the device, forgets it, and changes
keys by a *handover*, which it opens by moving to a successor (`Succeed`) and
closes when it knows that the device has followed (`Settle`); the device moves
only within an open handover. `Pairing` implements it: `KeepsPromise` is
`Promise!Spec` with the file's state as the client's, `rot # None` as the open
handover and the parent of the stored PSK as the prior key. Every action of a
process is one of the promise's steps or a stutter.

### `RelayExchange`: one exchange with the relay

The client's future (`phase`, `policy`, `at`, `failures`), what it knows
(`request`, `completion`, `response`), its socket, frames that are written but
not flushed (`outbox`), the network in both directions, frames of abandoned
connections that the relay can still take (`late`), and the relay's record. Each
suspension point of the Rust futures is a value of `at`; a step goes from one to
the next. `GoOn` is the head of the loop in `complete_with_policy`, `Failed` is
`RetryState::failed`, and `DropFuture` is what `select!` and `timeout` do to a
pending future. Note that `tokio-websockets` keeps a frame whose flush was
dropped and flushes it with the next read (`FlushOnRead`).

### `ApprovalExchange` and `ClientRequest`: its owners

Both extend `RelayExchange` with a driver; a step belongs to the driver, the
running future, relay and device, or the faults. In `ApprovalExchange` `stage`
names the await of `approval_exchange`, and one action stands for each select
branch, error path and return. `ClientRequest` has the five operations without
an approval in one driver, because they share their shape and differ in order:

| Action | Code |
| --- | --- |
| `Start`, `DropPending`, `Dropped` | the first `select!`, a select that drops its future, and what is then left to do |
| `RequestFails`, `Open`, `Refused` | the end of `request`: an error, an authenticated answer, `reject_device_error` and the rejection of `finish_pairing` |
| `Apply` | the change of the pairing file between response and completion, which can fail before or after the file was replaced |
| `Complete`, `Completed` | `complete_or_cancel`, `complete` or `complete_briefly`, by operation, and how each uses its result |
| `AbortPending` | `abort_pending_pairing` of a `start` that failed or was cancelled after it stored its pairing |

`ApprovalPromise` is the abstract specification of an approval, without
connections, frames, retries and futures: the relay gets the request, the device
answers it, the client decides once, the relay learns of the decision, the client
returns. A decision of the device's is taken only after it answered and returned
only after the relay has its completion; a completion never precedes its request;
and a client that returns has decided about every request the relay has or can
still get. `ApprovalExchange` implements it: `KeepsPromise` is `Promise!Spec` with
the presence of request, response and completion in the relay's record for
`asked`, `answered` and `told`, and `outcome` for `decision`. What the relay
forgets (it expires a record, but keeps that it had one) stays told.

### `InvocationService` and `AgentConnection`: the second process

The launcher walks through `start` and `initialize` (`WriteRequest`,
`ReadLength`, `ReadBody`, `ReadEof`) and is then the command, which reads the
rest of the pipe (`ReadValue`) and exits at any time (`OwnerExits`). The service
walks through `run` (`Prepare`, `WriteLength`, `WriteBody`, `ServiceFails` or
`ResponseFails`, `Release`) and then `serve`: it accepts (`AcceptHelper`,
`AcceptAgent`, `AcceptFails`) until its owner is gone (`Drain`), and leaves when
its handlers have ended or the shutdown timeout drops them (`Drained`). The
writer thread (`WriteValue`, `CloseValue`) shares the pipe with the startup
response. The pipe holds `PipeSize` chunks, and a write waits for room and fails
without readers.

Handlers are the Git helper's (`HandleHelper`, `AnswerHelper`) and the agent's
(`HandleAgent`, `LeaveAgent`, `BeginAuthentication`, `EndAuthentication`), each
with an exchange that waits, completes or is cancelled (`CancelExchange`,
`CompleteExchange`). The Git side is `git_signing_helper` (`GitStarts`,
`GitPassesOn`, `GitAsks`, `GitFails`). An exchange that is dropped while it waits
is `silent`, one whose completion is dropped is `cut`. Processes die at every
step: the owner, the service, the client, the upstream agent.

`AgentConnection` is one connection: `Route` is `SelectedIdentity::route`,
`Listed` is `identities_response`, and `ConnectUpstream`, `Forward`,
`UpstreamAnswer` and `UpstreamFails` are `forward`, with an upstream connection
that is opened when it is first needed and given up at its first failure. The
upstream agent answers in order, arbitrarily late, cut off anywhere, or with an
invalid length after which anything follows.

### `CommandLine` and its parts

`pc` walks through one invocation: `Parse`, `SelectHome`, `Dispatch`, and for
`agentknock run` the selection of the executable, the request, the answer, the
service's additions, the verification, the environment and the execution; for
`agentknock secret upload` its sources; for the others the connection.
`SelectHome` and `Dispatch` only lead there; no property is about them. The parts:

- `SecretDelivery` has no state. `Parsed` is the command line, `Requestable`
  `validate_secret_options`, `Output` `secret_use_output_from_secrets`,
  `Additional` `InvocationService::environment` with the arithmetic on
  `GIT_CONFIG_COUNT`, `CommandEnvironment` `c_environment`.
- `Executable` makes a step of each system call of `select_from` and `execute`
  (open, check, canonicalize, open again, read, hash again, `execve`), reads files
  in two steps, and lets others change names, links, contents and permissions
  between any two of them (`Change`). It follows the Linux variant.
- `SecretInput` reads the sources of an upload one by one, the standard input
  only once, and asks at the terminal.
- `ProxyTunnel` chooses the proxy and reads its answer in pieces of any size, until
  the header ends, the limit is reached or the connection ends or fails.

### `RunCommand`: signals on the way to the command

`step` walks through `run_command` and `SelectedExecutable::execute`. The kernel
delivers a signal to any thread that does not block it; the runtime's handler
only notes it (`caught`), and the signal driver publishes it (`seen`) while the
program awaits. The runtime is single-threaded, so the driver stands still while
`run_command` blocks.

### Instances and proofs

`MCPairing`, `MCApprovalExchange`, `MCClientRequest`, `MCInvocationService` and
`MCCommandLine` hold symmetry sets, constants and inputs for TLC. The modules
whose names end in `Proof`, and `PairingRecovery`, hold the theorems.

## Runs

| Run | Question | Result |
| --- | --- | --- |
| `PairingRotation` | Do rotation, confirmation and delayed requests keep the pairing usable, and does the home keep its promise to the device? | `TypeOK`, `Recoverable`, `RotationSpacing`, `KeepsPromise` hold; 1.0 million states |
| `PairingReplacement` | Do delayed operations spare a replacement pairing, and does a power loss take back what was reported? | `ActiveOnlyAfterDevice`, `ReportedIsDurable`, `SparesReplacement`, `RemovedAfterDevice` hold, with power losses; 0.6 million |
| `PairingStranded` | Is rotation crash-safe? | `Recoverable` is violated by a power loss between rename and sync |
| `PairingUnconfirmed` | Does every authenticated response confirm its rotation? | `ConfirmedRotationIsCleared` is violated by a removal that the device refuses |
| `ApprovalSafety` | Do completions, decisions and cancellations fit together under faults? | `TypeOK`, `CompletionFollowsRequest`, `NeverSilent`, `WaitsUnlessCut` and the approval's promise, `KeepsPromise`, hold; 0.8 million |
| `ApprovalCut` | Is the completion sent again on every new connection? | `WaitsForAnswer` is violated after a future was dropped in a flush |
| `ApprovalLiveness` | Do approvals return? | `CancelledReturns`, `AnsweredReturns` hold; 0.1 million |
| `ClientRequests` | Do local pairing, completion and result of the other operations agree? | `TypeOK`, `CompletionTellsTheTruth`, `PendingOnlyIfStarted`, `SuccessIsHandedOff`, `AnswerIsKept`, `CancelledReturns` hold; 0.2 million |
| `InvocationService` | Do startup, input, shutdown and routing keep their promises when anybody dies? | `TypeOK`, `PreparedIsAccepted`, `InputIsWhole`, `ServesItsOwner`, `NoSilentExit`, `AnswersMatch`, `SelectedStaysHere`, `LauncherReturns`, `EverybodyIsReleased` hold; 0.3 million |
| `CommandLine` | Does a command run only as it was approved, and an upload contain only what was given? | `AcceptedIsRequestable`, `DeliveredAsApproved`, `GitSettingsAreKept`, `SearchesLikeExecvp`, `RunsTheApproved`, `UploadIsUnambiguous`, `IgnoresPieces` hold; 0.2 million |
| `RunSignals` | Are blocked signals honoured, and does a signal end the wait? | `TypeOK`, `BlockedSignalIsHonoured`, `SignalEndsWait` hold |
| `RunConsumed` | Does a signal after the response prevent execution? | `SignalPreventsExecution` is violated: the handler consumes a signal that nobody looks at |

Bounds:

- *Pairing.* Two processes, and two clients with two PSKs or one client with
  three. A race for the file needs two processes; a stale clear needs three
  generations (the original, the one confirmed late and the one it must spare); a
  replacement needs two clients. The theorems below remove these bounds.
  `Times` has a value on each side of the cutoff: `Interval` is 1, and
  `{0, 2, 4}` leaves room for two rotations. `MaxLate` is 2 where two late
  requests can differ, and 1 elsewhere.
- *Exchanges.* `MaxFaults` counts lost connections, failed connects, relay errors
  and expirations. Three allow a fault in each of request, completion and brief
  completion; liveness and `ClientRequests` use two. The normal retry policy is
  cut from ten attempts to three, so that it can be exhausted within the faults;
  the brief one has its real two. A deadline can pass at any failure. The theorems
  hold for any limits.
- *Invocation service.* Every two of the three features, since no step involves
  all of them; a value of three chunks in a pipe of two, so that the writer has to
  wait; two packets, so that a second one can meet the rest of a first answer.
- *Command line.* `Inputs` consists of groups that vary one part of an invocation
  and keep the others plain: all lists of up to two flags for one secret with a
  flag for another, against all answers with two names; inherited and approved
  Git settings and agents; searches of three directories with every kind of entry
  and one level of links; two changes by others at any point of selection and
  execution; up to three sources of an upload; proxy settings, and answers within
  and beyond the limit of `MaxResponse` bytes (8); homes and working directories
  for every command. `MaxSize` is 3 in place of the largest `usize`, which puts
  the overflow of the Git count within reach.
- The `Pairing` and `CommandLine` runs do not check deadlock: identifiers are
  finite, and a home without fresh ones may rest; an invocation ends. All others
  do check it.

Fairness. `ApprovalExchange!FairSpec` and `ClientRequest!Spec` assume that the
executor polls a woken future (`DriverStep` or `OwnerStep`, `FutureStep`) and that
the timer of a brief completion fires (`Timeout`); nothing is assumed of relay,
device, network or the user. Only `AnsweredReturns` also assumes that the relay
answers what reaches it. Faults are finite in number, since a connection that
breaks forever gives no promise (the code's deadline ends it in that case).
`InvocationService` assumes that launcher, service, Git helper and handlers run
and that the shutdown timer fires; nothing is assumed of device, clients,
upstream agent and command. In `RunCommand` the thread runs, and the exchange may
last forever. Each is weak fairness of a step that the operating system or the
runtime takes by itself once it is possible.

## Proofs

| Theorem | States |
| --- | --- |
| `PairingProof!TypeCorrect` | `Spec => []TypeOK` |
| `PairingProof!ActivationFollowsDevice` | `Spec => []ActiveOnlyAfterDevice` |
| `PairingProof!ReportsAreDurable` | `Spec => []ReportedIsDurable` |
| `PairingProof!ReplacementsAreSpared` | `Spec => SparesReplacement` |
| `PairingProof!RemovalFollowsDevice` | `Spec => RemovedAfterDevice` |
| `PairingRecovery!AlwaysRecoverable` | `Spec => []Recoverable`, without power loss |
| `PairingRecovery!RotationsAreSpaced` | `Spec => RotationSpacing`, without power loss |
| `PairingRecovery!PromiseIsKept` | `Spec => Promise!Spec`, without power loss |
| `PairingRecovery!PromiseKeepsInStep` | `Promise!Spec => []Promise!InStep`, of the abstract specification |
| `PairingRecovery!AlwaysInStep` | `Spec => []Promise!InStep`, without power loss |
| `ApprovalExchangeProof!ApprovalTypeCorrect` | `Spec => []TypeOK` |
| `ApprovalExchangeProof!CompletionsFollow` | `Spec => []CompletionFollowsRequest` |
| `ApprovalExchangeProof!IsNeverSilent` | `Spec => []NeverSilent` |
| `ApprovalExchangeProof!WaitsForWhatComes` | `Spec => []WaitsUnlessCut` |
| `ApprovalExchangeProof!ApprovalKeepsPromise` | `Spec => Promise!Spec` |
| `ApprovalExchangeProof!PromiseAgrees` | `Promise!Spec => []Promise!Agreed`, of the abstract specification |
| `ApprovalExchangeProof!AlwaysAgreed` | `Spec => []Promise!Agreed` |
| `ClientRequestProof!RequestTypeCorrect` | `Spec => []TypeOK` |
| `ClientRequestProof!CompletionsTellTheTruth` | `Spec => []CompletionTellsTheTruth` |
| `ClientRequestProof!PendingIsStarted` | `Spec => []PendingOnlyIfStarted` |
| `ClientRequestProof!SuccessesAreHandedOff` | `Spec => []SuccessIsHandedOff` |
| `ClientRequestProof!AnswersAreKept` | `Spec => []AnswerIsKept` |
| `InvocationServiceProof!ServiceTypeCorrect` | `Spec => []TypeOK` |
| `InvocationServiceProof!PreparedIsAlwaysAccepted` | `Spec => []PreparedIsAccepted` |
| `InvocationServiceProof!InputIsAlwaysWhole` | `Spec => []InputIsWhole` |
| `InvocationServiceProof!AlwaysServesItsOwner` | `Spec => []ServesItsOwner` |
| `InvocationServiceProof!NeverExitsSilently` | `Spec => []NoSilentExit` |
| `InvocationServiceProof!AnswersAreMatched` | `Spec => []AnswersMatch` |
| `InvocationServiceProof!SelectedKeyStays` | `Spec => []SelectedStaysHere` |
| `RunCommandProof!TypeCorrect` | `Spec => []TypeOK` |
| `RunCommandProof!BlockedIsHonoured` | `Spec => []BlockedSignalIsHonoured` |
| `CommandLineProof!ExecutedIsApproved` | `Spec => []RunsTheApproved` |
| `CommandLineProof!SearchEndsLikeExecvp` | `Spec => []SearchesLikeExecvp` |
| `CommandLineProof!AcceptedRequests` | `Spec => []AcceptedIsRequestable` |
| `CommandLineProof!DeliveredOnlyAsApproved` | `Spec => []DeliveredAsApproved` |
| `CommandLineProof!GitSettingsKept` | `Spec => []GitSettingsAreKept` |
| `CommandLineProof!UploadsAreUnambiguous` | `Spec => []UploadIsUnambiguous` |
| `CommandLineProof!TunnelIgnoresPieces` | `Spec => []IgnoresPieces` |

With them every safety and action property that a passing run checks is a theorem.
They rest on the named assumptions of the modules alone: finite bounds are
numbers, `None` is no element of the sets, features are features, the inputs of
an invocation are typed, and numbers and Git settings have different names
(`CommandLine!Names`; TLC has no such fact about strings beyond its bound). "Without
power loss" is `CanLosePower = FALSE`; it is needed there, as `PairingStranded`
is the counterexample. Each safety theorem is an inductive invariant, one lemma
for each action with a step for each conjunct that the action can disturb, and
the implication.

*Recovery and the promise (`PairingRecovery`).* `Recoverable` is not inductive:
whether a rotation key may be removed depends on what processes know of the
device. `Inductive` (end of `Pairing`) adds

- `LockInv`: a process between lock and release owns the lock, and what it read
  is still the file's content;
- `ChainInv`, `FileInv`, `DeviceInv`: PSKs of a client form a chain, the stored
  one is its end, and the device is somewhere on it;
- `RequestInv`, `ConfirmInv`: a request carries a PSK of that chain, and a
  process that opened a response to the stored rotation key knows that the
  device has moved to the stored PSK;
- `WriterInv`, `FinishInv`: new pairings are new to everyone, and an activation
  to be finished was made by the device.

Frame lemmas (`WriterFrame`, `FinishFrame`, `ConfirmFrame`) cover the conjuncts
that an action leaves alone. `PromiseIsKept` maps every step, under `Inductive`,
to the step of the promise that it is. `PromiseKeepsInStep` says what the promise
is worth: client and device share a key or are within one open handover
(`PromiseInv` adds that a pending pairing has no rotation key, and the device's
PSK if it is active there).
`AlwaysInStep` carries that over to the processes of a home.

*Replacement and durability (`PairingProof`).* These hold with power losses, for
which `Inductive` is too strong. `SafeInv` says what survives one: who holds the
lock and that what the owner read is still the file's content (`LockInv`), what a
process knows at each step of the replies it waits for (`LocalInv`), that
requests, snapshots and new identities belong to the attempts that made them
(`OwnedInv`, `KnownInv`, `NewInv`, `AwaitInv`), that an activation or removal
that goes on locally was made by the device (`FollowInv`), that an activation
stays in the file until its sync (`FinishedInv`), and that no copy of a reported
pairing is pending (`ReportedInv`).

*Exchanges.* `RelayExchangeProof!ExchangeInv` follows the frames: what is
written, buffered, under way or late is allowed by what the client has done
(`Frames`), the relay's record by what has reached it (`Record`), and the
future's position agrees with both (`Control`). It is preserved by all steps of
future, relay and faults, and by what an owner does with a future (begin, drop,
return), so that `ApprovalInv` and `RequestInv` only add the driver: which stage
has which future, what was opened, and what has happened to the local pairing.

`WaitInv`, for `WaitsUnlessCut`, is preserved next to `ApprovalInv`: as long as no
flush was cut, a completion that was sent and whose connection is up is buffered,
under way, recorded or answered with an error (`SentAgain`), except while the
first frame of a new connection is flushed. The owner's part is `OneCompletion`:
a completion is handed off again only after a cancellation.

`DecidedInv`, for the approval's promise, adds to `ApprovalInv` when there is a
decision: exactly if a response was opened or a completion made, and one of the
device's only if the relay has its response. The lemmas go by who moves: the
owner leaves the relay's record alone and decides or returns (`DriverDecides`),
a frame that the relay takes is a request, a completion or nothing new
(`RecordPromised`), the device answers (`DevicePromised`), and all else is a
stutter. `PromiseAgrees` says what the promise is worth, and `AlwaysAgreed`
carries it over to the exchange.

*Invocation service.* Four invariants that disturb each other little:
`LaunchInv` for launcher, pipes and writer (what is in the pipe and what was read
make up a prefix of length, response and value), `ExchangeInv` for handlers
(an exchange under way has a handler, and a service that ends has none),
`AnswerInv` for the agent connection (the upstream connection holds nothing but
the current packet or what was made of it, and is empty otherwise), and
`SelectedInv`, by which a packet on its way to the upstream agent does not name
the selected key, and one that is authenticated does (`Routed`).

*Signals.* `BlockingInv` relates the transition's steps to mask and handlers, and
the fate of a signal to the step at which it arrived.

*Command line.* The parts share no variables but `input`, so each has an
invariant of its own, and a lemma says which steps are steps of that part.

- `ExecInv`: which descriptors and hashes exist at each step of selection and
  verification (`Phases`), and that while nobody has changed anything since the
  second hash began, what it has read is what the file holds (`Quiet`).
- `SearchInv`: until something changes, what is left of the search is a tail of
  the candidates, none before it could be executed or failed for good, the
  remembered error says whether one was a denial, and what is selected is what
  the first of the tail resolves to.
- `DeliveryInv`: where the program is determines which of request, answer,
  output and environment exist, and each is what its function makes of the one
  before. `OutputIsTheAnswer` says of `Output` what the command may rely on, for
  every request and answer, and `CommandCount` the same of the Git count;
  `ParsedIsRequestable` is the argument that parser and library agree.
- `UploadInv`: each source that was read has left its own number with all its
  names, a used standard input was read by one of them, and nobody was asked
  for a name that a source of another kind gives.
- `TunnelInv`: what was received has not ended and is within the limit; the
  verdict is then a fact about prefixes (`EndedAt`, `Verdict`).

Only model-checked: the liveness properties `CancelledReturns`,
`AnsweredReturns`, `LauncherReturns`, `EverybodyIsReleased` and `SignalEndsWait`,
which TLAPS cannot prove. `WaitsForAnswer`, `ConfirmedRotationIsCleared` and
`SignalPreventsExecution` do not hold, nor does `Recoverable` with power losses.

## What the violations mean

- *PairingStranded.* Readers see a rotation before it is durable. If the machine
  loses power in that window, after the device adopted the successor, the old
  PSK returns without the rotation key.
- *PairingUnconfirmed.* `prepare_pairing_removal` does not call
  `clear_rotation_key`, so a refused removal leaves a confirmed key. The next
  use clears it; until then no rotation takes place.
- *ApprovalCut.* `reconnected` is lost with the future that was dropped in a flush
  and the completion is not sent again; the brief handoff then times out.
- *RunConsumed.* `signals.received()` polls once without giving the signal
  driver a turn. A signal that arrives while the invocation service starts is
  neither pending nor published, and the command runs.

## Not modelled

- *Cryptography*: models of its own in `verification/`. Here a PSK has a parent, a
  request carries a PSK, and a response opens or does not.
- *Conversions*: JSON, base64, frames, packets, SSH key formats beyond their
  encryption, `no_proxy` patterns, TLS. Their results are valid, invalid or fit.
- *Process ancestry* (`process_info.rs`): kernel state; a client is admitted or
  not, so no property depends on the check.
- *Permissions and location*: file modes, the runtime directory of the sockets.
- *The macOS variant* of execution, which has no descriptor to execute.
- *Output, Git descriptions, installers and packages*: no state whose
  interleaving matters.

`PROJECT.json` names each part, and those that are modelled in part.

## Plan

Done, in this order: the pairing file and its promise; relay and approval
exchange, and the approval's promise; signals; the drivers of the other
operations; the invocation service with its agent connection; delivery,
execution, input and tunnel; proofs for all of them.

Left, with the most useful first:

1. `InvocationService` with the full `ApprovalExchange` in place of its short
   exchanges, to measure the shutdown timeout against the brief handoff.
2. A promise for the operations of `ClientRequest`, as `ApprovalPromise` is one
   for approvals, with the refinement as a theorem.
3. The macOS variant of `Executable`.
