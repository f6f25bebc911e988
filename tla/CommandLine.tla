---------------------------- MODULE CommandLine ----------------------------
(***************************************************************************)
(* One invocation of agentknock, from its arguments to its effect          *)
(* (main.rs): the options, the home directory, and for run and secret      *)
(* upload the selected executable or the sources of a secret, the          *)
(* connection through a proxy, the answer of the device, the environment   *)
(* of the command and its execution.  The exchange itself is module        *)
(* ApprovalExchange or ClientRequest, signals are module RunCommand and    *)
(* the service is module InvocationService.                                *)
(***************************************************************************)
EXTENDS Executable, SecretInput, ProxyTunnel, TLC

CONSTANTS
  WellFormed, Portable, Plain, MaxSize, \* as in SecretDelivery
  Inputs   \* bound: the arguments, surroundings and answers that are tried

ASSUME PortableIsWellFormed == Portable \subseteq WellFormed

\* The file system: the kernel follows every link, of which one is kept here.
ASSUME FileSystems ==
  /\ None \notin Paths \cup Inodes
  /\ \A i \in Inputs :
       /\ i.search \in Seq(Paths)
       /\ i.entry \in [Paths -> Entries]
       /\ \A p \in Paths : i.entry[p].kind = "link" => i.entry[i.entry[p].to].kind # "link"
       /\ i.file \in [Inodes -> Files]

ASSUME ProxyAnswers == \A i \in Inputs : i.wire \in Seq(Bytes)

Delivery == INSTANCE SecretDelivery

\* None is no name, no value and no set of names.
ASSUME Requests ==
  /\ None # {}
  /\ \A i \in Inputs :
       /\ i.secrets \in Seq(STRING)
       /\ \A a \in i.answers : \A s \in DOMAIN a :
            a[s].type # "ssh" => None \notin DOMAIN a[s].vars \cup Range(a[s].vars)
       /\ None \notin Range(i.inherited)

\* Numbers and settings have different names.
ASSUME Names ==
  /\ MaxSize \in Nat
  /\ \A i, j \in Delivery!Numbers :
       /\ ToString(i) = ToString(j) => i = j
       /\ Delivery!GitSetting(i) = Delivery!GitSetting(j) => i = j
       /\ Delivery!GitSetting(i) \notin {Delivery!GitCount, Delivery!AgentSocket}

\* The four kinds of source.
ASSUME SecretSources ==
  \A i \in Inputs : \A s \in ToSet(i.sources) : s.kind \in DOMAIN Rank

VARIABLES
  pc,          \* where the program is
  input,       \* what it was started with
  home,        \* which setting its home directory comes from
  request,     \* the options of the requested secrets
  answer,      \* what the device approved
  output,      \* what the library made of it
  environment, \* the environment of the command
  piped        \* the value on its standard input

lineVars == <<request, answer, output, environment, piped>>
vars == <<pc, input, home, lineVars, execVars, inputVars, tunnelVars>>

Init ==
  /\ pc = "start" /\ input \in Inputs /\ home = None
  /\ request = None /\ answer = None /\ output = None
  /\ environment = None /\ piped = None
  /\ ExecInit /\ entry = input.entry /\ file = input.file /\ todo = input.search
  /\ InputInit(input.sources)
  /\ TunnelInit /\ wire = input.wire

-----------------------------------------------------------------------------
(* Every command                                                           *)

\* into_operation, with secret_options.
Parse ==
  /\ pc = "start"
  /\ IF input.command = "run"
     THEN /\ request' = Delivery!Parsed(input.secrets, input.flags)
          /\ pc' = IF request' = None THEN "failed" ELSE "home"
     ELSE pc' = "home" /\ UNCHANGED request
  /\ UNCHANGED <<input, home, answer, output, environment, piped, execVars, inputVars, tunnelVars>>

\* Client::new_in: relative paths depend on the working directory.
Resolves(path) == path = "absolute" \/ (path = "relative" /\ input.cwd = "good")

\* default_home: a setting that is there is used or rejected, never passed over.
DefaultHome ==
  IF input.homes.variable # "unset"
  THEN IF input.homes.variable = "absolute" THEN "variable" ELSE None
  ELSE IF Resolves(input.homes.user) THEN "user" ELSE None

SelectHome ==
  /\ pc = "home"
  /\ home' = IF input.homes.option = "unset" THEN DefaultHome
             ELSE IF Resolves(input.homes.option) THEN "option" ELSE None
  /\ pc' = IF home' = None THEN "failed" ELSE "dispatch"
  /\ UNCHANGED <<input, lineVars, execVars, inputVars, tunnelVars>>

\* run: status, abort and removal by force stay on this machine (module
\* Pairing); start, finish, removal and list are relay exchanges (module
\* ClientRequest).
Dispatch ==
  /\ pc = "dispatch"
  /\ pc' = CASE input.command = "run" -> "directory"
             [] input.command = "upload" -> "source"
             [] input.command \in {"status", "abort", "force"} -> "local"
             [] OTHER -> "relay"
  /\ UNCHANGED <<input, home, lineVars, execVars, inputVars, tunnelVars>>

-----------------------------------------------------------------------------
(* agentknock run                                                          *)

\* SelectedExecutable::select: the working directory has a UTF-8 name.
SelectDirectory ==
  /\ pc = "directory"
  /\ pc' = IF input.cwd = "good" THEN "select" ELSE "failed"
  /\ UNCHANGED <<input, home, lineVars, execVars, inputVars, tunnelVars>>

\* SelectedExecutable::select_from
SelectExecutable ==
  /\ pc = "select" /\ Select
  /\ pc' = CASE step' = "selected" -> "request"
             [] step' = "failed" -> "failed"
             [] OTHER -> "select"
  /\ UNCHANGED <<input, home, lineVars, inputVars, tunnelVars>>

\* request_secret_use until its first connection
Request ==
  /\ pc = "request"
  /\ IF Delivery!Requestable(request)
     THEN Configure(input.proxies, input.exceptions)
            /\ pc' = IF tunnel' = "misconfigured" THEN "failed" ELSE "connect"
     ELSE pc' = "failed" /\ UNCHANGED tunnelVars
  /\ UNCHANGED <<input, home, lineVars, execVars, inputVars>>

\* One attempt to connect.
Connect ==
  /\ pc = "connect" /\ Tunnel
  /\ pc' = IF tunnel' \in {"reading", "open"} THEN "connect" ELSE "failed"
  /\ UNCHANGED <<input, home, lineVars, execVars, inputVars>>

Connected == pc = "connect" /\ tunnel \in {"direct", "open"}

\* The device approves with some answer, which need not fit the request.
Answer ==
  /\ Connected /\ input.command = "run"
  /\ answer' \in input.answers
  /\ output' = Delivery!Output(request, answer')
  /\ pc' = IF output' = None THEN "failed" ELSE "service"
  /\ UNCHANGED <<input, home, request, environment, piped, execVars, inputVars, tunnelVars>>

\* The invocation service, if there is one, adds to the environment.
PrepareService ==
  /\ pc = "service"
  /\ pc' = IF Delivery!Additional(output, input.keep, input.inherited) = None
           THEN "failed" ELSE "verify"
  /\ UNCHANGED <<input, home, lineVars, execVars, inputVars, tunnelVars>>

VerifyExecutable ==
  /\ pc = "verify" /\ (Verify \/ HashAgain)
  /\ pc' = CASE step' = "verified" -> "environment"
             [] step' = "failed" -> "failed"
             [] OTHER -> "verify"
  /\ UNCHANGED <<input, home, lineVars, inputVars, tunnelVars>>

\* c_environment and install_standard_input
MakeEnvironment ==
  /\ pc = "environment"
  /\ IF Delivery!Encodable(output)
     THEN /\ environment' = Delivery!CommandEnvironment(output, input.keep, input.inherited)
          /\ piped' = output.stdin
          /\ pc' = "exec"
     ELSE pc' = "failed" /\ UNCHANGED <<environment, piped>>
  /\ UNCHANGED <<input, home, request, answer, output, execVars, inputVars, tunnelVars>>

Execute ==
  /\ pc = "exec" /\ Exec
  /\ pc' = IF step' = "running" THEN "running" ELSE "failed"
  /\ UNCHANGED <<input, home, lineVars, inputVars, tunnelVars>>

Disturb ==
  /\ input.disturbed
  /\ pc \notin {"start", "home", "dispatch", "directory", "running", "failed"}
  /\ Change
  /\ UNCHANGED <<pc, input, home, lineVars, inputVars, tunnelVars>>

-----------------------------------------------------------------------------
(* agentknock secret upload                                                *)

ReadSecret ==
  /\ pc = "source"
  /\ IF input.key = None THEN ReadSource(input.sources) \/ ReadEnds(input.sources)
     ELSE ReadKey(input.key, input.passphrase)
  /\ pc' = CASE upload' = "read" -> "relay"
             [] upload' = "failed" -> "failed"
             [] OTHER -> "source"
  /\ UNCHANGED <<input, home, lineVars, execVars, tunnelVars>>

-----------------------------------------------------------------------------
(* The requests of every command but run                                   *)

StartRequest ==
  /\ pc = "relay"
  /\ Configure(input.proxies, input.exceptions)
  /\ pc' = IF tunnel' = "misconfigured" THEN "failed" ELSE "connect"
  /\ UNCHANGED <<input, home, lineVars, execVars, inputVars>>

Exchange ==
  /\ Connected /\ input.command # "run"
  /\ pc' = "exchange"
  /\ UNCHANGED <<input, home, lineVars, execVars, inputVars, tunnelVars>>

Next ==
  \/ Parse \/ SelectHome \/ Dispatch \/ SelectDirectory
  \/ SelectExecutable \/ Request \/ Connect \/ Answer \/ PrepareService
  \/ VerifyExecutable \/ MakeEnvironment \/ Execute \/ Disturb
  \/ ReadSecret \/ StartRequest \/ Exchange

Spec == Init /\ [][Next]_vars

-----------------------------------------------------------------------------
(* Properties                                                              *)

\* What the command line accepts, the library accepts: a user never learns
\* from the library that his options do not fit together (main.rs
\* validate_run_environment_options, secret_use.rs validate_secret_options).
AcceptedIsRequestable == request # None => Delivery!Requestable(request)

Final(s, n) == Delivery!FinalName(request[s], n)
Ssh(s) == answer[s].type = "ssh"

\* The names that the service sets, and those that others do not get through.
ServiceNames == DOMAIN Delivery!Additional(output, input.keep, input.inherited)
Overridden == ServiceNames \cup (IF input.keep.agent THEN {} ELSE {Delivery!AgentSocket})

\* A command runs only with what was both asked for and approved: each secret
\* variable arrives under its final name or on the standard input and nowhere
\* else, no selection is exceeded, everything else is inherited, and no agent
\* is left by --no-ssh-agent (docs/command-execution.md:141-161).
DeliveredAsApproved ==
  pc = "running" =>
    /\ DOMAIN answer = DOMAIN request
    /\ \A s \in DOMAIN answer : ~Ssh(s) =>
         /\ DOMAIN answer[s].vars \cap request[s].omit = {}
         /\ request[s].only # None => DOMAIN answer[s].vars = request[s].only
         /\ \A n \in DOMAIN answer[s].vars :
              IF n = request[s].stdin THEN piped = answer[s].vars[n]
              ELSE \/ Final(s, n) \in Overridden
                   \/ environment[Final(s, n)] = answer[s].vars[n]
    /\ \A n \in DOMAIN environment \ ServiceNames :
         \/ \E s \in DOMAIN answer : ~Ssh(s) /\ \E m \in DOMAIN answer[s].vars :
              m # request[s].stdin /\ Final(s, m) = n /\ answer[s].vars[m] = environment[n]
         \/ n \in DOMAIN input.inherited /\ environment[n] = input.inherited[n]
    /\ ~input.keep.agent => Delivery!AgentSocket \notin DOMAIN environment

\* The service adds its two Git settings behind those that the command has,
\* approved or inherited, and changes none of them
\* (docs/command-execution.md:383-390).
GitSettingsAreKept ==
  pc = "running" /\ output.ssh /\ input.keep.git =>
    LET before == Delivery!Over(output.env, input.inherited) IN
    \E count \in 0..(MaxSize - 2) :
      /\ IF Delivery!GitCount \in DOMAIN before
         THEN before[Delivery!GitCount] = ToString(count) ELSE count = 0
      /\ environment[Delivery!GitCount] = ToString(count + 2)
      /\ environment[Delivery!GitSetting(count)] = "program"
      /\ environment[Delivery!GitSetting(count + 1)] = "key command"
      /\ \A i \in 0..(count - 1) : Delivery!GitSetting(i) \in DOMAIN before =>
           environment[Delivery!GitSetting(i)] = before[Delivery!GitSetting(i)]

Runnable(p) ==
  Resolved(p).kind = "file" /\ file[Resolved(p).to].regular /\ file[Resolved(p).to].exec
Denied(p) == Resolved(p).kind \in {"denied", "file"}
Stops(p) == Runnable(p) \/ Resolved(p).kind = "broken"

\* While nobody changes the file system, the search ends like that of execvp:
\* with the first candidate that can be executed or fails for good, and
\* otherwise with a denial if there was one (executable.rs select_from).
SearchesLikeExecvp ==
  LET search == input.search
      stops == {i \in DOMAIN search : Stops(search[i])}
      first == search[CHOOSE i \in stops : \A j \in stops : i <= j]
  IN changes = 0 /\ (step = "selected" \/ (step = "failed" /\ sel = NothingSelected)) =>
       IF stops = {}
       THEN step = "failed" /\ error = IF \E i \in DOMAIN search : Denied(search[i])
                                       THEN "denied" ELSE "missing"
       ELSE IF Runnable(first) THEN step = "selected" /\ sel.desc = Resolved(first).to
            ELSE step = "failed" /\ error = "broken"

\* An upload has each variable from the only source that has it, with the
\* value read there, and a key that needs no passphrase.  Nobody is asked for
\* a value that another source gave (main.rs read_secret).
UploadIsUnambiguous ==
  LET sources == input.sources IN
  input.command = "upload" =>
    /\ \A i \in DOMAIN sources : sources[i].kind # "prompt" =>
         ToSet(sources[i].gives) \cap asked = {}
    /\ upload = "read" =>
         IF input.key = None
         THEN \A i \in DOMAIN sources : \A n \in ToSet(sources[i].gives) : variables[n] = i
         ELSE input.key.encrypted => input.passphrase # "none" /\ input.key.right
=============================================================================
