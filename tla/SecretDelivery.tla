--------------------------- MODULE SecretDelivery ---------------------------
(***************************************************************************)
(* From the options of agentknock run to the environment of its command:   *)
(* what the command line accepts, what the library requests, how a         *)
(* response is checked against the request and what the command is given.  *)
(* A request is a function from secrets to options, a response one from    *)
(* secrets to what the device approved, an environment one from names to   *)
(* values.  None stands for an error where a result is expected.           *)
(***************************************************************************)
EXTENDS Integers, SequencesExt, TLC

CONSTANTS
  WellFormed, \* names that an environment can hold: not empty, no '=', no NUL
  Portable,   \* those that are shell identifiers
  Plain,      \* values without a NUL
  MaxSize,    \* bound: the largest number that the count of settings can be
  None

-----------------------------------------------------------------------------
(* The command line.  Its flags are records [kind, secret, name, to].      *)

NoOptions == [only |-> None, omit |-> {}, rename |-> <<>>, stdin |-> None]

Given(flags, kind, s) == {i \in DOMAIN flags : flags[i].kind = kind /\ flags[i].secret = s}
NamesIn(flags, given) == {flags[i].name : i \in given}

OptionsOf(flags, s) ==
  LET only    == Given(flags, "only", s)
      renames == Given(flags, "rename", s)
      stdin   == Given(flags, "stdin", s)
  IN [only   |-> IF only = {} THEN None ELSE NamesIn(flags, only),
      omit   |-> NamesIn(flags, Given(flags, "omit", s)),
      rename |-> [n \in NamesIn(flags, renames) |->
                   flags[CHOOSE i \in renames : flags[i].name = n].to],
      stdin  |-> IF stdin = {} THEN None ELSE flags[CHOOSE i \in stdin : TRUE].name]

Used(o) == DOMAIN o.rename \cup ({o.stdin} \ {None})

\* Mutant: an option may use a variable that --only-env did not select.
MutUnselected(o) ==
  /\ o.only = None \/ o.omit = {}
  /\ Used(o) \cap o.omit = {}
  /\ o.stdin \notin DOMAIN o.rename

\* The options of one secret fit together.
Combinable(o) ==
  /\ o.only # None => o.omit = {} /\ Used(o) \subseteq o.only
  /\ Used(o) \cap o.omit = {}
  /\ o.stdin \notin DOMAIN o.rename

\* No variable is selected, omitted, renamed or sent to the input twice.
NoRepetition(flags, s) ==
  /\ \A kind \in {"only", "omit", "rename"} : \A i, j \in Given(flags, kind, s) :
       flags[i].name = flags[j].name => i = j
  /\ \A i, j \in DOMAIN flags : flags[i].kind = "stdin" /\ flags[j].kind = "stdin" => i = j

\* The request that a command line with these secrets and flags makes.
Parsed(secrets, flags) ==
  IF /\ secrets # <<>> /\ IsInjective(secrets)
     /\ \A f \in ToSet(flags) :
          /\ f.secret \in ToSet(secrets) /\ f.name \in Portable
          /\ f.kind = "rename" => f.to \in Portable
     /\ \A s \in ToSet(secrets) :
          NoRepetition(flags, s) /\ Combinable(OptionsOf(flags, s))
  THEN [s \in ToSet(secrets) |-> OptionsOf(flags, s)]
  ELSE None

-----------------------------------------------------------------------------
(* The library                                                             *)

\* validate_secret_options
Requestable(request) ==
  /\ request # <<>>
  /\ \A s \in DOMAIN request :
       LET o == request[s] IN
       /\ o.only # {}
       /\ o.only # None => o.omit = {} /\ o.only \subseteq WellFormed
       /\ o.omit \cup Used(o) \cup Range(o.rename) \subseteq WellFormed
       /\ \A n \in Used(o) : (o.only # None => n \in o.only) /\ n \notin o.omit
       /\ o.stdin \notin DOMAIN o.rename
  /\ \A s, t \in DOMAIN request :
       request[s].stdin # None /\ request[t].stdin # None => s = t

\* Mutant: an omitted variable is accepted.
MutOmitted(vars, o) ==
  (o.only # None => DOMAIN vars = o.only) /\ Used(o) \subseteq DOMAIN vars

\* validate_returned_variables
Honours(vars, o) ==
  /\ o.only # None => DOMAIN vars = o.only
  /\ DOMAIN vars \cap o.omit = {}
  /\ Used(o) \subseteq DOMAIN vars

FinalName(o, n) == IF n \in DOMAIN o.rename THEN o.rename[n] ELSE n

\* What secret s of a response adds to the environment.
Delivered(request, approved, s) ==
  IF approved[s].type = "ssh" THEN {}
  ELSE {<<FinalName(request[s], n), approved[s].vars[n]>> :
          n \in DOMAIN approved[s].vars \ {request[s].stdin}}

\* secret_use_output_from_secrets: what the caller is given, or None if the
\* response is not an answer to the request.
Output(request, approved) ==
  LET pairs == UNION {Delivered(request, approved, s) : s \in DOMAIN approved}
      ssh   == {s \in DOMAIN approved : approved[s].type = "ssh"}
      input == {s \in DOMAIN approved \ ssh : request[s].stdin # None}
  IN IF /\ DOMAIN approved = DOMAIN request
        /\ \A s \in DOMAIN approved :
             IF s \in ssh THEN request[s] = NoOptions /\ approved[s].key
             ELSE Honours(approved[s].vars, request[s])
        /\ \A s, t \in ssh : s = t
        /\ \A p, q \in pairs : p[1] = q[1] => p[2] = q[2]
     THEN [env   |-> [n \in {p[1] : p \in pairs} |-> (CHOOSE p \in pairs : p[1] = n)[2]],
           ssh   |-> ssh # {},
           stdin |-> IF input = {} THEN None
                     ELSE LET s == CHOOSE s \in input : TRUE
                          IN approved[s].vars[request[s].stdin]]
     ELSE None

-----------------------------------------------------------------------------
(* The environment of the command.  flags is a record of the Booleans      *)
(* agent and git: neither --no-ssh-agent nor --no-git-sign.                *)

AgentSocket == "SSH_AUTH_SOCK"
GitCount == "GIT_CONFIG_COUNT"
\* GIT_CONFIG_KEY_i and GIT_CONFIG_VALUE_i, which are always set together.
GitSetting(i) == "GIT_CONFIG_" \o ToString(i)

\* The numbers of a usize, up to a smaller limit.
Numbers == 0..MaxSize

\* Mutant: the approved value does not count.
MutInherited(out, inherited, n) == IF n \in DOMAIN inherited THEN inherited[n] ELSE None

\* The value the command receives for n, before the service's additions.
CommandVariable(out, inherited, n) ==
  IF n \in DOMAIN out.env THEN out.env[n]
  ELSE IF n \in DOMAIN inherited THEN inherited[n] ELSE None

ServesSsh(out, flags) == out.ssh /\ (flags.agent \/ flags.git)

\* The number of Git settings that the command has already.
Settings(out, inherited) ==
  LET value == CommandVariable(out, inherited, GitCount)
  IN IF value = None THEN 0
     ELSE IF \E i \in Numbers : ToString(i) = value
          THEN CHOOSE i \in Numbers : ToString(i) = value
          ELSE None

\* InvocationService::environment
Additional(out, flags, inherited) ==
  LET count == Settings(out, inherited)
      git   == ServesSsh(out, flags) /\ flags.git
      agent == IF ServesSsh(out, flags) /\ flags.agent THEN {AgentSocket} ELSE {}
  IN IF git /\ (count = None \/ count + 2 > MaxSize) THEN None
     ELSE [n \in agent \cup (IF git THEN {GitCount, GitSetting(count), GitSetting(count + 1)}
                            ELSE {}) |->
            CASE n = AgentSocket -> "agent.sock"
              [] n = GitCount -> ToString(count + 2)
              [] n = GitSetting(count) -> "program"
              [] OTHER -> "key command"]

\* The environment f with what only g has.
Over(f, g) == [n \in DOMAIN f \cup DOMAIN g |-> IF n \in DOMAIN f THEN f[n] ELSE g[n]]

\* c_environment: the inherited variables, the secrets over them, the
\* service's over both, and then the removal.
CommandEnvironment(out, flags, inherited) ==
  LET all == Over(Additional(out, flags, inherited), Over(out.env, inherited))
  IN [n \in DOMAIN all \ (IF flags.agent THEN {} ELSE {AgentSocket}) |-> all[n]]

\* The names and values of a response that an environment can hold.
Encodable(out) ==
  DOMAIN out.env \subseteq WellFormed /\ Range(out.env) \subseteq Plain
=============================================================================
