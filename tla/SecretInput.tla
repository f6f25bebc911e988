---------------------------- MODULE SecretInput ----------------------------
(***************************************************************************)
(* How agentknock secret upload reads a secret (main.rs read_secret).  A   *)
(* source is a record [kind, path, gives, bad]: gives is the sequence of   *)
(* the names it has values for, and it is bad if it cannot be read or has  *)
(* an invalid entry or a value with a NUL.  A value is known by the number *)
(* of its source.  An SSH key is a record [format, encrypted, right]:      *)
(* right tells that the passphrase that will be given opens it.            *)
(***************************************************************************)
EXTENDS Integers, SequencesExt

VARIABLES
  upload,    \* reading, read or failed
  unread,    \* the numbers of the sources that are left
  variables, \* the values read: name to source
  stdin,     \* whether the standard input is unread
  asked      \* the names whose values were asked for at the terminal

inputVars == <<upload, unread, variables, stdin, asked>>

InputInit(sources) ==
  /\ upload = "reading" /\ unread = DOMAIN sources /\ variables = <<>>
  /\ stdin = TRUE /\ asked = {}

\* read_secret reads all sources of one kind before those of the next.
Rank == [environment |-> 1, file |-> 2, dotenv |-> 3, prompt |-> 4]
Before(sources, i, j) ==
  \/ Rank[sources[i].kind] < Rank[sources[j].kind]
  \/ sources[i].kind = sources[j].kind /\ i < j

\* Mutant: a later value replaces an earlier one.
MutReplaces(names) == TRUE

\* insert_environment_variable takes each name once.
Inserts(names) == IsInjective(names) /\ ToSet(names) \cap DOMAIN variables = {}

\* At most one source may be the standard input, which can be read once.
Shared(sources) ==
  \E i, j \in DOMAIN sources : i # j /\ sources[i].path = "-" /\ sources[j].path = "-"

Refuse == upload' = "failed" /\ UNCHANGED <<unread, variables>>

Insert(i, names, value) ==
  /\ unread' = unread \ {i} /\ upload' = upload
  /\ variables' = [n \in DOMAIN variables \cup ToSet(names) |->
                    IF n \in ToSet(names) THEN value ELSE variables[n]]

\* One source.  A prompt whose name is taken is not even shown.
ReadSource(sources) ==
  /\ upload = "reading" /\ ~Shared(sources)
  /\ \E i \in unread :
       LET s == sources[i]
           shown == s.kind = "prompt" /\ Inserts(s.gives)
       IN /\ \A j \in unread \ {i} : Before(sources, i, j)
          /\ stdin' = (stdin /\ s.path # "-")
          /\ asked' = IF shown THEN asked \cup ToSet(s.gives) ELSE asked
          /\ IF s.bad \/ ~Inserts(s.gives) THEN Refuse
             ELSE Insert(i, s.gives, IF s.path = "-" /\ ~stdin THEN 0 ELSE i)

ReadEnds(sources) ==
  /\ upload = "reading" /\ (Shared(sources) \/ unread = {})
  /\ IF Shared(sources) \/ variables = <<>> THEN Refuse
     ELSE upload' = "read" /\ UNCHANGED <<unread, variables>>
  /\ UNCHANGED <<stdin, asked>>

\* read_ssh_private_key, with the passphrase from nowhere, a variable or the
\* terminal: an unencrypted key is taken as it is, an encrypted one decrypted.
TakesKey(key, passphrase) ==
  /\ key.format = "openssh"
  /\ IF key.encrypted THEN passphrase # "none" /\ key.right ELSE passphrase = "none"

ReadKey(key, passphrase) ==
  /\ upload = "reading"
  /\ upload' = IF TakesKey(key, passphrase) THEN "read" ELSE "failed"
  /\ UNCHANGED <<unread, variables, stdin, asked>>
=============================================================================
