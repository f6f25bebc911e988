----------------------------- MODULE Executable -----------------------------
(***************************************************************************)
(* How agentknock run finds the file it asks to execute, and how it makes  *)
(* sure that it executes what it asked for, while others change the file   *)
(* system (executable.rs on Linux).  Each system call is a step.  A file's *)
(* content is a head, which tells scripts from binaries, and a tail.  A    *)
(* hash stands for the content it was computed from, and the file is read  *)
(* in two steps, for a hash is no atomic snapshot.                         *)
(***************************************************************************)
EXTENDS Integers, SequencesExt

CONSTANTS
  Paths,      \* the names that the search and its links lead to
  Inodes,     \* files
  Tails,      \* contents behind the head
  MaxChanges, \* bound: changes of the file system by others
  None

VARIABLES
  entry,    \* what a name is: a file, a link to another name, or an error
  file,     \* the files: content, whether regular, executable and readable
  changes,  \* how often others changed names or files
  step,     \* where the search or the execution is
  todo,     \* the candidates that the search has not tried, in PATH order
  error,    \* the error the search would report
  sel,      \* the selected executable: descriptor, path, reader and hash
  check,    \* the file that is hashed again, and what was read of it
  quiet,    \* history: nothing changed since that began
  executed  \* the file and content that the kernel executed

execVars == <<entry, file, changes, step, todo, error, sel, check, quiet, executed>>
disk == <<entry, file, changes>>

Contents == [head : {"binary", "script"}, tail : Tails]

\* missing stands for the errors of is_search_miss, denied for EACCES and broken
\* for every other one.
Errors == {"missing", "denied", "broken"}

Entries ==
  [kind : {"file"}, to : Inodes] \cup [kind : {"link"}, to : Paths] \cup [kind : Errors, to : {None}]
Files == [content : Contents, regular : BOOLEAN, exec : BOOLEAN, read : BOOLEAN]

Resolved(p) == IF entry[p].kind = "link" THEN entry[entry[p].to] ELSE entry[p]
Canonical(p) == IF entry[p].kind = "link" THEN entry[p].to ELSE p

NothingSelected == [desc |-> None, path |-> None, reader |-> None, hash |-> None]
IsScript == sel.hash # None /\ sel.hash.head = "script"

ExecInit ==
  /\ changes = 0 /\ step = "search" /\ error = "missing"
  /\ sel = NothingSelected /\ check = NothingSelected
  /\ quiet = FALSE /\ executed = None

-----------------------------------------------------------------------------
(* Selection                                                               *)

\* Mutant: a later miss hides that a candidate was denied.
MutLatest(class) == class

\* Like execvp, a denied candidate is reported over a later miss.
Remembered(class) == IF error = "denied" THEN "denied" ELSE class

\* A candidate fails: the search goes on after a miss or a denial only.
Failed(class) ==
  /\ UNCHANGED <<disk, check, quiet, executed>>
  /\ IF class \in {"missing", "denied"}
     THEN step' = "search" /\ todo' = Tail(todo) /\ error' = Remembered(class)
            /\ sel' = NothingSelected
     ELSE step' = "failed" /\ error' = class /\ UNCHANGED <<todo, sel>>

Goes(to) == step' = to /\ UNCHANGED <<disk, todo, error, check, quiet, executed>>

\* open_candidate
OpenCandidate ==
  /\ step = "search" /\ todo # <<>>
  /\ LET e == Resolved(Head(todo)) IN
     IF e.kind = "file" THEN Goes("opened") /\ sel' = [sel EXCEPT !.desc = e.to]
     ELSE Failed(e.kind)

SearchEnds ==
  /\ step = "search" /\ todo = <<>> /\ step' = "failed"
  /\ UNCHANGED <<disk, todo, error, sel, check, quiet, executed>>

\* require_regular_file and require_effective_execute_access
CheckCandidate ==
  /\ step = "opened"
  /\ IF file[sel.desc].regular /\ file[sel.desc].exec
     THEN Goes("checked") /\ UNCHANGED sel
     ELSE Failed("denied")

\* std::fs::canonicalize
Canonicalize ==
  /\ step = "checked"
  /\ LET e == Resolved(Head(todo)) IN
     IF e.kind = "file"
     THEN Goes("named") /\ sel' = [sel EXCEPT !.path = Canonical(Head(todo))]
     ELSE Failed(e.kind)

\* The canonical path must name the opened file.
Reopen ==
  /\ step = "named"
  /\ LET e == Resolved(sel.path) IN
     IF e.kind # "file" THEN Failed(e.kind)
     ELSE IF e.to # sel.desc THEN Failed("changed")
     ELSE Goes("reopened") /\ UNCHANGED sel

\* open_reader: an executable that may not be read has no hash.
OpenReader ==
  /\ step = "reopened"
  /\ LET e == Resolved(sel.path) IN
     IF e.kind = "denied" \/ (e.kind = "file" /\ ~file[e.to].read)
     THEN Goes("selected") /\ UNCHANGED sel
     ELSE IF e.kind # "file" THEN Failed(e.kind)
     ELSE IF e.to # sel.desc THEN Failed("changed")
     ELSE Goes("head") /\ sel' = [sel EXCEPT !.reader = e.to]

\* inspect_file
Inspect ==
  \/ /\ step = "head" /\ Goes("tail")
     /\ sel' = [sel EXCEPT !.hash = file[sel.reader].content]
  \/ /\ step = "tail" /\ Goes("selected")
     /\ sel' = [sel EXCEPT !.hash.tail = file[sel.reader].content.tail]

-----------------------------------------------------------------------------
(* Execution                                                               *)

Fails(why) ==
  /\ step' = "failed" /\ error' = why
  /\ UNCHANGED <<disk, todo, sel, check, quiet, executed>>

Proceeds(to) == step' = to /\ UNCHANGED <<disk, todo, error, sel, executed>>

\* Mutant: a script is read through the descriptor as well.
MutRetained == [kind |-> "file", to |-> sel.reader]

\* The file whose hash is compared: a binary's is still open, a script is
\* found by the name that the kernel will use.
HashSource ==
  IF IsScript THEN Resolved(Head(todo)) ELSE [kind |-> "file", to |-> sel.reader]

\* verify_hash
Verify ==
  /\ step = "selected"
  /\ IF sel.hash = None THEN Proceeds("verified") /\ check' = check /\ quiet' = TRUE
     ELSE IF HashSource.kind # "file" THEN Fails("unreadable")
     ELSE IF IsScript /\ ~file[HashSource.to].read THEN Fails("unreadable")
     ELSE /\ Proceeds("rehead") /\ quiet' = TRUE
          /\ check' = [check EXCEPT !.reader = HashSource.to]

HashAgain ==
  \/ /\ step = "rehead" /\ Proceeds("retail") /\ UNCHANGED quiet
     /\ check' = [check EXCEPT !.hash = file[check.reader].content]
  \/ /\ step = "retail"
     /\ LET hash == [check.hash EXCEPT !.tail = file[check.reader].content.tail] IN
        IF hash = sel.hash
        THEN Proceeds("verified") /\ check' = [check EXCEPT !.hash = hash] /\ UNCHANGED quiet
        ELSE Fails("changed")

\* The kernel executes a binary by its descriptor, which it refuses for a
\* script, and a script by its name.
Exec ==
  /\ step = "verified"
  /\ LET e == IF IsScript THEN Resolved(Head(todo)) ELSE [kind |-> "file", to |-> sel.desc] IN
     IF /\ e.kind = "file" /\ file[e.to].regular /\ file[e.to].exec
        /\ IsScript \/ file[e.to].content.head = "binary"
     THEN /\ step' = "running" /\ executed' = [ino |-> e.to, content |-> file[e.to].content]
          /\ UNCHANGED <<disk, todo, error, sel, check, quiet>>
     ELSE Fails("exec")

-----------------------------------------------------------------------------
(* Others                                                                  *)

\* Another process renames, links, rewrites or changes permissions.
Change ==
  /\ changes < MaxChanges /\ step \notin {"running", "failed"}
  /\ changes' = changes + 1 /\ quiet' = FALSE
  /\ \/ /\ \E p \in Paths :
             \/ \E i \in Inodes : entry' = [entry EXCEPT ![p] = [kind |-> "file", to |-> i]]
             \/ \E k \in Errors : entry' = [entry EXCEPT ![p] = [kind |-> k, to |-> None]]
        /\ UNCHANGED file
     \/ /\ \E i \in Inodes :
             \/ \E c \in Contents : file' = [file EXCEPT ![i].content = c]
             \/ file' = [file EXCEPT ![i].exec = ~@]
             \/ file' = [file EXCEPT ![i].read = ~@]
        /\ UNCHANGED entry
  /\ UNCHANGED <<step, todo, error, sel, check, executed>>

Select ==
  OpenCandidate \/ SearchEnds \/ CheckCandidate \/ Canonicalize \/ Reopen \/ OpenReader \/ Inspect

-----------------------------------------------------------------------------

\* A binary that runs is the file that was selected, whatever its name has
\* become, and never a script.  If its hash went to the device, what runs is
\* what was hashed, unless someone changed the file system after the second
\* hash began (docs/command-execution.md:278-297).
RunsTheApproved ==
  step = "running" =>
    /\ ~IsScript => executed.ino = sel.desc /\ executed.content.head = "binary"
    /\ sel.hash # None /\ quiet => executed.content = sel.hash
=============================================================================
