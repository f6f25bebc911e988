-------------------------- MODULE CommandLineProof --------------------------
(***************************************************************************)
(* Proofs about CommandLine and the modules it is made of.  Each part has  *)
(* its own invariant over the variables of its module, and a lemma that    *)
(* says which steps of the command line are steps of that part (ExecStep,  *)
(* TunnelStep, RequestStep, UploadStep): all others leave it alone.        *)
(***************************************************************************)
EXTENDS CommandLine, SequenceTheorems, TLAPS

ExecNext == Select \/ Verify \/ HashAgain \/ Exec \/ Change

\* The file system and the executable change by the steps of module Executable.
LEMMA ExecStep == [Next]_vars => ExecNext \/ UNCHANGED execVars
<1> SUFFICES ASSUME [Next]_vars PROVE ExecNext \/ UNCHANGED execVars
  OBVIOUS
<1>1. CASE SelectExecutable \/ VerifyExecutable \/ Execute \/ Disturb
  BY <1>1 DEF SelectExecutable, VerifyExecutable, Execute, Disturb, ExecNext
<1>2. CASE Parse \/ SelectHome \/ Dispatch \/ SelectDirectory \/ Request \/ Connect
  BY <1>2 DEF Parse, SelectHome, Dispatch, SelectDirectory, Request, Connect
<1>3. CASE Answer \/ PrepareService \/ MakeEnvironment \/ ReadSecret \/ StartRequest \/ Exchange
  BY <1>3 DEF Answer, PrepareService, MakeEnvironment, ReadSecret, StartRequest, Exchange
<1> QED
  BY <1>1, <1>2, <1>3 DEF Next, vars

-----------------------------------------------------------------------------
(* The executable                                                          *)

Selections ==
  [desc : Inodes \cup {None}, path : Paths \cup {None},
   reader : Inodes \cup {None}, hash : Contents \cup {None}]

ExecTypes ==
  /\ entry \in [Paths -> Entries] /\ file \in [Inodes -> Files]
  /\ todo \in Seq(Paths)
  /\ sel \in Selections /\ check \in Selections

Opened == {"opened", "checked", "named", "reopened", "head", "tail"}
Verifying == {"rehead", "retail"}
Chosen == {"selected", "verified", "running"} \cup Verifying

\* What is selected at each step.
Phases ==
  /\ step \in Opened \cup Chosen => todo # <<>> /\ sel.desc \in Inodes
  /\ step \in {"named", "reopened", "head", "tail"} => sel.path \in Paths
  /\ step \in {"search", "opened", "checked", "named", "reopened", "head"} => sel.hash = None
  /\ step \in {"head", "tail"} \/ sel.hash # None => sel.reader = sel.desc
  /\ step \in {"tail"} \cup Verifying => sel.hash \in Contents

\* While nothing changes, what was hashed again is what the file contains.
Quiet ==
  /\ step \in Verifying => check.reader \in Inodes
  /\ step \in Verifying /\ quiet => HashSource = [kind |-> "file", to |-> check.reader]
  /\ step = "retail" => check.hash \in Contents
  /\ step = "retail" /\ quiet => check.hash = file[check.reader].content
  /\ step = "verified" /\ sel.hash # None /\ quiet =>
       HashSource.kind = "file" /\ file[HashSource.to].content = sel.hash

ExecInv == ExecTypes /\ Phases /\ Quiet

LEMMA ResolvedType ==
  ASSUME entry \in [Paths -> Entries], NEW p \in Paths
  PROVE  /\ Resolved(p) \in Entries
         /\ Canonical(p) \in Paths
         /\ Resolved(p).kind = "file" => Resolved(p).to \in Inodes
<1>1. \A e \in Entries :
        /\ e.kind = "link" => e.to \in Paths
        /\ e.kind = "file" => e.to \in Inodes
  BY DEF Entries, Errors
<1> QED
  BY <1>1 DEF Resolved, Canonical

LEMMA HeadInPaths ==
  ASSUME todo \in Seq(Paths), todo # <<>>
  PROVE  Head(todo) \in Paths /\ Tail(todo) \in Seq(Paths)
OBVIOUS

LEMMA FailedInv == ASSUME NEW class, ExecInv, Failed(class), step \in Opened \cup {"search"},
                          todo # <<>>
                   PROVE  ExecInv'
<1> USE DEF ExecInv, Failed, disk
<1>0. Tail(todo) \in Seq(Paths) /\ NothingSelected \in Selections
  BY HeadInPaths DEF ExecTypes, Selections, NothingSelected
<1>1. ExecTypes'
  BY <1>0 DEF ExecTypes
<1>2. Phases' /\ Quiet'
  BY DEF Phases, Quiet, Opened, Chosen, Verifying, NothingSelected
<1> QED
  BY <1>1, <1>2

LEMMA SelectInv == ExecInv /\ Select => ExecInv'
<1> SUFFICES ASSUME ExecInv, Select PROVE ExecInv'
  OBVIOUS
<1> USE DEF Goes, disk, Opened, Chosen, Verifying
<1>0. step \in Opened => Head(todo) \in Paths
  BY HeadInPaths DEF ExecInv, ExecTypes, Phases
<1>a. Quiet /\ UNCHANGED <<disk, check, quiet>> /\ step' \in Opened \cup {"selected"} => Quiet'
  BY DEF Quiet
<1>1. CASE OpenCandidate
  <2>1. Head(todo) \in Paths
    BY <1>1, HeadInPaths DEF OpenCandidate, ExecInv, ExecTypes
  <2>2. CASE Resolved(Head(todo)).kind = "file"
    <3>1. Resolved(Head(todo)).to \in Inodes
      BY <2>1, <2>2, ResolvedType DEF ExecInv, ExecTypes
    <3>2. ExecTypes' /\ Phases'
      BY <1>1, <2>2, <3>1 DEF OpenCandidate, ExecInv, ExecTypes, Phases, Selections
    <3> QED
      BY <1>1, <1>a, <2>2, <3>2 DEF OpenCandidate, ExecInv
  <2> QED
    BY <1>1, <2>2, FailedInv DEF OpenCandidate
<1>2. CASE SearchEnds
  BY <1>2 DEF SearchEnds, ExecInv, ExecTypes, Phases, Quiet
<1>3. CASE CheckCandidate
  <2>1. CASE file[sel.desc].regular /\ file[sel.desc].exec
    <3>1. ExecTypes' /\ Phases'
      BY <1>3, <2>1 DEF CheckCandidate, ExecInv, ExecTypes, Phases
    <3> QED
      BY <1>3, <1>a, <2>1, <3>1 DEF CheckCandidate, ExecInv
  <2> QED
    BY <1>3, <2>1, FailedInv DEF CheckCandidate, ExecInv, Phases
<1>4. CASE Canonicalize
  <2>1. CASE Resolved(Head(todo)).kind = "file"
    <3>1. Canonical(Head(todo)) \in Paths
      BY <1>0, <1>4, ResolvedType DEF Canonicalize, ExecInv, ExecTypes
    <3>2. ExecTypes' /\ Phases'
      BY <1>4, <2>1, <3>1 DEF Canonicalize, ExecInv, ExecTypes, Phases, Selections
    <3> QED
      BY <1>4, <1>a, <2>1, <3>2 DEF Canonicalize, ExecInv
  <2> QED
    BY <1>4, <2>1, FailedInv DEF Canonicalize, ExecInv, Phases
<1>5. CASE Reopen
  <2>1. CASE Resolved(sel.path).kind = "file" /\ Resolved(sel.path).to = sel.desc
    <3>1. ExecTypes' /\ Phases'
      BY <1>5, <2>1 DEF Reopen, ExecInv, ExecTypes, Phases
    <3> QED
      BY <1>5, <1>a, <2>1, <3>1 DEF Reopen, ExecInv
  <2> QED
    BY <1>5, <2>1, FailedInv DEF Reopen, ExecInv, Phases
<1>6. CASE OpenReader
  <2>1. CASE step' = "selected"
    <3>1. ~(step' = "search" \/ step' = "failed" \/ step' = "head")
      BY <2>1
    <3>2. UNCHANGED <<disk, todo, error, check, quiet, executed, sel>>
      BY <1>6, <3>1 DEF OpenReader, Failed
    <3>3. ExecTypes' /\ Phases'
      BY <1>6, <2>1, <3>2 DEF OpenReader, ExecInv, ExecTypes, Phases
    <3> QED
      BY <1>a, <2>1, <3>2, <3>3 DEF ExecInv
  <2>2. CASE step' = "head"
    <3>1. /\ UNCHANGED <<disk, todo, error, check, quiet, executed>>
          /\ sel' = [sel EXCEPT !.reader = sel.desc]
      BY <1>6, <2>2 DEF OpenReader, Failed
    <3>2. ExecTypes' /\ Phases'
      BY <1>6, <2>2, <3>1 DEF OpenReader, ExecInv, ExecTypes, Phases, Selections
    <3> QED
      BY <1>a, <2>2, <3>1, <3>2 DEF ExecInv
  <2> QED
    BY <1>6, <2>1, <2>2, FailedInv DEF OpenReader, ExecInv, Phases
<1>7. CASE Inspect
  <2>1. step \in {"head", "tail"} /\ UNCHANGED <<disk, todo, check, quiet>>
          /\ step' \in {"tail", "selected"}
    BY <1>7 DEF Inspect
  <2>2. file[sel.reader].content \in Contents
    BY <2>1 DEF ExecInv, ExecTypes, Phases, Files
  <2>3. sel'.hash \in Contents /\ sel' = [sel EXCEPT !.hash = sel'.hash]
    <3>1. CASE step = "head"
      BY <1>7, <2>2, <3>1 DEF Inspect, ExecInv, ExecTypes, Selections
    <3>2. CASE step = "tail"
      BY <1>7, <2>2, <3>2 DEF Inspect, ExecInv, ExecTypes, Phases, Selections, Contents
    <3> QED
      BY <2>1, <3>1, <3>2
  <2>4. ExecTypes' /\ Phases'
    BY <2>1, <2>3 DEF ExecInv, ExecTypes, Phases, Selections
  <2> QED
    BY <1>a, <2>1, <2>4 DEF ExecInv
<1> QED
  BY <1>1, <1>2, <1>3, <1>4, <1>5, <1>6, <1>7 DEF Select

LEMMA VerifyInv == ExecInv /\ (Verify \/ HashAgain \/ Exec) => ExecInv'
<1> SUFFICES ASSUME ExecInv, Verify \/ HashAgain \/ Exec PROVE ExecInv'
  OBVIOUS
<1> USE DEF disk, Opened, Chosen, Verifying, Fails, Proceeds
<1>1. CASE step' = "failed" /\ UNCHANGED <<disk, todo, sel, check, quiet, executed>>
  BY <1>1 DEF ExecInv, ExecTypes, Phases, Quiet
<1>2. CASE Verify /\ step' # "failed"
  <2>1. step = "selected" /\ UNCHANGED <<disk, todo, error, sel, executed>>
    BY <1>2 DEF Verify
  <2>2. CASE sel.hash = None
    BY <1>2, <2>1, <2>2 DEF Verify, ExecInv, ExecTypes, Phases, Quiet
  <2>3. CASE sel.hash # None
    <3>1. /\ HashSource.kind = "file" /\ step' = "rehead"
          /\ check' = [check EXCEPT !.reader = HashSource.to]
      BY <1>2, <2>3 DEF Verify
    <3>2. /\ sel.desc \in Inodes /\ sel.reader = sel.desc /\ Head(todo) \in Paths
          /\ sel.hash \in Contents
      BY <2>1, <2>3, HeadInPaths DEF ExecInv, ExecTypes, Phases, Selections
    <3>3. HashSource.to \in Inodes /\ HashSource = [kind |-> "file", to |-> HashSource.to]
      <4>1. CASE IsScript
        <5>1. HashSource = Resolved(Head(todo)) /\ HashSource \in Entries
          BY <3>2, <4>1, ResolvedType DEF HashSource, ExecInv, ExecTypes
        <5> QED
          BY <3>1, <5>1 DEF Entries, Errors
      <4>2. CASE ~IsScript
        BY <3>2, <4>2 DEF HashSource
      <4> QED
        BY <4>1, <4>2
    <3>4. HashSource' = HashSource
      BY <2>1 DEF HashSource, IsScript, Resolved
    <3>5. ExecTypes' /\ check'.reader = HashSource.to
      BY <2>1, <3>1, <3>3 DEF ExecInv, ExecTypes, Selections
    <3>6. Phases'
      BY <2>1, <3>1, <3>2 DEF ExecInv, Phases
    <3>7. Quiet'
      BY <3>1, <3>3, <3>4, <3>5 DEF Quiet
    <3> QED
      BY <3>5, <3>6, <3>7 DEF ExecInv
  <2> QED
    BY <2>2, <2>3
<1>3. CASE HashAgain /\ step = "rehead"
  <2>1. /\ UNCHANGED <<disk, todo, error, sel, executed, quiet>> /\ step' = "retail"
        /\ check' = [check EXCEPT !.hash = file[check.reader].content]
    BY <1>3 DEF HashAgain
  <2>2. check.reader \in Inodes /\ file[check.reader].content \in Contents
    BY <1>3 DEF ExecInv, ExecTypes, Quiet, Files
  <2>3. HashSource' = HashSource
    BY <2>1 DEF HashSource, IsScript, Resolved
  <2>4. ExecTypes' /\ check'.reader = check.reader /\ check'.hash = file[check.reader].content
    BY <2>1, <2>2 DEF ExecInv, ExecTypes, Selections
  <2>5. Phases'
    BY <1>3, <2>1 DEF ExecInv, Phases
  <2>6. Quiet'
    BY <1>3, <2>1, <2>2, <2>3, <2>4 DEF ExecInv, Quiet
  <2> QED
    BY <2>4, <2>5, <2>6 DEF ExecInv
<1>4. CASE HashAgain /\ step = "retail" /\ step' # "failed"
  <2> DEFINE hash == [check.hash EXCEPT !.tail = file[check.reader].content.tail]
  <2>1. /\ UNCHANGED <<disk, todo, error, sel, executed, quiet>> /\ step' = "verified"
        /\ check' = [check EXCEPT !.hash = hash] /\ hash = sel.hash
    BY <1>4 DEF HashAgain
  <2>2. /\ check.reader \in Inodes /\ check.hash \in Contents /\ sel.hash \in Contents
        /\ file[check.reader].content \in Contents
    BY <1>4 DEF ExecInv, ExecTypes, Phases, Quiet, Files
  <2>3. HashSource' = HashSource
    BY <2>1 DEF HashSource, IsScript, Resolved
  <2>4. ExecTypes'
    BY <2>1, <2>2 DEF ExecInv, ExecTypes, Selections
  <2>5. Phases'
    BY <1>4, <2>1 DEF ExecInv, Phases
  <2>6. quiet => /\ HashSource = [kind |-> "file", to |-> check.reader]
                 /\ file[check.reader].content = sel.hash
    BY <1>4, <2>1, <2>2 DEF ExecInv, Quiet, Contents
  <2>7. Quiet'
    BY <2>1, <2>3, <2>6 DEF Quiet
  <2> QED
    BY <2>4, <2>5, <2>7 DEF ExecInv
<1>5. CASE Exec /\ step' # "failed"
  <2>1. /\ step = "verified" /\ step' = "running"
        /\ UNCHANGED <<disk, todo, error, sel, check, quiet>>
    BY <1>5 DEF Exec
  <2> QED
    BY <2>1 DEF ExecInv, ExecTypes, Phases, Quiet
<1> QED
  BY <1>1, <1>2, <1>3, <1>4, <1>5 DEF Verify, HashAgain, Exec

LEMMA ChangeInv == ExecInv /\ Change => ExecInv'
<1> SUFFICES ASSUME ExecInv, Change PROVE ExecInv'
  OBVIOUS
<1>1. UNCHANGED <<step, todo, error, sel, check, executed>> /\ quiet' = FALSE
  BY DEF Change
<1>2. entry' \in [Paths -> Entries]
  <2>1. \A i \in Inodes : [kind |-> "file", to |-> i] \in Entries
    BY DEF Entries
  <2>2. \A k \in Errors : [kind |-> k, to |-> None] \in Entries
    BY DEF Entries
  <2> QED
    BY <2>1, <2>2 DEF Change, ExecInv, ExecTypes
<1>3. file' \in [Inodes -> Files]
  <2>1. \A f \in Files : /\ \A c \in Contents : [f EXCEPT !.content = c] \in Files
                         /\ [f EXCEPT !.exec = ~f.exec] \in Files
                         /\ [f EXCEPT !.read = ~f.read] \in Files
    BY DEF Files
  <2>2. \/ file' = file
        \/ \E i \in Inodes : \E f \in Files : file' = [file EXCEPT ![i] = f]
    BY <2>1 DEF Change, ExecInv, ExecTypes
  <2> QED
    BY <2>2 DEF ExecInv, ExecTypes
<1>4. ExecTypes' /\ Phases' /\ Quiet'
  BY <1>1, <1>2, <1>3 DEF ExecInv, ExecTypes, Phases, Quiet, Opened, Chosen, Verifying
<1> QED
  BY <1>4 DEF ExecInv

LEMMA ExecInductive == Spec => []ExecInv
<1>1. Init => ExecInv
  <2> SUFFICES ASSUME Init PROVE ExecInv
    OBVIOUS
  <2>1. ExecTypes
    BY FileSystems DEF Init, ExecInit, ExecTypes, Selections, NothingSelected
  <2>2. Phases /\ Quiet
    BY DEF Init, ExecInit, Phases, Quiet, Opened, Chosen, Verifying, NothingSelected
  <2> QED
    BY <2>1, <2>2 DEF ExecInv
<1>2. ExecInv /\ [Next]_vars => ExecInv'
  <2>1. ExecInv /\ UNCHANGED execVars => ExecInv'
    BY DEF execVars, ExecInv, ExecTypes, Phases, Quiet, HashSource, IsScript, Resolved
  <2> QED
    BY <2>1, ExecStep, SelectInv, VerifyInv, ChangeInv DEF ExecNext
<1> QED
  BY <1>1, <1>2, PTL DEF Spec

\* What runs is what was selected and, if its hash went to the device, what
\* was hashed, unless the file system changed after the second hash began:
\* execveat takes the file that is open, the checks those of select_from.
THEOREM ExecutedIsApproved == Spec => []RunsTheApproved
<1>1. Init => RunsTheApproved
  BY DEF Init, ExecInit, RunsTheApproved
<1>2. ExecInv /\ RunsTheApproved /\ [Next]_vars => RunsTheApproved'
  <2> SUFFICES ASSUME ExecInv, RunsTheApproved, [Next]_vars PROVE RunsTheApproved'
    OBVIOUS
  <2>1. CASE UNCHANGED execVars
    BY <2>1 DEF execVars, RunsTheApproved, IsScript
  <2>2. CASE Exec /\ step' = "running"
    <3>1. /\ step = "verified" /\ UNCHANGED <<sel, quiet>>
          /\ \/ IsScript /\ executed' = [ino |-> HashSource.to, content |-> file[HashSource.to].content]
             \/ /\ ~IsScript /\ file[sel.desc].content.head = "binary"
                /\ executed' = [ino |-> sel.desc, content |-> file[sel.desc].content]
      BY <2>2 DEF Exec, HashSource, Fails
    <3>2. sel.hash # None /\ ~IsScript => HashSource.to = sel.desc
      BY <3>1 DEF HashSource, ExecInv, Phases
    <3>3. sel.hash # None /\ quiet => file[HashSource.to].content = sel.hash
      BY <3>1 DEF ExecInv, Quiet
    <3>4. IsScript => sel.hash # None
      BY DEF IsScript
    <3> QED
      BY <3>1, <3>2, <3>3, <3>4 DEF RunsTheApproved, IsScript
  <2>3. CASE ExecNext /\ step' # "running"
    BY <2>3 DEF RunsTheApproved
  <2>4. ExecNext /\ step' = "running" => Exec
    BY DEF ExecNext, Select, OpenCandidate, SearchEnds, CheckCandidate, Canonicalize, Reopen,
           OpenReader, Inspect, Failed, Goes, Verify, HashAgain, Fails, Proceeds, Change
  <2> QED
    BY <2>1, <2>2, <2>3, <2>4, ExecStep
<1> QED
  BY <1>1, <1>2, ExecInductive, PTL DEF Spec

-----------------------------------------------------------------------------
(* The search                                                              *)

Tried == Len(input.search) - Len(todo)
Looking == {"search", "selected"} \cup Opened
Passed == \A i \in 1..Tried : ~Stops(input.search[i])
SoFar == IF \E i \in 1..Tried : Denied(input.search[i]) THEN "denied" ELSE "missing"

\* While nothing changes, the candidates that were tried did not end the search,
\* and the one that is tried is the file that was opened.
Search ==
  /\ entry = input.entry
  /\ Tried \in Nat
  /\ \A i \in 1..Len(todo) : todo[i] = input.search[Tried + i]
  /\ step \in Looking => Passed /\ error = SoFar
  /\ step = "failed" /\ sel = NothingSelected =>
       /\ Passed
       /\ \/ todo = <<>> /\ error = SoFar
          \/ todo # <<>> /\ Resolved(Head(todo)).kind = "broken" /\ error = "broken"
  /\ step = "search" => sel = NothingSelected
  /\ step \in Opened \cup {"selected"} =>
       Resolved(Head(todo)).kind = "file" /\ Resolved(Head(todo)).to = sel.desc
  /\ step \in {"checked", "named", "reopened", "head", "tail", "selected"} =>
       file[sel.desc].regular /\ file[sel.desc].exec
  /\ step \in {"named", "reopened"} => Resolved(sel.path) = Resolved(Head(todo))

SearchInv ==
  /\ changes \in Nat /\ input \in Inputs
  /\ changes = 0 => Search

LEMMA InputStays == [Next]_vars => input' = input
<1> SUFFICES ASSUME [Next]_vars PROVE input' = input
  OBVIOUS
<1>1. CASE Parse \/ SelectHome \/ Dispatch \/ SelectDirectory \/ Request \/ Connect
  BY <1>1 DEF Parse, SelectHome, Dispatch, SelectDirectory, Request, Connect
<1>2. CASE Answer \/ PrepareService \/ MakeEnvironment \/ ReadSecret \/ StartRequest \/ Exchange
  BY <1>2 DEF Answer, PrepareService, MakeEnvironment, ReadSecret, StartRequest, Exchange
<1>3. CASE SelectExecutable \/ VerifyExecutable \/ Execute \/ Disturb
  BY <1>3 DEF SelectExecutable, VerifyExecutable, Execute, Disturb
<1> QED
  BY <1>1, <1>2, <1>3 DEF Next, vars

\* A name leads to a file or an error, and its canonical name leads there too.
LEMMA Followed ==
  ASSUME input \in Inputs, entry = input.entry, NEW p \in Paths
  PROVE  /\ Resolved(Canonical(p)) = Resolved(p)
         /\ Resolved(p).kind \in {"file", "missing", "denied", "broken"}
<1>1. \A e \in Entries : /\ e.kind = "link" => e.to \in Paths
                         /\ e.kind \in {"file", "link", "missing", "denied", "broken"}
  BY DEF Entries, Errors
<1>2. /\ entry \in [Paths -> Entries]
      /\ \A q \in Paths : entry[q].kind = "link" => entry[entry[q].to].kind # "link"
  BY FileSystems
<1> QED
  BY <1>1, <1>2 DEF Resolved, Canonical

LEMMA Advances ==
  ASSUME ExecInv, input \in Inputs, Search, todo # <<>>, step \in Looking, NEW class,
         class \in {"missing", "denied"}, Failed(class), ~Stops(Head(todo)),
         Denied(Head(todo)) <=> class = "denied", UNCHANGED input
  PROVE  Search'
<1> DEFINE n == Tried + 1
<1>1. /\ step' = "search" /\ sel' = NothingSelected /\ todo' = Tail(todo)
      /\ error' = Remembered(class) /\ UNCHANGED disk
  BY DEF Failed
<1>2. /\ todo \in Seq(Paths) /\ input.search \in Seq(Paths) /\ Len(todo) \in Nat
      /\ Len(input.search) \in Nat
  BY FileSystems DEF ExecInv, ExecTypes
<1>3. Len(todo) > 0 /\ Len(Tail(todo)) = Len(todo) - 1 /\ Head(todo) = todo[1]
  BY <1>2
<1>4. Tried' = n /\ Tried \in Nat /\ n \in Nat /\ Head(todo) = input.search[n]
  BY <1>1, <1>2, <1>3 DEF Tried, Search
<1>5. \A i \in 1..Len(todo') : todo'[i] = input.search[n + i]
  <2> TAKE i \in 1..Len(todo')
  <2>1. i \in Nat /\ i + 1 \in 1..Len(todo) /\ Tail(todo)[i] = todo[i + 1]
    BY <1>1, <1>2, <1>3
  <2>2. \A j \in 1..Len(todo) : todo[j] = input.search[Tried + j]
    BY DEF Search
  <2>3. Tried + (i + 1) = n + i
    BY <2>1, <1>4
  <2> QED
    BY <1>1, <2>1, <2>2, <2>3
<1>6. \A i \in 1..n : i \in 1..Tried \/ i = n
  BY <1>4
<1>7. \A i \in 1..n : ~Stops(input.search[i])
  BY <1>4, <1>6 DEF Search, Passed
<1>8. (\E i \in 1..n : Denied(input.search[i]))
        <=> (\E i \in 1..Tried : Denied(input.search[i])) \/ class = "denied"
  BY <1>4, <1>6
<1>9. error' = IF \E i \in 1..n : Denied(input.search[i]) THEN "denied" ELSE "missing"
  BY <1>1, <1>8 DEF Remembered, Search, SoFar
<1>10. \A p : (Stops(p)' <=> Stops(p)) /\ (Denied(p)' <=> Denied(p))
  BY <1>1 DEF disk, Stops, Denied, Runnable, Resolved
<1> QED
  BY <1>1, <1>4, <1>5, <1>7, <1>9, <1>10 DEF Search, Passed, SoFar, Opened, disk

\* Steps that try the same candidate, or end with it.
LEMMA SameCandidate ==
  UNCHANGED <<entry, file, input, todo, error>> =>
    /\ Tried' = Tried /\ (Passed' <=> Passed) /\ SoFar' = SoFar
    /\ \A p : Resolved(p)' = Resolved(p)
  BY DEF Tried, Passed, SoFar, Stops, Denied, Runnable, Resolved

LEMMA SearchFails ==
  ASSUME ExecInv, input \in Inputs, Search, todo # <<>>, step \in Opened \cup {"search"},
         Failed(Resolved(Head(todo)).kind), Resolved(Head(todo)).kind # "file", UNCHANGED input
  PROVE  Search'
<1>1. Head(todo) \in Paths
  BY HeadInPaths DEF ExecInv, ExecTypes
<1>2. Resolved(Head(todo)).kind \in {"missing", "denied", "broken"} /\ step = "search"
  BY <1>1, Followed DEF Search
<1>3. CASE Resolved(Head(todo)).kind = "broken"
  <2>1. /\ step' = "failed" /\ error' = "broken" /\ UNCHANGED <<todo, sel, disk>>
    BY <1>3 DEF Failed
  <2>2. Tried' = Tried /\ (Passed' <=> Passed) /\ \A p : Resolved(p)' = Resolved(p)
    BY <2>1 DEF disk, Tried, Passed, Stops, Runnable, Resolved
  <2> QED
    BY <1>2, <1>3, <2>1, <2>2 DEF Search, disk, Looking, Opened
<1>4. CASE Resolved(Head(todo)).kind # "broken"
  <2>1. ~Stops(Head(todo)) /\ (Denied(Head(todo)) <=> Resolved(Head(todo)).kind = "denied")
    BY <1>2, <1>4 DEF Stops, Denied, Runnable
  <2> QED
    BY <1>2, <1>4, <2>1, Advances DEF Looking
<1> QED
  BY <1>3, <1>4

LEMMA SelectSearch ==
  ASSUME ExecInv, input \in Inputs, Search, Select, UNCHANGED input
  PROVE  Search'
<1> USE DEF Opened, Looking, disk
<1>1. CASE OpenCandidate
  <2>1. CASE Resolved(Head(todo)).kind = "file"
    BY <1>1, <2>1, SameCandidate DEF OpenCandidate, Goes, Search, ExecInv, ExecTypes, Selections
  <2> QED
    BY <1>1, <2>1, SearchFails DEF OpenCandidate
<1>2. CASE SearchEnds
  BY <1>2, SameCandidate DEF SearchEnds, Search
<1>3. CASE CheckCandidate
  <2>1. CASE file[sel.desc].regular /\ file[sel.desc].exec
    BY <1>3, <2>1, SameCandidate DEF CheckCandidate, Goes, Search
  <2>2. CASE ~(file[sel.desc].regular /\ file[sel.desc].exec)
    <3>1. Failed("denied") /\ todo # <<>>
      BY <1>3, <2>2 DEF CheckCandidate, ExecInv, Phases
    <3>2. ~Stops(Head(todo)) /\ Denied(Head(todo))
      BY <1>3, <2>2 DEF CheckCandidate, Search, Stops, Denied, Runnable
    <3> QED
      BY <1>3, <3>1, <3>2, Advances DEF CheckCandidate
  <2> QED
    BY <2>1, <2>2
<1>4. CASE Canonicalize
  <2>1. Resolved(Head(todo)).kind = "file" /\ Head(todo) \in Paths
    BY <1>4, HeadInPaths DEF Canonicalize, Search, ExecInv, ExecTypes, Phases
  <2>2. Resolved(Canonical(Head(todo))) = Resolved(Head(todo))
    BY <2>1, Followed DEF Search
  <2>3. sel'.path = Canonical(Head(todo)) /\ sel'.desc = sel.desc /\ Goes("named")
    BY <1>4, <2>1 DEF Canonicalize, ExecInv, ExecTypes, Selections
  <2> QED
    BY <1>4, <2>2, <2>3, SameCandidate DEF Canonicalize, Goes, Search
<1>5. CASE Reopen
  BY <1>5, SameCandidate DEF Reopen, Goes, Search
<1>6. CASE OpenReader
  <2>1. Resolved(sel.path).kind = "file" /\ Resolved(sel.path).to = sel.desc
    BY <1>6 DEF OpenReader, Search
  <2>2. /\ step' \in {"selected", "head"} /\ sel'.desc = sel.desc
        /\ UNCHANGED <<disk, todo, error>>
    BY <1>6, <2>1 DEF OpenReader, Goes, ExecInv, ExecTypes, Selections
  <2> QED
    BY <1>6, <2>2, SameCandidate DEF OpenReader, Search
<1>7. CASE Inspect
  <2>1. /\ step \in {"head", "tail"} /\ step' \in {"tail", "selected"} /\ sel'.desc = sel.desc
        /\ UNCHANGED <<disk, todo, error>>
    BY <1>7 DEF Inspect, Goes, ExecInv, ExecTypes, Selections
  <2> QED
    BY <2>1, SameCandidate DEF Search
<1> QED
  BY <1>1, <1>2, <1>3, <1>4, <1>5, <1>6, <1>7 DEF Select

LEMMA SearchStep == ExecInv /\ SearchInv /\ [Next]_vars => SearchInv'
<1> SUFFICES ASSUME ExecInv, SearchInv, [Next]_vars PROVE SearchInv'
  OBVIOUS
<1>1. UNCHANGED input
  BY InputStays
<1>2. CASE UNCHANGED execVars
  BY <1>1, <1>2, SameCandidate DEF execVars, SearchInv, Search
<1>3. CASE Change
  BY <1>1, <1>3 DEF Change, SearchInv
<1>4. CASE Select
  <2>1. UNCHANGED changes
    BY <1>4 DEF Select, OpenCandidate, SearchEnds, CheckCandidate, Canonicalize, Reopen,
                OpenReader, Inspect, Failed, Goes, disk
  <2> QED
    BY <1>1, <1>4, <2>1, SelectSearch DEF SearchInv
<1>5. CASE Verify \/ HashAgain \/ Exec
  <2>1. /\ step \in Chosen /\ step' \in {"rehead", "retail", "verified", "running", "failed"}
        /\ UNCHANGED <<disk, todo, sel>>
    BY <1>5 DEF Verify, HashAgain, Exec, Fails, Proceeds, Chosen, Verifying
  <2>2. sel # NothingSelected
    BY <2>1, FileSystems DEF ExecInv, Phases, NothingSelected
  <2>3. Tried' = Tried
    BY <1>1, <2>1 DEF Tried
  <2> QED
    BY <1>1, <2>1, <2>2, <2>3 DEF SearchInv, Search, Looking, Opened, disk
<1> QED
  BY <1>2, <1>3, <1>4, <1>5, ExecStep DEF ExecNext

LEMMA SearchInductive == Spec => []SearchInv
<1>1. Init => SearchInv
  <2> SUFFICES ASSUME Init PROVE SearchInv
    OBVIOUS
  <2>1. input \in Inputs /\ input.search \in Seq(Paths) /\ todo = input.search
    BY FileSystems DEF Init
  <2>2. Tried = 0
    BY <2>1 DEF Tried
  <2>3. \A i \in 1..Len(todo) : i \in Nat /\ 0 + i = i
    BY <2>1
  <2> QED
    BY <2>1, <2>2, <2>3 DEF Init, ExecInit, SearchInv, Search, Passed, SoFar, Looking, Opened
<1> QED
  BY <1>1, SearchStep, ExecInductive, PTL DEF Spec

\* A search that ends while nothing changed ends with the first candidate that
\* can be executed or fails for good, as select_from walks the PATH.
LEMMA EndOfSearch == ExecInv /\ SearchInv => SearchesLikeExecvp
<1> SUFFICES ASSUME ExecInv, Search, input \in Inputs,
                    step = "selected" \/ (step = "failed" /\ sel = NothingSelected)
             PROVE  SearchesLikeExecvp
  BY DEF SearchInv, SearchesLikeExecvp
<1> DEFINE search == input.search
           stops == {i \in DOMAIN search : Stops(search[i])}
           first == CHOOSE i \in stops : \A j \in stops : i <= j
           n == Tried + 1
<1>1. /\ search \in Seq(Paths) /\ Len(search) \in Nat /\ DOMAIN search = 1..Len(search)
      /\ todo \in Seq(Paths) /\ Len(todo) \in Nat /\ Tried \in Nat
      /\ Tried = Len(search) - Len(todo)
  BY FileSystems DEF Search, Tried, ExecInv, ExecTypes
<1>2. Passed
  BY DEF Search, Looking
<1>3. CASE todo = <<>> /\ step = "failed" /\ error = SoFar
  <2>1. Len(search) = Tried
    BY <1>1, <1>3
  <2>2. stops = {}
    BY <1>1, <1>2, <2>1 DEF Passed
  <2> QED
    BY <1>1, <1>3, <2>1, <2>2 DEF SearchesLikeExecvp, SoFar
<1>4. CASE todo # <<>> /\ Stops(Head(todo))
  <2>1. Len(todo) > 0 /\ Head(todo) = todo[1]
    BY <1>1, <1>4
  <2>2. Head(todo) = search[n] /\ n \in DOMAIN search /\ n \in Nat
    BY <1>1, <2>1 DEF Search
  <2>3. n \in stops
    BY <1>4, <2>2
  <2>4. \A j \in stops : n <= j
    <3> SUFFICES ASSUME NEW j \in stops PROVE n <= j
      OBVIOUS
    <3>1. j \in Nat /\ j >= 1 /\ ~(j \in 1..Tried)
      BY <1>1, <1>2 DEF Passed
    <3> QED
      BY <1>1, <3>1
  <2>5. first = n
    <3>1. \A i \in stops : i \in Nat
      BY <1>1
    <3> DEFINE P(i) == i \in stops /\ \A j \in stops : i <= j
    <3>2. P(n) /\ \A i : P(i) => i = n
      BY <2>2, <2>3, <2>4, <3>1
    <3> QED
      BY <3>2
  <2>6. search[first] = Head(todo) /\ stops # {}
    BY <2>2, <2>3, <2>5
  <2>7. CASE step = "selected"
    <3>1. Runnable(Head(todo)) /\ sel.desc = Resolved(Head(todo)).to
      BY <2>7 DEF Search, Runnable
    <3> QED
      BY <2>6, <2>7, <3>1 DEF SearchesLikeExecvp
  <2>8. CASE step = "failed"
    <3>1. ~Runnable(Head(todo)) /\ error = "broken"
      BY <1>4, <2>8 DEF Search, Runnable
    <3> QED
      BY <2>6, <2>8, <3>1 DEF SearchesLikeExecvp
  <2> QED
    BY <2>7, <2>8
<1>5. step = "selected" => todo # <<>> /\ Stops(Head(todo))
  BY DEF Search, Stops, Runnable, ExecInv, Phases, Chosen
<1>6. step = "failed" => \/ todo = <<>> /\ error = SoFar
                         \/ todo # <<>> /\ Stops(Head(todo))
  BY DEF Search, Stops
<1> QED
  BY <1>3, <1>4, <1>5, <1>6

\* The search of a file system at rest ends like that of execvp (select_from).
THEOREM SearchEndsLikeExecvp == Spec => []SearchesLikeExecvp
  BY ExecInductive, SearchInductive, EndOfSearch, PTL

-----------------------------------------------------------------------------
(* The tunnel                                                              *)

TunnelNext == Tunnel \/ \E p, e : Configure(p, e)

LEMMA TunnelStep == [Next]_vars => TunnelNext \/ UNCHANGED tunnelVars
<1> SUFFICES ASSUME [Next]_vars PROVE TunnelNext \/ UNCHANGED tunnelVars
  OBVIOUS
<1>1. CASE Request \/ StartRequest \/ Connect
  BY <1>1 DEF Request, StartRequest, Connect, TunnelNext
<1>2. CASE Parse \/ SelectHome \/ Dispatch \/ SelectDirectory \/ Answer \/ PrepareService
  BY <1>2 DEF Parse, SelectHome, Dispatch, SelectDirectory, Answer, PrepareService
<1>3. CASE SelectExecutable \/ VerifyExecutable \/ Execute \/ Disturb \/ MakeEnvironment
  BY <1>3 DEF SelectExecutable, VerifyExecutable, Execute, Disturb, MakeEnvironment
<1>4. CASE ReadSecret \/ Exchange
  BY <1>4 DEF ReadSecret, Exchange
<1> QED
  BY <1>1, <1>2, <1>3, <1>4 DEF Next, vars

\* What a tunnel comes to, in terms of what was read.
TunnelInv ==
  /\ wire \in Seq(Bytes) /\ received \in Seq(Bytes) /\ Len(received) <= MaxResponse
  /\ tunnel = "none" => received = <<>>
  /\ tunnel \in {"reading", "eof", "large"} => ~Ended(received)
  /\ tunnel = "eof" => wire = <<>> /\ Len(received) < MaxResponse
  /\ tunnel = "large" => Len(received) = MaxResponse
  /\ tunnel \in {"open", "rejected", "invalid"} => Ended(received) /\ tunnel = Status(received)

LEMMA EndedAt ==
  ASSUME NEW s \in Seq(Bytes)
  PROVE  Ended(s) <=> \E i \in 1..(Len(s) - 3) :
                        s[i] = "r" /\ s[i + 1] = "n" /\ s[i + 2] = "r" /\ s[i + 3] = "n"
<1> SUFFICES ASSUME NEW i \in 1..(Len(s) - 3)
             PROVE  SubSeq(s, i, i + 3) = Blank
                      <=> s[i] = "r" /\ s[i + 1] = "n" /\ s[i + 2] = "r" /\ s[i + 3] = "n"
  BY DEF Ended
<1> DEFINE part == SubSeq(s, i, i + 3)
<1>1. Len(s) \in Nat /\ i \in Nat /\ i >= 1 /\ i + 3 <= Len(s)
  OBVIOUS
<1>2. /\ part \in Seq(Bytes) /\ Len(part) = 4
      /\ part[1] = s[i] /\ part[2] = s[i + 1] /\ part[3] = s[i + 2] /\ part[4] = s[i + 3]
  BY <1>1
<1>3. /\ Blank \in Seq(Bytes) /\ Len(Blank) = 4
      /\ Blank[1] = "r" /\ Blank[2] = "n" /\ Blank[3] = "r" /\ Blank[4] = "n"
  BY DEF Blank, Bytes
<1>4. ASSUME part[1] = "r", part[2] = "n", part[3] = "r", part[4] = "n"
      PROVE  part = Blank
  <2>1. \A j \in 1..4 : part[j] = Blank[j]
    BY <1>3, <1>4
  <2> HIDE DEF part
  <2> QED
    BY <1>2, <1>3, <2>1, SeqEqual
<1> QED
  BY <1>2, <1>3, <1>4

LEMMA TunnelInductive == Spec => []TunnelInv
<1>1. Init => TunnelInv
  <2> SUFFICES ASSUME Init PROVE TunnelInv
    OBVIOUS
  <2>1. wire \in Seq(Bytes) /\ received = <<>> /\ tunnel = "none"
    BY ProxyAnswers DEF Init, TunnelInit
  <2> QED
    BY <2>1, MaxResponseAssumption DEF TunnelInv
<1>2. TunnelInv /\ [Next]_vars => TunnelInv'
  <2> SUFFICES ASSUME TunnelInv, TunnelNext PROVE TunnelInv'
    BY TunnelStep DEF tunnelVars, TunnelInv
  <2> USE DEF TunnelInv
  <2>1. ASSUME NEW p, NEW e, Configure(p, e) PROVE TunnelInv'
    <3>1. tunnel' \in {"direct", "misconfigured", "reading"} /\ tunnel = "none"
      BY <2>1 DEF Configure, Configured
    <3>2. ~Ended(<<>>)
      BY DEF Ended
    <3> QED
      BY <2>1, <3>1, <3>2 DEF Configure
  <2>2. CASE Read
    <3>1. PICK k \in 1..Len(wire) :
            /\ Len(received) + k <= MaxResponse
            /\ received' = received \o SubSeq(wire, 1, k)
            /\ wire' = SubSeq(wire, k + 1, Len(wire))
            /\ tunnel' = IF Ended(received \o SubSeq(wire, 1, k)) THEN Status(received')
                         ELSE "reading"
      BY <2>2 DEF Read, HeaderEnds
    <3>2. Len(wire) \in Nat /\ k \in Nat /\ k >= 1 /\ k <= Len(wire)
      OBVIOUS
    <3>3. SubSeq(wire, 1, k) \in Seq(Bytes) /\ Len(SubSeq(wire, 1, k)) = k
      BY <3>2
    <3>4. /\ received' \in Seq(Bytes) /\ wire' \in Seq(Bytes)
          /\ Len(received') <= MaxResponse
      BY <3>1, <3>2, <3>3
    <3>5. Status(received') \in {"open", "rejected", "invalid"}
      BY DEF Status
    <3> QED
      BY <3>1, <3>4, <3>5
  <2>3. CASE ReadEnd
    BY <2>3 DEF ReadEnd
  <2>4. CASE TooLarge
    BY <2>4 DEF TooLarge
  <2>5. CASE Breaks
    BY <2>5 DEF Breaks
  <2> QED
    BY <2>1, <2>2, <2>3, <2>4, <2>5 DEF TunnelNext, Tunnel
<1> QED
  BY <1>1, <1>2, PTL DEF Spec

\* The verdict of a tunnel depends on the answer and not on its pieces.
LEMMA Verdict == TunnelInv => IgnoresPieces
<1> SUFFICES ASSUME TunnelInv, tunnel \in {"open", "rejected", "invalid", "eof", "large"}
             PROVE  IgnoresPieces
  BY DEF IgnoresPieces
<1> DEFINE sent == received \o wire
           size == IF Len(sent) < MaxResponse THEN Len(sent) ELSE MaxResponse
           header == SubSeq(sent, 1, size)
<1>1. /\ received \in Seq(Bytes) /\ wire \in Seq(Bytes) /\ MaxResponse \in Nat
      /\ Len(received) \in Nat /\ Len(wire) \in Nat /\ Len(received) <= MaxResponse
  BY MaxResponseAssumption DEF TunnelInv
<1>2. /\ sent \in Seq(Bytes) /\ Len(sent) = Len(received) + Len(wire)
      /\ \A i \in 1..Len(received) : sent[i] = received[i]
  BY <1>1
<1> HIDE DEF sent
<1>3. size \in Nat /\ size <= Len(sent) /\ Len(received) <= size
  BY <1>1, <1>2
<1> HIDE DEF size
<1>4. /\ header \in Seq(Bytes) /\ Len(header) = size
      /\ \A i \in 1..size : header[i] = sent[i]
  BY <1>2, <1>3
<1> HIDE DEF header
<1>5. CASE tunnel \in {"open", "rejected", "invalid"}
  <2>1. Ended(received) /\ tunnel = Status(received)
    BY <1>5 DEF TunnelInv
  <2>2. PICK i \in 1..(Len(received) - 3) :
          /\ received[i] = "r" /\ received[i + 1] = "n"
          /\ received[i + 2] = "r" /\ received[i + 3] = "n"
    BY <1>1, <2>1, EndedAt
  <2>3. {1, i, i + 1, i + 2, i + 3} \subseteq 1..Len(received) /\ i \in 1..(Len(header) - 3)
    BY <1>1, <1>3, <1>4
  <2>4. \A j \in 1..Len(received) : header[j] = received[j] /\ sent[j] = received[j]
    BY <1>1, <1>2, <1>3, <1>4
  <2>5. Ended(header)
    BY <1>4, <2>2, <2>3, <2>4, EndedAt
  <2>6. Status(sent) = Status(received)
    BY <2>3, <2>4 DEF Status
  <2> QED
    BY <2>1, <2>5, <2>6 DEF IgnoresPieces, sent, size, header
<1>6. CASE tunnel \in {"eof", "large"}
  <2>1. size = Len(received)
    <3>1. CASE tunnel = "eof"
      BY <1>1, <1>2, <3>1 DEF TunnelInv, size
    <3>2. CASE tunnel = "large"
      BY <1>1, <1>2, <3>2 DEF TunnelInv, size
    <3> QED
      BY <1>6, <3>1, <3>2
  <2>2. header = received
    <3>1. \A i \in 1..Len(received) : header[i] = received[i]
      BY <1>1, <1>2, <1>4, <2>1
    <3> QED
      BY <1>1, <1>4, <2>1, <3>1, SeqEqual
  <2>3. ~Ended(header)
    BY <1>6, <2>2 DEF TunnelInv
  <2>4. Len(sent) >= MaxResponse <=> tunnel = "large"
    BY <1>1, <1>2, <1>6 DEF TunnelInv
  <2> QED
    BY <1>6, <2>3, <2>4 DEF IgnoresPieces, sent, size, header
<1> QED
  BY <1>5, <1>6

\* A tunnel opens if and only if a complete header that fits says so, however
\* the answer of the proxy was cut into pieces (establish_tunnel).
THEOREM TunnelIgnoresPieces == Spec => []IgnoresPieces
  BY TunnelInductive, Verdict, PTL

-----------------------------------------------------------------------------
(* The options                                                             *)

\* What the command line makes of its flags, the library accepts.
LEMMA ParsedIsRequestable ==
  ASSUME NEW secrets \in Seq(STRING), NEW flags, Delivery!Parsed(secrets, flags) # None
  PROVE  Delivery!Requestable(Delivery!Parsed(secrets, flags))
<1> DEFINE made == [s \in ToSet(secrets) |-> Delivery!OptionsOf(flags, s)]
<1>1. /\ secrets # <<>>
      /\ \A f \in ToSet(flags) :
           f.name \in Portable /\ (f.kind = "rename" => f.to \in Portable)
      /\ \A s \in ToSet(secrets) :
           /\ Delivery!NoRepetition(flags, s)
           /\ Delivery!Combinable(Delivery!OptionsOf(flags, s))
      /\ Delivery!Parsed(secrets, flags) = made
  BY DEF Delivery!Parsed, Delivery!ToSet, ToSet
<1>2. made # <<>>
  <2>1. 1 \in DOMAIN secrets
    BY <1>1
  <2>2. secrets[1] \in DOMAIN made
    BY <2>1 DEF ToSet
  <2> QED
    BY <2>2
<1>3. ASSUME NEW s \in ToSet(secrets)
      PROVE  LET o == Delivery!OptionsOf(flags, s) IN
             /\ o.only # {}
             /\ o.only # None => o.omit = {} /\ o.only \subseteq WellFormed
             /\ o.omit \cup Delivery!Used(o) \cup Range(o.rename) \subseteq WellFormed
             /\ \A n \in Delivery!Used(o) : (o.only # None => n \in o.only) /\ n \notin o.omit
             /\ o.stdin \notin DOMAIN o.rename
  <2> DEFINE o == Delivery!OptionsOf(flags, s)
             renames == Delivery!Given(flags, "rename", s)
             stdins == Delivery!Given(flags, "stdin", s)
  <2>1. Delivery!Combinable(o)
    BY <1>1
  <2>2. \A i \in DOMAIN flags : flags[i].name \in WellFormed
    BY <1>1, PortableIsWellFormed DEF ToSet
  <2>3. \A kind : /\ Delivery!Given(flags, kind, s) \subseteq DOMAIN flags
                  /\ Delivery!NamesIn(flags, Delivery!Given(flags, kind, s)) \subseteq WellFormed
    BY <2>2 DEF Delivery!Given, Delivery!NamesIn
  <2>4. /\ o.only # None => o.only # {} /\ o.only \subseteq WellFormed
        /\ o.omit \subseteq WellFormed
    BY <2>3 DEF Delivery!OptionsOf, Delivery!NamesIn
  <2>5. /\ DOMAIN o.rename = Delivery!NamesIn(flags, renames)
        /\ \A n \in DOMAIN o.rename : o.rename[n] \in WellFormed
    <3>1. o.rename = [n \in Delivery!NamesIn(flags, renames) |->
                        flags[CHOOSE i \in renames : flags[i].name = n].to]
      BY DEF Delivery!OptionsOf
    <3>2. \A i \in renames : flags[i].to \in WellFormed
      BY <1>1, PortableIsWellFormed DEF Delivery!Given, ToSet
    <3>3. \A n \in Delivery!NamesIn(flags, renames) : \E i \in renames : flags[i].name = n
      BY DEF Delivery!NamesIn
    <3> QED
      BY <3>1, <3>2, <3>3
  <2>6. o.stdin # None => o.stdin \in WellFormed
    <3>1. o.stdin = IF stdins = {} THEN None ELSE flags[CHOOSE i \in stdins : TRUE].name
      BY DEF Delivery!OptionsOf
    <3>2. stdins # {} => (CHOOSE i \in stdins : TRUE) \in DOMAIN flags
      BY DEF Delivery!Given
    <3> QED
      BY <2>2, <3>1, <3>2
  <2>7. Delivery!Used(o) \subseteq WellFormed /\ Range(o.rename) \subseteq WellFormed
    BY <2>3, <2>5, <2>6 DEF Delivery!Used, Range
  <2> QED
    BY <2>1, <2>4, <2>7, Requests DEF Delivery!Combinable
<1>4. ASSUME NEW s \in ToSet(secrets), NEW t \in ToSet(secrets),
             Delivery!OptionsOf(flags, s).stdin # None, Delivery!OptionsOf(flags, t).stdin # None
      PROVE  s = t
  <2>1. \A u : Delivery!OptionsOf(flags, u).stdin # None =>
          \E i \in DOMAIN flags : flags[i].kind = "stdin" /\ flags[i].secret = u
    BY DEF Delivery!OptionsOf, Delivery!Given
  <2>2. \A i, j \in DOMAIN flags : flags[i].kind = "stdin" /\ flags[j].kind = "stdin" => i = j
    BY <1>1 DEF Delivery!NoRepetition
  <2> QED
    BY <1>4, <2>1, <2>2
<1> QED
  BY <1>1, <1>2, <1>3, <1>4 DEF Delivery!Requestable, Delivery!Range, Range

LEMMA RequestStep == [Next]_vars => UNCHANGED <<request, output, answer>> \/ Parse \/ Answer
<1> SUFFICES ASSUME [Next]_vars PROVE UNCHANGED <<request, output, answer>> \/ Parse \/ Answer
  OBVIOUS
<1>1. CASE SelectHome \/ Dispatch \/ SelectDirectory \/ Request \/ Connect \/ PrepareService
  BY <1>1 DEF SelectHome, Dispatch, SelectDirectory, Request, Connect, PrepareService, lineVars
<1>2. CASE MakeEnvironment \/ ReadSecret \/ StartRequest \/ Exchange
  BY <1>2 DEF MakeEnvironment, ReadSecret, StartRequest, Exchange, lineVars
<1>3. CASE SelectExecutable \/ VerifyExecutable \/ Execute \/ Disturb
  BY <1>3 DEF SelectExecutable, VerifyExecutable, Execute, Disturb, lineVars
<1> QED
  BY <1>1, <1>2, <1>3 DEF Next, vars, lineVars

\* A user never learns from the library that his options do not fit together:
\* into_operation refuses every request that validate_secret_options would.
THEOREM AcceptedRequests == Spec => []AcceptedIsRequestable
<1> DEFINE Inv == input \in Inputs /\ AcceptedIsRequestable
<1>1. Init => Inv
  BY DEF Init, AcceptedIsRequestable
<1>2. Inv /\ [Next]_vars => Inv'
  <2> SUFFICES ASSUME Inv, [Next]_vars PROVE Inv'
    OBVIOUS
  <2>1. CASE UNCHANGED request
    BY <2>1, InputStays DEF AcceptedIsRequestable
  <2>2. CASE Parse
    BY <2>2, ParsedIsRequestable, Requests DEF Parse, AcceptedIsRequestable
  <2>3. CASE Answer
    BY <2>1, <2>3 DEF Answer
  <2> QED
    BY <2>1, <2>2, <2>3, RequestStep
<1> QED
  BY <1>1, <1>2, PTL DEF Spec

-----------------------------------------------------------------------------
(* The answer and the environment                                          *)

AfterAnswer == {"service", "verify", "environment", "exec", "running"}
Added == Delivery!Additional(output, input.keep, input.inherited)

\* What is known of the request, the answer and the environment at each place.
DeliveryInv ==
  /\ input \in Inputs
  /\ pc = "source" => input.command = "upload"
  /\ pc = "relay" => input.command # "run"
  /\ pc = "connect" /\ input.command = "run" => Delivery!Requestable(request)
  /\ pc \in AfterAnswer =>
       /\ Delivery!Requestable(request) /\ answer \in input.answers
       /\ output = Delivery!Output(request, answer) /\ output # None
  /\ pc \in AfterAnswer \ {"service"} => Added # None
  /\ pc \in {"exec", "running"} =>
       /\ environment = Delivery!CommandEnvironment(output, input.keep, input.inherited)
       /\ piped = output.stdin

LEMMA DeliveryInductive == Spec => []DeliveryInv
<1> USE DEF DeliveryInv, AfterAnswer
<1>1. Init => DeliveryInv
  BY DEF Init
<1>2. DeliveryInv /\ [Next]_vars => DeliveryInv'
  <2> SUFFICES ASSUME DeliveryInv, [Next]_vars PROVE DeliveryInv'
    OBVIOUS
  <2>0. input' = input /\ (UNCHANGED output => Added' = Added)
    BY InputStays DEF Added
  <2> USE <2>0 DEF lineVars
  <2>1. CASE Parse
    BY <2>1 DEF Parse
  <2>2. CASE SelectHome
    BY <2>2 DEF SelectHome
  <2>3. CASE Dispatch
    BY <2>3 DEF Dispatch
  <2>4. CASE SelectDirectory
    BY <2>4 DEF SelectDirectory
  <2>5. CASE SelectExecutable
    BY <2>5 DEF SelectExecutable
  <2>6. CASE Request
    BY <2>6 DEF Request
  <2>7. CASE Connect
    BY <2>7 DEF Connect
  <2>8. CASE Answer
    BY <2>8 DEF Answer, Connected
  <2>9. CASE PrepareService
    BY <2>9 DEF PrepareService, Added
  <2>10. CASE VerifyExecutable
    BY <2>10 DEF VerifyExecutable
  <2>11. CASE MakeEnvironment
    BY <2>11 DEF MakeEnvironment
  <2>12. CASE Execute
    BY <2>12 DEF Execute
  <2>13. CASE Disturb
    BY <2>13 DEF Disturb
  <2>14. CASE ReadSecret
    BY <2>14 DEF ReadSecret
  <2>15. CASE StartRequest
    BY <2>15 DEF StartRequest
  <2>16. CASE Exchange
    BY <2>16 DEF Exchange
  <2>17. CASE UNCHANGED vars
    BY <2>17 DEF vars
  <2> QED
    BY <2>1, <2>2, <2>3, <2>4, <2>5, <2>6, <2>7, <2>8, <2>9, <2>10, <2>11, <2>12, <2>13, <2>14,
       <2>15, <2>16, <2>17 DEF Next
<1> QED
  BY <1>1, <1>2, PTL DEF Spec

\* What the library hands over fits the request, and is all of the answer.
LEMMA OutputIsTheAnswer ==
  ASSUME NEW req, NEW ans, NEW out, out = Delivery!Output(req, ans), out # None,
         Delivery!Requestable(req),
         \A s \in DOMAIN ans : ans[s].type # "ssh" => None \notin DOMAIN ans[s].vars
  PROVE  /\ DOMAIN ans = DOMAIN req
         /\ \A s \in DOMAIN ans : ans[s].type # "ssh" =>
              /\ Delivery!Honours(ans[s].vars, req[s])
              /\ \A n \in DOMAIN ans[s].vars :
                   IF n = req[s].stdin THEN out.stdin = ans[s].vars[n]
                   ELSE LET m == Delivery!FinalName(req[s], n)
                        IN m \in DOMAIN out.env /\ out.env[m] = ans[s].vars[n]
         /\ \A n \in DOMAIN out.env : \E s \in DOMAIN ans :
              /\ ans[s].type # "ssh"
              /\ \E m \in DOMAIN ans[s].vars :
                   /\ m # req[s].stdin /\ Delivery!FinalName(req[s], m) = n
                   /\ ans[s].vars[m] = out.env[n]
<1> DEFINE pairs == UNION {Delivery!Delivered(req, ans, s) : s \in DOMAIN ans}
           ssh == {s \in DOMAIN ans : ans[s].type = "ssh"}
           inputs == {s \in DOMAIN ans \ ssh : req[s].stdin # None}
           first == {p[1] : p \in pairs}
           env == [n \in first |-> (CHOOSE p \in pairs : p[1] = n)[2]]
           piece == IF inputs = {} THEN None
                    ELSE LET s == CHOOSE s \in inputs : TRUE IN ans[s].vars[req[s].stdin]
<1>1. /\ DOMAIN ans = DOMAIN req
      /\ \A s \in DOMAIN ans : s \notin ssh => Delivery!Honours(ans[s].vars, req[s])
      /\ \A p, q \in pairs : p[1] = q[1] => p[2] = q[2]
      /\ out = [env |-> env, ssh |-> ssh # {}, stdin |-> piece]
  BY DEF Delivery!Output
<1>2. \A s \in DOMAIN ans : Delivery!Delivered(req, ans, s) =
        IF s \in ssh THEN {}
        ELSE {<<Delivery!FinalName(req[s], n), ans[s].vars[n]>> :
                n \in DOMAIN ans[s].vars \ {req[s].stdin}}
  BY DEF Delivery!Delivered
<1>3. \A s \in DOMAIN ans : s \notin ssh =>
        \A n \in DOMAIN ans[s].vars \ {req[s].stdin} :
          <<Delivery!FinalName(req[s], n), ans[s].vars[n]>> \in pairs
  BY <1>2
<1>4. \A p \in pairs : \E s \in DOMAIN ans : s \notin ssh /\
        \E n \in DOMAIN ans[s].vars \ {req[s].stdin} :
          p = <<Delivery!FinalName(req[s], n), ans[s].vars[n]>>
  BY <1>2
<1> HIDE DEF pairs
<1>5. \A p \in pairs : p[1] \in DOMAIN env /\ env[p[1]] = p[2]
  <2> TAKE p \in pairs
  <2>1. p[1] \in first
    OBVIOUS
  <2>2. (CHOOSE q \in pairs : q[1] = p[1]) \in pairs
          /\ (CHOOSE q \in pairs : q[1] = p[1])[1] = p[1]
    OBVIOUS
  <2> QED
    BY <1>1, <2>1, <2>2
<1>6. \A n \in DOMAIN env : \E p \in pairs : p[1] = n /\ p[2] = env[n]
  BY <1>5
<1>7. ASSUME NEW s \in DOMAIN ans, s \notin ssh, NEW n \in DOMAIN ans[s].vars, n = req[s].stdin
      PROVE  piece = ans[s].vars[n]
  <2>1. n # None /\ s \in inputs
    BY <1>7
  <2>2. \A t \in inputs : t = s
    BY <1>1, <1>7, <2>1 DEF Delivery!Requestable
  <2>3. (CHOOSE t \in inputs : TRUE) = s
    BY <2>1, <2>2
  <2> QED
    BY <1>7, <2>1, <2>3
<1> HIDE DEF env, piece
<1>8. out.env = env /\ out.stdin = piece
  BY <1>1
<1>9. ASSUME NEW s \in DOMAIN ans, ans[s].type # "ssh"
      PROVE  /\ Delivery!Honours(ans[s].vars, req[s])
             /\ \A n \in DOMAIN ans[s].vars :
                  IF n = req[s].stdin THEN out.stdin = ans[s].vars[n]
                  ELSE LET m == Delivery!FinalName(req[s], n)
                       IN m \in DOMAIN out.env /\ out.env[m] = ans[s].vars[n]
  <2>1. s \notin ssh
    BY <1>9
  <2>2. \A n \in DOMAIN ans[s].vars \ {req[s].stdin} :
          LET m == Delivery!FinalName(req[s], n) IN m \in DOMAIN env /\ env[m] = ans[s].vars[n]
    BY <1>3, <1>5, <2>1
  <2> QED
    BY <1>1, <1>7, <1>8, <2>1, <2>2
<1>10. ASSUME NEW n \in DOMAIN env
       PROVE  \E s \in DOMAIN ans :
                /\ ans[s].type # "ssh"
                /\ \E m \in DOMAIN ans[s].vars :
                     /\ m # req[s].stdin /\ Delivery!FinalName(req[s], m) = n
                     /\ ans[s].vars[m] = env[n]
  <2>1. PICK p \in pairs : p[1] = n /\ p[2] = env[n]
    BY <1>6
  <2> QED
    BY <1>4, <2>1
<1> QED
  BY <1>1, <1>8, <1>9, <1>10

LEMMA DeliveredAll == DeliveryInv => DeliveredAsApproved
<1> SUFFICES ASSUME DeliveryInv, pc = "running" PROVE DeliveredAsApproved
  BY DEF DeliveredAsApproved
<1> DEFINE all == Delivery!Over(Added, Delivery!Over(output.env, input.inherited))
           removed == IF input.keep.agent THEN {} ELSE {Delivery!AgentSocket}
<1>1. /\ Delivery!Requestable(request) /\ answer \in input.answers /\ input \in Inputs
      /\ output = Delivery!Output(request, answer) /\ output # None
      /\ environment = Delivery!CommandEnvironment(output, input.keep, input.inherited)
      /\ piped = output.stdin
  BY DEF DeliveryInv, AfterAnswer
<1>2. /\ DOMAIN answer = DOMAIN request
      /\ \A s \in DOMAIN answer : ~Ssh(s) =>
           /\ Delivery!Honours(answer[s].vars, request[s])
           /\ \A n \in DOMAIN answer[s].vars :
                IF n = request[s].stdin THEN output.stdin = answer[s].vars[n]
                ELSE Final(s, n) \in DOMAIN output.env
                       /\ output.env[Final(s, n)] = answer[s].vars[n]
      /\ \A n \in DOMAIN output.env : \E s \in DOMAIN answer :
           /\ ~Ssh(s)
           /\ \E m \in DOMAIN answer[s].vars :
                /\ m # request[s].stdin /\ Final(s, m) = n
                /\ answer[s].vars[m] = output.env[n]
  <2>1. \A s \in DOMAIN answer : answer[s].type # "ssh" => None \notin DOMAIN answer[s].vars
    BY <1>1, Requests
  <2> QED
    BY <1>1, <2>1, OutputIsTheAnswer DEF Ssh, Final
<1>3. /\ DOMAIN environment = (ServiceNames \cup DOMAIN output.env \cup DOMAIN input.inherited)
                                \ removed
      /\ \A n \in DOMAIN environment \ ServiceNames :
           environment[n] = IF n \in DOMAIN output.env THEN output.env[n] ELSE input.inherited[n]
  <2>1. /\ DOMAIN all = ServiceNames \cup DOMAIN output.env \cup DOMAIN input.inherited
        /\ \A n \in DOMAIN all \ ServiceNames :
             all[n] = IF n \in DOMAIN output.env THEN output.env[n] ELSE input.inherited[n]
    BY DEF ServiceNames, Added, Delivery!Over
  <2>2. environment = [n \in DOMAIN all \ removed |-> all[n]]
    BY <1>1 DEF Delivery!CommandEnvironment, Added
  <2> HIDE DEF all
  <2> QED
    BY <2>1, <2>2
<1>4. Overridden = ServiceNames \cup removed
  BY DEF Overridden
<1>5. ~input.keep.agent => Delivery!AgentSocket \notin DOMAIN environment
  BY <1>3
<1> HIDE DEF removed
<1>6. ASSUME NEW s \in DOMAIN answer, ~Ssh(s)
      PROVE  /\ DOMAIN answer[s].vars \cap request[s].omit = {}
             /\ request[s].only # None => DOMAIN answer[s].vars = request[s].only
             /\ \A n \in DOMAIN answer[s].vars :
                  IF n = request[s].stdin THEN piped = answer[s].vars[n]
                  ELSE \/ Final(s, n) \in Overridden
                       \/ environment[Final(s, n)] = answer[s].vars[n]
  BY <1>1, <1>2, <1>3, <1>4, <1>6 DEF Delivery!Honours
<1>7. ASSUME NEW n \in DOMAIN environment \ ServiceNames
      PROVE  \/ \E s \in DOMAIN answer : ~Ssh(s) /\ \E m \in DOMAIN answer[s].vars :
                  m # request[s].stdin /\ Final(s, m) = n /\ answer[s].vars[m] = environment[n]
             \/ n \in DOMAIN input.inherited /\ environment[n] = input.inherited[n]
  BY <1>2, <1>3
<1> QED
  BY <1>2, <1>5, <1>6, <1>7 DEF DeliveredAsApproved

\* A command runs only with what was asked for and approved: what validate
\* and secret_use_output_from_secrets let through, under its final name.
THEOREM DeliveredOnlyAsApproved == Spec => []DeliveredAsApproved
  BY DeliveryInductive, DeliveredAll, PTL

\* The settings of the command before the service adds its own.
Existing == Delivery!Over(output.env, input.inherited)
Count == Delivery!Settings(output, input.inherited)

LEMMA CommandCount ==
  ASSUME DeliveryInv, pc \in AfterAnswer, Count # None
  PROVE  /\ Count \in Delivery!Numbers
         /\ IF Delivery!GitCount \in DOMAIN Existing
            THEN Existing[Delivery!GitCount] = ToString(Count) ELSE Count = 0
<1> DEFINE git == Delivery!GitCount
           value == Delivery!CommandVariable(output, input.inherited, git)
<1>1. /\ answer \in input.answers /\ input \in Inputs /\ output # None
      /\ output = Delivery!Output(request, answer) /\ Delivery!Requestable(request)
  BY DEF DeliveryInv
<1>2. \A n \in DOMAIN output.env : output.env[n] # None
  <2>1. \A s \in DOMAIN answer : answer[s].type # "ssh" =>
          None \notin DOMAIN answer[s].vars /\ None \notin Range(answer[s].vars)
    BY <1>1, Requests
  <2>2. \A n \in DOMAIN output.env : \E s \in DOMAIN answer :
          /\ answer[s].type # "ssh"
          /\ \E m \in DOMAIN answer[s].vars : answer[s].vars[m] = output.env[n]
    BY <1>1, <2>1, OutputIsTheAnswer
  <2> QED
    BY <2>1, <2>2 DEF Range
<1>3. \A n \in DOMAIN input.inherited : input.inherited[n] # None
  BY <1>1, Requests DEF Range
<1>4. /\ DOMAIN Existing = DOMAIN output.env \cup DOMAIN input.inherited
      /\ value = IF git \in DOMAIN Existing THEN Existing[git] ELSE None
      /\ git \in DOMAIN Existing => value # None
  BY <1>2, <1>3 DEF Existing, Delivery!Over, Delivery!CommandVariable
<1>5. Count = IF value = None THEN 0
              ELSE IF \E i \in Delivery!Numbers : ToString(i) = value
                   THEN CHOOSE i \in Delivery!Numbers : ToString(i) = value
                   ELSE None
  BY DEF Count, Delivery!Settings
<1>6. 0 \in Delivery!Numbers
  BY Names DEF Delivery!Numbers
<1> HIDE DEF value, git
<1> QED
  BY <1>4, <1>5, <1>6 DEF git

LEMMA SettingsAreKept == DeliveryInv => GitSettingsAreKept
<1> SUFFICES ASSUME DeliveryInv, pc = "running", output.ssh, input.keep.git
             PROVE  GitSettingsAreKept
  BY DEF GitSettingsAreKept
<1> DEFINE Setting(i) == Delivery!GitSetting(i)
           agent == IF input.keep.agent THEN {Delivery!AgentSocket} ELSE {}
           names == agent \cup {Delivery!GitCount, Setting(Count), Setting(Count + 1)}
<1>1. /\ Added # None
      /\ environment = Delivery!CommandEnvironment(output, input.keep, input.inherited)
  BY DEF DeliveryInv, AfterAnswer
<1>0. Count # None /\ ~(Count + 2 > MaxSize)
  BY <1>1 DEF Added, Delivery!Additional, Delivery!ServesSsh, Count
<1>2. Added = [n \in names |->
                 CASE n = Delivery!AgentSocket -> "agent.sock"
                   [] n = Delivery!GitCount -> ToString(Count + 2)
                   [] n = Setting(Count) -> "program"
                   [] OTHER -> "key command"]
  BY <1>1 DEF Added, Delivery!Additional, Delivery!ServesSsh, Count
<1>3. /\ Count \in Delivery!Numbers
      /\ IF Delivery!GitCount \in DOMAIN Existing
         THEN Existing[Delivery!GitCount] = ToString(Count) ELSE Count = 0
  BY <1>0, CommandCount DEF AfterAnswer
<1>4. /\ Count \in 0..(MaxSize - 2) /\ Count \in Nat
      /\ Count + 1 \in Delivery!Numbers /\ Count + 1 # Count
  <2>1. MaxSize \in Nat /\ Count \in 0..MaxSize
    BY <1>3, Names DEF Delivery!Numbers
  <2>2. Count \in Nat /\ Count + 2 <= MaxSize
    BY <1>0, <2>1
  <2> QED
    BY <2>1, <2>2 DEF Delivery!Numbers
<1>5. /\ Setting(Count) # Setting(Count + 1)
      /\ Delivery!GitCount # Delivery!AgentSocket
      /\ \A i \in Delivery!Numbers :
           Setting(i) # Delivery!GitCount /\ Setting(i) # Delivery!AgentSocket
  BY <1>3, <1>4, Names DEF Delivery!GitCount, Delivery!AgentSocket
<1>6. /\ \A n \in names \ {Delivery!AgentSocket} :
           n \in DOMAIN environment /\ environment[n] = Added[n]
      /\ \A n \in DOMAIN Existing \ (names \cup {Delivery!AgentSocket}) :
           n \in DOMAIN environment /\ environment[n] = Existing[n]
  BY <1>1, <1>2 DEF Delivery!CommandEnvironment, Delivery!Over, Added, Existing
<1>7. /\ environment[Delivery!GitCount] = ToString(Count + 2)
      /\ environment[Setting(Count)] = "program"
      /\ environment[Setting(Count + 1)] = "key command"
  BY <1>2, <1>3, <1>4, <1>5, <1>6
<1>8. ASSUME NEW i \in 0..(Count - 1), Setting(i) \in DOMAIN Existing
      PROVE  environment[Setting(i)] = Existing[Setting(i)]
  <2>1. i \in Delivery!Numbers /\ i # Count /\ i # Count + 1
    BY <1>3, <1>4, Names DEF Delivery!Numbers
  <2>2. Setting(i) \notin names \cup {Delivery!AgentSocket}
    BY <1>3, <1>4, <1>5, <2>1, Names
  <2> QED
    BY <1>6, <1>8, <2>2
<1> QED
  BY <1>3, <1>4, <1>7, <1>8 DEF GitSettingsAreKept, Existing

\* The service adds its Git settings behind those that the command has and
\* changes none of them (InvocationService::environment).
THEOREM GitSettingsKept == Spec => []GitSettingsAreKept
  BY DeliveryInductive, SettingsAreKept, PTL

-----------------------------------------------------------------------------
(* The sources of an upload                                                *)

Sources == DOMAIN input.sources
NamesOf(i) == ToSet(input.sources[i].gives)

\* Each source that was read left its own number with all of its names, and a
\* standard input that is used up was read by one of them.
UploadInv ==
  /\ input \in Inputs /\ unread \subseteq Sources
  /\ upload # "failed" =>
       /\ \A i \in Sources \ unread : \A n \in NamesOf(i) :
            n \in DOMAIN variables /\ variables[n] = i
       /\ ~stdin => \E i \in Sources \ unread : input.sources[i].path = "-"
  /\ \A i \in Sources : input.sources[i].kind # "prompt" => NamesOf(i) \cap asked = {}
  /\ upload = "read" =>
       IF input.key = None THEN unread = {}
       ELSE input.key.encrypted => input.passphrase # "none" /\ input.key.right

LEMMA UploadStep ==
  [Next]_vars => \/ UNCHANGED inputVars
                 \/ /\ input.key = None
                    /\ ReadSource(input.sources) \/ ReadEnds(input.sources)
                 \/ input.key # None /\ ReadKey(input.key, input.passphrase)
<1> SUFFICES ASSUME [Next]_vars, ~UNCHANGED inputVars
             PROVE  \/ /\ input.key = None
                       /\ ReadSource(input.sources) \/ ReadEnds(input.sources)
                    \/ input.key # None /\ ReadKey(input.key, input.passphrase)
  OBVIOUS
<1>1. ~(Parse \/ SelectHome \/ Dispatch \/ SelectDirectory \/ Request \/ Connect)
  BY DEF Parse, SelectHome, Dispatch, SelectDirectory, Request, Connect
<1>2. ~(Answer \/ PrepareService \/ MakeEnvironment \/ StartRequest \/ Exchange)
  BY DEF Answer, PrepareService, MakeEnvironment, StartRequest, Exchange
<1>3. ~(SelectExecutable \/ VerifyExecutable \/ Execute \/ Disturb)
  BY DEF SelectExecutable, VerifyExecutable, Execute, Disturb
<1> QED
  BY <1>1, <1>2, <1>3 DEF Next, vars, ReadSecret

LEMMA ReadInv ==
  ASSUME UploadInv, ReadSource(input.sources), UNCHANGED input, input.key = None
  PROVE  UploadInv'
<1> DEFINE sources == input.sources
<1>1. PICK i \in unread :
        LET s == sources[i]
            shown == s.kind = "prompt" /\ Inserts(s.gives)
        IN /\ \A j \in unread \ {i} : Before(sources, i, j)
           /\ stdin' = (stdin /\ s.path # "-")
           /\ asked' = IF shown THEN asked \cup ToSet(s.gives) ELSE asked
           /\ IF s.bad \/ ~Inserts(s.gives) THEN Refuse
              ELSE Insert(i, s.gives, IF s.path = "-" /\ ~stdin THEN 0 ELSE i)
  BY DEF ReadSource
<1> DEFINE s == sources[i]
<1>2. upload = "reading" /\ ~Shared(sources) /\ i \in Sources /\ Sources' = Sources
  BY DEF ReadSource, UploadInv, Sources
<1>3. \A j : NamesOf(j)' = NamesOf(j)
  BY DEF NamesOf
<1>4. \A j \in Sources : sources[j].kind \in {"environment", "file", "dotenv", "prompt"}
  <2>1. \A j \in Sources : sources[j] \in ToSet(sources)
    BY DEF Sources, ToSet
  <2>2. DOMAIN Rank = {"environment", "file", "dotenv", "prompt"}
    BY DEF Rank
  <2> QED
    BY <2>1, <2>2, SecretSources DEF UploadInv
<1>5. ASSUME s.kind = "prompt", NEW j \in unread
      PROVE  sources[j].kind = "prompt"
  <2>1. CASE j = i
    BY <1>5, <2>1
  <2>2. CASE j # i
    <3>1. Before(sources, i, j) /\ j \in Sources
      BY <1>1, <2>2 DEF UploadInv
    <3> QED
      BY <1>4, <1>5, <3>1 DEF Before, Rank
  <2> QED
    BY <2>1, <2>2
<1>6. ASSUME NEW j \in Sources, sources[j].kind # "prompt"
      PROVE  NamesOf(j) \cap asked' = {}
  <2>1. CASE s.kind = "prompt" /\ Inserts(s.gives)
    <3>1. j \notin unread
      BY <1>5, <1>6, <2>1
    <3>2. NamesOf(j) \subseteq DOMAIN variables
      BY <1>2, <3>1 DEF UploadInv
    <3>3. ToSet(s.gives) \cap DOMAIN variables = {}
      BY <2>1 DEF Inserts
    <3> QED
      BY <1>1, <1>6, <2>1, <3>2, <3>3 DEF UploadInv
  <2>2. CASE ~(s.kind = "prompt" /\ Inserts(s.gives))
    BY <1>1, <1>6, <2>2 DEF UploadInv
  <2> QED
    BY <2>1, <2>2
<1>7. CASE s.bad \/ ~Inserts(s.gives)
  BY <1>1, <1>2, <1>3, <1>6, <1>7 DEF Refuse, UploadInv
<1>8. CASE ~(s.bad \/ ~Inserts(s.gives))
  <2>1. ~(s.path = "-" /\ ~stdin)
    BY <1>2 DEF UploadInv, Shared, Sources
  <2>2. /\ unread' = unread \ {i} /\ upload' = upload
        /\ variables' = [n \in DOMAIN variables \cup NamesOf(i) |->
                          IF n \in NamesOf(i) THEN i ELSE variables[n]]
        /\ NamesOf(i) \cap DOMAIN variables = {}
    BY <1>1, <1>8, <2>1 DEF Insert, Inserts, NamesOf
  <2>3. \A j \in Sources \ unread' : \A n \in NamesOf(j) :
          n \in DOMAIN variables' /\ variables'[n] = j
    BY <1>2, <2>2 DEF UploadInv
  <2>4. ~stdin' => \E j \in Sources \ unread' : sources[j].path = "-"
    BY <1>1, <1>2, <2>2 DEF UploadInv
  <2> QED
    BY <1>2, <1>3, <1>6, <2>2, <2>3, <2>4 DEF UploadInv
<1> QED
  BY <1>7, <1>8

LEMMA UploadInductive == Spec => []UploadInv
<1>1. Init => UploadInv
  BY DEF Init, InputInit, UploadInv, Sources
<1>2. UploadInv /\ [Next]_vars => UploadInv'
  <2> SUFFICES ASSUME UploadInv, [Next]_vars PROVE UploadInv'
    OBVIOUS
  <2>1. UNCHANGED input
    BY InputStays
  <2>2. CASE UNCHANGED inputVars
    BY <2>1, <2>2 DEF inputVars, UploadInv, Sources, NamesOf
  <2>3. CASE input.key = None /\ ReadSource(input.sources)
    BY <2>1, <2>3, ReadInv
  <2>4. CASE input.key = None /\ ReadEnds(input.sources)
    BY <2>1, <2>4 DEF ReadEnds, Refuse, UploadInv, Sources, NamesOf
  <2>5. CASE input.key # None /\ ReadKey(input.key, input.passphrase)
    BY <2>1, <2>5 DEF ReadKey, TakesKey, UploadInv, Sources, NamesOf
  <2> QED
    BY <2>2, <2>3, <2>4, <2>5, UploadStep
<1> QED
  BY <1>1, <1>2, PTL DEF Spec

\* An upload has each variable from the only source that has it, and nobody is
\* asked for a value that another source gave (read_secret).
THEOREM UploadsAreUnambiguous == Spec => []UploadIsUnambiguous
<1>1. UploadInv => UploadIsUnambiguous
  BY DEF UploadInv, UploadIsUnambiguous, Sources, NamesOf
<1> QED
  BY <1>1, UploadInductive, PTL
=============================================================================
